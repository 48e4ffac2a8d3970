--------------------------- MODULE IsoTpLinkProofs ---------------------------
(***************************************************************************)
(* Proofs about two ISO-TP endpoints on one bus, for every frame size,     *)
(* sequence modulus, configuration, set of message lengths, delay and      *)
(* number of frames lost in a row the assumptions of IsoTpLink admit.      *)
(***************************************************************************)
EXTENDS IsoTpLink, SequenceTheorems, TLAPS

FfData == CfData - 1

\* Consecutive frame k of a message begins behind the first Boundary(k) bytes.
Boundary(k) == FfData + k * CfData
Index(o)    == (o - FfData) \div CfData
OnBoundary(o) == o \in Nat /\ Index(o) \in Nat /\ o = Boundary(Index(o))

\* Bytes b + 1 .. e of message n.
Bytes(n, b, e) == [i \in 1 .. e - b |-> <<n, b + i>>]

\* The message a frame belongs to, and how many of its bytes lie before the frame's data
\* and up to their end.
Msg(f)   == f.data[1][1]
Begin(f) == f.data[1][2] - 1
End(f)   == Begin(f) + Len(f.data)

(***************************************************************************)
(* The inductive invariant.                                                *)
(***************************************************************************)

WireFrame ==
  [type : {"SF"}, len : Nat, data : Seq(Byte)]
    \cup [type : {"FF"}, full : BOOLEAN, len : Nat, data : Seq(Byte)]
    \cup [type : {"CF"}, sn : Nat, data : Seq(Byte)]
    \cup [type : {"FC"}, short : BOOLEAN, flowStatus : Nat, blockSize : 0 .. 255, stMin : 0 .. 255]

\* The messages ms, of which the first `done` need no frame any more.
AreMessages(ms, done) ==
  /\ ms \in Seq(Seq(Byte)) /\ Len(ms) <= MaxMessages
  /\ done \in 0 .. Len(ms)
  /\ \A n \in 1 .. Len(ms) :
       Len(ms[n]) \in 1 .. KMaxPayload /\ ms[n] = Bytes(n, 0, Len(ms[n]))

\* f is one of the frames the messages are cut into.
IsPiece(f, ms, done) ==
  /\ Msg(f) \in done + 1 .. Len(ms)
  /\ Begin(f) \in Nat /\ End(f) \in Nat /\ Begin(f) < End(f)
  /\ End(f) <= Len(ms[Msg(f)])
  /\ f.data = Bytes(Msg(f), Begin(f), End(f))
  /\ \/ /\ f.type = "SF" /\ f.len = Len(ms[Msg(f)])
        /\ Begin(f) = 0 /\ End(f) = Len(ms[Msg(f)]) /\ End(f) <= CfData
     \/ /\ f.type = "FF" /\ f.full /\ f.len = Len(ms[Msg(f)])
        /\ Begin(f) = 0 /\ End(f) = FfData /\ Len(ms[Msg(f)]) > CfData
     \/ /\ f.type = "CF" /\ f.sn = (Index(Begin(f)) + 1) % SeqModulus
        /\ OnBoundary(Begin(f)) /\ Len(ms[Msg(f)]) > CfData
        /\ End(f) = Len(ms[Msg(f)]) \/ End(f) = Begin(f) + CfData
        /\ End(f) <= Begin(f) + CfData

\* g was cut later than f.
Follows(f, g) ==
  Msg(f) < Msg(g) \/ (Msg(f) = Msg(g) /\ End(f) <= Begin(g))

\* g is the next frame cut: of the same message where the last one ended, or of another.
Adjoins(f, g) ==
  /\ g.type = "CF" <=> Msg(f) = Msg(g)
  /\ g.type = "CF" => Begin(g) = End(f)

\* The frames of wire w are in the order they were cut, with gaps only where one was lost
\* before the first.
AreInOrder(w, ms, done) ==
  /\ \A i \in 1 .. Len(w) : IsPiece(w[i].frame, ms, done)
  /\ \A i, j \in 1 .. Len(w) : i < j => Follows(w[i].frame, w[j].frame)
  /\ \A i, j \in 1 .. Len(w) : j = i + 1 => Adjoins(w[i].frame, w[j].frame)

\* A block of bs frames ends where the next frame's index is a multiple of bs.
EndsBlock(o, bs) == bs # 0 /\ Index(o) % bs = 0

\* The frame makes the receiver answer with flow control.
Asks(f, ms, bs) ==
  \/ f.type = "FF"
  \/ f.type = "CF" /\ End(f) < Len(ms[Msg(f)]) /\ EndsBlock(End(f), bs)

BS == rConfig.rxBlockSize
Current   == Len(messages)
Assembled == Msg([data |-> rRx.buffer])

\* The transmission under way is of the last message, stands at a frame boundary, and carries
\* the number of that frame; between two flow controls the sender counts the blocks down.
SenderFits ==
  /\ sConfig = SenderConfig /\ sRx = Sender!InitRx
  /\ sTx \in Sender!TxType
  /\ sTx.state # "Idle" =>
       /\ Sender!IsConfigValid(SenderConfig)
       /\ completed < Current
       /\ sTx.payload = messages[Current]
       /\ Len(sTx.payload) > CfData
       /\ OnBoundary(sTx.offset) /\ sTx.offset < Len(sTx.payload)
       /\ sTx.seq = (Index(sTx.offset) + 1) % SeqModulus
  /\ sTx.state = "WaitFlowControl" /\ BS # 0 => Index(sTx.offset) % BS = 0
  /\ sTx.state = "Sending" =>
       /\ sTx.blockSize = BS
       /\ BS # 0 => /\ sTx.blockRemaining \in 1 .. BS
                    /\ Index(sTx.offset) % BS = BS - sTx.blockRemaining

\* The assembly is a beginning of one of the messages that ends at a frame boundary, expects
\* the frame behind it, and counts the frames of its block.
ReceiverFits ==
  /\ rConfig \in ReceiverConfig /\ rTx = Receiver!IdleTx
  /\ rRx \in Receiver!RxType
  /\ rRx.state = "Receiving" =>
       /\ Receiver!IsConfigValid(rConfig)
       /\ ~rRx.ready
       /\ Assembled \in completed + 1 .. Current
       /\ rRx.expected = Len(messages[Assembled]) /\ rRx.expected > CfData
       /\ OnBoundary(rRx.offset) /\ rRx.offset < rRx.expected
       /\ rRx.buffer = Bytes(Assembled, 0, rRx.offset)
       /\ rRx.seq = (Index(rRx.offset) + 1) % SeqModulus
       /\ BS # 0 => rRx.blockCount = Index(rRx.offset) % BS

\* Not more frames are missing in front of offset o than were lost since the receiver heard one.
Gap(o) == /\ OnBoundary(o)
          /\ Index(o) - Index(rRx.offset) \in 0 .. lost

\* The frames on the wire are of the assembly's message exactly if they are consecutive ones,
\* and the next of them is not farther from the assembly than frames were lost.
AssemblyFits ==
  rRx.state = "Receiving" =>
    /\ \A i \in 1 .. Len(toReceiver) :
         /\ Msg(toReceiver[i].frame) >= Assembled
         /\ toReceiver[i].frame.type = "CF" <=> Msg(toReceiver[i].frame) = Assembled
    /\ sTx.state = "Sending" => Current = Assembled
    /\ toReceiver # <<>> /\ Msg(toReceiver[1].frame) = Assembled => Gap(Begin(toReceiver[1].frame))
    /\ toReceiver = <<>> /\ sTx.state # "Idle" /\ Current = Assembled => Gap(sTx.offset)

\* The last frame on the wire is the one the sender sent last; only the last one asks for flow
\* control, and then the sender waits for it.
WireMeetsSender ==
  /\ toReceiver # <<>> /\ sTx.state # "Idle" =>
       /\ Msg(toReceiver[Len(toReceiver)].frame) = Current
       /\ End(toReceiver[Len(toReceiver)].frame) = sTx.offset
  /\ sTx.state = "Sending" => \A i \in 1 .. Len(toReceiver) : toReceiver[i].frame.type = "CF"
  /\ \A i \in 1 .. Len(toReceiver) :
       Asks(toReceiver[i].frame, messages, BS) => i = Len(toReceiver) /\ sTx.state = "WaitFlowControl"

Flight == [frame : WireFrame, due : Nat]

\* Frames are due within MaxDelay, and those on the wire before the sender's deadline by the
\* time a flow control takes.
TimesFit ==
  /\ toReceiver \in Seq(Flight) /\ toSender \in Seq(Flight)
  /\ now \in Nat /\ lost \in 0 .. MaxLost
  /\ \A i \in 1 .. Len(toReceiver) : toReceiver[i].due \in now .. now + MaxDelay
  /\ \A i \in 1 .. Len(toSender) : now <= toSender[i].due
  /\ sTx.state = "WaitFlowControl" =>
       \A i \in 1 .. Len(toReceiver) :
         toReceiver[i].due + SenderConfig.flowControlTimeout <= sTx.deadline + MaxDelay

\* What the receiver answers a frame with.
IsAnswer(f) == f \in {Receiver!FlowControl(rConfig, fs) : fs \in {0, 2}}

\* There is at most one flow control on the wire. It answers the last frame sent, arrives in
\* time at both ends, and if it asks for more, the assembly stands where the sender does.
FlowControlFits ==
  toSender # <<>> =>
    /\ Len(toSender) = 1
    /\ toReceiver = <<>>
    /\ sTx.state = "WaitFlowControl"
    /\ toSender[1].due < sTx.deadline
    /\ IsAnswer(toSender[1].frame)
    /\ toSender[1].frame.flowStatus = 0 =>
         /\ rRx.state = "Receiving" /\ Assembled = Current /\ rRx.offset = sTx.offset
         /\ toSender[1].due < rRx.deadline

IInv ==
  /\ AreMessages(messages, completed)
  /\ AreInOrder(toReceiver, messages, completed)
  /\ SenderFits /\ ReceiverFits /\ AssemblyFits /\ WireMeetsSender /\ TimesFit /\ FlowControlFits

(***************************************************************************)
(* Lemmas about frame boundaries, block ends and numbers.                  *)
(***************************************************************************)

\* The constants of the link are those of its endpoints.
LEMMA Sizes ==
  /\ CfData \in 2 .. 15 /\ FfData \in Nat /\ 0 < FfData /\ FfData < CfData
  /\ SeqModulus \in Nat /\ SeqModulus > 1
  /\ KMaxPayload \in Nat /\ MaxMessages \in Nat /\ MaxDelay \in Nat /\ MaxLost \in Nat
  /\ MaxLost < SeqModulus /\ MaxTime \in Nat
  /\ Sender!FfData = FfData /\ Receiver!FfData = FfData
  /\ Sender!SfMax = CfData /\ Receiver!SfMax = CfData
BY SenderAssumptions, LinkAssumption, LossIsNoticeable
   DEF FfData, Sender!SizeAssumption, Sender!FfData, Receiver!FfData, Sender!SfMax, Receiver!SfMax

\* The sequence numbers of both endpoints are those below SeqModulus, and wrap within them.
LEMMA NumbersWrap ==
  /\ 0 \in Nat /\ 0 \in 0..255
  /\ 1 \in Sender!SequenceNumber /\ 1 \in Receiver!SequenceNumber
  /\ \A n \in Sender!SequenceNumber : n \in Nat /\ (n + 1) % SeqModulus \in Sender!SequenceNumber
  /\ \A n \in Receiver!SequenceNumber :
       n \in Nat /\ (n + 1) % SeqModulus \in Receiver!SequenceNumber
  /\ \A n \in 0..255 : n \in Nat /\ (n + 1) % 256 \in 0..255
<1>1. Sender!SequenceNumber = 0..(SeqModulus - 1) /\ Receiver!SequenceNumber = 0..(SeqModulus - 1)
  BY DEF Sender!SequenceNumber, Receiver!SequenceNumber
<1>2. \A n \in Nat : (n + 1) % SeqModulus \in 0..(SeqModulus - 1)
  BY Sizes, Z3T(30)
<1>3. \A n \in 0..255 : n \in Nat /\ (n + 1) % 256 \in 0..255
  BY Z3T(30)
<1>4. \A n \in 0..(SeqModulus - 1) : n \in Nat
  BY Sizes
<1> QED
  BY <1>1, <1>2, <1>3, <1>4, Sizes

\* The index of a frame is what its boundary was computed from.
LEMMA IndexOfBoundary ==
  ASSUME NEW k \in Nat
  PROVE  /\ Boundary(k) \in Nat /\ Index(Boundary(k)) = k /\ OnBoundary(Boundary(k))
         /\ Boundary(k) + CfData = Boundary(k + 1)
<1>1. CfData \in Nat \ {0} /\ FfData \in Nat
  BY Sizes
<1>2. k * CfData \in Nat /\ (k * CfData) \div CfData = k
  BY <1>1, Z3T(30)
<1>3. Boundary(k) - FfData = k * CfData /\ Boundary(k) \in Nat
  BY <1>1, <1>2 DEF Boundary
<1>4. Index(Boundary(k)) = k
  BY <1>2, <1>3 DEF Index
<1>5. (k + 1) * CfData = k * CfData + CfData
  BY <1>1, Z3T(30)
<1> QED
  BY <1>1, <1>2, <1>3, <1>4, <1>5 DEF OnBoundary, Boundary

\* One frame further the index is one larger.
LEMMA NextBoundary ==
  ASSUME NEW o, OnBoundary(o)
  PROVE  /\ o \in Nat /\ Index(o) \in Nat
         /\ OnBoundary(o + CfData) /\ Index(o + CfData) = Index(o) + 1
<1>1. o \in Nat /\ Index(o) \in Nat /\ o = Boundary(Index(o))
  BY DEF OnBoundary
<1>2. o + CfData = Boundary(Index(o) + 1)
  BY <1>1, IndexOfBoundary
<1> QED
  BY <1>1, <1>2, IndexOfBoundary

\* The first consecutive frame begins where the first frame ended.
LEMMA FirstBoundary == OnBoundary(FfData) /\ Index(FfData) = 0
<1>1. Boundary(0) = FfData
  BY Sizes DEF Boundary
<1>2. 0 \in Nat
  OBVIOUS
<1> QED
  BY <1>1, <1>2, IndexOfBoundary

\* Frames with the same index begin at the same place.
LEMMA SameIndex ==
  ASSUME NEW o, NEW u, OnBoundary(o), OnBoundary(u), Index(o) = Index(u)
  PROVE  o = u
BY DEF OnBoundary

\* Numbers below and a multiple of the modulus apart are the same.
LEMMA SameNumber ==
  ASSUME NEW i \in Nat, NEW j \in Nat, NEW m \in Nat \ {0},
         j - i \in 0 .. m - 1, (i + 1) % m = (j + 1) % m
  PROVE  i = j
<1>1. /\ i + 1 = m * ((i + 1) \div m) + ((i + 1) % m)
      /\ j + 1 = m * ((j + 1) \div m) + ((j + 1) % m)
  BY Z3T(30)
<1>2. (i + 1) \div m \in Int /\ (j + 1) \div m \in Int
  OBVIOUS
<1> DEFINE p == (i + 1) \div m
           q == (j + 1) \div m
<1>3. j - i = m * (q - p)
  BY <1>1, <1>2, Z3T(30)
<1>4. p \in Int /\ q \in Int
  BY <1>2
<1> HIDE DEF p, q
<1>5. q - p < 1
  BY <1>3, <1>4, Z3T(30)
<1>6. q - p > -1
  BY <1>3, <1>4, Z3T(30)
<1>7. q = p
  BY <1>4, <1>5, <1>6
<1> QED
  BY <1>3, <1>4, <1>7

\* A quotient and a remainder determine each other.
LEMMA Remainder ==
  ASSUME NEW n \in Nat, NEW m \in Nat \ {0}, NEW q \in Int, NEW r \in 0 .. m - 1, n = m * q + r
  PROVE  n % m = r
OBVIOUS

\* Counting within a block.
LEMMA NextInBlock ==
  ASSUME NEW k \in Nat, NEW m \in Nat \ {0}
  PROVE  /\ k % m \in 0 .. m - 1
         /\ (k + 1) % m = IF (k % m) + 1 = m THEN 0 ELSE (k % m) + 1
<1>0. k = m * (k \div m) + (k % m)
  BY Z3T(30)
<1>1. k \div m \in Int /\ k % m \in 0 .. m - 1
  OBVIOUS
<1> DEFINE q == k \div m
           r == k % m
<1>2. k = m * q + r /\ q \in Int /\ r \in 0 .. m - 1
  BY <1>0, <1>1
<1> HIDE DEF q, r
<1>3. CASE r + 1 = m
  <2>1. k + 1 = m * (q + 1) + 0 /\ q + 1 \in Int
    BY <1>2, <1>3, Z3T(30)
  <2>2. (k + 1) % m = 0
    BY <2>1, Remainder
  <2> QED
    BY <1>2, <1>3, <2>2 DEF r
<1>4. CASE r + 1 # m
  <2>1. k + 1 = m * q + (r + 1) /\ r + 1 \in 0 .. m - 1
    BY <1>2, <1>4, Z3T(30)
  <2>2. (k + 1) % m = r + 1
    BY <1>2, <2>1, Remainder
  <2> QED
    BY <1>2, <1>4, <2>2 DEF r
<1> QED
  BY <1>3, <1>4

\* Numbers are counted modulo the modulus.
LEMMA NumberAdvances ==
  ASSUME NEW k \in Nat, NEW m \in Nat \ {0}
  PROVE  (((k + 1) % m) + 1) % m = ((k + 1) + 1) % m
<1> DEFINE r == (k + 1) % m
<1>1. r \in 0 .. m - 1 /\ ((k + 1) + 1) % m = IF r + 1 = m THEN 0 ELSE r + 1
  <2>1. k + 1 \in Nat
    OBVIOUS
  <2> QED
    BY <2>1, NextInBlock
<1> HIDE DEF r
<1>2. (r + 1) % m = IF r + 1 = m THEN 0 ELSE r + 1
  <2>1. CASE r + 1 = m
    <3>1. r + 1 = m * 1 + 0 /\ 1 \in Int /\ 0 \in 0 .. m - 1 /\ r + 1 \in Nat
      BY <1>1, <2>1, Z3T(30)
    <3> QED
      BY <2>1, <3>1, Remainder
  <2>2. CASE r + 1 # m
    <3>1. r + 1 = m * 0 + (r + 1) /\ 0 \in Int /\ r + 1 \in 0 .. m - 1 /\ r + 1 \in Nat
      BY <1>1, <2>2, Z3T(30)
    <3>2. (r + 1) % m = r + 1
      BY <3>1, Remainder
    <3> QED
      BY <2>2, <3>2
  <2> QED
    BY <2>1, <2>2
<1> QED
  BY <1>1, <1>2 DEF r

(***************************************************************************)
(* Lemmas about the bytes of a message.                                    *)
(***************************************************************************)

\* The bytes of a message are a sequence as long as their range.
LEMMA BytesType ==
  ASSUME NEW n \in 1 .. MaxMessages, NEW b \in Nat, NEW e \in Nat, b <= e, e <= KMaxPayload
  PROVE  /\ Bytes(n, b, e) \in Seq(Byte)
         /\ Len(Bytes(n, b, e)) = e - b
         /\ \A i \in 1 .. e - b : Bytes(n, b, e)[i] = <<n, b + i>>
<1> DEFINE k == e - b
<1>1. k \in Nat
  OBVIOUS
<1>2. \A i \in 1 .. k : <<n, b + i>> \in Byte
  BY Sizes DEF Byte
<1>3. Bytes(n, b, e) = [i \in 1 .. k |-> <<n, b + i>>]
  BY DEF Bytes
<1> HIDE DEF k
<1>4. [i \in 1 .. k |-> <<n, b + i>>] \in Seq(Byte)
  BY <1>1, <1>2
<1>5. Len([i \in 1 .. k |-> <<n, b + i>>]) = k
  BY <1>1
<1> QED
  BY <1>3, <1>4, <1>5 DEF k

\* A slice of the bytes of a message.
LEMMA BytesSlice ==
  ASSUME NEW n \in 1 .. MaxMessages, NEW e \in Nat, NEW o \in Nat, NEW x \in Nat, NEW m \in Nat,
         m = o + 1, o <= x, x <= e, e <= KMaxPayload
  PROVE  SubSeq(Bytes(n, 0, e), m, x) = Bytes(n, o, x)
<1> DEFINE d == Bytes(n, 0, e)
           s == SubSeq(d, m, x)
           t == Bytes(n, o, x)
<1>0. 0 \in Nat /\ 0 <= e /\ e - 0 = e /\ x <= KMaxPayload /\ m \in Int /\ x \in Int
  BY Sizes
<1>1. \A i \in 1 .. e : d[i] = <<n, 0 + i>>
  <2>1. e <= KMaxPayload
    OBVIOUS
  <2>2. \A i \in 1 .. e - 0 : d[i] = <<n, 0 + i>>
    BY <1>0, <2>1, BytesType
  <2> QED
    BY <1>0, <2>2, Zenon
<1>2. t \in Seq(Byte) /\ Len(t) = x - o /\ \A i \in 1 .. x - o : t[i] = <<n, o + i>>
  BY <1>0, BytesType
<1>3. \A i \in m .. x : d[i] \in Byte
  <2> TAKE i \in m .. x
  <2>1. i \in 1 .. e /\ 0 + i \in 1 .. KMaxPayload
    BY <1>0, Sizes
  <2>2. d[i] = <<n, 0 + i>>
    BY <1>1, <2>1
  <2> QED
    BY <2>1, <2>2 DEF Byte
<1> HIDE DEF d
<1>4. /\ s \in Seq(Byte)
      /\ Len(s) = IF m <= x THEN x - m + 1 ELSE 0
      /\ \A i \in 1 .. x - m + 1 : s[i] = d[m + i - 1]
  BY <1>0, <1>3, SubSeqProperties
<1> HIDE DEF s, t
<1>5. x - m + 1 = x - o /\ Len(s) = x - o
  BY <1>0, <1>4
<1>6. \A i \in 1 .. x - o : s[i] = t[i]
  <2> TAKE i \in 1 .. x - o
  <2>1. m + i - 1 \in 1 .. e /\ 0 + (m + i - 1) = o + i
    BY <1>0
  <2>2. d[m + i - 1] = <<n, o + i>>
    <3>1. d[m + i - 1] = <<n, 0 + (m + i - 1)>>
      BY <1>1, <2>1, Zenon
    <3> QED
      BY <2>1, <3>1, Zenon
  <2>3. s[i] = d[m + i - 1]
    BY <1>4, <1>5
  <2> QED
    BY <1>2, <2>2, <2>3, Zenon
<1>7. s = t
  BY <1>2, <1>4, <1>5, <1>6, SeqEqual
<1> QED
  BY <1>7 DEF s, t, d

\* The first bytes of the first bytes of a message are bytes it begins with.
LEMMA BytesBegin ==
  ASSUME NEW n \in 1 .. MaxMessages, NEW e \in Nat, NEW x \in Nat, x <= e, e <= KMaxPayload
  PROVE  SubSeq(Bytes(n, 0, e), 1, x) = Bytes(n, 0, x)
<1>1. ASSUME NEW o \in Nat, NEW m \in Nat, m = o + 1, o <= x
      PROVE  SubSeq(Bytes(n, 0, e), m, x) = Bytes(n, o, x)
  BY <1>1, BytesSlice
<1>2. 0 \in Nat /\ 1 \in Nat /\ 1 = 0 + 1 /\ 0 <= x
  OBVIOUS
<1> QED
  BY <1>1, <1>2

\* The bytes up to b and those from b to e are the bytes up to e.
LEMMA BytesJoin ==
  ASSUME NEW n \in 1 .. MaxMessages, NEW b \in Nat, NEW e \in Nat, b <= e, e <= KMaxPayload
  PROVE  Bytes(n, 0, b) \o Bytes(n, b, e) = Bytes(n, 0, e)
<1> DEFINE s == Bytes(n, 0, b)
           t == Bytes(n, b, e)
           u == Bytes(n, 0, e)
<1>1. 0 \in Nat /\ 0 <= b /\ 0 <= e /\ b <= KMaxPayload /\ b - 0 = b /\ e - 0 = e
  BY Sizes
<1>2. s \in Seq(Byte) /\ Len(s) = b /\ \A i \in 1 .. b : s[i] = <<n, 0 + i>>
  BY <1>1, BytesType
<1>3. t \in Seq(Byte) /\ Len(t) = e - b /\ \A i \in 1 .. e - b : t[i] = <<n, b + i>>
  BY BytesType
<1>4. u \in Seq(Byte) /\ Len(u) = e /\ \A i \in 1 .. e : u[i] = <<n, 0 + i>>
  BY <1>1, BytesType
<1> HIDE DEF s, t, u
<1>5. /\ s \o t \in Seq(Byte) /\ Len(s \o t) = Len(s) + Len(t)
      /\ \A i \in 1 .. Len(s) + Len(t) : (s \o t)[i] = IF i <= Len(s) THEN s[i] ELSE t[i - Len(s)]
  BY <1>2, <1>3, ConcatProperties
<1>6. Len(s) + Len(t) = e
  BY <1>2, <1>3
<1>7. \A i \in 1 .. e : (s \o t)[i] = u[i]
  <2> TAKE i \in 1 .. e
  <2>1. CASE i <= b
    <3>1. i \in 1 .. b /\ i \in 1 .. Len(s) + Len(t)
      BY <1>6, <2>1
    <3>2. (s \o t)[i] = s[i]
      BY <1>2, <1>5, <2>1, <3>1
    <3> QED
      BY <1>2, <1>4, <3>1, <3>2, Zenon
  <2>2. CASE i > b
    <3>1. i - b \in 1 .. e - b /\ b + (i - b) = 0 + i /\ i \in 1 .. Len(s) + Len(t)
      BY <1>6, <2>2
    <3>2. (s \o t)[i] = t[i - b]
      BY <1>2, <1>5, <2>2, <3>1
    <3> QED
      BY <1>3, <1>4, <3>1, <3>2, Zenon
  <2>3. i <= b \/ i > b
    OBVIOUS
  <2> QED
    BY <2>1, <2>2, <2>3, Zenon
<1>8. s \o t = u
  BY <1>4, <1>5, <1>6, <1>7, SeqEqual
<1> QED
  BY <1>8 DEF s, t, u

\* Each byte tells its message and its place.
LEMMA BytesTell ==
  ASSUME NEW n \in 1 .. MaxMessages, NEW b \in Nat, NEW e \in Nat, b < e, e <= KMaxPayload,
         NEW f, f.data = Bytes(n, b, e)
  PROVE  Msg(f) = n /\ Begin(f) = b /\ End(f) = e
<1>0. 1 \in 1 .. e - b /\ b <= e
  OBVIOUS
<1>1. Len(f.data) = e - b /\ f.data[1] = <<n, b + 1>>
  <2>1. Len(Bytes(n, b, e)) = e - b /\ \A i \in 1 .. e - b : Bytes(n, b, e)[i] = <<n, b + i>>
    BY <1>0, BytesType
  <2> QED
    BY <1>0, <2>1, Zenon
<1>2. <<n, b + 1>>[1] = n /\ <<n, b + 1>>[2] = b + 1
  OBVIOUS
<1>3. b + 1 - 1 = b /\ b + (e - b) = e
  OBVIOUS
<1> QED
  BY <1>1, <1>2, <1>3 DEF Msg, Begin, End

(***************************************************************************)
(* Lemmas about the wire.                                                  *)
(***************************************************************************)

\* One message more leaves the pieces of the others what they are.
LEMMA PieceOfMore ==
  ASSUME NEW ms \in Seq(Seq(Byte)), NEW p \in Seq(Byte), NEW done \in Nat, NEW bs,
         NEW f, IsPiece(f, ms, done)
  PROVE  IsPiece(f, Append(ms, p), done) /\ (Asks(f, Append(ms, p), bs) <=> Asks(f, ms, bs))
<1>1. Msg(f) \in 1 .. Len(ms) /\ Msg(f) \in done + 1 .. Len(ms) + 1
  BY DEF IsPiece
<1>2. Append(ms, p)[Msg(f)] = ms[Msg(f)] /\ Len(Append(ms, p)) = Len(ms) + 1
  BY <1>1, AppendProperties
<1> QED
  BY <1>1, <1>2 DEF IsPiece, Asks

\* What is behind the head of a wire in order is in order.
LEMMA TailInOrder ==
  ASSUME NEW w \in Seq(Flight), w # <<>>, NEW ms, NEW done, AreInOrder(w, ms, done)
  PROVE  /\ Tail(w) \in Seq(Flight) /\ Len(Tail(w)) = Len(w) - 1
         /\ Len(w) \in Nat \ {0}
         /\ \A i \in 1 .. Len(Tail(w)) : i + 1 \in 1 .. Len(w) /\ Tail(w)[i] = w[i + 1]
         /\ Tail(w) # <<>> => Len(w) \in 2 .. Len(w)
         /\ Head(w) = w[1]
         /\ AreInOrder(Tail(w), ms, done)
<1>1. Len(w) \in Nat \ {0} /\ Head(w) = w[1]
  BY EmptySeq
<1>2. /\ Tail(w) \in Seq(Flight) /\ Len(Tail(w)) = Len(w) - 1
      /\ \A i \in 1 .. Len(Tail(w)) : Tail(w)[i] = w[i + 1]
  BY HeadTailProperties
<1>3. \A i \in 1 .. Len(Tail(w)) : i + 1 \in 1 .. Len(w)
  BY <1>1, <1>2
<1>4. Tail(w) # <<>> => Len(Tail(w)) \in Nat \ {0}
  BY <1>2, EmptySeq
<1>5. AreInOrder(Tail(w), ms, done)
  <2>1. \A i \in 1 .. Len(Tail(w)) : IsPiece(Tail(w)[i].frame, ms, done)
    BY <1>2, <1>3 DEF AreInOrder
  <2>2. ASSUME NEW i \in 1 .. Len(Tail(w)), NEW j \in 1 .. Len(Tail(w)), i < j
        PROVE  Follows(Tail(w)[i].frame, Tail(w)[j].frame)
    <3>1. i + 1 \in 1 .. Len(w) /\ j + 1 \in 1 .. Len(w) /\ i + 1 < j + 1
      BY <1>3, <2>2
    <3> QED
      BY <1>2, <3>1 DEF AreInOrder
  <2>3. ASSUME NEW i \in 1 .. Len(Tail(w)), NEW j \in 1 .. Len(Tail(w)), j = i + 1
        PROVE  Adjoins(Tail(w)[i].frame, Tail(w)[j].frame)
    <3>1. i + 1 \in 1 .. Len(w) /\ j + 1 \in 1 .. Len(w) /\ j + 1 = (i + 1) + 1
      BY <1>3, <2>3
    <3> QED
      BY <1>2, <3>1 DEF AreInOrder
  <2> QED
    BY <2>1, <2>2, <2>3 DEF AreInOrder
<1> QED
  BY <1>1, <1>2, <1>3, <1>4, <1>5

\* A frame cut later, next to the last one on the wire, extends the order.
LEMMA AppendInOrder ==
  ASSUME NEW w \in Seq(Flight), NEW x \in Flight, NEW ms, NEW done, AreInOrder(w, ms, done),
         IsPiece(x.frame, ms, done),
         \A i \in 1 .. Len(w) : Follows(w[i].frame, x.frame),
         w # <<>> => Adjoins(w[Len(w)].frame, x.frame)
  PROVE  AreInOrder(Append(w, x), ms, done)
<1> DEFINE v == Append(w, x)
           n == Len(w)
<1>1. /\ Len(v) = n + 1 /\ v[n + 1] = x
      /\ \A i \in 1 .. n : v[i] = w[i]
      /\ n \in Nat /\ (w # <<>> => n # 0)
  BY AppendProperties, EmptySeq
<1>2. \A i \in 1 .. n : IsPiece(w[i].frame, ms, done)
  BY DEF AreInOrder
<1>3. \A i, j \in 1 .. n : i < j => Follows(w[i].frame, w[j].frame)
  BY DEF AreInOrder
<1>4. \A i, j \in 1 .. n : j = i + 1 => Adjoins(w[i].frame, w[j].frame)
  BY DEF AreInOrder
<1>5. n # 0 => w # <<>>
  BY EmptySeq
<1>6. n # 0 => Adjoins(w[n].frame, x.frame)
  BY <1>5
<1>7. \A i \in 1 .. n : Follows(w[i].frame, x.frame)
  OBVIOUS
<1> HIDE DEF v, n
<1>8. \A i \in 1 .. Len(v) : i \in 1 .. n \/ i = n + 1
  BY <1>1
<1>9. \A i \in 1 .. Len(v) : IsPiece(v[i].frame, ms, done)
  BY <1>1, <1>2, <1>8
<1>10. ASSUME NEW i \in 1 .. Len(v), NEW j \in 1 .. Len(v), i < j
       PROVE  Follows(v[i].frame, v[j].frame)
  <2>1. i \in 1 .. n
    BY <1>1, <1>10
  <2> QED
    BY <1>1, <1>3, <1>7, <1>8, <1>10, <2>1
<1>11. ASSUME NEW i \in 1 .. Len(v), NEW j \in 1 .. Len(v), j = i + 1
       PROVE  Adjoins(v[i].frame, v[j].frame)
  <2>1. i \in 1 .. n /\ (j = n + 1 => i = n /\ n # 0)
    BY <1>1, <1>11
  <2> QED
    BY <1>1, <1>4, <1>6, <1>8, <1>11, <2>1
<1> QED
  BY <1>9, <1>10, <1>11 DEF AreInOrder, v

\* Order does not depend on the messages that are complete, nor on those that come.
LEMMA InOrderOfMore ==
  ASSUME NEW ms \in Seq(Seq(Byte)), NEW p \in Seq(Byte), NEW done \in Nat,
         NEW w, AreInOrder(w, ms, done)
  PROVE  AreInOrder(w, Append(ms, p), done)
BY PieceOfMore DEF AreInOrder

\* Frames of later messages are in order also when the messages before are done with.
LEMMA InOrderOfFewer ==
  ASSUME NEW ms \in Seq(Seq(Byte)), NEW done \in Nat, NEW later \in Nat,
         NEW w, AreInOrder(w, ms, done),
         \A i \in 1 .. Len(w) : Msg(w[i].frame) > later
  PROVE  AreInOrder(w, ms, later)
<1>1. ASSUME NEW i \in 1 .. Len(w)
      PROVE  IsPiece(w[i].frame, ms, later)
  <2>1. IsPiece(w[i].frame, ms, done) /\ Msg(w[i].frame) > later
    BY DEF AreInOrder
  <2>2. Msg(w[i].frame) \in done + 1 .. Len(ms) /\ Len(ms) \in Nat
    BY <2>1 DEF IsPiece
  <2>3. Msg(w[i].frame) \in later + 1 .. Len(ms)
    BY <2>1, <2>2
  <2> QED
    BY <2>1, <2>3 DEF IsPiece
<1> QED
  BY <1>1 DEF AreInOrder

\* What a frame in order carries.
LEMMA PieceFacts ==
  ASSUME NEW ms, NEW done, AreMessages(ms, done), NEW f, IsPiece(f, ms, done)
  PROVE  /\ Msg(f) \in Nat /\ Msg(f) \in 1 .. Len(ms) /\ Msg(f) \in 1 .. MaxMessages /\ Msg(f) > done
         /\ Len(ms) \in Nat /\ done \in Nat
         /\ Begin(f) \in Nat /\ End(f) \in Nat /\ Begin(f) < End(f)
         /\ End(f) <= Len(ms[Msg(f)]) /\ Len(ms[Msg(f)]) \in 1 .. KMaxPayload
         /\ ms[Msg(f)] = Bytes(Msg(f), 0, Len(ms[Msg(f)]))
         /\ f.data = Bytes(Msg(f), Begin(f), End(f))
         /\ f.data \in Seq(Byte) /\ Len(f.data) = End(f) - Begin(f)
         /\ f.type \in {"SF", "FF", "CF"}
<1>1. /\ Msg(f) \in 1 .. Len(ms) /\ Len(ms) \in Nat /\ Len(ms) <= MaxMessages /\ Msg(f) > done
      /\ done \in Nat
  BY DEF AreMessages, IsPiece
<1>2. Msg(f) \in Nat /\ Msg(f) \in 1 .. MaxMessages
  BY <1>1, Sizes
<1>3. Len(ms[Msg(f)]) \in 1 .. KMaxPayload /\ ms[Msg(f)] = Bytes(Msg(f), 0, Len(ms[Msg(f)]))
  BY <1>1 DEF AreMessages
<1>4. /\ Begin(f) \in Nat /\ End(f) \in Nat /\ Begin(f) < End(f) /\ End(f) <= Len(ms[Msg(f)])
      /\ f.data = Bytes(Msg(f), Begin(f), End(f))
      /\ f.type \in {"SF", "FF", "CF"}
  BY DEF IsPiece
<1>5. Begin(f) <= End(f) /\ End(f) <= KMaxPayload
  BY <1>3, <1>4, Sizes
<1>6. f.data \in Seq(Byte) /\ Len(f.data) = End(f) - Begin(f)
  BY <1>2, <1>4, <1>5, BytesType
<1> QED
  BY <1>1, <1>2, <1>3, <1>4, <1>6

(***************************************************************************)
(* What a call makes of the receiver.                                      *)
(***************************************************************************)
ReceiverKeeps == rRx' = rRx /\ rRet' # "MessageReady"

ReceiverIdles ==
  /\ rRx' \in Receiver!RxType /\ rRx'.state = "Idle" /\ rRx'.ready = rRx.ready
  /\ rOut' = <<>> /\ rRet' # "MessageReady"

ReceiverCompletes(b) ==
  /\ ~rRx.ready
  /\ rRx' \in Receiver!RxType /\ rRx'.state = "Idle" /\ rRx'.ready
  /\ rRx'.buffer = b /\ rRx'.length = Len(b)
  /\ rOut' = <<>> /\ rRet' = "MessageReady"

Assembles(buffer, expected, seq, count) ==
  /\ rRx' \in Receiver!RxType /\ rRx'.state = "Receiving" /\ ~rRx'.ready
  /\ rRx'.buffer = buffer /\ rRx'.offset = Len(buffer) /\ rRx'.expected = expected
  /\ rRx'.seq = seq /\ rRx'.blockCount = count
  /\ rRx'.deadline = now + rConfig.consecutiveFrameTimeout
  /\ rRet' # "MessageReady"

ReceiverOpens(f) ==
  /\ ~rRx.ready /\ f.len > CfData
  /\ Assembles(f.data, f.len, 1, 0)
  /\ rOut' = <<Receiver!FlowControl(rConfig, 0)>>

ReceiverStores(b) ==
  LET count == (rRx.blockCount + 1) % 256 IN
  \/ /\ BS = 0 \/ count < BS
     /\ Assembles(b, rRx.expected, (rRx.seq + 1) % SeqModulus, count)
     /\ rOut' = <<>>
  \/ /\ BS # 0 /\ count >= BS
     /\ Assembles(b, rRx.expected, (rRx.seq + 1) % SeqModulus, 0)
     /\ rOut' = <<Receiver!FlowControl(rConfig, 0)>>

\* A configuration is a record of numbers.
LEMMA ReceiverConfigTyped ==
  ASSUME ReceiverFits
  PROVE  /\ rConfig \in Receiver!ConfigType
         /\ rConfig.maxPayload \in Nat /\ rConfig.consecutiveFrameTimeout \in Nat
         /\ rConfig.rxBlockSize \in 0 .. 255 /\ BS \in 0 .. 255 /\ rConfig.rxStMin \in 0 .. 255
         /\ MaxDelay < rConfig.consecutiveFrameTimeout
<1>1. rConfig \in Receiver!ConfigType
  BY ReceiverAssumptions DEF ReceiverFits, Receiver!EnvironmentAssumption
<1> QED
  BY <1>1, FlowControlIsTimely DEF ReceiverFits, Receiver!ConfigType, BS

\* No status of the driver is taken for a completed message, nor for an accepted one.
LEMMA DriverStatus ==
  ASSUME NEW status \in SendResult
  PROVE  /\ Receiver!MapCanStatus[status] # "MessageReady"
         /\ status # "Ok" => Sender!MapCanStatus[status] \notin {"Complete", "InProgress"}
         /\ Sender!MapCanStatus["Ok"] = "Complete"
<1>1. status \in {"Ok", "TxBusy", "TxFailed", "BusOff", "NotInitialized", "InvalidConfig",
                  "NoData", "DriverError", "RxOverflow"}
  BY SenderAssumptions DEF Sender!EnvironmentAssumption, Sender!CanStatus, Sender!MapCanStatus
<1> QED
  BY <1>1 DEF Receiver!MapCanStatus, Sender!MapCanStatus

\* Giving up the assembly leaves the pending message alone.
LEMMA IdleAssemblyIdles ==
  ASSUME NEW r \in Receiver!RxType
  PROVE  /\ Receiver!IdleAssembly(r) \in Receiver!RxType
         /\ Receiver!IdleAssembly(r).state = "Idle"
         /\ Receiver!IdleAssembly(r).ready = r.ready
         /\ Receiver!IdleAssembly(r).length = r.length
         /\ Receiver!IdleAssembly(r).buffer = r.buffer
<1>1. 0 \in Nat /\ 1 \in Receiver!SequenceNumber /\ 0 \in 0..255
  BY NumbersWrap
<1>2. Receiver!IdleAssembly(r) \in Receiver!RxType
  BY <1>1, Zenon DEF Receiver!RxType, Receiver!IdleAssembly
<1> QED
  BY <1>2 DEF Receiver!RxType, Receiver!IdleAssembly

\* Frames handed to the driver are sent at once.
LEMMA ReceiverTransmitsAtOnce ==
  ASSUME now \in Nat, NEW f, NEW status, Receiver!Transmit(f, status)
  PROVE  now' = now /\ rOut' = IF status = "Ok" THEN <<f>> ELSE <<>>
BY DEF Receiver!Transmit

\* handleSingleFrame completes the message in the frame, or leaves the assembly alone.
LEMMA HearsSingle ==
  ASSUME rRx \in Receiver!RxType, now \in Nat, NEW f, f.type = "SF", f.data \in Seq(Byte),
         f.len = Len(f.data), Receiver!HandleSingleFrame(f)
  PROVE  /\ now' = now /\ rTx' = rTx
         /\ (ReceiverKeeps /\ rOut' = <<>>) \/ ReceiverCompletes(f.data)
<1>1. CASE UNCHANGED rRx /\ (Receiver!Return("Busy") \/ Receiver!Return("InvalidFrame"))
  BY <1>1 DEF Receiver!HandleSingleFrame, Receiver!Return, ReceiverKeeps
<1>2. CASE /\ Receiver!RxFree /\ Receiver!Return("MessageReady")
           /\ rRx' = [rRx EXCEPT !.buffer = SubSeq(f.data, 1, f.len), !.length = f.len,
                                 !.ready = TRUE]
  <2>1. SubSeq(f.data, 1, f.len) = f.data
    BY SubSeqFull
  <2>2. f.len \in Nat
    OBVIOUS
  <2>3. rRx' = [rRx EXCEPT !.buffer = f.data, !.length = f.len, !.ready = TRUE]
    BY <1>2, <2>1
  <2>4. rRx' \in Receiver!RxType
    BY <2>2, <2>3, Zenon DEF Receiver!RxType
  <2>5. rRx'.state = rRx.state /\ rRx'.ready /\ rRx'.buffer = f.data /\ rRx'.length = f.len
    BY <2>3 DEF Receiver!RxType
  <2> QED
    BY <1>2, <2>4, <2>5 DEF Receiver!RxFree, Receiver!Return, ReceiverCompletes, Receiver!HandleSingleFrame
<1> QED
  BY <1>1, <1>2 DEF Receiver!HandleSingleFrame

\* handleFirstFrame opens an assembly and asks for more, answers an overflow, or gives up.
LEMMA HearsFirst ==
  ASSUME ReceiverFits, now \in Nat, NEW f, f.type = "FF", f.data \in Seq(Byte),
         Len(f.data) = FfData, f.len \in Nat, Receiver!HandleFirstFrame(f)
  PROVE  /\ now' = now /\ rTx' = rTx
         /\ \/ ReceiverKeeps /\ rOut' \in {<<>>, <<Receiver!FlowControl(rConfig, 2)>>}
            \/ ReceiverIdles
            \/ ReceiverOpens(f)
<1> USE DEF Receiver!Return
<1>0. rRx \in Receiver!RxType
  BY DEF ReceiverFits
<1>1. CASE UNCHANGED rRx /\ (Receiver!Return("Busy") \/ Receiver!Return("InvalidFrame"))
  BY <1>1 DEF Receiver!HandleFirstFrame, ReceiverKeeps
<1>2. ASSUME NEW status \in SendResult, Receiver!Transmit(Receiver!FlowControl(rConfig, 2), status),
             rRet' = IF status = "Ok" THEN "Overflow" ELSE Receiver!MapCanStatus[status],
             UNCHANGED rRx
      PROVE  /\ now' = now
             /\ ReceiverKeeps /\ rOut' \in {<<>>, <<Receiver!FlowControl(rConfig, 2)>>}
  BY <1>2, DriverStatus, ReceiverTransmitsAtOnce DEF ReceiverKeeps
<1>3. ASSUME NEW status \in SendResult, Receiver!RxFree, f.len \in (Receiver!SfMax + 1)..KMaxPayload,
             Receiver!OpenAssembly(f, status)
      PROVE  now' = now /\ (ReceiverIdles \/ ReceiverOpens(f))
  <2> DEFINE opened == [rRx EXCEPT !.state = "Receiving", !.expected = f.len,
                           !.offset = Receiver!FfData, !.buffer = f.data, !.seq = 1, !.blockCount = 0,
                           !.deadline = now + rConfig.consecutiveFrameTimeout]
  <2>1. now + rConfig.consecutiveFrameTimeout \in Nat /\ Receiver!FfData = FfData /\ FfData \in Nat
        /\ f.len > CfData
    BY <1>3, ReceiverConfigTyped, Sizes
  <2>2. opened \in Receiver!RxType
    <3>1. Receiver!FfData \in Nat
      BY <2>1
    <3>2. 1 \in Receiver!SequenceNumber /\ 0 \in 0..255
      BY NumbersWrap
    <3> QED
      BY <1>0, <2>1, <3>1, <3>2, Zenon DEF Receiver!RxType
  <2>3. /\ opened.state = "Receiving" /\ opened.ready = rRx.ready /\ opened.expected = f.len
        /\ opened.offset = FfData /\ opened.buffer = f.data /\ opened.seq = 1
        /\ opened.blockCount = 0 /\ opened.deadline = now + rConfig.consecutiveFrameTimeout
    BY <1>0, <2>1 DEF Receiver!RxType
  <2>4. /\ now' = now /\ rOut' = IF status = "Ok" THEN <<Receiver!FlowControl(rConfig, 0)>> ELSE <<>>
        /\ IF status = "Ok" THEN rRet' = "InProgress" /\ rRx' = opened
           ELSE rRet' = Receiver!MapCanStatus[status] /\ rRx' = Receiver!IdleAssembly(opened)
    BY <1>3, ReceiverTransmitsAtOnce DEF Receiver!OpenAssembly
  <2>5. ~rRx.ready
    BY <1>3 DEF Receiver!RxFree
  <2> HIDE DEF opened
  <2>6. CASE status = "Ok"
    BY <2>1, <2>2, <2>3, <2>4, <2>5, <2>6 DEF ReceiverOpens, Assembles
  <2>7. CASE status # "Ok"
    BY <2>2, <2>3, <2>4, <2>5, <2>7, DriverStatus, IdleAssemblyIdles DEF ReceiverIdles
  <2> QED
    BY <2>4, <2>6, <2>7
<1>4. rTx' = rTx
  BY DEF Receiver!HandleFirstFrame
<1> QED
  BY <1>1, <1>2, <1>3, <1>4 DEF Receiver!HandleFirstFrame

\* A frame that continues the message under assembly is stored behind what is there.
LEMMA StoredFrame ==
  ASSUME ReceiverFits, rRx.state = "Receiving", AreMessages(messages, completed),
         NEW f, IsPiece(f, messages, completed), Msg(f) = Assembled, Begin(f) = rRx.offset
  PROVE  LET b == Bytes(Assembled, 0, End(f)) IN
         /\ Receiver!Stored(f) =
              [rRx EXCEPT !.buffer = b, !.offset = End(f), !.seq = (rRx.seq + 1) % SeqModulus,
                          !.blockCount = (rRx.blockCount + 1) % 256]
         /\ b \in Seq(Byte) /\ Len(b) = End(f)
         /\ Receiver!Stored(f) \in Receiver!RxType
<1> DEFINE n == Msg(f)
           o == rRx.offset
           e == End(f)
           b == Bytes(n, 0, e)
<1>1. /\ n \in 1 .. MaxMessages /\ o \in Nat /\ e \in Nat /\ o < e /\ e <= Len(messages[n])
      /\ Len(messages[n]) <= KMaxPayload /\ Len(messages[n]) \in Nat
      /\ f.data = Bytes(n, o, e) /\ Len(f.data) = e - o /\ f.data \in Seq(Byte)
  BY PieceFacts, Sizes
<1>2. rRx \in Receiver!RxType /\ rRx.buffer = Bytes(n, 0, o) /\ rRx.expected = Len(messages[n])
  BY DEF ReceiverFits
<1>3. 0 \in Nat /\ 0 <= o /\ 0 <= e /\ o <= e /\ e <= KMaxPayload /\ o <= KMaxPayload
      /\ KMaxPayload \in Nat /\ o - 0 = o /\ e - 0 = e
  BY <1>1, Sizes
<1>4. Bytes(n, 0, o) \in Seq(Byte) /\ Len(Bytes(n, 0, o)) = o
  BY <1>1, <1>3, BytesType
<1>5. b \in Seq(Byte) /\ Len(b) = e
  BY <1>1, <1>3, BytesType
<1>6. Bytes(n, 0, o) \o Bytes(n, o, e) = b
  BY <1>1, <1>3, BytesJoin
<1> HIDE DEF n, o, e, b
<1>7. Receiver!UsefulData(f) = f.data
  <2>1. Receiver!Min2(Len(f.data), rRx.expected - o) = Len(f.data)
    BY <1>1, <1>2 DEF Receiver!Min2
  <2>2. SubSeq(f.data, 1, Len(f.data)) = f.data
    BY <1>1, SubSeqFull
  <2> QED
    BY <2>1, <2>2 DEF Receiver!UsefulData, o
<1>8. Receiver!WriteAt(rRx.buffer, o, f.data) = b
  <2>1. SubSeq(rRx.buffer, 1, o) = rRx.buffer
    BY <1>2, <1>4, SubSeqFull
  <2> QED
    BY <1>1, <1>2, <1>6, <2>1 DEF Receiver!WriteAt
<1>9. o + Len(f.data) = e
  BY <1>1
<1>10. Receiver!Stored(f) =
         [rRx EXCEPT !.buffer = b, !.offset = e, !.seq = (rRx.seq + 1) % SeqModulus,
                     !.blockCount = (rRx.blockCount + 1) % 256]
  <2>1. Receiver!Stored(f) =
          [rRx EXCEPT !.buffer = Receiver!WriteAt(rRx.buffer, rRx.offset, Receiver!UsefulData(f)),
                      !.offset = rRx.offset + Len(Receiver!UsefulData(f)),
                      !.seq = Receiver!NextSeq(rRx.seq),
                      !.blockCount = (rRx.blockCount + 1) % 256]
    BY DEF Receiver!Stored
  <2>2. Receiver!NextSeq(rRx.seq) = (rRx.seq + 1) % SeqModulus
    BY DEF Receiver!NextSeq
  <2>3. rRx.offset = o
    BY DEF o
  <2> QED
    BY <1>7, <1>8, <1>9, <2>1, <2>2, <2>3
<1>11. Receiver!Stored(f) \in Receiver!RxType
  <2>1. rRx.seq \in Receiver!SequenceNumber /\ rRx.blockCount \in 0..255
    BY <1>2 DEF Receiver!RxType
  <2>2. /\ (rRx.seq + 1) % SeqModulus \in Receiver!SequenceNumber
        /\ (rRx.blockCount + 1) % 256 \in 0..255
    BY <2>1, NumbersWrap
  <2> QED
    BY <1>1, <1>2, <1>5, <1>10, <2>2, ZenonT(40) DEF Receiver!RxType
<1> QED
  BY <1>5, <1>10, <1>11 DEF n, o, e, b

\* handleConsecutiveFrame appends a frame of the message under assembly where it belongs,
\* provided that one whose number is the expected one does belong there.
LEMMA HearsConsecutive ==
  ASSUME ReceiverFits, now \in Nat, AreMessages(messages, completed),
         NEW f, f.type = "CF", IsPiece(f, messages, completed), Receiver!HandleConsecutiveFrame(f),
         rRx.state = "Receiving" /\ f.sn = rRx.seq => Msg(f) = Assembled /\ Begin(f) = rRx.offset
  PROVE  /\ now' = now /\ rTx' = rTx
         /\ \/ ReceiverKeeps /\ rRx.state # "Receiving" /\ rOut' = <<>>
            \/ ReceiverIdles
            \/ /\ rRx.state = "Receiving" /\ Msg(f) = Assembled /\ Begin(f) = rRx.offset
               /\ LET b == Bytes(Assembled, 0, End(f)) IN
                  \/ End(f) = rRx.expected /\ ReceiverCompletes(b)
                  \/ End(f) # rRx.expected /\ ReceiverStores(b)
<1>0. rRx \in Receiver!RxType /\ Len(f.data) > 0 /\ rTx' = rTx
  <2>1. Len(f.data) = End(f) - Begin(f) /\ End(f) \in Nat /\ Begin(f) \in Nat /\ Begin(f) < End(f)
    BY PieceFacts
  <2> QED
    BY <2>1 DEF ReceiverFits, Receiver!HandleConsecutiveFrame
<1>1. CASE rRx.state # "Receiving" /\ Receiver!Return("UnexpectedFrame") /\ UNCHANGED rRx
  BY <1>0, <1>1 DEF Receiver!Return, ReceiverKeeps
<1>2. CASE /\ Receiver!Return("SequenceError")
           /\ rRx' = Receiver!IdleAssembly(rRx)
  BY <1>0, <1>2, IdleAssemblyIdles DEF Receiver!Return, ReceiverIdles
<1>3. CASE /\ rRx.state = "Receiving" /\ f.sn = rRx.seq
           /\ \/ /\ Receiver!Stored(f).offset = rRx.expected
                 /\ Receiver!Return("MessageReady")
                 /\ rRx' = Receiver!IdleAssembly([Receiver!Stored(f) EXCEPT !.length = rRx.expected, !.ready = TRUE])
              \/ /\ Receiver!Stored(f).offset # rRx.expected
                 /\ Receiver!ContinueAssembly(f)
  <2> DEFINE st == Receiver!Stored(f)
             b == Bytes(Assembled, 0, End(f))
             count == (rRx.blockCount + 1) % 256
             seq == (rRx.seq + 1) % SeqModulus
  <2>1. Msg(f) = Assembled /\ Begin(f) = rRx.offset /\ rRx.state = "Receiving"
    BY <1>3
  <2>2. /\ st = [rRx EXCEPT !.buffer = b, !.offset = End(f), !.seq = seq, !.blockCount = count]
        /\ b \in Seq(Byte) /\ Len(b) = End(f) /\ st \in Receiver!RxType
    BY <2>1, StoredFrame
  <2>3. ~rRx.ready /\ rRx.expected \in Nat
    BY <1>0, <2>1 DEF ReceiverFits, Receiver!RxType
  <2> HIDE DEF seq, count, b
  <2>4. /\ st.state = "Receiving" /\ ~st.ready /\ st.buffer = b /\ st.offset = End(f)
        /\ st.seq = seq /\ st.blockCount = count /\ st.expected = rRx.expected
    BY <1>0, <2>1, <2>2, <2>3 DEF Receiver!RxType
  <2> HIDE DEF st
  <2>5. CASE /\ st.offset = rRx.expected /\ Receiver!Return("MessageReady")
             /\ rRx' = Receiver!IdleAssembly([st EXCEPT !.length = rRx.expected, !.ready = TRUE])
    <3> DEFINE r == [st EXCEPT !.length = rRx.expected, !.ready = TRUE]
    <3>1. r \in Receiver!RxType
      BY <2>2, <2>3, Zenon DEF Receiver!RxType
    <3>2. r.ready /\ r.length = rRx.expected /\ r.buffer = b
      BY <2>2, <2>4 DEF Receiver!RxType
    <3> HIDE DEF r
    <3>3. rRx' = Receiver!IdleAssembly(r)
      BY <2>5 DEF r
    <3>4. /\ rRx' \in Receiver!RxType /\ rRx'.state = "Idle" /\ rRx'.ready = r.ready
          /\ rRx'.length = r.length /\ rRx'.buffer = r.buffer
      BY <3>1, <3>3, IdleAssemblyIdles
    <3>5. rOut' = <<>> /\ rRet' = "MessageReady"
      BY <2>5 DEF Receiver!Return
    <3>6. rRx'.length = Len(b)
      BY <2>2, <2>4, <2>5, <3>2, <3>4
    <3>7. ReceiverCompletes(b)
      BY <2>3, <3>2, <3>4, <3>5, <3>6 DEF ReceiverCompletes
    <3> QED
      BY <1>0, <2>1, <2>4, <2>5, <3>7 DEF Receiver!Return, b
  <2>6. CASE st.offset # rRx.expected /\ Receiver!ContinueAssembly(f)
    <3> DEFINE s2 == [st EXCEPT !.deadline = now + rConfig.consecutiveFrameTimeout]
               s3 == [s2 EXCEPT !.blockCount = 0]
    <3>1. now + rConfig.consecutiveFrameTimeout \in Nat
      BY ReceiverConfigTyped
    <3>2. s2 \in Receiver!RxType
      BY <2>2, <3>1, Zenon DEF Receiver!RxType
    <3>3. /\ s2.state = "Receiving" /\ ~s2.ready /\ s2.buffer = b /\ s2.offset = End(f)
          /\ s2.seq = seq /\ s2.blockCount = count /\ s2.expected = rRx.expected
          /\ s2.deadline = now + rConfig.consecutiveFrameTimeout
      BY <2>2, <2>4 DEF Receiver!RxType
    <3>4. Receiver!BlockFull(s2) <=> BS # 0 /\ count >= BS
      BY <3>3 DEF Receiver!BlockFull, BS
    <3>5. \/ ~Receiver!BlockFull(s2) /\ Receiver!Return("InProgress") /\ rRx' = s2
          \/ /\ Receiver!BlockFull(s2)
             /\ \E status \in SendResult :
                  /\ Receiver!Transmit(Receiver!FlowControl(rConfig, 0), status)
                  /\ IF status = "Ok"
                     THEN rRet' = "InProgress" /\ rRx' = s3
                     ELSE rRet' = Receiver!MapCanStatus[status] /\ rRx' = Receiver!IdleAssembly(s2)
      BY <2>6 DEF Receiver!ContinueAssembly, st
    <3> HIDE DEF s2
    <3>6. s3 \in Receiver!RxType
      <4>1. 0 \in 0..255
        BY NumbersWrap
      <4> QED
        BY <3>2, <4>1, Zenon DEF Receiver!RxType
    <3>7. /\ s3.state = "Receiving" /\ ~s3.ready /\ s3.buffer = b /\ s3.offset = End(f)
          /\ s3.seq = seq /\ s3.blockCount = 0 /\ s3.expected = rRx.expected
          /\ s3.deadline = now + rConfig.consecutiveFrameTimeout
      BY <3>2, <3>3 DEF Receiver!RxType
    <3> HIDE DEF s3
    <3>8. BS \in 0 .. 255 /\ count \in Nat
      <4>1. rRx.blockCount \in 0..255
        BY <1>0 DEF Receiver!RxType
      <4>2. count \in 0..255 \/ count \in Nat
        BY <4>1, NumbersWrap DEF count
      <4> QED
        BY <4>2, ReceiverConfigTyped
    <3>9. CASE ~Receiver!BlockFull(s2) /\ Receiver!Return("InProgress") /\ rRx' = s2
      <4>1. now' = now /\ rOut' = <<>> /\ Assembles(b, rRx.expected, seq, count)
        BY <2>2, <3>2, <3>3, <3>9 DEF Assembles, Receiver!Return
      <4>2. BS = 0 \/ count < BS
        BY <3>4, <3>8, <3>9
      <4>3. ReceiverStores(b)
        BY <4>1, <4>2 DEF ReceiverStores, count, seq
      <4> QED
        BY <1>0, <2>1, <2>4, <2>6, <4>1, <4>3 DEF b
    <3>10. ASSUME NEW status \in SendResult, Receiver!BlockFull(s2),
                  Receiver!Transmit(Receiver!FlowControl(rConfig, 0), status),
                  status = "Ok", rRet' = "InProgress", rRx' = s3
           PROVE  now' = now /\ ReceiverStores(b)
      <4>1. /\ now' = now /\ rOut' = <<Receiver!FlowControl(rConfig, 0)>>
            /\ Assembles(b, rRx.expected, seq, 0)
        BY <2>2, <3>6, <3>7, <3>10, ReceiverTransmitsAtOnce DEF Assembles
      <4> QED
        BY <3>4, <3>10, <4>1 DEF ReceiverStores, count, seq
    <3>11. ASSUME NEW status \in SendResult, Receiver!Transmit(Receiver!FlowControl(rConfig, 0), status),
                  status # "Ok", rRet' = Receiver!MapCanStatus[status], rRx' = Receiver!IdleAssembly(s2)
           PROVE  now' = now /\ ReceiverIdles
      <4>1. /\ rRx' \in Receiver!RxType /\ rRx'.state = "Idle" /\ rRx'.ready = s2.ready
        BY <3>2, <3>11, IdleAssemblyIdles
      <4>2. now' = now /\ rOut' = <<>> /\ rRet' # "MessageReady"
        BY <3>11, DriverStatus, ReceiverTransmitsAtOnce
      <4>3. s2.ready = rRx.ready
        BY <1>0, <2>3, <3>2, <3>3 DEF Receiver!RxType
      <4> QED
        BY <4>1, <4>2, <4>3 DEF ReceiverIdles
    <3> QED
      BY <1>0, <2>1, <2>4, <2>6, <3>5, <3>9, <3>10, <3>11 DEF b
  <2> QED
    BY <1>3, <2>5, <2>6 DEF st
<1> QED
  BY <1>0, <1>1, <1>2, <1>3 DEF Receiver!HandleConsecutiveFrame

\* The frame whose number the receiver expects is the one that continues its message.
LEMMA RightFrame ==
  ASSUME IInv, toReceiver # <<>>, NEW f, f = toReceiver[1].frame, f.type = "CF",
         rRx.state = "Receiving", f.sn = rRx.seq
  PROVE  Msg(f) = Assembled /\ Begin(f) = rRx.offset
<1>1. 1 \in 1 .. Len(toReceiver)
  <2>1. Len(toReceiver) \in Nat \ {0}
    BY EmptySeq DEF IInv, TimesFit
  <2> QED
    BY <2>1
<1>2. Msg(f) = Assembled /\ Gap(Begin(f))
  BY <1>1, Zenon DEF IInv, AssemblyFits
<1>3. IsPiece(f, messages, completed)
  BY <1>1 DEF IInv, AreInOrder
<1>4. f.sn = (Index(Begin(f)) + 1) % SeqModulus
  BY <1>3 DEF IsPiece
<1>5. OnBoundary(rRx.offset) /\ rRx.seq = (Index(rRx.offset) + 1) % SeqModulus
  BY DEF IInv, ReceiverFits
<1>6. /\ Index(rRx.offset) \in Nat /\ Index(Begin(f)) \in Nat /\ SeqModulus \in Nat \ {0}
      /\ Index(Begin(f)) - Index(rRx.offset) \in 0 .. SeqModulus - 1
  <2>1. lost \in 0 .. MaxLost
    BY DEF IInv, TimesFit
  <2> QED
    BY <1>2, <1>5, <2>1, Sizes DEF Gap, OnBoundary
<1>7. Index(rRx.offset) = Index(Begin(f))
  BY <1>4, <1>5, <1>6, SameNumber
<1> QED
  BY <1>2, <1>5, <1>7, SameIndex DEF Gap

\* What the receiver may make of the frame at the head of the wire.
LEMMA ReceiverHearsFrame ==
  ASSUME IInv, toReceiver # <<>>, NEW f, f = toReceiver[1].frame, Receiver!OnCanFrame(f)
  PROVE  /\ now' = now /\ rTx' = rTx /\ rConfig' = rConfig
         /\ ReceiverKeeps \/ Receiver!IsConfigValid(rConfig)
         /\ \/ /\ ReceiverKeeps /\ rOut' = <<>>
               /\ f.type = "CF" => rRx.state # "Receiving"
            \/ ReceiverKeeps /\ f.type = "FF" /\ rOut' = <<Receiver!FlowControl(rConfig, 2)>>
            \/ ReceiverIdles
            \/ f.type = "SF" /\ ReceiverCompletes(f.data)
            \/ f.type = "FF" /\ ReceiverOpens(f)
            \/ /\ f.type = "CF" /\ rRx.state = "Receiving" /\ Msg(f) = Assembled /\ Begin(f) = rRx.offset
               /\ LET b == Bytes(Assembled, 0, End(f)) IN
                  \/ End(f) = rRx.expected /\ ReceiverCompletes(b)
                  \/ End(f) # rRx.expected /\ ReceiverStores(b)
<1>1. 1 \in 1 .. Len(toReceiver)
  <2>1. Len(toReceiver) \in Nat \ {0}
    BY EmptySeq DEF IInv, TimesFit
  <2> QED
    BY <2>1
<1>2. IsPiece(f, messages, completed) /\ AreMessages(messages, completed)
  BY <1>1 DEF IInv, AreInOrder
<1>3. ReceiverFits /\ now \in Nat /\ rRx \in Receiver!RxType /\ rTx.state = "Idle"
  BY DEF IInv, ReceiverFits, TimesFit, Receiver!IdleTx
<1>4. rConfig' = rConfig
  BY DEF Receiver!OnCanFrame
<1>10. rRx.state = "Receiving" => Receiver!IsConfigValid(rConfig)
  BY <1>3 DEF ReceiverFits
<1>5. f.type \in {"SF", "FF", "CF"} /\ f.data \in Seq(Byte)
  BY <1>2, PieceFacts
<1>6. CASE ~Receiver!IsConfigValid(rConfig)
  BY <1>4, <1>6, <1>10 DEF Receiver!OnCanFrame, Receiver!Return, ReceiverKeeps
<1>7. CASE Receiver!IsConfigValid(rConfig) /\ Receiver!ExpireAssembly
  BY <1>3, <1>4, <1>7, IdleAssemblyIdles DEF Receiver!ExpireAssembly, Receiver!Return, ReceiverIdles
<1>8. CASE Receiver!IsConfigValid(rConfig) /\ Receiver!Dispatch(f)
  <2>1. CASE f.type = "SF"
    <3>1. f.len = Len(f.data)
      <4>1. f.len = End(f) /\ Begin(f) = 0
        BY <1>2, <2>1 DEF IsPiece
      <4> QED
        BY <1>2, <4>1, PieceFacts
    <3>2. Receiver!HandleSingleFrame(f)
      BY <1>8, <2>1 DEF Receiver!Dispatch
    <3> QED
      BY <1>3, <1>4, <1>5, <1>8, <2>1, <3>1, <3>2, HearsSingle
  <2>2. CASE f.type = "FF"
    <3>1. Len(f.data) = FfData /\ f.len \in Nat
      <4>1. End(f) = FfData /\ Begin(f) = 0 /\ f.len = Len(messages[Msg(f)])
        BY <1>2, <2>2 DEF IsPiece
      <4> QED
        BY <1>2, <4>1, PieceFacts, Sizes
    <3>2. Receiver!HandleFirstFrame(f)
      BY <1>8, <2>2 DEF Receiver!Dispatch
    <3>3. \/ ReceiverKeeps /\ rOut' \in {<<>>, <<Receiver!FlowControl(rConfig, 2)>>}
          \/ ReceiverIdles
          \/ ReceiverOpens(f)
      BY <1>3, <1>5, <2>2, <3>1, <3>2, HearsFirst
    <3>4. now' = now /\ rTx' = rTx
      BY <1>3, <1>5, <2>2, <3>1, <3>2, HearsFirst
    <3> QED
      BY <1>4, <1>8, <2>2, <3>3, <3>4
  <2>3. CASE f.type = "CF"
    <3>1. rRx.state = "Receiving" /\ f.sn = rRx.seq => Msg(f) = Assembled /\ Begin(f) = rRx.offset
      BY <2>3, RightFrame
    <3>2. Receiver!HandleConsecutiveFrame(f)
      BY <1>8, <2>3 DEF Receiver!Dispatch
    <3> QED
      BY <1>2, <1>3, <1>4, <1>8, <2>3, <3>1, <3>2, HearsConsecutive
  <2> QED
    BY <1>5, <2>1, <2>2, <2>3
<1>9. ~Receiver!ExpireTransmission
  BY <1>3 DEF Receiver!ExpireTransmission, Receiver!TxExpired
<1> QED
  BY <1>5, <1>6, <1>7, <1>8, <1>9 DEF Receiver!OnCanFrame

(***************************************************************************)
(* What a call makes of the sender.                                        *)
(***************************************************************************)
SenderStops == sTx' = Sender!IdleTx /\ sOut' = <<>>

Waits(payload, offset, seq) ==
  /\ sTx' \in Sender!TxType /\ sTx'.state = "WaitFlowControl"
  /\ sTx'.payload = payload /\ sTx'.offset = offset /\ sTx'.seq = seq
  /\ sTx'.deadline = now + SenderConfig.flowControlTimeout

\* Consecutive frames go on from offset, `left` of them in the block.
Sends(offset, seq, size, left) ==
  /\ sTx' \in Sender!TxType /\ sTx'.state = "Sending"
  /\ sTx'.payload = sTx.payload /\ sTx'.offset = offset /\ sTx'.seq = seq
  /\ sTx'.blockSize = size /\ sTx'.blockRemaining = left

SenderAdvances ==
  LET e   == sTx.offset + Len(Sender!NextData)
      seq == (sTx.seq + 1) % SeqModulus
  IN  /\ sTx.state = "Sending"
      /\ sOut' = <<Sender!ConsecutiveFrame(sTx.seq, Sender!NextData)>>
      /\ \/ e = Len(sTx.payload) /\ sTx' = Sender!IdleTx
         \/ /\ e # Len(sTx.payload) /\ Sender!LastFrameOfBlock
            /\ Waits(sTx.payload, e, seq)
         \/ /\ e # Len(sTx.payload) /\ ~Sender!LastFrameOfBlock
            /\ Sends(e, seq, sTx.blockSize, IF sTx.blockSize = 0 THEN sTx.blockRemaining
                                            ELSE sTx.blockRemaining - 1)

\* The sender is built with a configuration.
LEMMA SenderConfigTyped ==
  /\ SenderConfig \in Sender!ConfigType
  /\ SenderConfig.flowControlTimeout \in Nat /\ SenderConfig.maxPayload \in Nat
  /\ 2 * MaxDelay < SenderConfig.flowControlTimeout
<1>1. SenderConfig \in Sender!ConfigType
  BY SenderAssumptions DEF Sender!EnvironmentAssumption
<1> QED
  BY <1>1, FlowControlIsTimely DEF Sender!ConfigType

\* A sender that sends nothing is of its type.
LEMMA IdleTxTyped == Sender!IdleTx \in Sender!TxType /\ Sender!IdleTx.state = "Idle"
<1>1. /\ 0 \in Nat /\ 1 \in Sender!SequenceNumber /\ 0 \in 0..255
      /\ <<>> \in Seq(Byte) /\ FALSE \in BOOLEAN
      /\ "Idle" \in {"Idle", "WaitFlowControl", "Sending"}
  BY NumbersWrap
<1>2. Sender!IdleTx \in Sender!TxType
  BY <1>1, Zenon DEF Sender!IdleTx, Sender!TxType
<1> QED
  BY <1>2 DEF Sender!IdleTx

\* Frames handed to the driver are sent at once.
LEMMA SenderTransmitsAtOnce ==
  ASSUME now \in Nat, NEW f, NEW status, Sender!Transmit(f, status)
  PROVE  now' = now /\ sOut' = IF status = "Ok" THEN <<f>> ELSE <<>>
BY DEF Sender!Transmit

\* The bytes the next consecutive frame carries.
LEMMA NextDataIs ==
  ASSUME SenderFits, sTx.state # "Idle", AreMessages(messages, completed)
  PROVE  LET L == Len(messages[Current])
             e == sTx.offset + Len(Sender!NextData) IN
         /\ Current \in 1 .. MaxMessages /\ Current \in Nat /\ L \in 1 .. KMaxPayload
         /\ sTx.offset \in Nat /\ e \in Nat /\ sTx.offset < e /\ e <= L
         /\ e <= sTx.offset + CfData
         /\ e = L \/ e = sTx.offset + CfData
         /\ Sender!NextData = Bytes(Current, sTx.offset, e)
         /\ Sender!NextData \in Seq(Byte)
         /\ Len(sTx.payload) = L /\ Len(Sender!NextData) = e - sTx.offset
<1> DEFINE n == Current
           L == Len(messages[n])
           o == sTx.offset
           x == Sender!Min2(o + CfData, L)
<1>1. /\ n \in 1 .. Len(messages) /\ n \in 1 .. MaxMessages /\ n \in Nat
      /\ L \in 1 .. KMaxPayload /\ messages[n] = Bytes(n, 0, L)
  <2>1. Len(messages) \in Nat /\ Len(messages) <= MaxMessages /\ completed \in Nat /\ completed < n
    BY DEF AreMessages, SenderFits, Current
  <2>2. n \in 1 .. Len(messages) /\ n \in 1 .. MaxMessages /\ n \in Nat
    BY <2>1, Sizes DEF Current
  <2> QED
    BY <2>2 DEF AreMessages
<1>2. sTx.payload = messages[n] /\ o \in Nat /\ o < L
  BY DEF SenderFits, OnBoundary
<1> HIDE DEF n, L, o
<1>3. x \in Nat /\ o < x /\ x <= L /\ x <= o + CfData /\ (x = L \/ x = o + CfData)
  BY <1>1, <1>2, Sizes DEF Sender!Min2
<1>4. Sender!NextData = SubSeq(Bytes(n, 0, L), o + 1, x)
  BY <1>1, <1>2, Zenon DEF Sender!NextData, L, o
<1> HIDE DEF x
<1>5. L \in Nat /\ L <= KMaxPayload /\ o <= x /\ x <= KMaxPayload
  BY <1>1, <1>2, <1>3, Sizes
<1>6. SubSeq(Bytes(n, 0, L), o + 1, x) = Bytes(n, o, x)
  <2> DEFINE m == o + 1
  <2>1. m = o + 1 /\ m \in Nat
    BY <1>2
  <2> HIDE DEF m
  <2>2. SubSeq(Bytes(n, 0, L), m, x) = Bytes(n, o, x)
    BY <1>1, <1>2, <1>3, <1>5, <2>1, BytesSlice
  <2> QED
    BY <2>2 DEF m
<1>7. Sender!NextData = Bytes(n, o, x)
  BY <1>4, <1>6
<1>8. Sender!NextData \in Seq(Byte) /\ Len(Sender!NextData) = x - o
  BY <1>1, <1>2, <1>3, <1>5, <1>7, BytesType
<1>9. o + Len(Sender!NextData) = x
  BY <1>2, <1>3, <1>8
<1>10. Len(sTx.payload) = L
  BY <1>2 DEF L
<1> QED
  BY <1>1, <1>2, <1>3, <1>7, <1>8, <1>9, <1>10 DEF n, L, o

\* poll gives up, sends one frame, or does nothing at all.
LEMMA SenderPollEffect ==
  ASSUME IInv, Sender!Poll
  PROVE  /\ now' = now /\ sRx' = sRx /\ sConfig' = sConfig
         /\ \/ sTx' = sTx /\ sOut' = <<>>
            \/ SenderStops /\ sTx.state = "WaitFlowControl" /\ now >= sTx.deadline
            \/ SenderStops /\ sTx.state = "Sending"
            \/ SenderAdvances
<1>0. /\ SenderFits /\ now \in Nat /\ sTx \in Sender!TxType /\ sConfig = SenderConfig
      /\ sRx.state = "Idle" /\ sConfig' = sConfig /\ AreMessages(messages, completed)
  BY DEF IInv, SenderFits, TimesFit, Sender!InitRx, Sender!Poll
<1>1. ~Sender!ExpireAssembly
  BY <1>0 DEF Sender!ExpireAssembly, Sender!RxExpired
<1>2. CASE Sender!PollUnconfigured \/ Sender!PollNothingDue
  BY <1>0, <1>2 DEF Sender!PollUnconfigured, Sender!PollNothingDue, Sender!Return
<1>3. CASE Sender!ExpireTransmission
  BY <1>0, <1>3 DEF Sender!ExpireTransmission, Sender!TxExpired, Sender!Return, SenderStops
<1>4. ASSUME NEW status \in SendResult, Sender!DueConsecutiveFrame, Sender!SendNextConsecutiveFrame(status)
      PROVE  /\ now' = now /\ sRx' = sRx
             /\ \/ sTx' = sTx /\ sOut' = <<>>
                \/ SenderStops /\ sTx.state = "Sending"
                \/ SenderAdvances
  <2>1. sTx.state = "Sending"
    BY <1>4 DEF Sender!DueConsecutiveFrame
  <2>2. /\ now' = now
        /\ sOut' = IF status = "Ok" THEN <<Sender!ConsecutiveFrame(sTx.seq, Sender!NextData)>> ELSE <<>>
        /\ sRx' = sRx
    BY <1>0, <1>4, SenderTransmitsAtOnce DEF Sender!SendNextConsecutiveFrame
  <2>3. CASE status = "TxBusy" /\ UNCHANGED sTx
    BY <2>2, <2>3
  <2>4. CASE status \notin {"Ok", "TxBusy"} /\ sTx' = Sender!IdleTx
    BY <2>1, <2>2, <2>4 DEF SenderStops
  <2>5. CASE status = "Ok"
    <3> DEFINE sent == Sender!AcceptedCf(now')
               e == sTx.offset + Len(Sender!NextData)
               seq == (sTx.seq + 1) % SeqModulus
    <3>1. e \in Nat
      BY <1>0, <2>1, NextDataIs
    <3>2. seq \in Sender!SequenceNumber
      <4>1. sTx.seq \in Sender!SequenceNumber
        BY <1>0 DEF Sender!TxType
      <4> QED
        BY <4>1, NumbersWrap
    <3>3. sent = [sTx EXCEPT !.offset = e, !.seq = seq, !.lastCf = now, !.hasLastCf = TRUE]
      BY <2>2 DEF Sender!AcceptedCf, Sender!NextSeq
    <3> HIDE DEF sent, e, seq
    <3>4. sent \in Sender!TxType
      BY <1>0, <3>1, <3>2, <3>3, ZenonT(40) DEF Sender!TxType
    <3>5. /\ sent.state = "Sending" /\ sent.payload = sTx.payload /\ sent.offset = e /\ sent.seq = seq
          /\ sent.blockSize = sTx.blockSize /\ sent.blockRemaining = sTx.blockRemaining
      BY <1>0, <2>1, <3>3 DEF Sender!TxType
    <3>6. Sender!WholePayloadSent(sent) <=> e = Len(sTx.payload)
      BY <3>5 DEF Sender!WholePayloadSent
    <3> DEFINE last == [sent EXCEPT !.blockRemaining = 0, !.state = "WaitFlowControl",
                                    !.deadline = now + SenderConfig.flowControlTimeout]
               left == IF sTx.blockSize = 0 THEN sTx.blockRemaining ELSE (sTx.blockRemaining - 1) % 256
               more == [sent EXCEPT !.blockRemaining = left, !.nextSend = now + sTx.separation]
    <3>7. \/ Sender!WholePayloadSent(sent) /\ sTx' = Sender!IdleTx
          \/ /\ ~Sender!WholePayloadSent(sent)
             /\ sTx' = IF Sender!LastFrameOfBlock THEN last ELSE more
      <4>1. \/ Sender!WholePayloadSent(sent) /\ sTx' = Sender!IdleTx
            \/ /\ ~Sender!WholePayloadSent(sent)
               /\ sTx' = IF Sender!LastFrameOfBlock
                         THEN [sent EXCEPT !.blockRemaining = 0, !.state = "WaitFlowControl",
                                 !.deadline = now' + sConfig.flowControlTimeout]
                         ELSE [sent EXCEPT
                                 !.blockRemaining = IF sTx.blockSize = 0 THEN @ ELSE (@ - 1) % 256,
                                 !.nextSend = now' + sTx.separation]
        BY <1>4, <2>5, Zenon DEF Sender!SendNextConsecutiveFrame, sent
      <4> QED
        BY <1>0, <2>2, <3>5, <4>1
    <3>8. CASE Sender!WholePayloadSent(sent) /\ sTx' = Sender!IdleTx
      BY <2>1, <2>2, <2>5, <3>6, <3>8 DEF SenderAdvances, e
    <3>9. CASE ~Sender!WholePayloadSent(sent) /\ Sender!LastFrameOfBlock /\ sTx' = last
      <4>1. now + SenderConfig.flowControlTimeout \in Nat /\ 0 \in 0..255
        BY <1>0, SenderConfigTyped
      <4>2. last \in Sender!TxType
        BY <3>4, <4>1, ZenonT(40) DEF Sender!TxType
      <4>3. /\ last.state = "WaitFlowControl" /\ last.payload = sTx.payload /\ last.offset = e
            /\ last.seq = seq /\ last.deadline = now + SenderConfig.flowControlTimeout
        BY <3>4, <3>5 DEF Sender!TxType
      <4> HIDE DEF last
      <4>4. Waits(sTx.payload, e, seq)
        BY <3>9, <4>2, <4>3 DEF Waits
      <4> QED
        BY <2>1, <2>2, <2>5, <3>6, <3>9, <4>4 DEF SenderAdvances, e, seq
    <3>10. CASE ~Sender!WholePayloadSent(sent) /\ ~Sender!LastFrameOfBlock /\ sTx' = more
      <4>0. sTx.blockSize \in 0 .. 255 /\ sTx.blockRemaining \in 0 .. 255 /\ sTx.separation \in Nat
        BY <1>0 DEF Sender!TxType
      <4>1. left \in 0 .. 255 /\ now + sTx.separation \in Nat
        BY <1>0, <4>0
      <4>2. left = IF sTx.blockSize = 0 THEN sTx.blockRemaining ELSE sTx.blockRemaining - 1
        <5>0. BS \in 0 .. 255
          BY ReceiverConfigTyped DEF IInv
        <5>1. sTx.blockSize # 0 => sTx.blockRemaining \in 1 .. 255
          <6>1. sTx.blockSize # 0 => sTx.blockRemaining \in 1 .. BS
            BY <1>0, <2>1, Zenon DEF SenderFits
          <6> QED
            BY <5>0, <6>1
        <5> QED
          BY <4>0, <5>1
      <4> HIDE DEF left
      <4>3. more \in Sender!TxType
        BY <3>4, <4>1, ZenonT(40) DEF Sender!TxType
      <4>4. /\ more.state = "Sending" /\ more.payload = sTx.payload /\ more.offset = e
            /\ more.seq = seq /\ more.blockSize = sTx.blockSize /\ more.blockRemaining = left
        BY <3>4, <3>5 DEF Sender!TxType
      <4> HIDE DEF more
      <4>5. Sends(e, seq, sTx.blockSize, left)
        BY <3>10, <4>3, <4>4 DEF Sends
      <4> QED
        BY <2>1, <2>2, <2>5, <3>6, <3>10, <4>2, <4>5 DEF SenderAdvances, e, seq
    <3> QED
      BY <2>2, <3>7, <3>8, <3>9, <3>10
  <2> QED
    BY <1>4, <2>3, <2>4, <2>5 DEF Sender!SendNextConsecutiveFrame
<1> QED
  BY <1>0, <1>1, <1>2, <1>3, <1>4 DEF Sender!Poll

\* Flow control either starts the next block or ends the transmission.
LEMMA SenderHearsEffect ==
  ASSUME IInv, NEW f, IsAnswer(f), sTx.state = "WaitFlowControl", now < sTx.deadline,
         Sender!OnCanFrame(f)
  PROVE  /\ now' = now /\ sRx' = sRx /\ sConfig' = sConfig /\ sOut' = <<>>
         /\ \/ SenderStops
            \/ f.flowStatus = 0 /\ Sends(sTx.offset, sTx.seq, BS, BS)
<1>0. /\ SenderFits /\ now \in Nat /\ sTx \in Sender!TxType /\ sConfig = SenderConfig
      /\ sRx.state = "Idle" /\ sConfig' = sConfig /\ Sender!IsConfigValid(sConfig)
  BY DEF IInv, SenderFits, TimesFit, Sender!InitRx, Sender!OnCanFrame
<1>1. /\ f.type = "FC" /\ ~f.short /\ f.flowStatus \in {0, 2} /\ f.blockSize = BS
      /\ f.stMin = rConfig.rxStMin
  BY DEF IsAnswer, Receiver!FlowControl, BS
<1>2. ~Sender!ExpireAssembly /\ ~Sender!ExpireTransmission
  <2>1. sTx.deadline \in Nat
    BY <1>0 DEF Sender!TxType
  <2> QED
    BY <1>0, <2>1 DEF Sender!ExpireAssembly, Sender!ExpireTransmission, Sender!RxExpired, Sender!TxExpired
<1>3. Sender!HandleFlowControl(f)
  BY <1>0, <1>1, <1>2 DEF Sender!OnCanFrame, Sender!Dispatch
<1>4. sRx' = sRx /\ (Sender!ContinueToSend(f) \/ (sTx' = Sender!IdleTx /\ now' = now /\ sOut' = <<>>))
      /\ (Sender!ContinueToSend(f) => f.flowStatus = 0 \/ (sTx' = Sender!IdleTx /\ now' = now /\ sOut' = <<>>))
  BY <1>1, <1>3 DEF Sender!HandleFlowControl, Sender!AbortTransmission, Sender!Return, Sender!WaitForPeer
<1>5. CASE f.flowStatus = 0 /\ Sender!ContinueToSend(f)
  <2> DEFINE separation == Sender!DecodeStMinMs(f.stMin)
             due == Sender!FirstDue(separation)
  <2>1. separation \in Nat
    <3>1. f.stMin \in 0 .. 255
      BY <1>1, ReceiverConfigTyped DEF IInv
    <3> QED
      BY <3>1 DEF Sender!DecodeStMinMs
  <2>2. due \in Nat
    <3>1. sTx.lastCf \in Nat
      BY <1>0 DEF Sender!TxType
    <3> QED
      BY <1>0, <2>1, <3>1 DEF Sender!FirstDue, Sender!Max2
  <2>3. BS \in 0 .. 255
    BY ReceiverConfigTyped DEF IInv
  <2>4. /\ sTx' = [sTx EXCEPT !.blockSize = BS, !.blockRemaining = BS, !.separation = separation,
                              !.state = "Sending", !.nextSend = due]
        /\ now' = now /\ sOut' = <<>>
    BY <1>1, <1>5 DEF Sender!ContinueToSend, Sender!Return
  <2> HIDE DEF separation, due
  <2>5. sTx' \in Sender!TxType
    BY <1>0, <2>1, <2>2, <2>3, <2>4, ZenonT(40) DEF Sender!TxType
  <2>6. /\ sTx'.state = "Sending" /\ sTx'.payload = sTx.payload /\ sTx'.offset = sTx.offset
        /\ sTx'.seq = sTx.seq /\ sTx'.blockSize = BS /\ sTx'.blockRemaining = BS
    BY <1>0, <2>4 DEF Sender!TxType
  <2> QED
    BY <1>0, <1>4, <1>5, <2>4, <2>5, <2>6 DEF Sends
<1> QED
  BY <1>0, <1>4, <1>5 DEF SenderStops

\* A payload is the bytes of the next message.
LEMMA PayloadIs ==
  ASSUME Len(messages) + 1 \in 1 .. MaxMessages, NEW p \in Payloads, Len(p) <= KMaxPayload
  PROVE  /\ Len(p) \in Nat /\ p = Bytes(Len(messages) + 1, 0, Len(p)) /\ p \in Seq(Byte)
<1> DEFINE m == Len(messages) + 1
<1>1. PICK n \in Lengths : p = [i \in 1 .. n |-> <<m, i>>]
  BY DEF Payloads
<1>2. n \in Nat /\ n - 0 = n /\ 0 \in Nat /\ 0 <= n /\ m \in 1 .. MaxMessages
  BY LinkAssumption
<1> HIDE DEF m
<1>3. Len(p) = n
  BY <1>1, <1>2
<1>4. p = Bytes(m, 0, n)
  <2>1. \A i \in 1 .. n : 0 + i = i
    BY <1>2
  <2>2. [i \in 1 .. n |-> <<m, i>>] = [i \in 1 .. n |-> <<m, 0 + i>>]
    BY <2>1
  <2> QED
    BY <1>1, <1>2, <2>2 DEF Bytes
<1>5. p \in Seq(Byte)
  BY <1>2, <1>3, <1>4, BytesType
<1> QED
  BY <1>2, <1>3, <1>4, <1>5 DEF m

\* startSend refuses, sends the only frame of a message, or the first one and then waits.
LEMMA SendEffect ==
  ASSUME IInv, Len(messages) + 1 \in 1 .. MaxMessages, NEW p \in Payloads, Sender!StartSend(p)
  PROVE  /\ now' = now /\ sRx' = sRx /\ sConfig' = sConfig
         /\ \/ /\ sTx' = sTx \/ (sTx.state = "Idle" /\ sTx' = Sender!IdleTx)
               /\ sOut' = <<>> /\ sRet' \notin {"Complete", "InProgress"}
            \/ /\ sTx.state = "Idle" /\ sRet' \in {"Complete", "InProgress"}
               /\ p \in Seq(Byte) /\ p = Bytes(Len(messages) + 1, 0, Len(p))
               /\ Len(p) \in 1 .. KMaxPayload
               /\ \/ Len(p) <= CfData /\ sTx' = sTx /\ sOut' = <<Sender!SingleFrame(p)>>
                  \/ /\ Len(p) > CfData /\ sOut' = <<Sender!FirstFrame(p)>>
                     /\ Sender!IsConfigValid(SenderConfig)
                     /\ Waits(p, FfData, 1)
<1>0. /\ SenderFits /\ now \in Nat /\ sTx \in Sender!TxType /\ sConfig = SenderConfig
      /\ sConfig' = sConfig /\ sRx' = sRx
  BY DEF IInv, SenderFits, TimesFit, Sender!StartSend
<1>1. CASE Sender!RejectSend(p) \/ Sender!RefuseSend(p)
  BY <1>0, <1>1 DEF Sender!RejectSend, Sender!RefuseSend, Sender!Return
<1>2. CASE Sender!Sendable(p) /\ \E status \in SendResult :
              Sender!SendSingleFrame(p, status) \/ Sender!SendFirstFrame(p, status)
  <2>1. Sender!IsConfigValid(SenderConfig) /\ Len(p) \in 1 .. SenderConfig.maxPayload
    BY <1>0, <1>2 DEF Sender!Sendable
  <2>2. Len(p) \in 1 .. KMaxPayload /\ Len(p) <= KMaxPayload /\ Len(p) \in Nat
    BY <2>1, SenderConfigTyped, Sizes DEF Sender!IsConfigValid
  <2>3. p \in Seq(Byte) /\ p = Bytes(Len(messages) + 1, 0, Len(p))
    BY <2>2, PayloadIs
  <2>4. PICK status \in SendResult : Sender!SendSingleFrame(p, status) \/ Sender!SendFirstFrame(p, status)
    BY <1>2
  <2>5. sTx.state = "Idle"
    BY <2>4 DEF Sender!SendSingleFrame, Sender!SendFirstFrame
  <2>6. CASE Sender!SendSingleFrame(p, status)
    <3>1. /\ now' = now /\ sOut' = IF status = "Ok" THEN <<Sender!SingleFrame(p)>> ELSE <<>>
          /\ sTx' = sTx /\ Len(p) <= CfData /\ sRet' = Sender!MapCanStatus[status]
      BY <1>0, <2>6, SenderTransmitsAtOnce, Sizes DEF Sender!SendSingleFrame
    <3>2. CASE status = "Ok"
      BY <1>0, <2>2, <2>3, <2>5, <3>1, <3>2, DriverStatus
    <3>3. CASE status # "Ok"
      BY <1>0, <3>1, <3>3, DriverStatus
    <3> QED
      BY <3>2, <3>3
  <2>7. CASE Sender!SendFirstFrame(p, status)
    <3>1. /\ now' = now /\ sOut' = IF status = "Ok" THEN <<Sender!FirstFrame(p)>> ELSE <<>>
          /\ Len(p) > CfData
      BY <1>0, <2>7, SenderTransmitsAtOnce, Sizes DEF Sender!SendFirstFrame
    <3>2. CASE status # "Ok"
      BY <1>0, <2>5, <2>7, <3>1, <3>2, DriverStatus DEF Sender!SendFirstFrame
    <3>3. CASE status = "Ok"
      <4> DEFINE d == now + SenderConfig.flowControlTimeout
                 waiting == [Sender!IdleTx EXCEPT !.state = "WaitFlowControl", !.payload = p,
                                                  !.offset = Sender!FfData, !.deadline = d]
      <4>1. d \in Nat /\ Sender!FfData \in Nat /\ Sender!FfData = FfData
        BY <1>0, SenderConfigTyped, Sizes
      <4>2. sRet' = "InProgress" /\ sTx' = waiting
        BY <1>0, <2>7, <3>1, <3>3 DEF Sender!SendFirstFrame
      <4> HIDE DEF d
      <4>3. waiting \in Sender!TxType
        BY <2>3, <4>1, IdleTxTyped, ZenonT(40) DEF Sender!TxType
      <4>4. /\ waiting.state = "WaitFlowControl" /\ waiting.payload = p /\ waiting.offset = FfData
            /\ waiting.seq = 1 /\ waiting.deadline = d
        BY <4>1 DEF Sender!IdleTx
      <4> HIDE DEF waiting
      <4>5. Waits(p, FfData, 1)
        BY <4>2, <4>3, <4>4 DEF Waits, d
      <4> QED
        BY <1>0, <2>1, <2>2, <2>3, <2>5, <3>1, <3>3, <4>2, <4>5
    <3> QED
      BY <3>2, <3>3
  <2> QED
    BY <2>4, <2>6, <2>7
<1> QED
  BY <1>1, <1>2 DEF Sender!StartSend

(***************************************************************************)
(* The inductive invariant holds at first.                                 *)
(***************************************************************************)

\* Both endpoints start idle, with nothing on the wire.
LEMMA InitFits == Init => IInv
<1> SUFFICES ASSUME Init PROVE IInv
  OBVIOUS
<1>1. /\ sConfig = SenderConfig /\ sRx = Sender!InitRx /\ sTx = Sender!IdleTx
      /\ rConfig \in ReceiverConfig /\ rRx = Receiver!InitRx /\ rTx = Receiver!IdleTx
      /\ now = 0 /\ toReceiver = <<>> /\ toSender = <<>> /\ lost = 0
      /\ messages = <<>> /\ completed = 0
  BY DEF Init, Sender!Init, Receiver!Init
<1>2. Len(<<>>) = 0 /\ \A i \in 1 .. 0 : FALSE
  OBVIOUS
<1>3. AreMessages(messages, completed)
  <2>1. <<>> \in Seq(Seq(Byte)) /\ 0 <= MaxMessages
    BY Sizes
  <2> QED
    BY <1>1, <1>2, <2>1 DEF AreMessages
<1>4. AreInOrder(toReceiver, messages, completed)
  BY <1>1, <1>2 DEF AreInOrder
<1>5. SenderFits
  BY <1>1, IdleTxTyped DEF SenderFits
<1>6. ReceiverFits
  <2>1. rRx \in Receiver!RxType /\ rRx.state = "Idle"
    BY <1>1, NumbersWrap DEF Receiver!InitRx, Receiver!RxType
  <2> QED
    BY <1>1, <2>1 DEF ReceiverFits
<1>7. AssemblyFits
  BY <1>1 DEF AssemblyFits, Receiver!InitRx
<1>8. WireMeetsSender
  BY <1>1, <1>2 DEF WireMeetsSender
<1>9. TimesFit
  BY <1>1, <1>2, Sizes, IdleTxTyped DEF TimesFit
<1>10. FlowControlFits
  BY <1>1 DEF FlowControlFits
<1> QED
  BY <1>3, <1>4, <1>5, <1>6, <1>7, <1>8, <1>9, <1>10 DEF IInv

(***************************************************************************)
(* Time passes, frames are lost.                                           *)
(***************************************************************************)

\* Time stops at the latest moment a frame may still be on the wire.
LEMMA TickKeeps == IInv /\ Tick => IInv'
<1> SUFFICES ASSUME IInv, Tick PROVE IInv'
  OBVIOUS
<1>1. /\ UNCHANGED <<sConfig, sRx, sTx, rConfig, rRx, rTx, toReceiver, toSender, lost, messages, completed>>
      /\ now' = now + 1
      /\ \A i \in 1 .. Len(toReceiver) : now < toReceiver[i].due
      /\ \A i \in 1 .. Len(toSender) : now < toSender[i].due
  <2>1. toReceiver \in Seq(Flight) /\ toSender \in Seq(Flight)
    BY DEF IInv, TimesFit
  <2> QED
    BY <2>1 DEF Tick, senderVars, receiverVars, wireVars
<1>2. TimesFit'
  <2>1. /\ toReceiver \in Seq(Flight) /\ toSender \in Seq(Flight)
        /\ now \in Nat /\ lost \in 0 .. MaxLost
        /\ \A i \in 1 .. Len(toReceiver) : toReceiver[i].due \in now .. now + MaxDelay
        /\ \A i \in 1 .. Len(toSender) : now <= toSender[i].due
        /\ sTx.state = "WaitFlowControl" =>
             \A i \in 1 .. Len(toReceiver) :
               toReceiver[i].due + SenderConfig.flowControlTimeout <= sTx.deadline + MaxDelay
    BY DEF IInv, TimesFit
  <2>2. \A i \in 1 .. Len(toReceiver) : toReceiver[i].due \in now + 1 .. now + 1 + MaxDelay
    BY <1>1, <2>1, Sizes
  <2>3. \A i \in 1 .. Len(toSender) : toSender[i].due \in Nat
    <3>1. \A i \in 1 .. Len(toSender) : toSender[i] \in Flight
      BY <2>1
    <3> QED
      BY <3>1, Zenon DEF Flight
  <2>4. \A i \in 1 .. Len(toSender) : now + 1 <= toSender[i].due
    BY <1>1, <2>1, <2>3
  <2> QED
    BY <1>1, <2>1, <2>2, <2>4 DEF TimesFit
<1>3. /\ AreMessages(messages, completed)' /\ AreInOrder(toReceiver, messages, completed)'
  BY <1>1 DEF IInv
<1>4. SenderFits' /\ ReceiverFits'
  BY <1>1 DEF IInv, SenderFits, ReceiverFits, BS, Current, Assembled
<1>5. AssemblyFits' /\ WireMeetsSender'
  BY <1>1 DEF IInv, AssemblyFits, WireMeetsSender, BS, Current, Assembled, Gap
<1>6. FlowControlFits'
  BY <1>1 DEF IInv, FlowControlFits, IsAnswer, Current, Assembled
<1> QED
  BY <1>2, <1>3, <1>4, <1>5, <1>6 DEF IInv

\* The frames behind the first on the wire.
LEMMA HeadGone ==
  ASSUME IInv, toReceiver # <<>>, toReceiver' = Tail(toReceiver), now' = now,
         UNCHANGED <<sTx, messages, rConfig>>, NEW f, f = toReceiver[1].frame
  PROVE  /\ AreInOrder(toReceiver', messages, completed)
         /\ WireMeetsSender'
         /\ toReceiver' \in Seq(Flight)
         /\ \A i \in 1 .. Len(toReceiver') : toReceiver'[i].due \in now .. now + MaxDelay
         /\ sTx.state = "WaitFlowControl" =>
              \A i \in 1 .. Len(toReceiver') :
                toReceiver'[i].due + SenderConfig.flowControlTimeout <= sTx.deadline + MaxDelay
         /\ IsPiece(f, messages, completed)
         /\ \A i \in 1 .. Len(toReceiver') :
              /\ IsPiece(toReceiver'[i].frame, messages, completed)
              /\ Follows(f, toReceiver'[i].frame)
              /\ \E j \in 1 .. Len(toReceiver) : toReceiver'[i] = toReceiver[j]
         /\ toReceiver' # <<>> =>
              /\ Len(toReceiver') \in Nat \ {0} /\ 1 \in 1 .. Len(toReceiver')
              /\ Adjoins(f, toReceiver'[1].frame)
              /\ sTx.state # "Idle" => Msg(toReceiver'[Len(toReceiver')].frame) = Current
         /\ toReceiver' = <<>> /\ sTx.state # "Idle" => Msg(f) = Current /\ End(f) = sTx.offset
         /\ Asks(f, messages, BS) => toReceiver' = <<>> /\ sTx.state = "WaitFlowControl"
         /\ 1 \in 1 .. Len(toReceiver)
<1> DEFINE w == toReceiver
           v == toReceiver'
<1>1. /\ v \in Seq(Flight) /\ Len(v) = Len(w) - 1 /\ Len(w) \in Nat \ {0}
      /\ \A i \in 1 .. Len(v) : i + 1 \in 1 .. Len(w) /\ v[i] = w[i + 1]
      /\ AreInOrder(v, messages, completed)
  BY TailInOrder DEF IInv, TimesFit
<1>2. /\ \A i \in 1 .. Len(w) : w[i].due \in now .. now + MaxDelay
      /\ sTx.state = "WaitFlowControl" =>
           \A i \in 1 .. Len(w) :
             w[i].due + SenderConfig.flowControlTimeout <= sTx.deadline + MaxDelay
  BY DEF IInv, TimesFit
<1>3. /\ \A i \in 1 .. Len(w) : IsPiece(w[i].frame, messages, completed)
      /\ \A i, j \in 1 .. Len(w) : i < j => Follows(w[i].frame, w[j].frame)
      /\ \A i, j \in 1 .. Len(w) : j = i + 1 => Adjoins(w[i].frame, w[j].frame)
  BY DEF IInv, AreInOrder
<1>4. /\ sTx.state # "Idle" => Msg(w[Len(w)].frame) = Current /\ End(w[Len(w)].frame) = sTx.offset
      /\ sTx.state = "Sending" => \A i \in 1 .. Len(w) : w[i].frame.type = "CF"
      /\ \A i \in 1 .. Len(w) :
           Asks(w[i].frame, messages, BS) => i = Len(w) /\ sTx.state = "WaitFlowControl"
  BY DEF IInv, WireMeetsSender
<1>5. v = <<>> <=> Len(v) = 0
  BY <1>1, EmptySeq
<1>6. 1 \in 1 .. Len(w) /\ Len(v) \in Nat /\ (v # <<>> => Len(v) \in 1 .. Len(v) /\ 1 \in 1 .. Len(v))
  BY <1>1, <1>5
<1>7. BS' = BS /\ Current' = Current /\ messages' = messages /\ sTx' = sTx
  BY DEF BS, Current
<1> HIDE DEF v, w
<1>8. \A i \in 1 .. Len(v) : v[i].due \in now .. now + MaxDelay
  BY <1>1, <1>2, Zenon
<1>9. sTx.state = "WaitFlowControl" =>
        \A i \in 1 .. Len(v) :
          v[i].due + SenderConfig.flowControlTimeout <= sTx.deadline + MaxDelay
  BY <1>1, <1>2, Zenon
<1>10. \A i \in 1 .. Len(v) :
         /\ IsPiece(v[i].frame, messages, completed)
         /\ Follows(w[1].frame, v[i].frame)
         /\ \E j \in 1 .. Len(w) : v[i] = w[j]
  <2> TAKE i \in 1 .. Len(v)
  <2>1. i + 1 \in 1 .. Len(w) /\ v[i] = w[i + 1] /\ 1 < i + 1
    BY <1>1
  <2> QED
    BY <1>3, <1>6, <2>1, Zenon
<1>11. v # <<>> => Adjoins(w[1].frame, v[1].frame)
  <2>1. v # <<>> => 1 + 1 \in 1 .. Len(w) /\ v[1] = w[1 + 1]
    BY <1>1, <1>6
  <2>2. 1 + 1 = 1 + 1
    OBVIOUS
  <2> QED
    BY <1>3, <1>6, <2>1, <2>2, Zenon
<1>12. v # <<>> => v[Len(v)] = w[Len(w)]
  <2>1. v # <<>> => v[Len(v)] = w[Len(v) + 1] /\ Len(v) + 1 = Len(w)
    BY <1>1, <1>6
  <2> QED
    BY <2>1
<1>13. v = <<>> => Len(w) = 1
  BY <1>1, <1>5
<1>14. Asks(w[1].frame, messages, BS) => v = <<>> /\ sTx.state = "WaitFlowControl"
  <2>1. Len(w) = 1 => v = <<>>
    BY <1>1, <1>5
  <2> QED
    BY <1>4, <1>6, <2>1, Zenon
<1>15. \A i \in 1 .. Len(v) :
         Asks(v[i].frame, messages, BS) => i = Len(v) /\ sTx.state = "WaitFlowControl"
  <2> SUFFICES ASSUME NEW i \in 1 .. Len(v), Asks(v[i].frame, messages, BS)
               PROVE  i = Len(v) /\ sTx.state = "WaitFlowControl"
    OBVIOUS
  <2>1. i + 1 \in 1 .. Len(w) /\ v[i] = w[i + 1]
    BY <1>1
  <2>2. i + 1 = Len(w) /\ sTx.state = "WaitFlowControl"
    BY <1>4, <2>1, Zenon
  <2> QED
    BY <1>1, <2>2
<1>16. sTx.state = "Sending" => \A i \in 1 .. Len(v) : v[i].frame.type = "CF"
  BY <1>1, <1>4, Zenon
<1>17. WireMeetsSender'
  BY <1>4, <1>7, <1>12, <1>15, <1>16, Zenon DEF WireMeetsSender, v
<1>18. f = w[1].frame
  BY DEF w
<1>19. /\ IsPiece(f, messages, completed)
       /\ \A i \in 1 .. Len(v) :
            /\ IsPiece(v[i].frame, messages, completed)
            /\ Follows(f, v[i].frame)
            /\ \E j \in 1 .. Len(w) : v[i] = w[j]
       /\ v # <<>> =>
            /\ Len(v) \in Nat \ {0} /\ 1 \in 1 .. Len(v)
            /\ Adjoins(f, v[1].frame)
            /\ sTx.state # "Idle" => Msg(v[Len(v)].frame) = Current
  <2>1. IsPiece(f, messages, completed)
    BY <1>3, <1>6, <1>18
  <2>2. \A i \in 1 .. Len(v) :
            /\ IsPiece(v[i].frame, messages, completed)
            /\ Follows(f, v[i].frame)
            /\ \E j \in 1 .. Len(w) : v[i] = w[j]
    BY <1>10, <1>18
  <2>3. v # <<>> => Len(v) \in Nat \ {0}
    BY <1>5, <1>6
  <2>4. v # <<>> =>
            /\ 1 \in 1 .. Len(v)
            /\ Adjoins(f, v[1].frame)
            /\ sTx.state # "Idle" => Msg(v[Len(v)].frame) = Current
    BY <1>4, <1>6, <1>11, <1>12, <1>18
  <2> QED
    BY <2>1, <2>2, <2>3, <2>4
<1>20. v = <<>> /\ sTx.state # "Idle" => Msg(f) = Current /\ End(f) = sTx.offset
  BY <1>4, <1>13, <1>18
<1>21. Asks(f, messages, BS) => v = <<>> /\ sTx.state = "WaitFlowControl"
  BY <1>14, <1>18
<1> QED
  BY <1>1, <1>6, <1>8, <1>9, <1>17, <1>19, <1>20, <1>21 DEF v, w

\* A consecutive frame that is not the last of its message ends where another one begins.
LEMMA EndIsBoundary ==
  ASSUME NEW ms, NEW done, NEW f, IsPiece(f, ms, done), f.type = "CF", End(f) # Len(ms[Msg(f)])
  PROVE  /\ End(f) = Begin(f) + CfData /\ OnBoundary(Begin(f))
         /\ OnBoundary(End(f)) /\ Index(End(f)) = Index(Begin(f)) + 1 /\ Index(Begin(f)) \in Nat
<1>1. OnBoundary(Begin(f)) /\ End(f) = Begin(f) + CfData
  BY DEF IsPiece
<1> QED
  BY <1>1, NextBoundary

\* Where the consecutive frame at the head of the wire ends, the next one begins.
LEMMA HeadEnds ==
  ASSUME IInv, toReceiver # <<>>, toReceiver' = Tail(toReceiver), now' = now,
         UNCHANGED <<sTx, messages, rConfig>>, NEW f, f = toReceiver[1].frame, f.type = "CF"
  PROVE  /\ toReceiver' # <<>> /\ Msg(toReceiver'[1].frame) = Msg(f) =>
              Begin(toReceiver'[1].frame) = End(f) /\ End(f) # Len(messages[Msg(f)])
         /\ toReceiver' = <<>> /\ sTx.state # "Idle" =>
              Msg(f) = Current /\ sTx.offset = End(f) /\ End(f) # Len(messages[Msg(f)])
<1>1. ASSUME toReceiver' # <<>>, Msg(toReceiver'[1].frame) = Msg(f)
      PROVE  Begin(toReceiver'[1].frame) = End(f) /\ End(f) # Len(messages[Msg(f)])
  <2> DEFINE g == toReceiver'[1].frame
  <2>1. Adjoins(f, g) /\ IsPiece(g, messages, completed)
    BY <1>1, HeadGone
  <2> HIDE DEF g
  <2>2. Begin(g) = End(f)
    BY <1>1, <2>1 DEF Adjoins, g
  <2>3. Begin(g) < End(g) /\ End(g) <= Len(messages[Msg(g)]) /\ Begin(g) \in Nat /\ End(g) \in Nat
    BY <2>1 DEF IsPiece
  <2>4. Msg(g) = Msg(f)
    BY <1>1 DEF g
  <2>5. Len(messages[Msg(g)]) \in Nat
    BY <2>1, PieceFacts DEF IInv
  <2>6. End(f) # Len(messages[Msg(f)])
    BY <2>2, <2>3, <2>4, <2>5
  <2> QED
    BY <2>2, <2>6 DEF g
<1>2. ASSUME toReceiver' = <<>>, sTx.state # "Idle"
      PROVE  Msg(f) = Current /\ sTx.offset = End(f) /\ End(f) # Len(messages[Msg(f)])
  <2>1. Msg(f) = Current /\ End(f) = sTx.offset
    BY <1>2, HeadGone
  <2>2. sTx.payload = messages[Current] /\ sTx.offset < Len(sTx.payload) /\ sTx.offset \in Nat
    BY <1>2 DEF IInv, SenderFits, OnBoundary
  <2>3. Len(messages[Msg(f)]) \in Nat
    <3>1. IsPiece(f, messages, completed)
      BY HeadGone
    <3> QED
      BY <3>1, PieceFacts DEF IInv
  <2> QED
    BY <2>1, <2>2, <2>3
<1> QED
  BY <1>1, <1>2

\* The gap after the step.
GapThen(o) == OnBoundary(o) /\ Index(o) - Index(rRx'.offset) \in 0 .. lost'

\* Unless the assembly lost a frame of its message, it is not farther from the next one.
LEMMA AssemblyOfTail ==
  ASSUME IInv, toReceiver # <<>>, toReceiver' = Tail(toReceiver), now' = now,
         UNCHANGED <<sTx, messages, rConfig, rRx>>, NEW f, f = toReceiver[1].frame,
         rRx.state = "Receiving" /\ f.type = "CF" => lost' = lost + 1
  PROVE  AssemblyFits'
<1> SUFFICES ASSUME rRx.state = "Receiving"
             PROVE  AssemblyFits'
  BY DEF AssemblyFits
<1>0. Assembled' = Assembled /\ Current' = Current
  BY DEF Assembled, Current
<1>1. /\ \A i \in 1 .. Len(toReceiver) :
           /\ Msg(toReceiver[i].frame) >= Assembled
           /\ toReceiver[i].frame.type = "CF" <=> Msg(toReceiver[i].frame) = Assembled
      /\ sTx.state = "Sending" => Current = Assembled
      /\ Msg(f) = Assembled => Gap(Begin(f))
  BY DEF IInv, AssemblyFits
<1>2. lost \in Nat /\ OnBoundary(rRx.offset) /\ Index(rRx.offset) \in Nat
  BY Sizes DEF IInv, TimesFit, ReceiverFits, OnBoundary
<1>3. 1 \in 1 .. Len(toReceiver) /\ (f.type = "CF" <=> Msg(f) = Assembled)
  BY <1>1, HeadGone
<1>4. IsPiece(f, messages, completed)
  BY HeadGone
<1>5. ASSUME Msg(f) = Assembled, End(f) # Len(messages[Msg(f)])
      PROVE  GapThen(End(f))
  <2>1. OnBoundary(End(f)) /\ Index(End(f)) = Index(Begin(f)) + 1 /\ Index(Begin(f)) \in Nat
    BY <1>3, <1>4, <1>5, EndIsBoundary
  <2>2. Index(Begin(f)) - Index(rRx.offset) \in 0 .. lost
    BY <1>1, <1>5 DEF Gap
  <2>3. Index(End(f)) - Index(rRx.offset) \in 0 .. lost + 1
    BY <1>2, <2>1, <2>2
  <2>4. lost' = lost + 1 /\ rRx'.offset = rRx.offset
    BY <1>3, <1>5
  <2> QED
    BY <2>1, <2>3, <2>4 DEF GapThen
<1>6. \A i \in 1 .. Len(toReceiver') :
        /\ Msg(toReceiver'[i].frame) >= Assembled
        /\ toReceiver'[i].frame.type = "CF" <=> Msg(toReceiver'[i].frame) = Assembled
  <2> TAKE i \in 1 .. Len(toReceiver')
  <2>1. PICK j \in 1 .. Len(toReceiver) : toReceiver'[i] = toReceiver[j]
    BY HeadGone
  <2> QED
    BY <1>1, <2>1
<1>7. ASSUME toReceiver' # <<>>, Msg(toReceiver'[1].frame) = Assembled
      PROVE  GapThen(Begin(toReceiver'[1].frame))
  <2> DEFINE g == toReceiver'[1].frame
  <2>1. Adjoins(f, g) /\ g.type = "CF"
    BY <1>6, <1>7, HeadGone
  <2>2. Msg(f) = Assembled
    BY <1>7, <2>1 DEF Adjoins
  <2>3. Begin(g) = End(f) /\ End(f) # Len(messages[Msg(f)])
    BY <1>3, <1>7, <2>2, HeadEnds
  <2>4. GapThen(End(f))
    BY <1>5, <2>2, <2>3
  <2> HIDE DEF g
  <2>5. GapThen(Begin(g))
    BY <2>3, <2>4
  <2> QED
    BY <2>5 DEF g
<1>8. ASSUME toReceiver' = <<>>, sTx.state # "Idle", Current = Assembled
      PROVE  GapThen(sTx.offset)
  <2>1. Msg(f) = Assembled
    BY <1>8, HeadGone
  <2>2. sTx.offset = End(f) /\ End(f) # Len(messages[Msg(f)])
    BY <1>3, <1>8, <2>1, HeadEnds
  <2>3. GapThen(End(f))
    BY <1>5, <2>1, <2>2
  <2> QED
    BY <2>2, <2>3
<1> QED
  BY <1>0, <1>1, <1>6, <1>7, <1>8 DEF AssemblyFits, Gap, GapThen

\* A frame lost leaves what is behind it in order; what it took away is at most one frame
\* of the message under assembly.
LEMMA LoseKeeps == IInv /\ Lose => IInv'
<1> SUFFICES ASSUME IInv, Lose PROVE IInv'
  OBVIOUS
<1>1. /\ UNCHANGED <<now, sConfig, sRx, sTx, rConfig, rRx, rTx, messages, completed>>
      /\ \/ /\ toReceiver # <<>> /\ toReceiver' = Tail(toReceiver) /\ UNCHANGED toSender
            /\ lost < MaxLost /\ lost' = lost + 1
         \/ /\ toSender # <<>> /\ toSender' = Tail(toSender) /\ UNCHANGED <<toReceiver, lost>>
  BY DEF Lose, senderVars, receiverVars
<1>2. lost' \in 0 .. MaxLost /\ lost \in 0 .. MaxLost
  BY <1>1, Sizes DEF IInv, TimesFit
<1>3. AreMessages(messages, completed)' /\ SenderFits' /\ ReceiverFits'
  BY <1>1 DEF IInv, SenderFits, ReceiverFits, BS, Current, Assembled
<1>4. CASE /\ toReceiver # <<>> /\ toReceiver' = Tail(toReceiver) /\ UNCHANGED toSender
           /\ lost' = lost + 1
  <2>1. AreInOrder(toReceiver, messages, completed)'
    BY <1>1, <1>4, HeadGone
  <2>2. WireMeetsSender'
    BY <1>1, <1>4, HeadGone
  <2>3. AssemblyFits'
    BY <1>1, <1>4, AssemblyOfTail
  <2>4. toSender = <<>>
    BY <1>4 DEF IInv, FlowControlFits
  <2>5. TimesFit'
    <3>1. toReceiver' \in Seq(Flight)
      BY <1>1, <1>4, HeadGone
    <3>2. \A i \in 1 .. Len(toReceiver') : toReceiver'[i].due \in now .. now + MaxDelay
      BY <1>1, <1>4, HeadGone
    <3>3. sTx.state = "WaitFlowControl" =>
              \A i \in 1 .. Len(toReceiver') :
                toReceiver'[i].due + SenderConfig.flowControlTimeout <= sTx.deadline + MaxDelay
      BY <1>1, <1>4, HeadGone
    <3>4. now \in Nat /\ toSender \in Seq(Flight) /\ \A i \in 1 .. Len(toSender) : now <= toSender[i].due
      BY DEF IInv, TimesFit
    <3> QED
      BY <1>1, <1>2, <1>4, <3>1, <3>2, <3>3, <3>4 DEF TimesFit
  <2>6. FlowControlFits'
    BY <1>4, <2>4 DEF FlowControlFits
  <2> QED
    BY <1>3, <2>1, <2>2, <2>3, <2>5, <2>6 DEF IInv
<1>5. CASE toSender # <<>> /\ toSender' = Tail(toSender) /\ UNCHANGED <<toReceiver, lost>>
  <2>1. toSender' = <<>> /\ toReceiver = <<>>
    <3>1. Len(toSender) = 1 /\ toReceiver = <<>> /\ toSender \in Seq(Flight)
      BY <1>5 DEF IInv, FlowControlFits, TimesFit
    <3>2. Tail(toSender) \in Seq(Flight) /\ Len(Tail(toSender)) = 0
      BY <1>5, <3>1, HeadTailProperties
    <3> QED
      BY <1>5, <3>1, <3>2, EmptySeq
  <2>2. AreInOrder(toReceiver, messages, completed)' /\ WireMeetsSender'
    BY <1>1, <1>5 DEF IInv, AreInOrder, WireMeetsSender, BS, Current
  <2>3. AssemblyFits'
    <3>1. rRx.state = "Receiving" => OnBoundary(rRx.offset)
      BY DEF IInv, ReceiverFits
    <3>2. \A o : Gap(o) => GapThen(o)
      BY <1>1, <1>5 DEF Gap, GapThen
    <3>3. rRx.state = "Receiving" =>
            /\ \A i \in 1 .. Len(toReceiver) :
                 /\ Msg(toReceiver[i].frame) >= Assembled
                 /\ toReceiver[i].frame.type = "CF" <=> Msg(toReceiver[i].frame) = Assembled
            /\ sTx.state = "Sending" => Current = Assembled
            /\ sTx.state # "Idle" /\ Current = Assembled => Gap(sTx.offset)
      BY <2>1 DEF IInv, AssemblyFits
    <3>4. Assembled' = Assembled /\ Current' = Current
      BY <1>1 DEF Assembled, Current
    <3> QED
      BY <1>1, <1>5, <2>1, <3>2, <3>3, <3>4 DEF AssemblyFits, Gap, GapThen
  <2>4. TimesFit'
    <3>1. /\ toReceiver \in Seq(Flight) /\ now \in Nat
          /\ sTx.state = "WaitFlowControl" =>
               \A i \in 1 .. Len(toReceiver) :
                 toReceiver[i].due + SenderConfig.flowControlTimeout <= sTx.deadline + MaxDelay
          /\ \A i \in 1 .. Len(toReceiver) : toReceiver[i].due \in now .. now + MaxDelay
      BY DEF IInv, TimesFit
    <3>2. <<>> \in Seq(Flight) /\ Len(<<>>) = 0 /\ \A i \in 1 .. 0 : FALSE
      OBVIOUS
    <3> QED
      BY <1>1, <1>2, <1>5, <2>1, <3>1, <3>2 DEF TimesFit
  <2>5. FlowControlFits'
    BY <2>1 DEF FlowControlFits
  <2> QED
    BY <1>3, <2>2, <2>3, <2>4, <2>5 DEF IInv
<1> QED
  BY <1>1, <1>4, <1>5

(***************************************************************************)
(* The receiver polls and its owner fetches.                               *)
(***************************************************************************)

\* An assembly given up leaves everything else as it is.
LEMMA GivenUpKeeps ==
  ASSUME IInv, UNCHANGED <<now, sConfig, sRx, sTx, rConfig, rTx, messages, completed>>,
         UNCHANGED <<toReceiver, toSender, lost>>,
         rRx' \in Receiver!RxType, rRx'.state = "Idle",
         toSender # <<>> => rRx.state # "Receiving" \/ toSender[1].frame.flowStatus # 0
  PROVE  IInv'
<1>1. AreMessages(messages, completed)' /\ AreInOrder(toReceiver, messages, completed)'
  BY DEF IInv
<1>2. SenderFits' /\ WireMeetsSender' /\ TimesFit'
  BY DEF IInv, SenderFits, WireMeetsSender, TimesFit, BS, Current
<1>3. ReceiverFits' /\ AssemblyFits'
  BY DEF IInv, ReceiverFits, AssemblyFits
<1>4. FlowControlFits'
  BY DEF IInv, FlowControlFits, IsAnswer
<1> QED
  BY <1>1, <1>2, <1>3, <1>4 DEF IInv

\* Nothing the receiver polls is put on the wire.
LEMMA NothingOnWire ==
  ASSUME NEW w \in Seq(Flight)
  PROVE  w \o OnWire(<<>>) = w
<1>1. OnWire(<<>>) = <<>>
  BY DEF OnWire
<1> QED
  BY <1>1, ConcatEmptySeq

\* An assembly that asked for frames is not given up before its flow control arrives.
LEMMA ReceiverPollsKeeps == IInv /\ ReceiverPolls => IInv'
<1> SUFFICES ASSUME IInv, ReceiverPolls PROVE IInv'
  OBVIOUS
<1>1. /\ Receiver!Poll /\ toSender' = toSender \o OnWire(rOut')
      /\ UNCHANGED <<sConfig, sRx, sTx, toReceiver, lost, messages, completed>>
  BY DEF ReceiverPolls, ReceiverTransmits, senderVars
<1>2. rTx.state = "Idle" /\ rRx \in Receiver!RxType /\ now \in Nat
  BY DEF IInv, ReceiverFits, Receiver!IdleTx, TimesFit
<1>3. /\ UNCHANGED <<now, rConfig, rTx>> /\ rOut' = <<>>
      /\ \/ rRx' = rRx
         \/ rRx' = Receiver!IdleAssembly(rRx) /\ rRx.state = "Receiving" /\ now >= rRx.deadline
  BY <1>1, <1>2 DEF Receiver!Poll, Receiver!PollUnconfigured, Receiver!PollNothingDue, Receiver!Return,
       Receiver!ExpireAssembly, Receiver!ExpireTransmission, Receiver!RxExpired, Receiver!TxExpired,
       Receiver!DueConsecutiveFrame
<1>4. toSender' = toSender
  <2>1. toSender \in Seq(Flight)
    BY DEF IInv, TimesFit
  <2> QED
    BY <1>1, <1>3, <2>1, NothingOnWire
<1>5. CASE rRx' = rRx
  BY <1>1, <1>3, <1>4, <1>5 DEF IInv, SenderFits, ReceiverFits, AssemblyFits, WireMeetsSender, TimesFit,
       FlowControlFits, BS, Current, Assembled, Gap, IsAnswer
<1>6. CASE rRx' = Receiver!IdleAssembly(rRx) /\ rRx.state = "Receiving" /\ now >= rRx.deadline
  <2>1. rRx' \in Receiver!RxType /\ rRx'.state = "Idle"
    BY <1>2, <1>6, IdleAssemblyIdles
  <2>2. toSender # <<>> => toSender[1].frame.flowStatus # 0
    <3> SUFFICES ASSUME toSender # <<>>, toSender[1].frame.flowStatus = 0
                 PROVE  FALSE
      OBVIOUS
    <3>1. toSender[1].due < rRx.deadline /\ Len(toSender) = 1
      BY DEF IInv, FlowControlFits
    <3>2. now <= toSender[1].due /\ toSender[1].due \in Nat
      <4>1. toSender \in Seq(Flight) /\ \A i \in 1 .. Len(toSender) : now <= toSender[i].due
        BY DEF IInv, TimesFit
      <4>2. 1 \in 1 .. Len(toSender)
        BY <3>1
      <4>3. toSender[1] \in Flight
        BY <4>1, <4>2
      <4> QED
        BY <4>1, <4>2, <4>3, Zenon DEF Flight
    <3>3. rRx.deadline \in Nat
      BY <1>2 DEF Receiver!RxType
    <3> QED
      BY <1>2, <1>6, <3>1, <3>2, <3>3
  <2> QED
    BY <1>1, <1>3, <1>4, <2>1, <2>2, GivenUpKeeps
<1> QED
  BY <1>3, <1>5, <1>6

\* While a message is complete, none is under assembly.
LEMMA ReceiverFetchesKeeps == IInv /\ ReceiverFetches => IInv'
<1> SUFFICES ASSUME IInv, ReceiverFetches PROVE IInv'
  OBVIOUS
<1>1. /\ rRx.ready /\ UNCHANGED <<now, sConfig, sRx, sTx, rConfig, rTx, toReceiver, toSender, lost, messages, completed>>
      /\ rRx' = rRx \/ rRx' = Receiver!Emptied
  BY DEF ReceiverFetches, Receiver!Receive, Receiver!Return, senderVars, wireVars
<1>2. rRx \in Receiver!RxType /\ rRx.state # "Receiving"
  BY <1>1 DEF IInv, ReceiverFits
<1>3. rRx' \in Receiver!RxType
  <2>1. 0 \in Nat /\ FALSE \in BOOLEAN
    OBVIOUS
  <2>2. Receiver!Emptied \in Receiver!RxType
    BY <1>2, <2>1, ZenonT(40) DEF Receiver!Emptied, Receiver!RxType
  <2> QED
    BY <1>1, <1>2, <2>2
<1>4. rRx'.state = "Idle"
  BY <1>1, <1>2 DEF Receiver!Emptied, Receiver!RxType
<1> QED
  BY <1>1, <1>2, <1>3, <1>4, GivenUpKeeps

(***************************************************************************)
(* The receiver hears a frame.                                             *)
(***************************************************************************)

\* One frame more on the wire.
LEMMA OneOnWire ==
  ASSUME NEW w \in Seq(Flight), NEW f \in WireFrame, now \in Nat
  PROVE  /\ [frame |-> f, due |-> now + MaxDelay] \in Flight
         /\ w \o OnWire(<<f>>) = Append(w, [frame |-> f, due |-> now + MaxDelay])
<1> DEFINE x == [frame |-> f, due |-> now + MaxDelay]
<1>1. now + MaxDelay \in Nat
  BY Sizes
<1>2. x \in Flight
  BY <1>1, Zenon DEF Flight
<1>3. OnWire(<<f>>) = <<x>>
  BY DEF OnWire
<1> HIDE DEF x
<1>4. w \o <<x>> = Append(w, x)
  BY <1>2, AppendIsConcat
<1> QED
  BY <1>2, <1>3, <1>4 DEF x

\* Flow control is a frame of the wire.
LEMMA AnswerTyped ==
  ASSUME ReceiverFits, NEW fs \in {0, 2}
  PROVE  Receiver!FlowControl(rConfig, fs) \in WireFrame
<1>1. rConfig.rxBlockSize \in 0 .. 255 /\ rConfig.rxStMin \in 0 .. 255 /\ fs \in Nat
      /\ FALSE \in BOOLEAN /\ "FC" \in {"FC"}
  BY ReceiverConfigTyped
<1>2. Receiver!FlowControl(rConfig, fs) \in
        [type : {"FC"}, short : BOOLEAN, flowStatus : Nat, blockSize : 0 .. 255, stMin : 0 .. 255]
  BY <1>1, Zenon DEF Receiver!FlowControl
<1> QED
  BY <1>2, Zenon DEF WireFrame

\* The receiver took the frame at the head of the wire.
HeadTaken ==
  /\ toReceiver # <<>> /\ toReceiver' = Tail(toReceiver)
  /\ lost' = 0
  /\ UNCHANGED <<now, sConfig, sRx, sTx, rConfig, rTx, messages>>

\* What is left on the wire when its head was heard is still in time, and meets the sender.
LEMMA HeardTimes ==
  ASSUME IInv, HeadTaken, toSender' \in Seq(Flight),
         \A i \in 1 .. Len(toSender') : now <= toSender'[i].due
  PROVE  TimesFit' /\ WireMeetsSender'
<1>1. /\ toReceiver' \in Seq(Flight)
      /\ \A i \in 1 .. Len(toReceiver') : toReceiver'[i].due \in now .. now + MaxDelay
      /\ sTx.state = "WaitFlowControl" =>
              \A i \in 1 .. Len(toReceiver') :
                toReceiver'[i].due + SenderConfig.flowControlTimeout <= sTx.deadline + MaxDelay
      /\ WireMeetsSender'
  BY HeadGone DEF HeadTaken
<1>2. now \in Nat /\ 0 \in 0 .. MaxLost
  BY Sizes DEF IInv, TimesFit
<1> QED
  BY <1>1, <1>2 DEF TimesFit, HeadTaken

\* It answers nothing.
LEMMA HeardNothing ==
  ASSUME IInv, HeadTaken, rOut' = <<>>, toSender' = toSender \o OnWire(rOut')
  PROVE  TimesFit' /\ WireMeetsSender' /\ FlowControlFits'
<1>1. toSender \in Seq(Flight) /\ \A i \in 1 .. Len(toSender) : now <= toSender[i].due
  BY DEF IInv, TimesFit
<1>2. toSender' = toSender
  BY <1>1, NothingOnWire
<1>3. toSender = <<>>
  BY DEF IInv, FlowControlFits, HeadTaken
<1>4. FlowControlFits'
  BY <1>2, <1>3 DEF FlowControlFits
<1> QED
  BY <1>1, <1>2, <1>4, HeardTimes

\* It answers with flow control, which is in time for the sender that waits for it.
LEMMA HeardAnswer ==
  ASSUME IInv, HeadTaken, NEW f, f = toReceiver[1].frame, Asks(f, messages, BS),
         NEW fs \in {0, 2}, rOut' = <<Receiver!FlowControl(rConfig, fs)>>,
         toSender' = toSender \o OnWire(rOut'),
         fs = 0 => /\ rRx'.state = "Receiving" /\ Assembled' = Msg(f) /\ rRx'.offset = End(f)
                   /\ rRx'.deadline = now + rConfig.consecutiveFrameTimeout
  PROVE  toReceiver' = <<>> /\ TimesFit' /\ WireMeetsSender' /\ FlowControlFits'
<1> DEFINE fc == Receiver!FlowControl(rConfig, fs)
           x == [frame |-> fc, due |-> now + MaxDelay]
<1>1. toSender = <<>> /\ now \in Nat /\ ReceiverFits /\ <<>> \in Seq(Flight)
  BY DEF IInv, FlowControlFits, HeadTaken, TimesFit
<1>2. fc \in WireFrame /\ fc.flowStatus = fs
  BY <1>1, AnswerTyped DEF Receiver!FlowControl
<1> HIDE DEF fc
<1>3. x \in Flight /\ toSender' = Append(<<>>, x)
  BY <1>1, <1>2, OneOnWire DEF fc
<1>4. x.frame = fc /\ x.due = now + MaxDelay
  OBVIOUS
<1> HIDE DEF x
<1>5. toSender' \in Seq(Flight) /\ Len(toSender') = 1 /\ toSender'[1] = x
  BY <1>1, <1>3, AppendProperties, EmptySeq
<1>6. toReceiver' = <<>> /\ sTx.state = "WaitFlowControl"
  BY HeadGone DEF HeadTaken
<1>7. Msg(f) = Current /\ End(f) = sTx.offset
  BY <1>6, HeadGone DEF HeadTaken
<1>8. now + MaxDelay < sTx.deadline
  <2>1. 1 \in 1 .. Len(toReceiver)
    BY HeadGone DEF HeadTaken
  <2>2. toReceiver[1].due \in now .. now + MaxDelay
    BY <2>1 DEF IInv, TimesFit
  <2>3. toReceiver[1].due + SenderConfig.flowControlTimeout <= sTx.deadline + MaxDelay
    BY <1>6, <2>1 DEF IInv, TimesFit
  <2>4. sTx.deadline \in Nat
    BY DEF IInv, SenderFits, Sender!TxType
  <2> DEFINE due == toReceiver[1].due
             limit == SenderConfig.flowControlTimeout
             deadline == sTx.deadline
  <2>5. due \in now .. now + MaxDelay /\ due + limit <= deadline + MaxDelay /\ deadline \in Nat
    BY <2>2, <2>3, <2>4
  <2>6. limit \in Nat /\ 2 * MaxDelay < limit /\ MaxDelay \in Nat
    BY SenderConfigTyped, Sizes
  <2> HIDE DEF due, limit, deadline
  <2>7. now + MaxDelay < deadline
    BY <1>1, <2>5, <2>6
  <2> QED
    BY <2>7 DEF deadline
<1>9. fs = 0 => now + MaxDelay < rRx'.deadline
  <2>1. MaxDelay < rConfig.consecutiveFrameTimeout /\ rConfig.consecutiveFrameTimeout \in Nat
    BY <1>1, ReceiverConfigTyped
  <2>2. MaxDelay \in Nat
    BY Sizes
  <2> DEFINE limit == rConfig.consecutiveFrameTimeout
  <2>3. MaxDelay < limit /\ limit \in Nat
    BY <2>1
  <2> HIDE DEF limit
  <2>4. now + MaxDelay < now + limit
    BY <1>1, <2>2, <2>3
  <2> QED
    BY <2>4 DEF limit
<1>10. fc \in {Receiver!FlowControl(rConfig', a) : a \in {0, 2}}
  BY DEF fc, HeadTaken
<1>11. Current' = Current /\ sTx' = sTx
  BY DEF Current, HeadTaken
<1>12. FlowControlFits'
  <2>1. Len(toSender') = 1 /\ toReceiver' = <<>> /\ sTx'.state = "WaitFlowControl"
        /\ toSender'[1].due < sTx'.deadline
    BY <1>4, <1>5, <1>6, <1>8, <1>11
  <2>2. IsAnswer(toSender[1].frame)'
    BY <1>4, <1>5, <1>10 DEF IsAnswer
  <2>3. toSender'[1].frame.flowStatus = 0 =>
          /\ rRx'.state = "Receiving" /\ Assembled' = Current' /\ rRx'.offset = sTx'.offset
          /\ toSender'[1].due < rRx'.deadline
    BY <1>2, <1>4, <1>5, <1>7, <1>9, <1>11
  <2> QED
    BY <2>1, <2>2, <2>3 DEF FlowControlFits
<1>13. \A i \in 1 .. Len(toSender') : now <= toSender'[i].due
  <2>1. now <= now + MaxDelay
    BY <1>1, Sizes
  <2>2. \A i \in 1 .. 1 : i = 1
    OBVIOUS
  <2> QED
    BY <1>4, <1>5, <2>1, <2>2
<1> QED
  BY <1>5, <1>6, <1>12, <1>13, HeardTimes

\* As long as no message completes, what is known of the sender and of the wire stays.
LEMMA HeardSame ==
  ASSUME IInv, HeadTaken, completed' = completed
  PROVE  /\ AreMessages(messages, completed)' /\ AreInOrder(toReceiver, messages, completed)'
         /\ SenderFits'
<1>1. AreInOrder(toReceiver', messages, completed)
  BY HeadGone DEF HeadTaken
<1> QED
  BY <1>1 DEF IInv, HeadTaken, SenderFits, BS, Current

\* A frame that does not change the assembly is not one of its message.
LEMMA HeardBusy ==
  ASSUME IInv, HeadTaken, NEW f, f = toReceiver[1].frame, rRx' = rRx, completed' = completed,
         f.type = "CF" => rRx.state # "Receiving"
  PROVE  ReceiverFits' /\ AssemblyFits'
<1>1. AssemblyFits'
  BY AssemblyOfTail DEF HeadTaken
<1>2. ReceiverFits'
  BY DEF IInv, HeadTaken, ReceiverFits, Assembled, Current, BS
<1> QED
  BY <1>1, <1>2

\* An idle receiver asks nothing of the wire.
LEMMA HeardIdle ==
  ASSUME IInv, HeadTaken, rRx' \in Receiver!RxType, rRx'.state = "Idle"
  PROVE  ReceiverFits' /\ AssemblyFits'
BY DEF IInv, HeadTaken, ReceiverFits, AssemblyFits

\* The last byte of a message is in the receiver: its sender is through with it, and no frame
\* behind carries a byte of it.
LEMMA HeardLast ==
  ASSUME IInv, HeadTaken, NEW f, f = toReceiver[1].frame, End(f) = Len(messages[Msg(f)]),
         completed' = Msg(f)
  PROVE  /\ AreMessages(messages, completed)' /\ AreInOrder(toReceiver, messages, completed)'
         /\ SenderFits' /\ completed' > completed
<1>1. AreMessages(messages, completed) /\ IsPiece(f, messages, completed)
  BY HeadGone DEF IInv, HeadTaken
<1>2. /\ Msg(f) \in 1 .. Len(messages) /\ Msg(f) \in Nat /\ Msg(f) > completed /\ Len(messages) \in Nat
      /\ Len(messages[Msg(f)]) \in Nat /\ completed \in Nat
  BY <1>1, PieceFacts
<1>3. AreMessages(messages, completed)'
  <2>1. Msg(f) \in 0 .. Len(messages)
    BY <1>2
  <2> QED
    BY <1>1, <2>1 DEF AreMessages, HeadTaken
<1>4. \A i \in 1 .. Len(toReceiver') : Msg(toReceiver'[i].frame) > Msg(f)
  <2> TAKE i \in 1 .. Len(toReceiver')
  <2> DEFINE g == toReceiver'[i].frame
  <2>1. IsPiece(g, messages, completed) /\ Follows(f, g)
    BY HeadGone DEF HeadTaken
  <2> HIDE DEF g
  <2>2. /\ Msg(g) \in Nat /\ Begin(g) < End(g) /\ End(g) <= Len(messages[Msg(g)])
        /\ Begin(g) \in Nat /\ End(g) \in Nat
    BY <1>1, <2>1, PieceFacts
  <2>3. ~(Msg(f) = Msg(g) /\ End(f) <= Begin(g))
    BY <1>2, <2>2
  <2>4. Msg(f) < Msg(g)
    BY <2>1, <2>3 DEF Follows
  <2>5. Msg(g) > Msg(f)
    BY <1>2, <2>2, <2>4
  <2> QED
    BY <2>5 DEF g
<1>5. AreInOrder(toReceiver', messages, Msg(f))
  <2>1. AreInOrder(toReceiver', messages, completed)
    BY HeadGone DEF HeadTaken
  <2> QED
    BY <1>1, <1>2, <1>4, <2>1, InOrderOfFewer DEF AreMessages
<1>6. sTx.state # "Idle" => Msg(f) < Current
  <2> SUFFICES ASSUME sTx.state # "Idle" PROVE Msg(f) < Current
    OBVIOUS
  <2>1. CASE toReceiver' = <<>>
    <3>1. Msg(f) = Current /\ End(f) = sTx.offset
      BY <2>1, HeadGone DEF HeadTaken
    <3>2. sTx.payload = messages[Current] /\ sTx.offset < Len(sTx.payload) /\ sTx.offset \in Nat
      BY DEF IInv, SenderFits, OnBoundary
    <3> QED
      BY <1>2, <3>1, <3>2
  <2>2. CASE toReceiver' # <<>>
    <3>1. /\ Len(toReceiver') \in Nat \ {0}
          /\ Msg(toReceiver'[Len(toReceiver')].frame) = Current
      BY <2>2, HeadGone DEF HeadTaken
    <3>2. Len(toReceiver') \in 1 .. Len(toReceiver')
      BY <3>1
    <3>3. Current > Msg(f)
      BY <1>4, <3>1, <3>2
    <3> QED
      BY <1>2, <3>3 DEF Current
  <2> QED
    BY <2>1, <2>2
<1>7. SenderFits'
  BY <1>6 DEF IInv, SenderFits, HeadTaken, BS, Current
<1> QED
  BY <1>2, <1>3, <1>5, <1>7 DEF HeadTaken

\* A message is opened by its first frame: the sender waits, and the wire is empty.
LEMMA HeardFirst ==
  ASSUME IInv, HeadTaken, NEW f, f = toReceiver[1].frame, f.type = "FF", completed' = completed,
         Receiver!IsConfigValid(rConfig), ReceiverOpens(f)
  PROVE  /\ ReceiverFits' /\ AssemblyFits' /\ Assembled' = Msg(f) /\ rRx'.offset = End(f)
         /\ Asks(f, messages, BS)
<1>1. AreMessages(messages, completed) /\ IsPiece(f, messages, completed)
  BY HeadGone DEF IInv, HeadTaken
<1>2. Asks(f, messages, BS)
  BY DEF Asks
<1>3. toReceiver' = <<>> /\ sTx.state = "WaitFlowControl"
  BY <1>2, HeadGone DEF HeadTaken
<1>4. Msg(f) = Current /\ End(f) = sTx.offset
  BY <1>3, HeadGone DEF HeadTaken
<1>5. /\ Begin(f) = 0 /\ End(f) = FfData /\ f.len = Len(messages[Msg(f)]) /\ f.len > CfData
      /\ Msg(f) \in completed + 1 .. Current
      /\ f.data = Bytes(Msg(f), 0, FfData) /\ Len(f.data) = FfData
  <2>1. Begin(f) = 0 /\ End(f) = FfData /\ f.len = Len(messages[Msg(f)]) /\ f.len > CfData
    BY <1>1 DEF IsPiece, ReceiverOpens
  <2>2. f.data = Bytes(Msg(f), Begin(f), End(f)) /\ Len(f.data) = End(f) - Begin(f)
    BY <1>1, PieceFacts
  <2>3. Msg(f) \in completed + 1 .. Current
    BY <1>1 DEF IsPiece, Current
  <2> QED
    BY <2>1, <2>2, <2>3, Sizes
<1>6. /\ rRx' \in Receiver!RxType /\ rRx'.state = "Receiving" /\ ~rRx'.ready
      /\ rRx'.buffer = f.data /\ rRx'.offset = FfData /\ rRx'.expected = f.len
      /\ rRx'.seq = 1 /\ rRx'.blockCount = 0
  BY <1>5 DEF ReceiverOpens, Assembles
<1>7. Assembled' = Msg(f)
  BY <1>6 DEF Assembled, Msg
<1>8. OnBoundary(FfData) /\ Index(FfData) = 0 /\ FfData < f.len
  BY <1>1, <1>5, FirstBoundary, PieceFacts, Sizes
<1>9. 1 = (0 + 1) % SeqModulus /\ (BS # 0 => 0 = 0 % BS)
  <2>1. BS \in Nat
    BY ReceiverConfigTyped DEF IInv
  <2>2. ASSUME NEW m \in Nat \ {0} PROVE 0 % m = 0
    <3>1. 0 = m * 0 + 0 /\ 0 \in Nat /\ 0 \in Int /\ 0 \in 0 .. m - 1
      BY Z3T(30)
    <3> QED
      BY <3>1, Remainder
  <2>3. (0 + 1) % SeqModulus = 1
    <3>1. 0 + 1 = SeqModulus * 0 + 1 /\ 0 + 1 \in Nat /\ 0 \in Int /\ 1 \in 0 .. SeqModulus - 1
          /\ SeqModulus \in Nat \ {0}
      BY Sizes, Z3T(30)
    <3> QED
      BY <3>1, Remainder
  <2> QED
    BY <2>1, <2>2, <2>3
<1>10. ReceiverFits'
  <2>1. rConfig' = rConfig /\ rTx' = rTx /\ messages' = messages /\ BS' = BS /\ Current' = Current
    BY DEF HeadTaken, BS, Current
  <2>2. rConfig \in ReceiverConfig /\ rTx = Receiver!IdleTx
    BY DEF IInv, ReceiverFits
  <2>3. /\ rRx'.expected = Len(messages[Msg(f)]) /\ rRx'.expected > CfData
        /\ OnBoundary(rRx'.offset) /\ rRx'.offset < rRx'.expected
        /\ rRx'.buffer = Bytes(Msg(f), 0, rRx'.offset)
        /\ rRx'.seq = (Index(rRx'.offset) + 1) % SeqModulus
        /\ BS # 0 => rRx'.blockCount = Index(rRx'.offset) % BS
    BY <1>5, <1>6, <1>8, <1>9
  <2> QED
    BY <1>5, <1>6, <1>7, <2>1, <2>2, <2>3 DEF ReceiverFits
<1>11. AssemblyFits'
  <2>1. Len(<<>>) = 0 /\ \A i \in 1 .. 0 : FALSE
    OBVIOUS
  <2>2. GapThen(FfData)
    <3>1. lost' = 0
      BY DEF HeadTaken
    <3> QED
      BY <1>6, <1>8, <3>1 DEF GapThen
  <2>3. sTx'.offset = FfData /\ sTx'.state = "WaitFlowControl"
    BY <1>3, <1>4, <1>5 DEF HeadTaken
  <2> QED
    BY <1>3, <2>1, <2>2, <2>3 DEF AssemblyFits, Gap, GapThen
<1> QED
  BY <1>2, <1>5, <1>6, <1>7, <1>10, <1>11

\* The counter of a block is the number of frames since its beginning.
LEMMA BlockCounts ==
  ASSUME NEW k \in Nat, NEW bs \in 1 .. 255
  PROVE  LET count == ((k % bs) + 1) % 256 IN
         /\ count < bs => count = (k + 1) % bs
         /\ count >= bs => (k + 1) % bs = 0
<1> DEFINE r == k % bs
<1>0. bs \in Nat \ {0}
  OBVIOUS
<1>1. r \in 0 .. bs - 1 /\ (k + 1) % bs = IF r + 1 = bs THEN 0 ELSE r + 1
  BY <1>0, NextInBlock
<1> HIDE DEF r
<1>2. (r + 1) % 256 = r + 1
  BY <1>1
<1> QED
  BY <1>1, <1>2 DEF r

\* The next frame of the message is stored; flow control asks for more at the end of a block.
LEMMA HeardNext ==
  ASSUME IInv, HeadTaken, NEW f, f = toReceiver[1].frame, f.type = "CF", completed' = completed,
         rRx.state = "Receiving", Msg(f) = Assembled, Begin(f) = rRx.offset,
         End(f) # rRx.expected, ReceiverStores(Bytes(Assembled, 0, End(f)))
  PROVE  /\ ReceiverFits' /\ AssemblyFits' /\ Assembled' = Msg(f) /\ rRx'.offset = End(f)
         /\ rRx'.state = "Receiving"
         /\ rRx'.deadline = now + rConfig.consecutiveFrameTimeout
         /\ \/ rOut' = <<>>
            \/ rOut' = <<Receiver!FlowControl(rConfig, 0)>> /\ Asks(f, messages, BS)
<1> DEFINE b == Bytes(Assembled, 0, End(f))
<1>1. AreMessages(messages, completed) /\ IsPiece(f, messages, completed)
  BY HeadGone DEF IInv, HeadTaken
<1>2. /\ rRx \in Receiver!RxType /\ Receiver!IsConfigValid(rConfig)
      /\ Assembled \in completed + 1 .. Current
      /\ rRx.expected = Len(messages[Assembled]) /\ rRx.expected > CfData
      /\ OnBoundary(rRx.offset) /\ rRx.offset < rRx.expected
      /\ rRx.seq = (Index(rRx.offset) + 1) % SeqModulus
      /\ BS # 0 => rRx.blockCount = Index(rRx.offset) % BS
      /\ rConfig \in ReceiverConfig /\ rTx = Receiver!IdleTx
  BY DEF IInv, ReceiverFits
<1>3. /\ Msg(f) \in 1 .. MaxMessages /\ Begin(f) \in Nat /\ End(f) \in Nat /\ Begin(f) < End(f)
      /\ End(f) <= Len(messages[Msg(f)]) /\ Len(messages[Msg(f)]) \in 1 .. KMaxPayload
  BY <1>1, PieceFacts
<1>4. /\ OnBoundary(End(f)) /\ Index(End(f)) = Index(rRx.offset) + 1
      /\ Index(rRx.offset) \in Nat /\ End(f) # Len(messages[Msg(f)]) /\ End(f) < rRx.expected
  <2>1. End(f) # Len(messages[Msg(f)])
    BY <1>2
  <2>2. End(f) < rRx.expected
    BY <1>2, <1>3, <2>1
  <2> QED
    BY <1>1, <2>1, <2>2, EndIsBoundary
<1>5. Len(b) = End(f) /\ Msg([data |-> b]) = Assembled
  <2>1. 0 \in Nat /\ 0 < End(f) /\ 0 <= End(f) /\ End(f) <= KMaxPayload /\ Assembled \in 1 .. MaxMessages
        /\ End(f) - 0 = End(f)
    BY <1>3, Sizes
  <2>2. Len(b) = End(f)
    BY <1>3, <2>1, BytesType
  <2>3. [data |-> b].data = b
    OBVIOUS
  <2> HIDE DEF b
  <2>4. Msg([data |-> b]) = Assembled
    BY <1>3, <2>1, <2>3, BytesTell DEF b
  <2> QED
    BY <2>2, <2>4
<1> HIDE DEF b
<1>6. /\ rRx' \in Receiver!RxType /\ rRx'.state = "Receiving" /\ ~rRx'.ready
      /\ rRx'.buffer = b /\ rRx'.offset = End(f) /\ rRx'.expected = rRx.expected
      /\ rRx'.seq = (rRx.seq + 1) % SeqModulus
      /\ rRx'.deadline = now + rConfig.consecutiveFrameTimeout
  BY <1>5 DEF ReceiverStores, Assembles, b
<1>7. Assembled' = Assembled
  BY <1>5, <1>6 DEF Assembled
<1>8. rRx'.seq = (Index(End(f)) + 1) % SeqModulus
  <2>1. SeqModulus \in Nat \ {0}
    BY Sizes
  <2> QED
    BY <1>2, <1>4, <1>6, <2>1, NumberAdvances
<1>9. BS \in 0 .. 255
  BY ReceiverConfigTyped DEF IInv
<1>10. /\ BS # 0 => rRx'.blockCount = Index(End(f)) % BS
       /\ \/ rOut' = <<>>
          \/ rOut' = <<Receiver!FlowControl(rConfig, 0)>> /\ Asks(f, messages, BS)
  <2> DEFINE count == (rRx.blockCount + 1) % 256
             k == Index(rRx.offset)
  <2>1. k \in Nat /\ Index(End(f)) = k + 1 /\ (BS # 0 => BS \in 1 .. 255 /\ rRx.blockCount = k % BS)
    BY <1>2, <1>4, <1>9
  <2> HIDE DEF k
  <2>a. ASSUME BS # 0
        PROVE  /\ count < BS => count = (k + 1) % BS
               /\ count >= BS => (k + 1) % BS = 0
    <3>1. BS \in 1 .. 255 /\ k \in Nat /\ count = ((k % BS) + 1) % 256
      BY <2>1, <2>a
    <3> HIDE DEF count
    <3> QED
      BY <3>1, BlockCounts
  <2>2. BS # 0 /\ count < BS => count = (k + 1) % BS
    BY <2>a
  <2>3. BS # 0 /\ count >= BS => (k + 1) % BS = 0
    BY <2>a
  <2>4. CASE /\ BS = 0 \/ count < BS
             /\ rRx'.blockCount = count /\ rOut' = <<>>
    BY <2>1, <2>2, <2>4
  <2>5. CASE /\ BS # 0 /\ count >= BS
             /\ rRx'.blockCount = 0
             /\ rOut' = <<Receiver!FlowControl(rConfig, 0)>>
    <3>1. Asks(f, messages, BS)
      <4>1. End(f) < Len(messages[Msg(f)])
        BY <1>3, <1>4
      <4>2. EndsBlock(End(f), BS)
        BY <2>1, <2>3, <2>5 DEF EndsBlock
      <4> QED
        BY <4>1, <4>2 DEF Asks
    <3> QED
      BY <2>1, <2>3, <2>5, <3>1
  <2> QED
    BY <2>4, <2>5 DEF ReceiverStores, Assembles
<1>11. ReceiverFits'
  <2>1. rConfig' = rConfig /\ rTx' = rTx /\ messages' = messages /\ BS' = BS /\ Current' = Current
    BY DEF HeadTaken, BS, Current
  <2>2. rRx'.buffer = Bytes(Assembled, 0, rRx'.offset)
    BY <1>6 DEF b
  <2> QED
    BY <1>2, <1>4, <1>6, <1>7, <1>8, <1>10, <2>1, <2>2 DEF ReceiverFits
<1>12. GapThen(End(f))
  <2>1. lost' = 0
    BY DEF HeadTaken
  <2>2. Index(End(f)) - Index(rRx'.offset) = 0
    BY <1>4, <1>6
  <2> QED
    BY <1>4, <2>1, <2>2 DEF GapThen
<1>13. AssemblyFits'
  <2>1. /\ \A i \in 1 .. Len(toReceiver) :
             /\ Msg(toReceiver[i].frame) >= Assembled
             /\ toReceiver[i].frame.type = "CF" <=> Msg(toReceiver[i].frame) = Assembled
        /\ sTx.state = "Sending" => Current = Assembled
    BY DEF IInv, AssemblyFits
  <2>2. \A i \in 1 .. Len(toReceiver') :
          /\ Msg(toReceiver'[i].frame) >= Assembled
          /\ toReceiver'[i].frame.type = "CF" <=> Msg(toReceiver'[i].frame) = Assembled
    <3> TAKE i \in 1 .. Len(toReceiver')
    <3>1. PICK j \in 1 .. Len(toReceiver) : toReceiver'[i] = toReceiver[j]
      BY HeadGone DEF HeadTaken
    <3> QED
      BY <2>1, <3>1
  <2>3. toReceiver' # <<>> /\ Msg(toReceiver'[1].frame) = Assembled => GapThen(Begin(toReceiver'[1].frame))
    <3> SUFFICES ASSUME toReceiver' # <<>>, Msg(toReceiver'[1].frame) = Assembled
                 PROVE  GapThen(Begin(toReceiver'[1].frame))
      OBVIOUS
    <3>1. Begin(toReceiver'[1].frame) = End(f)
      BY HeadEnds DEF HeadTaken
    <3> QED
      BY <1>12, <3>1
  <2>4. toReceiver' = <<>> /\ sTx.state # "Idle" => GapThen(sTx.offset)
    <3> SUFFICES ASSUME toReceiver' = <<>>, sTx.state # "Idle" PROVE GapThen(sTx.offset)
      OBVIOUS
    <3>1. sTx.offset = End(f)
      BY HeadEnds DEF HeadTaken
    <3> QED
      BY <1>12, <3>1
  <2>5. Current' = Current /\ sTx' = sTx
    BY DEF HeadTaken, Current
  <2> QED
    BY <1>7, <2>1, <2>2, <2>3, <2>4, <2>5 DEF AssemblyFits, Gap, GapThen
<1> QED
  BY <1>6, <1>7, <1>10, <1>11, <1>13

\* The byte a completed message begins with tells which it is.
LEMMA CompletedIs ==
  ASSUME IInv, HeadTaken, NEW f, f = toReceiver[1].frame, End(f) = Len(messages[Msg(f)]),
         NEW b, ReceiverCompletes(b), (b = f.data /\ Begin(f) = 0) \/ b = Bytes(Msg(f), 0, End(f))
  PROVE  b = messages[Msg(f)] /\ rRx'.buffer[1][1] = Msg(f)
<1>1. AreMessages(messages, completed) /\ IsPiece(f, messages, completed)
  BY HeadGone DEF IInv, HeadTaken
<1>2. /\ Msg(f) \in 1 .. MaxMessages /\ Begin(f) \in Nat /\ End(f) \in Nat /\ Begin(f) < End(f)
      /\ End(f) <= KMaxPayload /\ messages[Msg(f)] = Bytes(Msg(f), 0, End(f))
      /\ f.data = Bytes(Msg(f), Begin(f), End(f))
  BY <1>1, PieceFacts, Sizes
<1>3. b = Bytes(Msg(f), 0, End(f))
  BY <1>2
<1>4. Msg([data |-> b]) = Msg(f)
  <2>1. [data |-> b].data = Bytes(Msg(f), 0, End(f)) /\ 0 \in Nat /\ 0 < End(f)
    BY <1>2, <1>3
  <2> QED
    BY <1>2, <2>1, BytesTell
<1>5. rRx'.buffer = b
  BY DEF ReceiverCompletes
<1> QED
  BY <1>2, <1>3, <1>4, <1>5 DEF Msg

\* A frame heard is stored, refused, or ends the assembly; a completed message is one of
\* those sent, and later than those before.
LEMMA ReceiverHearsKeeps ==
  ASSUME IInv, ReceiverHears
  PROVE  /\ IInv'
         /\ ~rRx.ready /\ rRx'.ready =>
              /\ completed' \in completed + 1 .. Len(messages)
              /\ Receiver!PendingMessage' = messages[completed']
<1> DEFINE f == toReceiver[1].frame
<1>1. /\ toReceiver # <<>> /\ toReceiver' = Tail(toReceiver) /\ Receiver!OnCanFrame(Head(toReceiver).frame)
      /\ toSender' = toSender \o OnWire(rOut')
      /\ completed' = IF rRet' = "MessageReady" THEN rRx'.buffer[1][1] ELSE completed
      /\ lost' = 0
      /\ UNCHANGED <<sConfig, sRx, sTx, messages>>
  BY DEF ReceiverHears, ReceiverTransmits, senderVars
<1>2. Receiver!OnCanFrame(f)
  <2>1. Head(toReceiver) = toReceiver[1]
    BY <1>1, TailInOrder DEF IInv, TimesFit
  <2> QED
    BY <1>1, <2>1
<1>3. HeadTaken
  BY <1>1, <1>2, ReceiverHearsFrame DEF HeadTaken
<1>4. /\ ReceiverKeeps \/ Receiver!IsConfigValid(rConfig)
      /\ \/ /\ ReceiverKeeps /\ rOut' = <<>>
            /\ f.type = "CF" => rRx.state # "Receiving"
         \/ ReceiverKeeps /\ f.type = "FF" /\ rOut' = <<Receiver!FlowControl(rConfig, 2)>>
         \/ ReceiverIdles
         \/ f.type = "SF" /\ ReceiverCompletes(f.data)
         \/ f.type = "FF" /\ ReceiverOpens(f)
         \/ /\ f.type = "CF" /\ rRx.state = "Receiving" /\ Msg(f) = Assembled /\ Begin(f) = rRx.offset
            /\ LET b == Bytes(Assembled, 0, End(f)) IN
               \/ End(f) = rRx.expected /\ ReceiverCompletes(b)
               \/ End(f) # rRx.expected /\ ReceiverStores(b)
  BY <1>1, <1>2, ReceiverHearsFrame
<1>5. IsPiece(f, messages, completed) /\ AreMessages(messages, completed)
  BY <1>3, HeadGone DEF HeadTaken, IInv
<1> DEFINE Goal == /\ IInv'
                   /\ ~rRx.ready /\ rRx'.ready =>
                        /\ completed' \in completed + 1 .. Len(messages)
                        /\ Receiver!PendingMessage' = messages[completed']
<1> HIDE DEF f
<1>6. f = toReceiver[1].frame
  BY DEF f
<1>7. CASE ReceiverKeeps /\ rOut' = <<>> /\ (f.type = "CF" => rRx.state # "Receiving")
  <2>1. completed' = completed /\ rRx' = rRx
    BY <1>1, <1>7 DEF ReceiverKeeps
  <2>2. IInv'
    BY <1>1, <1>3, <1>6, <1>7, <2>1, HeardSame, HeardBusy, HeardNothing DEF IInv
  <2> QED
    BY <2>1, <2>2
<1>8. CASE ReceiverKeeps /\ f.type = "FF" /\ rOut' = <<Receiver!FlowControl(rConfig, 2)>>
  <2>1. completed' = completed /\ rRx' = rRx
    BY <1>1, <1>8 DEF ReceiverKeeps
  <2>2. Asks(f, messages, BS)
    BY <1>8 DEF Asks
  <2>3. TimesFit' /\ WireMeetsSender' /\ FlowControlFits'
    BY <1>1, <1>3, <1>6, <1>8, <2>2, HeardAnswer
  <2>4. ReceiverFits' /\ AssemblyFits'
    BY <1>3, <1>6, <1>8, <2>1, HeardBusy
  <2>5. IInv'
    BY <1>3, <2>1, <2>3, <2>4, HeardSame DEF IInv
  <2> QED
    BY <2>1, <2>5
<1>9. CASE ReceiverIdles
  <2>1. completed' = completed /\ rRx'.ready = rRx.ready /\ rRx' \in Receiver!RxType
        /\ rRx'.state = "Idle" /\ rOut' = <<>>
    BY <1>1, <1>9 DEF ReceiverIdles
  <2>2. IInv'
    BY <1>1, <1>3, <2>1, HeardSame, HeardIdle, HeardNothing DEF IInv
  <2> QED
    BY <2>1, <2>2
<1>10. ASSUME NEW b, ReceiverCompletes(b), End(f) = Len(messages[Msg(f)]),
              (b = f.data /\ Begin(f) = 0) \/ b = Bytes(Msg(f), 0, End(f))
       PROVE  Goal
  <2>1. b = messages[Msg(f)] /\ rRx'.buffer[1][1] = Msg(f)
    BY <1>3, <1>6, <1>10, CompletedIs
  <2>2. rRet' = "MessageReady" /\ rOut' = <<>> /\ rRx' \in Receiver!RxType /\ rRx'.state = "Idle"
        /\ rRx'.buffer = b /\ rRx'.length = Len(b)
    BY <1>10 DEF ReceiverCompletes
  <2>3. completed' = Msg(f)
    BY <1>1, <2>1, <2>2
  <2>4. AreMessages(messages, completed)' /\ AreInOrder(toReceiver, messages, completed)' /\ SenderFits'
    BY <1>3, <1>6, <1>10, <2>3, HeardLast
  <2>5. IInv'
    BY <1>1, <1>3, <2>2, <2>4, HeardIdle, HeardNothing DEF IInv
  <2>6. completed' \in completed + 1 .. Len(messages)
    BY <1>5, <2>3 DEF IsPiece
  <2>7. Receiver!PendingMessage' = messages[completed']
    <3>1. messages[Msg(f)] \in Seq(Byte)
      BY <1>5, PieceFacts DEF AreMessages
    <3>2. SubSeq(b, 1, Len(b)) = b
      BY <2>1, <3>1, SubSeqFull
    <3> QED
      BY <2>1, <2>2, <2>3, <3>2 DEF Receiver!PendingMessage
  <2> QED
    BY <2>5, <2>6, <2>7
<1>11. CASE f.type = "SF" /\ ReceiverCompletes(f.data)
  <2>1. End(f) = Len(messages[Msg(f)]) /\ Begin(f) = 0
    BY <1>5, <1>11 DEF IsPiece
  <2> QED
    BY <1>10, <1>11, <2>1
<1>12. CASE f.type = "FF" /\ ReceiverOpens(f)
  <2>1. /\ completed' = completed /\ rRx'.state = "Receiving" /\ ~rRx'.ready
        /\ rOut' = <<Receiver!FlowControl(rConfig, 0)>>
        /\ rRx'.deadline = now + rConfig.consecutiveFrameTimeout
    BY <1>1, <1>12 DEF ReceiverOpens, Assembles
  <2>2. Receiver!IsConfigValid(rConfig)
    <3>1. rRx' = rRx => Receiver!IsConfigValid(rConfig)
      BY <2>1 DEF IInv, ReceiverFits
    <3> QED
      BY <1>4, <3>1 DEF ReceiverKeeps
  <2>3. /\ ReceiverFits' /\ AssemblyFits' /\ Assembled' = Msg(f) /\ rRx'.offset = End(f)
        /\ Asks(f, messages, BS)
    BY <1>3, <1>6, <1>12, <2>1, <2>2, HeardFirst
  <2>4. TimesFit' /\ WireMeetsSender' /\ FlowControlFits'
    BY <1>1, <1>3, <1>6, <2>1, <2>3, HeardAnswer
  <2>5. IInv'
    BY <1>3, <2>1, <2>3, <2>4, HeardSame DEF IInv
  <2> QED
    BY <2>1, <2>5
<1>13. CASE /\ f.type = "CF" /\ rRx.state = "Receiving" /\ Msg(f) = Assembled /\ Begin(f) = rRx.offset
            /\ End(f) = rRx.expected /\ ReceiverCompletes(Bytes(Assembled, 0, End(f)))
  <2>1. End(f) = Len(messages[Msg(f)])
    BY <1>13 DEF IInv, ReceiverFits
  <2> QED
    BY <1>10, <1>13, <2>1
<1>14. CASE /\ f.type = "CF" /\ rRx.state = "Receiving" /\ Msg(f) = Assembled /\ Begin(f) = rRx.offset
            /\ End(f) # rRx.expected /\ ReceiverStores(Bytes(Assembled, 0, End(f)))
  <2>1. completed' = completed /\ ~rRx'.ready
    BY <1>1, <1>14 DEF ReceiverStores, Assembles
  <2>2. /\ ReceiverFits' /\ AssemblyFits' /\ Assembled' = Msg(f) /\ rRx'.offset = End(f)
        /\ rRx'.state = "Receiving"
        /\ rRx'.deadline = now + rConfig.consecutiveFrameTimeout
        /\ \/ rOut' = <<>>
           \/ rOut' = <<Receiver!FlowControl(rConfig, 0)>> /\ Asks(f, messages, BS)
    BY <1>3, <1>6, <1>14, <2>1, HeardNext
  <2>3. TimesFit' /\ WireMeetsSender' /\ FlowControlFits'
    <3>1. CASE rOut' = <<>>
      BY <1>1, <1>3, <3>1, HeardNothing
    <3>2. CASE rOut' = <<Receiver!FlowControl(rConfig, 0)>> /\ Asks(f, messages, BS)
      BY <1>1, <1>3, <1>6, <2>2, <3>2, HeardAnswer
    <3> QED
      BY <2>2, <3>1, <3>2
  <2>4. IInv'
    BY <1>3, <2>1, <2>2, <2>3, HeardSame DEF IInv
  <2> QED
    BY <2>1, <2>4
<1> QED
  BY <1>4, <1>7, <1>8, <1>9, <1>11, <1>12, <1>13, <1>14

(***************************************************************************)
(* The sender polls.                                                       *)
(***************************************************************************)

\* A transmission that ends with nothing asked of it leaves no debts.
LEMMA StoppedKeeps ==
  ASSUME IInv, UNCHANGED <<now, sConfig, sRx, rConfig, rRx, rTx, messages, completed, toReceiver, lost>>,
         sTx' \in Sender!TxType, sTx'.state = "Idle", toSender' = <<>>,
         \A i \in 1 .. Len(toReceiver) : ~Asks(toReceiver[i].frame, messages, BS)
  PROVE  IInv'
<1>1. AreMessages(messages, completed)' /\ AreInOrder(toReceiver, messages, completed)'
  BY DEF IInv
<1>2. SenderFits' /\ ReceiverFits'
  BY DEF IInv, SenderFits, ReceiverFits, BS, Current, Assembled
<1>3. AssemblyFits'
  BY DEF IInv, AssemblyFits, Assembled, Gap
<1>4. WireMeetsSender'
  BY DEF WireMeetsSender, BS
<1>5. TimesFit'
  <2>1. <<>> \in Seq(Flight) /\ Len(<<>>) = 0 /\ \A i \in 1 .. 0 : FALSE
    OBVIOUS
  <2>2. /\ toReceiver \in Seq(Flight) /\ now \in Nat /\ lost \in 0 .. MaxLost
        /\ \A i \in 1 .. Len(toReceiver) : toReceiver[i].due \in now .. now + MaxDelay
    BY DEF IInv, TimesFit
  <2> QED
    BY <2>1, <2>2 DEF TimesFit
<1>6. FlowControlFits'
  BY DEF FlowControlFits
<1> QED
  BY <1>1, <1>2, <1>3, <1>4, <1>5, <1>6 DEF IInv

\* A sender whose deadline has passed has nothing on the wire, in neither direction.
LEMMA ExpiredIsQuiet ==
  ASSUME IInv, sTx.state = "WaitFlowControl", now >= sTx.deadline
  PROVE  toReceiver = <<>> /\ toSender = <<>>
<1>1. /\ toReceiver \in Seq(Flight) /\ toSender \in Seq(Flight) /\ now \in Nat
      /\ \A i \in 1 .. Len(toReceiver) : toReceiver[i].due \in now .. now + MaxDelay
      /\ \A i \in 1 .. Len(toSender) : now <= toSender[i].due
      /\ \A i \in 1 .. Len(toReceiver) :
           toReceiver[i].due + SenderConfig.flowControlTimeout <= sTx.deadline + MaxDelay
  BY DEF IInv, TimesFit
<1>2. sTx.deadline \in Nat
  BY DEF IInv, SenderFits, Sender!TxType
<1>3. SenderConfig.flowControlTimeout \in Nat /\ 2 * MaxDelay < SenderConfig.flowControlTimeout
      /\ MaxDelay \in Nat
  BY SenderConfigTyped, Sizes
<1> DEFINE limit == SenderConfig.flowControlTimeout
           deadline == sTx.deadline
<1>4. toReceiver = <<>>
  <2> SUFFICES ASSUME toReceiver # <<>> PROVE FALSE
    OBVIOUS
  <2> DEFINE due == toReceiver[1].due
  <2>1. 1 \in 1 .. Len(toReceiver)
    <3>1. Len(toReceiver) \in Nat \ {0}
      BY <1>1, EmptySeq
    <3> QED
      BY <3>1
  <2>2. due \in now .. now + MaxDelay /\ due + limit <= deadline + MaxDelay
    BY <1>1, <2>1
  <2>3. limit \in Nat /\ 2 * MaxDelay < limit /\ deadline \in Nat /\ now >= deadline
    BY <1>2, <1>3
  <2> HIDE DEF due, limit, deadline
  <2> QED
    BY <1>1, <1>3, <2>2, <2>3
<1>5. toSender = <<>>
  <2> SUFFICES ASSUME toSender # <<>> PROVE FALSE
    OBVIOUS
  <2> DEFINE due == toSender[1].due
  <2>1. Len(toSender) = 1 /\ due < deadline
    BY DEF IInv, FlowControlFits
  <2>2. 1 \in 1 .. Len(toSender)
    BY <2>1
  <2>3. now <= due /\ toSender[1] \in Flight
    BY <1>1, <2>2
  <2>4. due \in Nat
    BY <2>3, Zenon DEF Flight
  <2>5. deadline \in Nat /\ now >= deadline
    BY <1>2
  <2> HIDE DEF due, deadline
  <2> QED
    BY <1>1, <2>1, <2>3, <2>4, <2>5
<1> QED
  BY <1>4, <1>5

\* What appending to a sequence over any set gives.
LEMMA AppendIs ==
  ASSUME NEW S, NEW s \in Seq(S), NEW e \in S
  PROVE  /\ Append(s, e) \in Seq(S)
         /\ Len(Append(s, e)) = Len(s) + 1
         /\ \A i \in 1 .. Len(s) : Append(s, e)[i] = s[i]
         /\ Append(s, e)[Len(s) + 1] = e
BY AppendProperties

\* The sender hands its frame to the wire, behind what is there.
LEMMA SentTimes ==
  ASSUME IInv, UNCHANGED <<now, toSender, lost>>, NEW f \in WireFrame,
         toReceiver' = toReceiver \o OnWire(<<f>>),
         sTx'.state = "WaitFlowControl" => sTx'.deadline = now + SenderConfig.flowControlTimeout
  PROVE  LET x == [frame |-> f, due |-> now + MaxDelay] IN
         /\ TimesFit' /\ toReceiver' = Append(toReceiver, x) /\ x \in Flight
         /\ toReceiver \in Seq(Flight)
         /\ Len(toReceiver) \in Nat /\ Len(toReceiver') = Len(toReceiver) + 1
         /\ toReceiver' # <<>>
         /\ \A i \in 1 .. Len(toReceiver) : toReceiver'[i] = toReceiver[i]
         /\ toReceiver'[Len(toReceiver) + 1].frame = f
         /\ \A i \in 1 .. Len(toReceiver') : i \in 1 .. Len(toReceiver) \/ i = Len(toReceiver) + 1
         /\ toReceiver = <<>> <=> Len(toReceiver) = 0
<1> DEFINE x == [frame |-> f, due |-> now + MaxDelay]
<1>1. /\ toReceiver \in Seq(Flight) /\ toSender \in Seq(Flight)
      /\ now \in Nat /\ lost \in 0 .. MaxLost
      /\ \A i \in 1 .. Len(toReceiver) : toReceiver[i].due \in now .. now + MaxDelay
      /\ \A i \in 1 .. Len(toSender) : now <= toSender[i].due
  BY DEF IInv, TimesFit
<1>2. x \in Flight /\ toReceiver' = Append(toReceiver, x)
  BY <1>1, OneOnWire
<1>3. x.frame = f /\ x.due = now + MaxDelay
  OBVIOUS
<1> HIDE DEF x
<1>4. /\ toReceiver' \in Seq(Flight) /\ Len(toReceiver) \in Nat
      /\ Len(toReceiver') = Len(toReceiver) + 1
      /\ \A i \in 1 .. Len(toReceiver) : toReceiver'[i] = toReceiver[i]
      /\ toReceiver'[Len(toReceiver) + 1] = x
      /\ toReceiver = <<>> <=> Len(toReceiver) = 0
  <2>1. toReceiver = <<>> <=> Len(toReceiver) = 0
    BY <1>1, EmptySeq
  <2>2. Len(toReceiver) \in Nat
    BY <1>1
  <2>3. /\ Append(toReceiver, x) \in Seq(Flight)
        /\ Len(Append(toReceiver, x)) = Len(toReceiver) + 1
        /\ \A i \in 1 .. Len(toReceiver) : Append(toReceiver, x)[i] = toReceiver[i]
        /\ Append(toReceiver, x)[Len(toReceiver) + 1] = x
    <3>1. toReceiver \in Seq(Flight) /\ x \in Flight
      BY <1>1, <1>2
    <3> QED
      BY <3>1, AppendIs
  <2> QED
    BY <1>2, <2>1, <2>2, <2>3
<1>5. toReceiver' # <<>>
  BY <1>4, EmptySeq
<1>6. \A i \in 1 .. Len(toReceiver') : i \in 1 .. Len(toReceiver) \/ i = Len(toReceiver) + 1
  BY <1>4
<1>7. \A i \in 1 .. Len(toReceiver') : toReceiver'[i].due \in now .. now + MaxDelay
  <2> SUFFICES ASSUME NEW i \in 1 .. Len(toReceiver')
               PROVE  toReceiver'[i].due \in now .. now + MaxDelay
    OBVIOUS
  <2>1. CASE i \in 1 .. Len(toReceiver)
    <3>1. toReceiver'[i] = toReceiver[i] /\ toReceiver[i].due \in now .. now + MaxDelay
      BY <1>1, <1>4, <2>1, Zenon
    <3> QED
      BY <3>1, Zenon
  <2>2. CASE i = Len(toReceiver) + 1
    <3>1. now + MaxDelay \in now .. now + MaxDelay
      BY <1>1, Sizes
    <3>2. toReceiver'[i] = x /\ x.due = now + MaxDelay
      BY <1>3, <1>4, <2>2, Zenon
    <3> QED
      BY <3>1, <3>2, Zenon
  <2> QED
    BY <1>6, <2>1, <2>2, Zenon
<1>8. sTx'.state = "WaitFlowControl" =>
        \A i \in 1 .. Len(toReceiver') :
          toReceiver'[i].due + SenderConfig.flowControlTimeout <= sTx'.deadline + MaxDelay
  <2> SUFFICES ASSUME sTx'.state = "WaitFlowControl", NEW i \in 1 .. Len(toReceiver')
               PROVE  toReceiver'[i].due + SenderConfig.flowControlTimeout <= sTx'.deadline + MaxDelay
    OBVIOUS
  <2> DEFINE due == toReceiver'[i].due
             limit == SenderConfig.flowControlTimeout
             deadline == sTx'.deadline
  <2>1. due \in now .. now + MaxDelay /\ deadline = now + limit /\ limit \in Nat /\ MaxDelay \in Nat
    BY <1>7, SenderConfigTyped, Sizes
  <2> HIDE DEF due, limit, deadline
  <2>2. due + limit <= deadline + MaxDelay
    BY <1>1, <2>1
  <2> QED
    BY <2>2 DEF due, limit, deadline
<1>9. TimesFit'
  BY <1>1, <1>4, <1>7, <1>8 DEF TimesFit
<1> QED
  BY <1>1, <1>2, <1>3, <1>4, <1>5, <1>6, <1>9 DEF x

\* Every frame on the wire lies before what its sender sends next.
LEMMA AllBefore ==
  ASSUME IInv, sTx.state # "Idle", NEW i \in 1 .. Len(toReceiver),
         NEW g, Msg(g) = Current, Begin(g) = sTx.offset
  PROVE  Follows(toReceiver[i].frame, g)
<1> DEFINE h == toReceiver[i].frame
           n == Len(toReceiver)
           l == toReceiver[n].frame
<1>1. n \in Nat /\ i \in 1 .. n /\ n \in 1 .. n /\ toReceiver # <<>>
  BY EmptySeq DEF IInv, TimesFit
<1>2. Msg(l) = Current /\ End(l) = sTx.offset
  BY <1>1 DEF IInv, WireMeetsSender
<1>3. i # n => Follows(h, l)
  <2>1. i # n => i < n
    BY <1>1
  <2> QED
    BY <1>1, <2>1 DEF IInv, AreInOrder
<1>4. IsPiece(h, messages, completed) /\ IsPiece(l, messages, completed)
  BY <1>1 DEF IInv, AreInOrder
<1> HIDE DEF h, l, n
<1>5. /\ Msg(h) \in Nat /\ Msg(l) \in Nat /\ Begin(h) < End(h) /\ Begin(l) < End(l)
      /\ Begin(h) \in Nat /\ Begin(l) \in Nat /\ End(h) \in Nat /\ End(l) \in Nat
  BY <1>4, PieceFacts DEF IInv
<1>6. CASE i = n
  <2>1. h = l
    BY <1>6 DEF h, l
  <2> QED
    BY <1>2, <1>5, <2>1 DEF Follows, h
<1>7. CASE i # n
  <2>1. Msg(h) < Current \/ (Msg(h) = Current /\ End(h) <= Begin(l))
    BY <1>2, <1>3, <1>7 DEF Follows
  <2>2. Msg(h) < Msg(g) \/ (Msg(h) = Msg(g) /\ End(h) <= Begin(g))
    BY <1>2, <1>5, <2>1
  <2> QED
    BY <2>2 DEF Follows, h
<1> QED
  BY <1>6, <1>7

\* The next consecutive frame follows the last on the wire, and the receiver answers it
\* exactly if the sender waits for the answer.
LEMMA ConsecutiveSent ==
  ASSUME IInv, SenderAdvances, toReceiver' = toReceiver \o OnWire(sOut'),
         UNCHANGED <<now, sConfig, sRx, rConfig, rRx, rTx, messages, completed, toSender, lost>>
  PROVE  IInv'
<1> DEFINE f == Sender!ConsecutiveFrame(sTx.seq, Sender!NextData)
           e == sTx.offset + Len(Sender!NextData)
           L == Len(messages[Current])
           n == Len(toReceiver)
<1>1. sTx.state = "Sending" /\ sOut' = <<f>>
  BY DEF SenderAdvances
<1>2. AreMessages(messages, completed) /\ SenderFits
  BY DEF IInv
<1>3. /\ sTx \in Sender!TxType /\ Sender!IsConfigValid(SenderConfig) /\ completed < Current
      /\ sTx.payload = messages[Current] /\ Len(sTx.payload) > CfData
      /\ OnBoundary(sTx.offset) /\ sTx.offset < Len(sTx.payload)
      /\ sTx.seq = (Index(sTx.offset) + 1) % SeqModulus
      /\ sTx.blockSize = BS
      /\ BS # 0 => /\ sTx.blockRemaining \in 1 .. BS
                   /\ Index(sTx.offset) % BS = BS - sTx.blockRemaining
      /\ sConfig = SenderConfig /\ sRx = Sender!InitRx
  BY <1>1, <1>2 DEF SenderFits
<1>4. /\ Current \in 1 .. MaxMessages /\ Current \in Nat /\ L \in 1 .. KMaxPayload
      /\ sTx.offset \in Nat /\ e \in Nat /\ sTx.offset < e /\ e <= L
      /\ e <= sTx.offset + CfData
      /\ e = L \/ e = sTx.offset + CfData
      /\ Sender!NextData = Bytes(Current, sTx.offset, e)
      /\ Sender!NextData \in Seq(Byte)
      /\ Len(sTx.payload) = L
  BY <1>1, <1>2, NextDataIs
<1>5. f.type = "CF" /\ f.sn = sTx.seq /\ f.data = Sender!NextData
  BY DEF Sender!ConsecutiveFrame
<1>6. f \in WireFrame
  <2>1. sTx.seq \in Nat /\ "CF" \in {"CF"}
    <3>1. sTx.seq \in Sender!SequenceNumber
      BY <1>3 DEF Sender!TxType
    <3> QED
      BY <3>1, NumbersWrap
  <2>2. f \in [type : {"CF"}, sn : Nat, data : Seq(Byte)]
    BY <1>4, <2>1, Zenon DEF Sender!ConsecutiveFrame
  <2> QED
    BY <2>2, Zenon DEF WireFrame
<1> HIDE DEF f, e, L
<1>7. Msg(f) = Current /\ Begin(f) = sTx.offset /\ End(f) = e
  <2>1. e <= KMaxPayload
    BY <1>4, Sizes
  <2> QED
    BY <1>4, <1>5, <2>1, BytesTell
<1>8. /\ sTx' \in Sender!TxType
      /\ \/ e = L /\ sTx' = Sender!IdleTx
         \/ /\ e # L /\ Sender!LastFrameOfBlock
            /\ Waits(sTx.payload, e, (sTx.seq + 1) % SeqModulus)
         \/ /\ e # L /\ ~Sender!LastFrameOfBlock
            /\ Sends(e, (sTx.seq + 1) % SeqModulus, sTx.blockSize,
                     IF sTx.blockSize = 0 THEN sTx.blockRemaining ELSE sTx.blockRemaining - 1)
  BY <1>4, IdleTxTyped DEF SenderAdvances, Waits, Sends, e
<1>9. IsPiece(f, messages, completed)
  <2>1. Msg(f) \in completed + 1 .. Len(messages)
    BY <1>2, <1>3, <1>4, <1>7 DEF AreMessages, Current
  <2> QED
    BY <1>3, <1>4, <1>5, <1>7, <2>1 DEF IsPiece, L
<1>10. LET x == [frame |-> f, due |-> now + MaxDelay] IN
         /\ TimesFit' /\ toReceiver' = Append(toReceiver, x) /\ x \in Flight
         /\ toReceiver \in Seq(Flight)
         /\ n \in Nat /\ Len(toReceiver') = n + 1
         /\ toReceiver' # <<>>
         /\ \A i \in 1 .. n : toReceiver'[i] = toReceiver[i]
         /\ toReceiver'[n + 1].frame = f
         /\ \A i \in 1 .. Len(toReceiver') : i \in 1 .. n \/ i = n + 1
         /\ toReceiver = <<>> <=> n = 0
  <2>1. sTx'.state = "WaitFlowControl" => sTx'.deadline = now + SenderConfig.flowControlTimeout
    BY <1>8, IdleTxTyped DEF Waits, Sends
  <2> QED
    BY <1>1, <1>6, <2>1, SentTimes
<1>11. toReceiver # <<>> =>
         Msg(toReceiver[n].frame) = Current /\ End(toReceiver[n].frame) = sTx.offset
  BY <1>1 DEF IInv, WireMeetsSender
<1>12. AreInOrder(toReceiver, messages, completed)'
  <2>1. \A i \in 1 .. n : Follows(toReceiver[i].frame, f)
    BY <1>1, <1>7, AllBefore
  <2>2. toReceiver # <<>> => Adjoins(toReceiver[n].frame, f)
    BY <1>5, <1>7, <1>11 DEF Adjoins
  <2> DEFINE x == [frame |-> f, due |-> now + MaxDelay]
  <2>3. x.frame = f /\ x \in Flight /\ toReceiver' = Append(toReceiver, x) /\ toReceiver \in Seq(Flight)
    BY <1>10
  <2>4. AreInOrder(toReceiver, messages, completed)
    BY DEF IInv
  <2> HIDE DEF x
  <2>5. AreInOrder(Append(toReceiver, x), messages, completed)
    BY <1>9, <2>1, <2>2, <2>3, <2>4, AppendInOrder
  <2> QED
    BY <2>3, <2>5
<1>13. AreMessages(messages, completed)' /\ ReceiverFits'
  BY DEF IInv, ReceiverFits, BS, Current, Assembled
<1>14. BS' = BS /\ Current' = Current /\ Assembled' = Assembled /\ BS \in Nat
  <2>1. BS \in 0 .. 255
    BY ReceiverConfigTyped DEF IInv
  <2>2. BS' = BS /\ Current' = Current /\ Assembled' = Assembled
    BY DEF BS, Current, Assembled
  <2> QED
    BY <2>1, <2>2
<1>15. e # L =>
         /\ OnBoundary(e) /\ Index(e) = Index(sTx.offset) + 1 /\ Index(sTx.offset) \in Nat
         /\ e < L
  <2>1. e # L => e = sTx.offset + CfData /\ e < L
    BY <1>4
  <2> QED
    BY <1>3, <2>1, NextBoundary
<1>16. e # L => (sTx.seq + 1) % SeqModulus = (Index(e) + 1) % SeqModulus
  <2>1. SeqModulus \in Nat \ {0}
    BY Sizes
  <2> QED
    BY <1>3, <1>15, <2>1, NumberAdvances
<1>17. BS # 0 /\ e # L =>
         /\ Sender!LastFrameOfBlock => Index(e) % BS = 0
         /\ ~Sender!LastFrameOfBlock => /\ sTx.blockRemaining - 1 \in 1 .. BS
                                        /\ Index(e) % BS = BS - (sTx.blockRemaining - 1)
                                        /\ Index(e) % BS # 0
  <2> SUFFICES ASSUME BS # 0, e # L
               PROVE  /\ Sender!LastFrameOfBlock => Index(e) % BS = 0
                      /\ ~Sender!LastFrameOfBlock => /\ sTx.blockRemaining - 1 \in 1 .. BS
                                                     /\ Index(e) % BS = BS - (sTx.blockRemaining - 1)
                                                     /\ Index(e) % BS # 0
    OBVIOUS
  <2> DEFINE k == Index(sTx.offset)
             r == sTx.blockRemaining
  <2>1. k \in Nat /\ BS \in Nat \ {0} /\ Index(e) = k + 1 /\ r \in 1 .. BS /\ k % BS = BS - r
    BY <1>3, <1>14, <1>15
  <2>2. Sender!LastFrameOfBlock <=> r = 1
    BY <1>3 DEF Sender!LastFrameOfBlock
  <2> HIDE DEF k, r
  <2>3. (k + 1) % BS = IF (k % BS) + 1 = BS THEN 0 ELSE (k % BS) + 1
    BY <2>1, NextInBlock
  <2>4. (k + 1) % BS = IF r = 1 THEN 0 ELSE BS - r + 1
    BY <2>1, <2>3
  <2>5. /\ r = 1 => Index(e) % BS = 0
        /\ r # 1 => r - 1 \in 1 .. BS /\ Index(e) % BS = BS - (r - 1) /\ Index(e) % BS # 0
    BY <2>1, <2>4
  <2> QED
    BY <2>2, <2>5 DEF r
<1>18. SenderFits'
  <2>1. CASE e = L /\ sTx' = Sender!IdleTx
    BY <1>3, <2>1, IdleTxTyped DEF SenderFits
  <2>2. CASE /\ e # L /\ Sender!LastFrameOfBlock
             /\ Waits(sTx.payload, e, (sTx.seq + 1) % SeqModulus)
    BY <1>3, <1>4, <1>8, <1>14, <1>15, <1>16, <1>17, <2>2 DEF SenderFits, Waits
  <2>3. CASE /\ e # L /\ ~Sender!LastFrameOfBlock
             /\ Sends(e, (sTx.seq + 1) % SeqModulus, sTx.blockSize,
                      IF sTx.blockSize = 0 THEN sTx.blockRemaining ELSE sTx.blockRemaining - 1)
    BY <1>3, <1>4, <1>8, <1>14, <1>15, <1>16, <1>17, <2>3 DEF SenderFits, Sends
  <2> QED
    BY <1>8, <2>1, <2>2, <2>3
<1>19. AssemblyFits'
  <2> SUFFICES ASSUME rRx.state = "Receiving" PROVE AssemblyFits'
    BY DEF AssemblyFits
  <2>1. /\ \A i \in 1 .. n :
             /\ Msg(toReceiver[i].frame) >= Assembled
             /\ toReceiver[i].frame.type = "CF" <=> Msg(toReceiver[i].frame) = Assembled
        /\ Current = Assembled
        /\ toReceiver # <<>> /\ Msg(toReceiver[1].frame) = Assembled => Gap(Begin(toReceiver[1].frame))
        /\ toReceiver = <<>> => Gap(sTx.offset)
    BY <1>1 DEF IInv, AssemblyFits
  <2>2. \A i \in 1 .. Len(toReceiver') :
          /\ Msg(toReceiver'[i].frame) >= Assembled
          /\ toReceiver'[i].frame.type = "CF" <=> Msg(toReceiver'[i].frame) = Assembled
    <3>1. Msg(f) >= Assembled /\ (f.type = "CF" <=> Msg(f) = Assembled)
      BY <1>4, <1>5, <1>7, <2>1
    <3> QED
      BY <1>10, <2>1, <3>1
  <2>3. Msg(toReceiver'[1].frame) = Assembled => Gap(Begin(toReceiver'[1].frame))
    <3>1. CASE toReceiver = <<>>
      <4>1. toReceiver'[1].frame = f
        BY <1>10, <3>1
      <4> QED
        BY <1>7, <2>1, <3>1, <4>1
    <3>2. CASE toReceiver # <<>>
      <4>1. toReceiver'[1] = toReceiver[1]
        <5>1. 1 \in 1 .. n
          BY <1>10, <3>2
        <5> QED
          BY <1>10, <5>1
      <4> QED
        BY <2>1, <3>2, <4>1
    <3> QED
      BY <3>1, <3>2
  <2>4. \A o : Gap(o) => GapThen(o)
    BY DEF Gap, GapThen
  <2> QED
    BY <1>10, <1>14, <2>1, <2>2, <2>3, <2>4 DEF AssemblyFits, Gap, GapThen
<1>20. WireMeetsSender'
  <2>1. /\ \A i \in 1 .. n : toReceiver[i].frame.type = "CF"
        /\ \A i \in 1 .. n : ~Asks(toReceiver[i].frame, messages, BS)
    BY <1>1 DEF IInv, WireMeetsSender
  <2>2. sTx'.state # "Idle" => sTx'.offset = e
    BY <1>8, IdleTxTyped DEF Waits, Sends
  <2>3. Asks(f, messages, BS) => sTx'.state = "WaitFlowControl"
    <3> SUFFICES ASSUME Asks(f, messages, BS) PROVE sTx'.state = "WaitFlowControl"
      OBVIOUS
    <3>1. e < L /\ BS # 0 /\ Index(e) % BS = 0
      BY <1>5, <1>7 DEF Asks, EndsBlock, L
    <3>2. Sender!LastFrameOfBlock
      BY <1>4, <1>17, <3>1
    <3> QED
      BY <1>4, <1>8, <3>1, <3>2 DEF Waits
  <2>4. \A i \in 1 .. Len(toReceiver') :
          Asks(toReceiver'[i].frame, messages, BS) =>
            i = Len(toReceiver') /\ sTx'.state = "WaitFlowControl"
    BY <1>10, <2>1, <2>3
  <2>5. \A i \in 1 .. Len(toReceiver') : toReceiver'[i].frame.type = "CF"
    BY <1>5, <1>10, <2>1
  <2>6. toReceiver'[Len(toReceiver')].frame = f
    BY <1>10
  <2> QED
    BY <1>7, <1>14, <2>2, <2>4, <2>5, <2>6 DEF WireMeetsSender
<1>21. FlowControlFits'
  BY <1>1 DEF IInv, FlowControlFits
<1> QED
  BY <1>10, <1>12, <1>13, <1>18, <1>19, <1>20, <1>21 DEF IInv

\* A transmission given up has nothing of it awaited; a frame sent follows the one before.
LEMMA SenderPollsKeeps == IInv /\ SenderPolls => IInv'
<1> SUFFICES ASSUME IInv, SenderPolls PROVE IInv'
  OBVIOUS
<1>1. /\ Sender!Poll /\ toReceiver' = toReceiver \o OnWire(sOut')
      /\ UNCHANGED <<rConfig, rRx, rTx, toSender, lost, messages, completed>>
  BY DEF SenderPolls, SenderTransmits, receiverVars
<1>2. /\ UNCHANGED <<now, sRx, sConfig>>
      /\ \/ sTx' = sTx /\ sOut' = <<>>
         \/ SenderStops /\ sTx.state = "WaitFlowControl" /\ now >= sTx.deadline
         \/ SenderStops /\ sTx.state = "Sending"
         \/ SenderAdvances
  BY <1>1, SenderPollEffect
<1>3. ASSUME sOut' = <<>> PROVE toReceiver' = toReceiver
  <2>1. toReceiver \in Seq(Flight)
    BY DEF IInv, TimesFit
  <2> QED
    BY <1>1, <1>3, <2>1, NothingOnWire
<1>4. CASE sTx' = sTx /\ sOut' = <<>>
  <2>1. /\ UNCHANGED <<now, sConfig, sRx, sTx, rConfig, rRx, rTx>>
        /\ UNCHANGED <<toReceiver, toSender, lost, messages, completed>>
    BY <1>1, <1>2, <1>3, <1>4
  <2>2. AreMessages(messages, completed)' /\ AreInOrder(toReceiver, messages, completed)'
    BY <2>1 DEF IInv
  <2>3. SenderFits'
    BY <2>1 DEF IInv, SenderFits, BS, Current
  <2>4. ReceiverFits'
    BY <2>1 DEF IInv, ReceiverFits, BS, Current, Assembled
  <2>5. AssemblyFits'
    BY <2>1 DEF IInv, AssemblyFits, Current, Assembled, Gap
  <2>6. WireMeetsSender'
    BY <2>1 DEF IInv, WireMeetsSender, BS, Current
  <2>7. TimesFit'
    BY <2>1 DEF IInv, TimesFit
  <2>8. FlowControlFits'
    BY <2>1 DEF IInv, FlowControlFits, Current, Assembled, IsAnswer
  <2> QED
    BY <2>2, <2>3, <2>4, <2>5, <2>6, <2>7, <2>8 DEF IInv
<1>5. CASE SenderStops /\ sTx.state = "WaitFlowControl" /\ now >= sTx.deadline
  <2>1. toReceiver = <<>> /\ toSender = <<>> /\ Len(<<>>) = 0 /\ \A i \in 1 .. 0 : FALSE
    BY <1>5, ExpiredIsQuiet
  <2>2. \A i \in 1 .. Len(toReceiver) : ~Asks(toReceiver[i].frame, messages, BS)
    BY <2>1
  <2> QED
    BY <1>1, <1>2, <1>3, <1>5, <2>1, <2>2, IdleTxTyped, StoppedKeeps DEF SenderStops
<1>6. CASE SenderStops /\ sTx.state = "Sending"
  <2>1. toSender = <<>> /\ \A i \in 1 .. Len(toReceiver) : ~Asks(toReceiver[i].frame, messages, BS)
    BY <1>6 DEF IInv, FlowControlFits, WireMeetsSender
  <2> QED
    BY <1>1, <1>2, <1>3, <1>6, <2>1, IdleTxTyped, StoppedKeeps DEF SenderStops
<1>7. CASE SenderAdvances
  BY <1>1, <1>2, <1>7, ConsecutiveSent
<1> QED
  BY <1>2, <1>4, <1>5, <1>6, <1>7

(***************************************************************************)
(* The sender hears flow control.                                          *)
(***************************************************************************)

\* Flow control starts the next block of the message it was sent for.
LEMMA SenderHearsKeeps ==
  ASSUME IInv, SenderHears
  PROVE  /\ IInv'
         /\ sTx'.state = "Sending" =>
              /\ rRx.state = "Receiving" /\ Assembled = Current /\ rRx.offset = sTx.offset
              /\ sTx.state = "WaitFlowControl"
<1> DEFINE f == toSender[1].frame
<1>1. /\ toSender # <<>> /\ Sender!OnCanFrame(Head(toSender).frame) /\ toSender' = Tail(toSender)
      /\ toReceiver' = toReceiver \o OnWire(sOut')
      /\ UNCHANGED <<rConfig, rRx, rTx, lost, messages, completed>>
  BY DEF SenderHears, SenderTransmits, receiverVars
<1>2. /\ Len(toSender) = 1 /\ toReceiver = <<>> /\ sTx.state = "WaitFlowControl"
      /\ toSender[1].due < sTx.deadline /\ IsAnswer(f)
      /\ f.flowStatus = 0 => rRx.state = "Receiving" /\ Assembled = Current /\ rRx.offset = sTx.offset
  BY <1>1 DEF IInv, FlowControlFits
<1>3. /\ toSender \in Seq(Flight) /\ toReceiver \in Seq(Flight) /\ now \in Nat /\ lost \in 0 .. MaxLost
      /\ \A i \in 1 .. Len(toSender) : now <= toSender[i].due
  BY DEF IInv, TimesFit
<1>4. toSender' = <<>> /\ Head(toSender) = toSender[1]
  <2>1. Tail(toSender) \in Seq(Flight) /\ Len(Tail(toSender)) = 0 /\ Head(toSender) = toSender[1]
    BY <1>1, <1>2, <1>3, HeadTailProperties
  <2> QED
    BY <1>1, <2>1, EmptySeq
<1>5. now < sTx.deadline
  <2> DEFINE due == toSender[1].due
             deadline == sTx.deadline
  <2>1. 1 \in 1 .. Len(toSender)
    BY <1>2
  <2>2. now <= due /\ toSender[1] \in Flight
    BY <1>3, <2>1
  <2>3. due \in Nat
    BY <2>2, Zenon DEF Flight
  <2>4. deadline \in Nat
    BY DEF IInv, SenderFits, Sender!TxType
  <2>5. due < deadline
    BY <1>2
  <2> HIDE DEF due, deadline
  <2>6. now < deadline
    BY <1>3, <2>2, <2>3, <2>4, <2>5
  <2> QED
    BY <2>6 DEF deadline
<1>6. Sender!OnCanFrame(f)
  BY <1>1, <1>4
<1> HIDE DEF f
<1>7. /\ UNCHANGED <<now, sRx, sConfig>> /\ sOut' = <<>>
      /\ \/ SenderStops
         \/ f.flowStatus = 0 /\ Sends(sTx.offset, sTx.seq, BS, BS)
  BY <1>2, <1>5, <1>6, SenderHearsEffect
<1>8. toReceiver' = toReceiver
  BY <1>1, <1>3, <1>7, NothingOnWire
<1>9. Len(<<>>) = 0 /\ (\A i \in 1 .. 0 : FALSE) /\ <<>> \in Seq(Flight)
  OBVIOUS
<1>10. CASE SenderStops
  <2>1. \A i \in 1 .. Len(toReceiver) : ~Asks(toReceiver[i].frame, messages, BS)
    BY <1>2, <1>9
  <2>2. sTx'.state = "Idle" /\ sTx' \in Sender!TxType
    BY <1>10, IdleTxTyped DEF SenderStops
  <2>3. IInv'
    BY <1>1, <1>4, <1>7, <1>8, <2>1, <2>2, StoppedKeeps
  <2> QED
    BY <2>2, <2>3
<1>11. CASE f.flowStatus = 0 /\ Sends(sTx.offset, sTx.seq, BS, BS)
  <2>1. rRx.state = "Receiving" /\ Assembled = Current /\ rRx.offset = sTx.offset
    BY <1>2, <1>11
  <2>2. BS' = BS /\ Current' = Current /\ Assembled' = Assembled /\ BS \in Nat
    <3>1. BS \in 0 .. 255
      BY ReceiverConfigTyped DEF IInv
    <3>2. BS' = BS /\ Current' = Current /\ Assembled' = Assembled
      BY <1>1 DEF BS, Current, Assembled
    <3> QED
      BY <3>1, <3>2
  <2>3. AreMessages(messages, completed)' /\ AreInOrder(toReceiver, messages, completed)' /\ ReceiverFits'
    BY <1>1, <1>8, <2>2 DEF IInv, ReceiverFits
  <2>4. SenderFits'
    <3>1. /\ sConfig = SenderConfig /\ sRx = Sender!InitRx
          /\ Sender!IsConfigValid(SenderConfig)
          /\ completed < Current
          /\ sTx.payload = messages[Current]
          /\ Len(sTx.payload) > CfData
          /\ OnBoundary(sTx.offset) /\ sTx.offset < Len(sTx.payload)
          /\ sTx.seq = (Index(sTx.offset) + 1) % SeqModulus
          /\ BS # 0 => Index(sTx.offset) % BS = 0
      BY <1>2 DEF IInv, SenderFits
    <3>2. BS # 0 => BS \in 1 .. BS /\ BS - BS = 0
      BY <2>2
    <3> QED
      BY <1>1, <1>7, <1>11, <2>2, <3>1, <3>2 DEF SenderFits, Sends
  <2>5. AssemblyFits'
    <3>1. Gap(sTx.offset)
      BY <1>2, <2>1 DEF IInv, AssemblyFits
    <3> QED
      BY <1>1, <1>2, <1>8, <1>9, <1>11, <2>1, <2>2, <3>1 DEF AssemblyFits, Gap, Sends
  <2>6. WireMeetsSender'
    BY <1>2, <1>8, <1>9 DEF WireMeetsSender
  <2>7. TimesFit'
    BY <1>1, <1>2, <1>3, <1>4, <1>7, <1>8, <1>9 DEF TimesFit
  <2>8. FlowControlFits'
    BY <1>4 DEF FlowControlFits
  <2>9. IInv'
    BY <2>3, <2>4, <2>5, <2>6, <2>7, <2>8 DEF IInv
  <2> QED
    BY <1>2, <2>1, <2>9
<1> QED
  BY <1>7, <1>10, <1>11

(***************************************************************************)
(* A message is handed to the sender.                                      *)
(***************************************************************************)

\* A refused message changes nothing but what the sender answers.
LEMMA RefusedKeeps ==
  ASSUME IInv, UNCHANGED <<now, sConfig, sRx, rConfig, rRx, rTx, messages, completed>>,
         UNCHANGED <<toReceiver, toSender, lost>>,
         sTx' = sTx \/ (sTx.state = "Idle" /\ sTx' = Sender!IdleTx)
  PROVE  IInv'
<1>1. CASE sTx' = sTx
  BY <1>1 DEF IInv, SenderFits, ReceiverFits, AssemblyFits, WireMeetsSender, TimesFit,
       FlowControlFits, BS, Current, Assembled, Gap, IsAnswer
<1>2. CASE sTx.state = "Idle" /\ sTx' = Sender!IdleTx
  <2>1. toSender = <<>> /\ \A i \in 1 .. Len(toReceiver) : ~Asks(toReceiver[i].frame, messages, BS)
    BY <1>2 DEF IInv, FlowControlFits, WireMeetsSender
  <2> QED
    BY <1>2, <2>1, IdleTxTyped, StoppedKeeps
<1> QED
  BY <1>1, <1>2

\* The first piece of a message is a single frame with all of it, or a first frame.
LEMMA FirstPiece ==
  ASSUME AreMessages(messages, completed), Len(messages) + 1 \in 1 .. MaxMessages,
         NEW p \in Seq(Byte), p = Bytes(Len(messages) + 1, 0, Len(p)), Len(p) \in 1 .. KMaxPayload,
         NEW f, \/ Len(p) <= CfData /\ f = Sender!SingleFrame(p)
                \/ Len(p) > CfData /\ f = Sender!FirstFrame(p)
  PROVE  /\ AreMessages(Append(messages, p), completed)
         /\ IsPiece(f, Append(messages, p), completed)
         /\ f \in WireFrame /\ f.type # "CF"
         /\ Msg(f) = Len(messages) + 1
         /\ f.type = "FF" => End(f) = FfData
         /\ f.type = "FF" <=> Len(p) > CfData
<1> DEFINE n == Len(messages) + 1
           ms == Append(messages, p)
           L == Len(p)
<1>1. /\ messages \in Seq(Seq(Byte)) /\ Len(messages) \in Nat /\ completed \in 0 .. Len(messages)
      /\ \A i \in 1 .. Len(messages) :
           Len(messages[i]) \in 1 .. KMaxPayload /\ messages[i] = Bytes(i, 0, Len(messages[i]))
  BY DEF AreMessages
<1>2. /\ ms \in Seq(Seq(Byte)) /\ Len(ms) = n /\ ms[n] = p
      /\ \A i \in 1 .. Len(messages) : ms[i] = messages[i]
  BY <1>1, AppendProperties
<1>3. n \in 1 .. MaxMessages /\ L \in 1 .. KMaxPayload /\ n \in Nat /\ L \in Nat /\ L <= KMaxPayload
      /\ MaxMessages \in Nat /\ n <= MaxMessages
  BY Sizes
<1>4. p = Bytes(n, 0, L)
  OBVIOUS
<1> HIDE DEF ms, L
<1>5. AreMessages(ms, completed)
  <2>1. completed \in 0 .. Len(ms)
    BY <1>1, <1>2
  <2>2. \A i \in 1 .. Len(ms) : i \in 1 .. Len(messages) \/ i = n
    BY <1>1, <1>2
  <2>3. Len(p) = L
    BY DEF L
  <2>4. \A i \in 1 .. Len(ms) : Len(ms[i]) \in 1 .. KMaxPayload /\ ms[i] = Bytes(i, 0, Len(ms[i]))
    <3> TAKE i \in 1 .. Len(ms)
    <3>1. CASE i \in 1 .. Len(messages)
      BY <1>1, <1>2, <3>1
    <3>2. CASE i = n
      BY <1>2, <1>3, <1>4, <2>3, <3>2
    <3> QED
      BY <2>2, <3>1, <3>2
  <2> QED
    BY <1>2, <1>3, <2>1, <2>4 DEF AreMessages
<1>6. n \in completed + 1 .. Len(ms)
  BY <1>1, <1>2
<1>7. Len(ms[n]) = L
  BY <1>2 DEF L
<1>8. CASE L <= CfData /\ f = Sender!SingleFrame(p)
  <2>1. f.type = "SF" /\ f.len = L /\ f.data = p
    BY <1>8 DEF Sender!SingleFrame, L
  <2>2. f \in [type : {"SF"}, len : Nat, data : Seq(Byte)]
    <3>1. Len(p) \in Nat /\ "SF" \in {"SF"}
      OBVIOUS
    <3> QED
      BY <1>8, <3>1, Zenon DEF Sender!SingleFrame
  <2>3. f \in WireFrame
    BY <2>2, Zenon DEF WireFrame
  <2>4. Msg(f) = n /\ Begin(f) = 0 /\ End(f) = L
    <3>1. 0 \in Nat /\ 0 < L
      BY <1>3
    <3> QED
      BY <1>3, <1>4, <2>1, <3>1, BytesTell
  <2>5. IsPiece(f, ms, completed)
    BY <1>3, <1>4, <1>6, <1>7, <1>8, <2>1, <2>4 DEF IsPiece
  <2>6. ~(Len(p) > CfData)
    BY <1>3, <1>8, Sizes DEF L
  <2> QED
    BY <1>5, <2>1, <2>3, <2>4, <2>5, <2>6 DEF ms
<1>9. CASE L > CfData /\ f = Sender!FirstFrame(p)
  <2>0. FfData \in Nat /\ FfData < L /\ 0 < FfData /\ Sender!FfData = FfData /\ CfData \in Nat
    BY <1>3, <1>9, Sizes
  <2>1. f.type = "FF" /\ f.full /\ f.len = L /\ f.data = SubSeq(p, 1, FfData)
    BY <1>9, <2>0 DEF Sender!FirstFrame, L
  <2>2. f.data = Bytes(n, 0, FfData)
    <3>1. FfData <= L
      BY <2>0, <1>3
    <3> HIDE DEF n
    <3>2. SubSeq(Bytes(n, 0, L), 1, FfData) = Bytes(n, 0, FfData)
      BY <1>3, <2>0, <3>1, BytesBegin
    <3> QED
      BY <1>4, <2>1, <3>2
  <2>3. FfData <= KMaxPayload
    BY <1>3, <2>0, Sizes
  <2>4. Msg(f) = n /\ Begin(f) = 0 /\ End(f) = FfData
    <3>1. 0 \in Nat
      OBVIOUS
    <3> QED
      BY <1>3, <2>0, <2>2, <2>3, <3>1, BytesTell
  <2>5. f \in WireFrame
    <3>1. Bytes(n, 0, FfData) \in Seq(Byte)
      <4>1. 0 \in Nat /\ 0 <= FfData
        BY <2>0
      <4> QED
        BY <1>3, <2>0, <2>3, <4>1, BytesType
    <3>2. Len(p) \in Nat /\ "FF" \in {"FF"} /\ TRUE \in BOOLEAN
      OBVIOUS
    <3>3. SubSeq(p, 1, Sender!FfData) \in Seq(Byte)
      BY <2>0, <2>1, <2>2, <3>1
    <3>4. f \in [type : {"FF"}, full : BOOLEAN, len : Nat, data : Seq(Byte)]
      BY <1>9, <3>2, <3>3, Zenon DEF Sender!FirstFrame
    <3> QED
      BY <3>4, Zenon DEF WireFrame
  <2>6. IsPiece(f, ms, completed)
    BY <1>3, <1>6, <1>7, <1>9, <2>0, <2>1, <2>2, <2>4 DEF IsPiece
  <2>7. Len(p) > CfData
    BY <1>9 DEF L
  <2> QED
    BY <1>5, <2>1, <2>4, <2>5, <2>6, <2>7 DEF ms
<1> QED
  BY <1>8, <1>9 DEF L

\* A new message begins behind everything that is on the wire.
LEMMA SendMessageKeeps == IInv /\ SendMessage => IInv'
<1> SUFFICES ASSUME IInv, SendMessage PROVE IInv'
  OBVIOUS
<1>1. AreMessages(messages, completed) /\ messages \in Seq(Seq(Byte)) /\ Len(messages) \in Nat
      /\ completed \in Nat
  BY DEF IInv, AreMessages
<1>2. Len(messages) + 1 \in 1 .. MaxMessages
  BY <1>1, Sizes DEF SendMessage
<1>3. PICK p \in Payloads :
        /\ Sender!StartSend(p)
        /\ messages' = IF sRet' \in {"Complete", "InProgress"} THEN Append(messages, p) ELSE messages
  BY DEF SendMessage
<1>4. /\ toReceiver' = toReceiver \o OnWire(sOut')
      /\ UNCHANGED <<rConfig, rRx, rTx, toSender, lost, completed>>
  BY DEF SendMessage, SenderTransmits, receiverVars
<1>5. /\ UNCHANGED <<now, sRx, sConfig>>
      /\ \/ /\ sTx' = sTx \/ (sTx.state = "Idle" /\ sTx' = Sender!IdleTx)
            /\ sOut' = <<>> /\ sRet' \notin {"Complete", "InProgress"}
         \/ /\ sTx.state = "Idle" /\ sRet' \in {"Complete", "InProgress"}
            /\ p \in Seq(Byte) /\ p = Bytes(Len(messages) + 1, 0, Len(p))
            /\ Len(p) \in 1 .. KMaxPayload
            /\ \/ Len(p) <= CfData /\ sTx' = sTx /\ sOut' = <<Sender!SingleFrame(p)>>
               \/ /\ Len(p) > CfData /\ sOut' = <<Sender!FirstFrame(p)>>
                  /\ Sender!IsConfigValid(SenderConfig)
                  /\ Waits(p, FfData, 1)
  BY <1>2, <1>3, SendEffect
<1>6. CASE /\ sTx' = sTx \/ (sTx.state = "Idle" /\ sTx' = Sender!IdleTx)
           /\ sOut' = <<>> /\ sRet' \notin {"Complete", "InProgress"}
  <2>1. toReceiver \in Seq(Flight)
    BY DEF IInv, TimesFit
  <2>2. toReceiver' = toReceiver
    BY <1>4, <1>6, <2>1, NothingOnWire
  <2>3. messages' = messages
    BY <1>3, <1>6
  <2> QED
    BY <1>4, <1>5, <1>6, <2>2, <2>3, RefusedKeeps
<1>7. ASSUME sTx.state = "Idle", sRet' \in {"Complete", "InProgress"},
             p \in Seq(Byte), p = Bytes(Len(messages) + 1, 0, Len(p)), Len(p) \in 1 .. KMaxPayload,
             NEW f, sOut' = <<f>>,
             \/ Len(p) <= CfData /\ sTx' = sTx /\ f = Sender!SingleFrame(p)
             \/ /\ Len(p) > CfData /\ f = Sender!FirstFrame(p)
                /\ Sender!IsConfigValid(SenderConfig)
                /\ Waits(p, FfData, 1)
      PROVE  IInv'
  <2> DEFINE n == Len(toReceiver)
  <2>1. /\ AreMessages(Append(messages, p), completed)
        /\ IsPiece(f, Append(messages, p), completed)
        /\ f \in WireFrame /\ f.type # "CF"
        /\ Msg(f) = Len(messages) + 1
        /\ f.type = "FF" => End(f) = FfData
        /\ f.type = "FF" <=> Len(p) > CfData
    BY <1>1, <1>2, <1>7, FirstPiece
  <2>2. messages' = Append(messages, p)
    BY <1>3, <1>7
  <2>3. /\ Len(messages') = Len(messages) + 1 /\ messages'[Len(messages) + 1] = p
        /\ \A i \in 1 .. Len(messages) : messages'[i] = messages[i]
    BY <1>1, <1>7, <2>2, AppendProperties
  <2>4. Current = Len(messages) /\ Current' = Current + 1
    BY <2>3 DEF Current
  <2>5. LET x == [frame |-> f, due |-> now + MaxDelay] IN
         /\ TimesFit' /\ toReceiver' = Append(toReceiver, x) /\ x \in Flight
         /\ toReceiver \in Seq(Flight)
         /\ n \in Nat /\ Len(toReceiver') = n + 1
         /\ toReceiver' # <<>>
         /\ \A i \in 1 .. n : toReceiver'[i] = toReceiver[i]
         /\ toReceiver'[n + 1].frame = f
         /\ \A i \in 1 .. Len(toReceiver') : i \in 1 .. n \/ i = n + 1
         /\ toReceiver = <<>> <=> n = 0
    <3>1. sTx'.state = "WaitFlowControl" => sTx'.deadline = now + SenderConfig.flowControlTimeout
      BY <1>7 DEF Waits
    <3>2. toReceiver' = toReceiver \o OnWire(<<f>>)
      BY <1>4, <1>7
    <3> QED
      BY <1>4, <1>5, <2>1, <3>1, <3>2, SentTimes
  <2>6. \A i \in 1 .. n :
          /\ IsPiece(toReceiver[i].frame, messages, completed)
          /\ Msg(toReceiver[i].frame) \in 1 .. Current
    <3> TAKE i \in 1 .. n
    <3>1. IsPiece(toReceiver[i].frame, messages, completed)
      BY DEF IInv, AreInOrder
    <3> QED
      BY <1>1, <3>1, PieceFacts DEF Current
  <2>7. AreInOrder(toReceiver, messages, completed)'
    <3> DEFINE x == [frame |-> f, due |-> now + MaxDelay]
    <3>1. x.frame = f /\ x \in Flight /\ toReceiver' = Append(toReceiver, x) /\ toReceiver \in Seq(Flight)
      BY <2>5
    <3>2. AreInOrder(toReceiver, Append(messages, p), completed)
      <4>1. AreInOrder(toReceiver, messages, completed)
        BY DEF IInv
      <4> QED
        BY <1>1, <1>7, <4>1, InOrderOfMore
    <3>3. \A i \in 1 .. n : Follows(toReceiver[i].frame, f)
      <4> TAKE i \in 1 .. n
      <4> DEFINE m == Msg(toReceiver[i].frame)
      <4>1. m \in 1 .. Current /\ Current \in Nat
        BY <1>1, <2>4, <2>6
      <4> HIDE DEF m
      <4>2. m < Msg(f)
        BY <2>1, <2>4, <4>1
      <4> QED
        BY <4>2 DEF Follows, m
    <3>4. toReceiver # <<>> => Adjoins(toReceiver[n].frame, f)
      <4> SUFFICES ASSUME toReceiver # <<>> PROVE Adjoins(toReceiver[n].frame, f)
        OBVIOUS
      <4> DEFINE m == Msg(toReceiver[n].frame)
      <4>1. n \in 1 .. n
        BY <2>5
      <4>2. m \in 1 .. Current /\ Current \in Nat
        BY <1>1, <2>4, <2>6, <4>1
      <4> HIDE DEF m
      <4>3. m # Msg(f)
        BY <2>1, <2>4, <4>2
      <4> QED
        BY <2>1, <4>3 DEF Adjoins, m
    <3> HIDE DEF x
    <3>5. AreInOrder(Append(toReceiver, x), Append(messages, p), completed)
      BY <2>1, <3>1, <3>2, <3>3, <3>4, AppendInOrder
    <3> QED
      BY <1>4, <2>2, <3>1, <3>5
  <2>8. AreMessages(messages, completed)'
    BY <1>4, <2>1, <2>2
  <2>9. BS' = BS /\ Assembled' = Assembled
    BY <1>4 DEF BS, Assembled
  <2>10. sConfig = SenderConfig /\ sRx = Sender!InitRx /\ sTx \in Sender!TxType
    BY DEF IInv, SenderFits
  <2>11. SenderFits'
    <3>1. CASE sTx' = sTx
      BY <1>5, <1>7, <2>10, <3>1 DEF SenderFits
    <3>2. CASE Len(p) > CfData /\ Sender!IsConfigValid(SenderConfig) /\ Waits(p, FfData, 1)
      <4>1. OnBoundary(FfData) /\ Index(FfData) = 0 /\ FfData < Len(p) /\ FfData \in Nat
        BY <3>2, FirstBoundary, Sizes
      <4>2. completed < Current'
        BY <1>1, <2>4, <2>8 DEF AreMessages
      <4>3. 1 = (0 + 1) % SeqModulus
        <5>1. 0 + 1 = SeqModulus * 0 + 1 /\ 0 + 1 \in Nat /\ 0 \in Int /\ 1 \in 0 .. SeqModulus - 1
              /\ SeqModulus \in Nat \ {0}
          BY Sizes, Z3T(30)
        <5> QED
          BY <5>1, Remainder
      <4>4. BS # 0 => 0 % BS = 0
        <5>1. BS \in 0 .. 255
          BY ReceiverConfigTyped DEF IInv
        <5>2. ASSUME NEW m \in Nat \ {0} PROVE 0 % m = 0
          <6>1. 0 = m * 0 + 0 /\ 0 \in Nat /\ 0 \in Int /\ 0 \in 0 .. m - 1
            BY Z3T(30)
          <6> QED
            BY <6>1, Remainder
        <5> QED
          BY <5>1, <5>2
      <4>5. messages'[Current'] = p
        BY <2>3, <2>4
      <4> QED
        BY <1>4, <1>5, <2>9, <2>10, <3>2, <4>1, <4>2, <4>3, <4>4, <4>5 DEF SenderFits, Waits
    <3> QED
      BY <1>7, <3>1, <3>2
  <2>12. ReceiverFits'
    <3>1. /\ rConfig \in ReceiverConfig /\ rTx = Receiver!IdleTx /\ rRx \in Receiver!RxType
      BY DEF IInv, ReceiverFits
    <3>2. ASSUME rRx.state = "Receiving"
          PROVE  /\ Receiver!IsConfigValid(rConfig)
                 /\ ~rRx.ready
                 /\ Assembled \in completed + 1 .. Current'
                 /\ rRx.expected = Len(messages'[Assembled]) /\ rRx.expected > CfData
                 /\ OnBoundary(rRx.offset) /\ rRx.offset < rRx.expected
                 /\ rRx.buffer = Bytes(Assembled, 0, rRx.offset)
                 /\ rRx.seq = (Index(rRx.offset) + 1) % SeqModulus
                 /\ BS # 0 => rRx.blockCount = Index(rRx.offset) % BS
      <4>1. /\ Receiver!IsConfigValid(rConfig)
            /\ ~rRx.ready
            /\ Assembled \in completed + 1 .. Current
            /\ rRx.expected = Len(messages[Assembled]) /\ rRx.expected > CfData
            /\ OnBoundary(rRx.offset) /\ rRx.offset < rRx.expected
            /\ rRx.buffer = Bytes(Assembled, 0, rRx.offset)
            /\ rRx.seq = (Index(rRx.offset) + 1) % SeqModulus
            /\ BS # 0 => rRx.blockCount = Index(rRx.offset) % BS
        BY <3>2 DEF IInv, ReceiverFits
      <4>2. Assembled \in 1 .. Len(messages) /\ Assembled \in completed + 1 .. Current'
        BY <1>1, <2>4, <4>1
      <4> QED
        BY <2>3, <4>1, <4>2
    <3> QED
      BY <1>4, <2>9, <3>1, <3>2 DEF ReceiverFits
  <2>13. AssemblyFits'
    <3> SUFFICES ASSUME rRx.state = "Receiving" PROVE AssemblyFits'
      BY <1>4 DEF AssemblyFits
    <3>1. /\ \A i \in 1 .. n :
               /\ Msg(toReceiver[i].frame) >= Assembled
               /\ toReceiver[i].frame.type = "CF" <=> Msg(toReceiver[i].frame) = Assembled
          /\ toReceiver # <<>> /\ Msg(toReceiver[1].frame) = Assembled => Gap(Begin(toReceiver[1].frame))
      BY DEF IInv, AssemblyFits
    <3>2. Assembled \in completed + 1 .. Current /\ Current \in Nat
      BY <1>1, <2>4 DEF IInv, ReceiverFits
    <3>3. Assembled < Msg(f) /\ Assembled # Current'
      BY <1>1, <2>1, <2>4, <3>2
    <3>4. Msg(f) >= Assembled /\ (f.type = "CF" <=> Msg(f) = Assembled)
      BY <1>1, <2>1, <2>4, <3>2, <3>3
    <3>5. \A i \in 1 .. Len(toReceiver') :
            /\ Msg(toReceiver'[i].frame) >= Assembled
            /\ toReceiver'[i].frame.type = "CF" <=> Msg(toReceiver'[i].frame) = Assembled
      BY <2>5, <3>1, <3>4
    <3>6. Msg(toReceiver'[1].frame) = Assembled => Gap(Begin(toReceiver'[1].frame))
      <4>1. CASE toReceiver = <<>>
        <5>1. toReceiver'[1].frame = f
          BY <2>5, <4>1
        <5> QED
          BY <1>1, <2>1, <2>4, <3>2, <3>3, <5>1
      <4>2. CASE toReceiver # <<>>
        <5>1. 1 \in 1 .. n
          BY <2>5, <4>2
        <5>2. toReceiver'[1] = toReceiver[1]
          BY <2>5, <5>1
        <5> QED
          BY <3>1, <4>2, <5>2
      <4> QED
        BY <4>1, <4>2
    <3>7. \A o : Gap(o) => GapThen(o)
      BY <1>4 DEF Gap, GapThen
    <3>8. sTx'.state # "Sending"
      BY <1>7 DEF Waits
    <3> QED
      BY <2>5, <2>9, <3>3, <3>5, <3>6, <3>7, <3>8 DEF AssemblyFits, Gap, GapThen
  <2>14. WireMeetsSender'
    <3>1. \A i \in 1 .. n : ~Asks(toReceiver[i].frame, messages', BS)
      <4>1. \A i \in 1 .. n : ~Asks(toReceiver[i].frame, messages, BS)
        BY <1>7 DEF IInv, WireMeetsSender
      <4>2. \A i \in 1 .. n :
              Asks(toReceiver[i].frame, Append(messages, p), BS) <=> Asks(toReceiver[i].frame, messages, BS)
        BY <1>1, <1>7, <2>6, PieceOfMore
      <4> QED
        BY <2>2, <4>1, <4>2
    <3>2. toReceiver'[Len(toReceiver')].frame = f
      BY <2>5
    <3>3. sTx'.state # "Idle" => sTx'.offset = FfData /\ f.type = "FF"
      BY <1>7, <2>1 DEF Waits
    <3>4. Asks(f, messages', BS) => sTx'.state = "WaitFlowControl"
      <4>1. f.type = "FF" => ~(Len(p) <= CfData)
        BY <1>7, <2>1, Sizes
      <4> QED
        BY <1>7, <2>1, <4>1 DEF Asks, Waits
    <3>5. \A i \in 1 .. Len(toReceiver') :
            Asks(toReceiver'[i].frame, messages', BS) =>
              i = Len(toReceiver') /\ sTx'.state = "WaitFlowControl"
      BY <2>5, <3>1, <3>4
    <3>6. sTx'.state # "Sending"
      BY <1>7 DEF Waits
    <3> QED
      BY <2>1, <2>4, <2>9, <3>2, <3>3, <3>5, <3>6 DEF WireMeetsSender
  <2>15. FlowControlFits'
    BY <1>4, <1>7 DEF IInv, FlowControlFits
  <2> QED
    BY <2>5, <2>7, <2>8, <2>11, <2>12, <2>13, <2>14, <2>15 DEF IInv
<1> QED
  BY <1>5, <1>6, <1>7

(***************************************************************************)
(* The theorems.                                                           *)
(***************************************************************************)

\* A step of nobody keeps the invariant.
LEMMA StutterKeeps == IInv /\ UNCHANGED vars => IInv'
<1> SUFFICES ASSUME IInv, UNCHANGED vars PROVE IInv'
  OBVIOUS
<1> QED
  BY RefusedKeeps DEF vars, senderVars, receiverVars, wireVars

\* Every step of the link keeps the invariant.
LEMMA NextKeeps == IInv /\ [Next]_vars => IInv'
<1> SUFFICES ASSUME IInv, [Next]_vars PROVE IInv'
  OBVIOUS
<1>1. CASE SendMessage
  BY <1>1, SendMessageKeeps
<1>2. CASE SenderPolls
  BY <1>2, SenderPollsKeeps
<1>3. CASE SenderHears
  BY <1>3, SenderHearsKeeps
<1>4. CASE ReceiverPolls
  BY <1>4, ReceiverPollsKeeps
<1>5. CASE ReceiverHears
  BY <1>5, ReceiverHearsKeeps
<1>6. CASE ReceiverFetches
  BY <1>6, ReceiverFetchesKeeps
<1>7. CASE Lose
  BY <1>7, LoseKeeps
<1>8. CASE Tick
  BY <1>8, TickKeeps
<1>9. CASE UNCHANGED vars
  BY <1>9, StutterKeeps
<1> QED
  BY <1>1, <1>2, <1>3, <1>4, <1>5, <1>6, <1>7, <1>8, <1>9 DEF Next

\* The frames on the wire, the assembly and the transmission always fit each other.
THEOREM LinkInvariant == Spec => []IInv
<1>1. Init => IInv
  BY InitFits
<1>2. IInv /\ [Next]_vars => IInv'
  BY NextKeeps
<1> QED
  BY <1>1, <1>2, PTL DEF Spec

\* A frame heard is the only step that completes a message.
LEMMA StepDelivers ==
  IInv /\ [Next]_vars =>
    [~rRx.ready /\ rRx'.ready =>
       /\ \E n \in completed + 1 .. Len(messages) : Receiver!PendingMessage' = messages[n]
       /\ completed' > completed]_vars
<1> SUFFICES ASSUME IInv, Next, ~rRx.ready, rRx'.ready
             PROVE  /\ \E n \in completed + 1 .. Len(messages) : Receiver!PendingMessage' = messages[n]
                    /\ completed' > completed
  BY DEF vars
<1>1. rRx \in Receiver!RxType /\ rTx.state = "Idle"
  BY DEF IInv, ReceiverFits, Receiver!IdleTx
<1>2. CASE ReceiverHears
  <2>1. completed' \in completed + 1 .. Len(messages) /\ Receiver!PendingMessage' = messages[completed']
    BY <1>2, ReceiverHearsKeeps
  <2>2. completed \in Nat /\ Len(messages) \in Nat
    BY DEF IInv, AreMessages
  <2>3. completed' > completed
    BY <2>1, <2>2
  <2> QED
    BY <2>1, <2>3
<1>3. CASE ReceiverPolls
  <2>1. rRx' = rRx \/ rRx' = Receiver!IdleAssembly(rRx)
    BY <1>1, <1>3 DEF ReceiverPolls, Receiver!Poll, Receiver!PollUnconfigured, Receiver!PollNothingDue,
         Receiver!ExpireAssembly, Receiver!ExpireTransmission, Receiver!TxExpired,
         Receiver!DueConsecutiveFrame
  <2> QED
    BY <1>1, <2>1, IdleAssemblyIdles
<1>4. CASE ReceiverFetches
  BY <1>4 DEF ReceiverFetches
<1>5. CASE SendMessage \/ SenderPolls \/ SenderHears \/ Lose \/ Tick
  BY <1>5 DEF SendMessage, SenderPolls, SenderHears, Lose, Tick, receiverVars
<1> QED
  BY <1>2, <1>3, <1>4, <1>5 DEF Next

\* A message the receiver completes is one the sender was given, whole and not mixed with any
\* other, and later than all completed before: although frames are lost, owners poll as they
\* like, and messages are given up by either side.
THEOREM DeliveredAsSentHolds == Spec => DeliveredAsSent
<1>1. IInv /\ [Next]_vars =>
        [~rRx.ready /\ rRx'.ready =>
           /\ \E n \in completed + 1 .. Len(messages) : Receiver!PendingMessage' = messages[n]
           /\ completed' > completed]_vars
  BY StepDelivers
<1> QED
  BY <1>1, LinkInvariant, PTL DEF Spec, DeliveredAsSent

\* Flow control is the only thing that makes the sender send on.
LEMMA StepIsAskedFor ==
  IInv /\ [Next]_vars =>
    [sTx.state = "WaitFlowControl" /\ sTx'.state = "Sending" =>
       /\ rRx.state = "Receiving"
       /\ rRx.buffer[1] = sTx.payload[1]
       /\ rRx.offset = sTx.offset]_vars
<1> SUFFICES ASSUME IInv, Next, sTx.state = "WaitFlowControl", sTx'.state = "Sending"
             PROVE  /\ rRx.state = "Receiving"
                    /\ rRx.buffer[1] = sTx.payload[1]
                    /\ rRx.offset = sTx.offset
  BY DEF vars
<1>1. CASE SenderHears
  <2>1. rRx.state = "Receiving" /\ Assembled = Current /\ rRx.offset = sTx.offset
    BY <1>1, SenderHearsKeeps
  <2>2. /\ rRx.buffer = Bytes(Assembled, 0, rRx.offset) /\ sTx.payload = messages[Current]
        /\ rRx.offset < rRx.expected /\ rRx.expected = Len(messages[Assembled])
        /\ OnBoundary(rRx.offset) /\ Current \in Nat \ {0}
    <3>1. /\ rRx.buffer = Bytes(Assembled, 0, rRx.offset)
          /\ rRx.offset < rRx.expected /\ rRx.expected = Len(messages[Assembled])
          /\ OnBoundary(rRx.offset)
      BY <2>1 DEF IInv, ReceiverFits
    <3>2. sTx.payload = messages[Current] /\ completed < Current
      BY DEF IInv, SenderFits
    <3>3. Current \in Nat /\ completed \in Nat
      BY DEF IInv, AreMessages, Current
    <3> QED
      BY <3>1, <3>2, <3>3
  <2>3. /\ messages[Current] = Bytes(Current, 0, Len(messages[Current]))
        /\ Len(messages[Current]) \in 1 .. KMaxPayload /\ Current \in 1 .. MaxMessages
    <3>1. Current \in 1 .. Len(messages) /\ Len(messages) <= MaxMessages /\ MaxMessages \in Nat
      BY <2>2, Sizes DEF Current, IInv, AreMessages
    <3> QED
      BY <3>1 DEF IInv, AreMessages
  <2>4. ASSUME NEW e \in 1 .. KMaxPayload
        PROVE  Bytes(Current, 0, e)[1] = <<Current, 0 + 1>>
    <3>1. 0 \in Nat /\ e \in Nat /\ 0 <= e /\ e <= KMaxPayload /\ e - 0 = e /\ 1 \in 1 .. e
      BY Sizes
    <3>2. \A i \in 1 .. e - 0 : Bytes(Current, 0, e)[i] = <<Current, 0 + i>>
      BY <2>3, <3>1, BytesType
    <3> QED
      BY <3>1, <3>2
  <2>5. rRx.offset \in 1 .. KMaxPayload
    <3>1. rRx.offset \in Nat /\ Index(rRx.offset) \in Nat /\ rRx.offset = Boundary(Index(rRx.offset))
      BY <2>2 DEF OnBoundary
    <3>2. rRx.offset # 0
      <4>1. \A k \in Nat : k * CfData \in Nat
        BY Sizes, Z3T(30)
      <4> QED
        BY <3>1, <4>1, Sizes DEF Boundary
    <3> QED
      BY <2>1, <2>2, <2>3, <3>1, <3>2, Sizes
  <2> QED
    BY <2>1, <2>2, <2>3, <2>4, <2>5
<1>2. CASE SenderPolls
  <2>1. Sender!Poll
    BY <1>2 DEF SenderPolls
  <2> QED
    BY <2>1, SenderPollEffect, IdleTxTyped DEF SenderStops, SenderAdvances
<1>3. CASE SendMessage
  <2>1. Len(messages) + 1 \in 1 .. MaxMessages
    <3>1. Len(messages) \in Nat
      BY DEF IInv, AreMessages
    <3> QED
      BY <1>3, <3>1, Sizes DEF SendMessage
  <2>2. PICK p \in Payloads : Sender!StartSend(p)
    BY <1>3 DEF SendMessage
  <2> QED
    BY <2>1, <2>2, SendEffect, IdleTxTyped
<1>4. CASE ReceiverHears \/ ReceiverPolls \/ ReceiverFetches \/ Lose \/ Tick
  BY <1>4 DEF ReceiverHears, ReceiverPolls, ReceiverFetches, Lose, Tick, senderVars
<1> QED
  BY <1>1, <1>2, <1>3, <1>4 DEF Next

\* Flow control starts frames only of the message, and of the place in it, the receiver sent
\* it for: a late answer never reaches a later message.
THEOREM FlowControlIsForThisMessageHolds == Spec => FlowControlIsForThisMessage
<1>1. IInv /\ [Next]_vars =>
        [sTx.state = "WaitFlowControl" /\ sTx'.state = "Sending" =>
           /\ rRx.state = "Receiving"
           /\ rRx.buffer[1] = sTx.payload[1]
           /\ rRx.offset = sTx.offset]_vars
  BY StepIsAskedFor
<1> QED
  BY <1>1, LinkInvariant, PTL DEF Spec, FlowControlIsForThisMessage
================================================================================
