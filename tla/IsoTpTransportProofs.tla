------------------------ MODULE IsoTpTransportProofs ------------------------
(***************************************************************************)
(* Proofs about IsoTpTransport for every frame size, configuration,        *)
(* payload, frame and driver behaviour.                                    *)
(***************************************************************************)
EXTENDS IsoTpTransport, SequenceTheorems, TLAPS

(***************************************************************************)
(* The inductive invariant: one conjunct for each direction. SendTimes is  *)
(* what SeparationIsKept needs of the state.                               *)
(***************************************************************************)
SendTimes ==
  tx.state = "Sending" /\ tx.hasLastCf => tx.nextSend >= tx.lastCf + tx.separation

RxInv == rx \in RxType /\ BufferHasOneOwner
TxInv == tx \in TxType /\ SendPositionConsistent /\ SendTimes
IInv  == config \in Config /\ now \in Nat /\ RxInv /\ TxInv

(***************************************************************************)
(* Lemmas about the operators.                                             *)
(***************************************************************************)

\* A slice of a byte sequence is a byte sequence of the expected length.
LEMMA SliceType ==
  ASSUME NEW s \in Seq(Byte), NEW m \in Nat \ {0}, NEW n \in 0..Len(s)
  PROVE  /\ SubSeq(s, m, n) \in Seq(Byte)
         /\ Len(SubSeq(s, m, n)) = IF m <= n THEN n - m + 1 ELSE 0
<1>1. \A i \in m..n : s[i] \in Byte
  BY ElementOfSeq
<1>2. QED
  BY <1>1, SubSeqProperties

\* Writing at the end of what was written extends it.
LEMMA WriteAtEnd ==
  ASSUME NEW b \in Seq(Byte), NEW d \in Seq(Byte), NEW k \in 0..Len(b)
  PROVE  /\ WriteAt(b, k, d) \in Seq(Byte)
         /\ Len(WriteAt(b, k, d)) = k + Len(d)
<1>1. SubSeq(b, 1, k) \in Seq(Byte) /\ Len(SubSeq(b, 1, k)) = k
  BY SliceType
<1>2. QED
  BY <1>1, ConcatProperties DEF WriteAt

\* A quotient and a remainder determine each other.
LEMMA UniqueRemainder ==
  ASSUME NEW n \in Nat, NEW m \in Nat \ {0}, NEW q \in Int, NEW r \in 0..(m - 1), n = m * q + r
  PROVE  n % m = r
OBVIOUS

LEMMA Division ==
  ASSUME NEW n \in Nat, NEW m \in Nat \ {0}
  PROVE  \E q \in Int : \E r \in 0..(m - 1) : n = m * q + r /\ n % m = r
<1>1. n = m * (n \div m) + (n % m)
  BY Z3T(30)
<1>2. n \div m \in Int /\ n % m \in 0..(m - 1)
  OBVIOUS
<1>3. QED
  BY <1>1, <1>2, Zenon

LEMMA NextRemainder ==
  ASSUME NEW m \in Nat \ {0}, NEW q \in Int, NEW r \in 0..(m - 1), m * q + r \in Nat
  PROVE  (m * q + r + 1) % m = (r + 1) % m
<1>1. CASE r + 1 < m
  <2>1. m * q \in Int
    OBVIOUS
  <2>2. /\ m * q + r + 1 = m * q + (r + 1) /\ m * q + r + 1 \in Nat
        /\ r + 1 \in 0..(m - 1)
    BY <1>1, <2>1
  <2>3. (m * q + r + 1) % m = r + 1
    BY <2>2, UniqueRemainder
  <2>4. (r + 1) % m = r + 1
    BY <1>1
  <2>5. QED
    BY <2>3, <2>4
<1>2. CASE r + 1 = m
  <2>1. m * q \in Int /\ m * (q + 1) = m * q + m
    OBVIOUS
  <2>2. /\ m * q + r + 1 = m * (q + 1) + 0 /\ m * q + r + 1 \in Nat
        /\ q + 1 \in Int /\ 0 \in 0..(m - 1)
    BY <1>2, <2>1
  <2>3. (m * q + r + 1) % m = 0
    BY <2>2, UniqueRemainder
  <2>4. m % m = 0
    OBVIOUS
  <2>5. QED
    BY <1>2, <2>3, <2>4
<1>3. QED
  BY <1>1, <1>2

\* Counting modulo m one step at a time counts modulo m.
LEMMA ModularSuccessor ==
  ASSUME NEW n \in Nat, NEW m \in Nat \ {0}
  PROVE  ((n % m) + 1) % m = (n + 1) % m
<1>1. PICK q \in Int, r \in 0..(m - 1) : n = m * q + r /\ n % m = r
  BY Division
<1>2. (m * q + r + 1) % m = (r + 1) % m
  BY <1>1, NextRemainder
<1>3. QED
  BY <1>1, <1>2

\* The numbering of consecutive frames stays in its range.
LEMMA NextSeqRange ==
  ASSUME NEW n \in Nat
  PROVE  NextSeq(n) \in 0..(SeqModulus - 1) /\ NextSeq(n) \in Nat
BY SizeAssumption DEF NextSeq

LEMMA SequenceNumbers ==
  /\ 0 \in Nat /\ 0 \in 0..255 /\ 1 \in SequenceNumber
  /\ \A n \in SequenceNumber : n \in Nat /\ NextSeq(n) \in SequenceNumber
BY NextSeqRange, SizeAssumption DEF SequenceNumber

\* A separation time is a number of milliseconds.
LEMMA SeparationType ==
  ASSUME NEW code \in 0..255, IsStMinCodeValid(code)
  PROVE  DecodeStMinMs(code) \in Nat
BY DEF DecodeStMinMs, IsStMinCodeValid

\* An endpoint's configuration is well typed.
LEMMA ConfigTyped ==
  ASSUME IInv
  PROVE  /\ config \in ConfigType
         /\ config.maxPayload \in Nat
         /\ config.flowControlTimeout \in Nat
         /\ config.consecutiveFrameTimeout \in Nat
         /\ config.maxWaitFrames \in Nat /\ 0 <= config.maxWaitFrames
         /\ config.rxBlockSize \in 0..255
         /\ config.rxStMin \in 0..255
<1>1. config \in ConfigType
  BY EnvironmentAssumption DEF IInv
<1>2. config.maxWaitFrames \in 0..255
  BY <1>1 DEF ConfigType
<1>3. 0 <= config.maxWaitFrames
  BY <1>2
<1>4. QED
  BY <1>1, <1>3 DEF ConfigType

\* The clock never runs backwards, a slow driver included.
LEMMA ClockMonotone ==
  ASSUME IInv, [Next]_vars
  PROVE  now' \in Nat /\ now' >= now
<1>1. ASSUME NEW f, NEW status, Transmit(f, status)
      PROVE  now' \in Nat /\ now' >= now
  BY <1>1, EnvironmentAssumption DEF Transmit, IInv
<1>2. ASSUME NEW status, Return(status)
      PROVE  now' \in Nat /\ now' >= now
  BY <1>2 DEF Return, IInv
<1>3. ASSUME NEW p \in Payload, StartSend(p)
      PROVE  now' \in Nat /\ now' >= now
  BY <1>1, <1>2, <1>3 DEF StartSend, RejectSend, RefuseSend, SendSingleFrame, SendFirstFrame
<1>4. CASE Poll
  BY <1>1, <1>2, <1>4 DEF Poll, PollUnconfigured, ExpireAssembly, ExpireTransmission,
     SendNextConsecutiveFrame, PollNothingDue
<1>5. ASSUME NEW c \in 0..config.maxPayload, Receive(c)
      PROVE  now' \in Nat /\ now' >= now
  BY <1>2, <1>5 DEF Receive
<1>6. CASE DiscardPendingMessage
  BY <1>6 DEF DiscardPendingMessage, IInv
<1>7. ASSUME NEW f \in Frame, OnCanFrame(f)
      PROVE  now' \in Nat /\ now' >= now
  <2>1. CASE Dispatch(f)
    <3>1. CASE HandleSingleFrame(f)
      BY <1>2, <3>1 DEF HandleSingleFrame
    <3>2. CASE HandleFirstFrame(f)
      BY <1>1, <1>2, <3>2 DEF HandleFirstFrame, OpenAssembly
    <3>3. CASE HandleConsecutiveFrame(f)
      BY <1>1, <1>2, <3>3 DEF HandleConsecutiveFrame, ContinueAssembly
    <3>4. CASE HandleFlowControl(f)
      BY <1>2, <3>4 DEF HandleFlowControl, ContinueToSend, WaitForPeer, AbortTransmission
    <3>5. QED
      BY <1>2, <2>1, <3>1, <3>2, <3>3, <3>4 DEF Dispatch
  <2>2. QED
    BY <1>2, <1>7, <2>1 DEF OnCanFrame, ExpireAssembly, ExpireTransmission
<1>8. CASE Tick
  BY <1>8 DEF Tick, IInv
<1>9. CASE UNCHANGED vars
  BY <1>9 DEF vars, IInv
<1>10. QED
  BY <1>3, <1>4, <1>5, <1>6, <1>7, <1>8, <1>9 DEF Next

(***************************************************************************)
(* Reception preserves its invariant.                                      *)
(***************************************************************************)

\* What a consecutive frame adds stays inside the declared length.
LEMMA StoredInBounds ==
  ASSUME RxInv, rx.state = "Receiving", NEW f, f.data \in Seq(Byte), Len(f.data) > 0
  PROVE  /\ Stored(f) \in RxType
         /\ Stored(f).state = "Receiving" /\ ~Stored(f).ready
         /\ Stored(f).expected = rx.expected
         /\ Stored(f).offset \in (rx.offset + 1)..rx.expected
         /\ Len(Stored(f).buffer) = Stored(f).offset
<1>1. rx \in RxType /\ ~rx.ready /\ rx.offset \in Nat /\ rx.expected \in Nat
      /\ rx.offset < rx.expected /\ Len(rx.buffer) = rx.offset /\ rx.buffer \in Seq(Byte)
  BY SizeAssumption DEF RxInv, RxType, BufferHasOneOwner, FfData, SfMax
<1> DEFINE n == Min2(Len(f.data), rx.expected - rx.offset)
<1>2. n \in Nat /\ n \in 1..Len(f.data) /\ n <= rx.expected - rx.offset
  BY <1>1, LenProperties DEF Min2
<1> HIDE DEF n
<1>3. UsefulData(f) \in Seq(Byte) /\ Len(UsefulData(f)) = n
  BY <1>2, SliceType DEF UsefulData, n
<1>4. /\ WriteAt(rx.buffer, rx.offset, UsefulData(f)) \in Seq(Byte)
      /\ Len(WriteAt(rx.buffer, rx.offset, UsefulData(f))) = rx.offset + n
  <2>1. rx.offset \in 0..Len(rx.buffer)
    BY <1>1
  <2>2. QED
    BY <1>1, <1>3, <2>1, WriteAtEnd
<1>5. NextSeq(rx.seq) \in SequenceNumber
  BY <1>1, SequenceNumbers DEF RxType
<1>6. (rx.blockCount + 1) % 256 \in 0..255
  <2>1. rx.blockCount \in 0..255
    BY <1>1 DEF RxType
  <2>2. ASSUME NEW k \in 0..255 PROVE (k + 1) % 256 \in 0..255
    BY Z3T(30)
  <2>3. QED
    BY <2>1, <2>2
<1>7. Stored(f) = [rx EXCEPT !.buffer = WriteAt(rx.buffer, rx.offset, UsefulData(f)),
                             !.offset = rx.offset + n, !.seq = NextSeq(rx.seq),
                             !.blockCount = (rx.blockCount + 1) % 256]
  BY <1>3 DEF Stored
<1> HIDE DEF WriteAt, NextSeq
<1>8. Stored(f) \in RxType
  <2>1. rx.offset + n \in Nat
    BY <1>1, <1>2
  <2>2. QED
    BY <1>1, <1>4, <1>5, <1>6, <1>7, <2>1, ZenonT(40) DEF RxType
<1>9. QED
  BY <1>1, <1>2, <1>4, <1>7, <1>8, SMTT(30) DEF RxType

\* The type of a frame says which fields it has.
LEMMA FrameTyped ==
  ASSUME NEW f \in Frame
  PROVE  /\ f.type = "SF" => IsSingle(f)
         /\ f.type = "FF" => IsFirst(f)
         /\ f.type = "CF" => IsConsecutive(f)
         /\ f.type = "FC" => IsFlowControl(f)
BY EnvironmentAssumption DEF IsFrame, IsSingle, IsFirst, IsConsecutive, IsFlowControl

\* Dropping an assembly changes nothing else of the reception.
LEMMA IdleAssemblyType ==
  ASSUME NEW r \in RxType
  PROVE  /\ IdleAssembly(r) \in RxType
         /\ IdleAssembly(r).state = "Idle"
         /\ IdleAssembly(r).ready = r.ready
         /\ IdleAssembly(r).length = r.length
         /\ IdleAssembly(r).buffer = r.buffer
<1>1. IdleAssembly(r) \in RxType
  BY SequenceNumbers, Zenon DEF RxType, IdleAssembly
<1>2. QED
  BY <1>1 DEF RxType, IdleAssembly

\* Dropping an assembly leaves a completed message alone.
LEMMA DropPreservesRxInv ==
  ASSUME IInv, config' = config,
         rx' = IdleAssembly(rx) \/ rx' = Emptied \/ rx' = rx
  PROVE  RxInv'
<1>1. rx \in RxType
  BY DEF IInv, RxInv
<1>2. IdleAssembly(rx) \in RxType /\ Emptied \in RxType
  BY <1>1, SequenceNumbers, Zenon DEF RxType, IdleAssembly, Emptied
<1>3. rx' \in RxType
  BY <1>1, <1>2
<1>4. BufferHasOneOwner'
  <2>1. BufferHasOneOwner
    BY DEF IInv, RxInv
  <2>2. CASE rx' = rx
    BY <2>1, <2>2 DEF BufferHasOneOwner
  <2>3. CASE rx' = Emptied
    BY <1>1, <2>1, <2>3 DEF BufferHasOneOwner, Emptied, RxType
  <2>4. CASE rx' = IdleAssembly(rx)
    BY <1>1, <2>1, <2>4, IdleAssemblyType DEF BufferHasOneOwner
  <2>5. QED
    BY <2>2, <2>3, <2>4
<1>5. QED
  BY <1>3, <1>4 DEF RxInv

LEMMA SingleFramePreservesRxInv ==
  ASSUME IInv, config' = config, NEW f \in Frame, f.type = "SF", HandleSingleFrame(f)
  PROVE  RxInv'
<1>1. CASE UNCHANGED rx
  BY <1>1, DropPreservesRxInv
<1>2. CASE /\ RxFree /\ f.len \in 1..Min2(SfMax, config.maxPayload) /\ Len(f.data) >= f.len
           /\ rx' = [rx EXCEPT !.buffer = SubSeq(f.data, 1, f.len), !.length = f.len,
                               !.ready = TRUE]
  <2>1. IsSingle(f) /\ config.maxPayload \in Nat
    BY FrameTyped, ConfigTyped
  <2>2. f.len \in Nat /\ f.len \in 1..config.maxPayload /\ f.len \in 0..Len(f.data)
    BY <1>2, <2>1, SizeAssumption, SMTT(30) DEF IsSingle, Min2, SfMax
  <2>3. SubSeq(f.data, 1, f.len) \in Seq(Byte) /\ Len(SubSeq(f.data, 1, f.len)) = f.len
    BY <2>1, <2>2, SliceType DEF IsSingle
  <2>4. rx \in RxType /\ rx.state = "Idle"
    BY <1>2 DEF IInv, RxInv, RxFree
  <2>5. rx' \in RxType
    BY <1>2, <2>2, <2>3, <2>4, Zenon DEF RxType
  <2>6. BufferHasOneOwner'
    BY <1>2, <2>2, <2>3, <2>4 DEF BufferHasOneOwner, RxType
  <2>7. QED
    BY <2>5, <2>6 DEF RxInv
<1>3. QED
  BY <1>1, <1>2 DEF HandleSingleFrame

LEMMA FirstFramePreservesRxInv ==
  ASSUME IInv, config' = config, NEW f \in Frame, f.type = "FF", HandleFirstFrame(f)
  PROVE  RxInv'
<1>1. CASE UNCHANGED rx
  BY <1>1, DropPreservesRxInv
<1>2. ASSUME NEW status \in SendResult, RxFree, f.full, f.len \in (SfMax + 1)..KMaxPayload,
             f.len <= config.maxPayload, OpenAssembly(f, status)
      PROVE  RxInv'
  <2> DEFINE opened == [rx EXCEPT !.state = "Receiving", !.expected = f.len,
                           !.offset = FfData, !.buffer = f.data, !.seq = 1, !.blockCount = 0,
                           !.deadline = now + config.consecutiveFrameTimeout]
  <2>1. IsFirst(f) /\ config.maxPayload \in Nat /\ config.consecutiveFrameTimeout \in Nat
    BY FrameTyped, ConfigTyped
  <2>2. f.data \in Seq(Byte) /\ Len(f.data) = FfData /\ f.len \in Nat /\ FfData \in Nat
        /\ f.len \in (SfMax + 1)..config.maxPayload /\ FfData < f.len
    BY <1>2, <2>1, SizeAssumption DEF IsFirst, FfData, SfMax
  <2>3. rx \in RxType /\ rx.state = "Idle" /\ ~rx.ready /\ rx.length = 0
    BY <1>2 DEF IInv, RxInv, RxFree, BufferHasOneOwner
  <2>4. now + config.consecutiveFrameTimeout \in Nat
    BY <2>1 DEF IInv
  <2>5. opened \in RxType
    <3>1. 1 \in SequenceNumber /\ 0 \in 0..255
      BY SequenceNumbers
    <3>2. "Receiving" \in {"Idle", "Receiving"} /\ FfData \in Nat /\ f.len \in Nat /\ f.data \in Seq(Byte)
          /\ rx \in RxType
      BY <2>2, <2>3
    <3>3. QED
      BY <2>4, <3>1, <3>2, ZenonT(60) DEF RxType
  <2>51. /\ opened.state = "Receiving" /\ ~opened.ready /\ opened.length = 0
         /\ opened.expected = f.len /\ opened.offset = FfData /\ opened.buffer = f.data
    BY <2>3 DEF RxType
  <2>6. rx' = opened \/ rx' = IdleAssembly(opened)
    BY <1>2 DEF OpenAssembly
  <2> HIDE DEF opened
  <2>7. rx' \in RxType
    BY <2>5, <2>6, IdleAssemblyType
  <2>8. BufferHasOneOwner'
    BY <2>2, <2>5, <2>51, <2>6, IdleAssemblyType DEF BufferHasOneOwner
  <2>9. QED
    BY <2>7, <2>8 DEF RxInv
<1>3. QED
  BY <1>1, <1>2 DEF HandleFirstFrame

LEMMA ConsecutiveFramePreservesRxInv ==
  ASSUME IInv, config' = config, NEW f \in Frame, f.type = "CF", HandleConsecutiveFrame(f)
  PROVE  RxInv'
<1>1. CASE UNCHANGED rx \/ rx' = IdleAssembly(rx)
  BY <1>1, DropPreservesRxInv
<1>2. CASE /\ rx.state = "Receiving" /\ Len(f.data) > 0
           /\ \/ /\ Stored(f).offset = rx.expected
                 /\ rx' = IdleAssembly([Stored(f) EXCEPT !.length = rx.expected, !.ready = TRUE])
              \/ Stored(f).offset # rx.expected /\ ContinueAssembly(f)
  <2> DEFINE st == Stored(f)
  <2>1. f.data \in Seq(Byte)
    BY FrameTyped DEF IsConsecutive
  <2>2. /\ st \in RxType /\ st.state = "Receiving" /\ ~st.ready /\ st.expected = rx.expected
        /\ st.offset \in (rx.offset + 1)..rx.expected /\ Len(st.buffer) = st.offset
    BY <1>2, <2>1, StoredInBounds DEF IInv
  <2>3. /\ rx \in RxType /\ rx.length = 0 /\ ~rx.ready /\ rx.expected \in Nat /\ rx.offset \in Nat
        /\ rx.expected \in (SfMax + 1)..config.maxPayload /\ rx.offset \in FfData..(rx.expected - 1)
    BY <1>2, SizeAssumption DEF IInv, RxInv, BufferHasOneOwner, RxType, SfMax
  <2>4. st.length = 0
    BY <2>3 DEF Stored, RxType
  <2>5. config.consecutiveFrameTimeout \in Nat /\ now \in Nat /\ config.maxPayload \in Nat
        /\ SfMax \in Nat /\ FfData \in Nat
    BY ConfigTyped, SizeAssumption DEF IInv, SfMax, FfData
  <2> HIDE DEF st
  <2>6. CASE /\ st.offset = rx.expected
             /\ rx' = IdleAssembly([st EXCEPT !.length = rx.expected, !.ready = TRUE])
    <3>1. rx' \in RxType
      <4> DEFINE whole == [st EXCEPT !.length = rx.expected, !.ready = TRUE]
      <4>1. whole \in RxType
        BY <2>2, <2>3, ZenonT(40) DEF RxType
      <4> HIDE DEF whole
      <4>2. QED
        BY <2>6, <4>1, IdleAssemblyType DEF whole
    <3>2. BufferHasOneOwner'
      BY <2>2, <2>3, <2>5, <2>6 DEF BufferHasOneOwner, RxType, IdleAssembly, SfMax
    <3>3. QED
      BY <3>1, <3>2 DEF RxInv
  <2>7. CASE st.offset # rx.expected /\ ContinueAssembly(f)
    <3> DEFINE s2 == [st EXCEPT !.deadline = now + config.consecutiveFrameTimeout]
    <3>1. rx' \in {s2, [s2 EXCEPT !.blockCount = 0], IdleAssembly(s2)}
      BY <2>7 DEF ContinueAssembly, st
    <3>2. now + config.consecutiveFrameTimeout \in Nat
      BY <2>5
    <3>3. s2 \in RxType /\ [s2 EXCEPT !.blockCount = 0] \in RxType /\ IdleAssembly(s2) \in RxType
      BY <2>2, <3>2, SequenceNumbers, Zenon DEF RxType, IdleAssembly
    <3>4. rx' \in RxType
      BY <3>1, <3>3
    <3>5. ASSUME NEW r, r = s2 \/ r = [s2 EXCEPT !.blockCount = 0]
          PROVE  /\ r.state = "Receiving" /\ ~r.ready /\ r.length = 0
                 /\ r.expected = rx.expected /\ r.offset = st.offset /\ r.buffer = st.buffer
      <4>1. CASE r = s2
        BY <2>2, <2>4, <4>1 DEF RxType
      <4>2. CASE r = [s2 EXCEPT !.blockCount = 0]
        BY <2>2, <2>4, <4>2 DEF RxType
      <4>3. QED
        BY <3>5, <4>1, <4>2
    <3> HIDE DEF s2
    <3>6. CASE rx' = IdleAssembly(s2)
      BY <3>3, <3>4, <3>5, <3>6, IdleAssemblyType DEF BufferHasOneOwner, RxInv
    <3>7. CASE rx' \in {s2, [s2 EXCEPT !.blockCount = 0]}
      <4>1. /\ rx'.state = "Receiving" /\ ~rx'.ready /\ rx'.length = 0
            /\ rx'.expected = rx.expected /\ rx'.offset = st.offset /\ rx'.buffer = st.buffer
        BY <3>5, <3>7
      <4>2. QED
        BY <2>2, <2>3, <2>5, <2>7, <3>4, <4>1 DEF BufferHasOneOwner, RxInv
    <3>8. QED
      BY <3>1, <3>6, <3>7
  <2>8. QED
    BY <1>2, <2>6, <2>7 DEF st
<1>3. QED
  BY <1>1, <1>2 DEF HandleConsecutiveFrame

LEMMA ReceptionStep ==
  ASSUME IInv, [Next]_vars
  PROVE  RxInv'
<1>1. config' = config
  BY DEF Next, vars, StartSend, Poll, Receive, DiscardPendingMessage, OnCanFrame, Tick
<1>2. ASSUME NEW p \in Payload, StartSend(p)
      PROVE  RxInv'
  BY <1>1, <1>2, DropPreservesRxInv DEF StartSend
<1>3. CASE Poll
  <2>1. rx' = rx \/ rx' = IdleAssembly(rx)
    BY <1>3 DEF Poll, PollUnconfigured, ExpireAssembly, ExpireTransmission,
       SendNextConsecutiveFrame, PollNothingDue
  <2>2. QED
    BY <1>1, <2>1, DropPreservesRxInv
<1>4. ASSUME NEW c \in 0..config.maxPayload, Receive(c)
      PROVE  RxInv'
  BY <1>1, <1>4, DropPreservesRxInv DEF Receive
<1>5. CASE DiscardPendingMessage
  BY <1>1, <1>5, DropPreservesRxInv DEF DiscardPendingMessage
<1>6. ASSUME NEW f \in Frame, OnCanFrame(f)
      PROVE  RxInv'
  <2>1. CASE rx' = rx \/ rx' = IdleAssembly(rx)
    BY <1>1, <2>1, DropPreservesRxInv
  <2>2. CASE f.type = "SF" /\ HandleSingleFrame(f)
    BY <1>1, <2>2, SingleFramePreservesRxInv
  <2>3. CASE f.type = "FF" /\ HandleFirstFrame(f)
    BY <1>1, <2>3, FirstFramePreservesRxInv
  <2>4. CASE f.type = "CF" /\ HandleConsecutiveFrame(f)
    BY <1>1, <2>4, ConsecutiveFramePreservesRxInv
  <2>5. CASE f.type = "FC" /\ HandleFlowControl(f)
    BY <2>1, <2>5 DEF HandleFlowControl
  <2>6. QED
    BY <1>6, <2>1, <2>2, <2>3, <2>4, <2>5 DEF OnCanFrame, ExpireAssembly, ExpireTransmission, Dispatch
<1>7. CASE Tick \/ UNCHANGED vars
  BY <1>1, <1>7, DropPreservesRxInv DEF Tick, vars
<1>8. QED
  BY <1>2, <1>3, <1>4, <1>5, <1>6, <1>7 DEF Next

(***************************************************************************)
(* Transmission preserves its invariant.                                   *)
(***************************************************************************)

\* A transmission waiting for its first flow control is well typed.
LEMMA TxTypes ==
  ASSUME NEW p \in Seq(Byte), NEW o \in Nat, NEW d \in Nat
  PROVE  /\ IdleTx \in TxType
         /\ [IdleTx EXCEPT !.state = "WaitFlowControl", !.payload = p, !.offset = o,
                           !.deadline = d] \in TxType
<1>1. 0 \in Nat /\ 1 \in Nat /\ 0 \in 0..255 /\ <<>> \in Seq(Byte)
  OBVIOUS
<1>2. IdleTx \in TxType
  BY <1>1, SequenceNumbers, Zenon DEF IdleTx, TxType
<1>3. QED
  BY <1>2, Zenon DEF TxType

LEMMA AbortPreservesTxInv ==
  ASSUME IInv, config' = config, tx' = tx \/ tx' = IdleTx
  PROVE  TxInv'
<1>1. IdleTx \in TxType
  BY TxTypes, EmptySeq
<1>2. CASE tx' = tx
  BY <1>2, Zenon DEF IInv, TxInv, SendPositionConsistent, SendTimes,
     CursorOnFrameBoundary, BlockHasFramesLeft
<1>3. CASE tx' = IdleTx
  BY <1>1, <1>3 DEF TxInv, SendPositionConsistent, SendTimes, IdleTx
<1>4. QED
  BY <1>2, <1>3

\* A first frame puts the cursor behind its data, before any consecutive frame.
LEMMA FirstFramePreservesTxInv ==
  ASSUME IInv, config' = config, NEW p \in Payload
  PROVE  /\ now' \in Nat /\ Sendable(p) /\ Len(p) > SfMax
         /\ tx' = [IdleTx EXCEPT !.state = "WaitFlowControl", !.payload = p,
                                 !.offset = FfData,
                                 !.deadline = now' + config.flowControlTimeout]
         => TxInv'
<1>1. SUFFICES ASSUME now' \in Nat, Sendable(p), Len(p) > SfMax,
                      tx' = [IdleTx EXCEPT !.state = "WaitFlowControl", !.payload = p,
                                    !.offset = FfData,
                                    !.deadline = now' + config.flowControlTimeout]
               PROVE  TxInv'
  OBVIOUS
<1>2. /\ p \in Seq(Byte) /\ Len(p) \in Nat /\ FfData \in Nat
      /\ FfData \in FfData..(Len(p) - 1)
  <2>1. p \in Seq(Byte)
    BY EnvironmentAssumption, Zenon
  <2>2. Len(p) \in Nat
    BY <2>1, LenProperties, Zenon
  <2>3. ASSUME NEW n \in Nat, n > SfMax
        PROVE  FfData \in Nat /\ FfData \in FfData..(n - 1)
    BY <2>3, SizeAssumption DEF FfData, SfMax
  <2>4. QED
    BY <1>1, <2>1, <2>2, <2>3, Zenon
<1>3. now' + config.flowControlTimeout \in Nat
  BY <1>1, ConfigTyped
<1>4. tx' \in TxType
  BY <1>1, <1>2, <1>3, TxTypes
<1>5. /\ tx'.state = "WaitFlowControl" /\ tx'.payload = p /\ tx'.offset = FfData
      /\ tx'.seq = 1 /\ tx'.waitCount = 0 /\ tx'.hasLastCf = FALSE
  BY <1>1 DEF IdleTx
<1>6. FfData = FfData + 0 * CfData /\ 1 = (0 + 1) % SeqModulus /\ 0 \in 0..Len(p)
  BY <1>2, SizeAssumption
<1>7. CursorOnFrameBoundary'
  <2>1. FfData = FfData + 0 * CfData /\ 1 = (0 + 1) % SeqModulus /\ FALSE = (0 > 0)
    BY <1>6
  <2>2. QED
    BY <1>5, <1>6, <2>1 DEF CursorOnFrameBoundary
<1>8. Len(tx'.payload) \in (SfMax + 1)..config'.maxPayload
  <2>1. ASSUME NEW n \in Nat, n \in 1..config.maxPayload, n > SfMax
        PROVE  n \in (SfMax + 1)..config.maxPayload
    BY <2>1, ConfigTyped, SizeAssumption DEF SfMax
  <2>2. Len(p) \in 1..config.maxPayload
    BY <1>1, Zenon DEF Sendable
  <2>3. QED
    BY <1>1, <1>2, <1>5, <2>1, <2>2, Zenon
<1>9. tx'.waitCount <= config'.maxWaitFrames
  BY <1>5, ConfigTyped
<1>10. tx'.offset \in FfData..(Len(tx'.payload) - 1)
  BY <1>2, <1>5
<1>11. SendPositionConsistent'
  <2>1. BlockHasFramesLeft'
    BY <1>5 DEF BlockHasFramesLeft
  <2>2. QED
    BY <2>1, <1>7, <1>8, <1>9, <1>10, Zenon DEF SendPositionConsistent
<1>12. QED
  BY <1>4, <1>5, <1>11 DEF TxInv, SendTimes

\* The slice a consecutive frame carries: never empty, full unless it is the last.
LEMMA NextDataShape ==
  ASSUME TxInv, tx.state # "Idle"
  PROVE  /\ NextData \in Seq(Byte)
         /\ Len(NextData) \in 1..CfData
         /\ tx.offset + Len(NextData) \in (tx.offset + 1)..Len(tx.payload)
         /\ tx.offset + Len(NextData) # Len(tx.payload) => Len(NextData) = CfData
<1>1. tx.payload \in Seq(Byte) /\ Len(tx.payload) \in Nat /\ tx.offset \in Nat
  BY LenProperties DEF TxInv, TxType
<1>2. CfData \in Nat /\ CfData >= 1
  BY SizeAssumption
<1>3. tx.offset < Len(tx.payload)
  <2>1. tx.offset \in FfData..(Len(tx.payload) - 1)
    BY DEF TxInv, SendPositionConsistent
  <2>2. FfData \in Nat
    BY <1>2 DEF FfData
  <2>3. QED
    BY <1>1, <2>1, <2>2
<1> DEFINE m == Min2(tx.offset + CfData, Len(tx.payload))
<1>4. m \in 0..Len(tx.payload) /\ m \in (tx.offset + 1)..(tx.offset + CfData)
      /\ (m # Len(tx.payload) => m = tx.offset + CfData)
  BY <1>1, <1>2, <1>3 DEF Min2
<1>5. NextData = SubSeq(tx.payload, tx.offset + 1, m) /\ tx.offset + 1 \in Nat \ {0}
  BY <1>1 DEF NextData
<1> HIDE DEF m
<1>6. NextData \in Seq(Byte)
      /\ Len(NextData) = IF tx.offset + 1 <= m THEN m - (tx.offset + 1) + 1 ELSE 0
  BY <1>1, <1>4, <1>5, SliceType
<1>7. Len(NextData) = m - tx.offset
  BY <1>1, <1>4, <1>6
<1>8. m \in Nat /\ tx.offset + Len(NextData) = m /\ Len(NextData) \in 1..CfData
  BY <1>1, <1>2, <1>4, <1>7
<1>9. m \in (tx.offset + 1)..Len(tx.payload)
  BY <1>1, <1>4, <1>8
<1>10. m # Len(tx.payload) => Len(NextData) = CfData
  BY <1>1, <1>2, <1>4, <1>7
<1>11. QED
  BY <1>6, <1>8, <1>9, <1>10

\* An accepted frame moves the cursor to the next frame boundary.
LEMMA AcceptedCfCursor ==
  ASSUME TxInv, tx.state # "Idle", NEW at \in Nat, ~WholePayloadSent(AcceptedCf(at))
  PROVE  /\ AcceptedCf(at) \in TxType
         /\ AcceptedCf(at).payload = tx.payload
         /\ AcceptedCf(at).offset = tx.offset + CfData
         /\ AcceptedCf(at).offset \in FfData..(Len(tx.payload) - 1)
         /\ AcceptedCf(at).seq = (tx.seq + 1) % SeqModulus
         /\ AcceptedCf(at).hasLastCf = TRUE
         /\ AcceptedCf(at).lastCf = at
<1>1. tx \in TxType
  BY DEF TxInv
<1>2. /\ tx.seq \in Nat /\ tx.offset \in Nat /\ Len(tx.payload) \in Nat
      /\ FfData \in Nat /\ CfData \in Nat /\ tx.offset \in FfData..(Len(tx.payload) - 1)
  BY <1>1, SequenceNumbers, SizeAssumption, LenProperties
     DEF TxType, FfData, TxInv, SendPositionConsistent
<1>3. AcceptedCf(at).offset = tx.offset + Len(NextData)
      /\ AcceptedCf(at).seq = NextSeq(tx.seq)
      /\ AcceptedCf(at).payload = tx.payload
      /\ AcceptedCf(at).hasLastCf = TRUE
      /\ AcceptedCf(at).lastCf = at
  BY <1>1 DEF AcceptedCf, TxType
<1>4. tx.offset + Len(NextData) # Len(tx.payload)
  BY <1>3 DEF WholePayloadSent
<1>5. Len(NextData) = CfData /\ tx.offset + CfData \in (tx.offset + 1)..Len(tx.payload)
  BY <1>4, NextDataShape
<1>6. NextSeq(tx.seq) \in SequenceNumber /\ tx.offset + Len(NextData) \in Nat
  <2>1. NextSeq(tx.seq) \in SequenceNumber
    BY <1>1, SequenceNumbers, Zenon DEF TxType
  <2>2. QED
    BY <1>2, <1>5, <2>1
<1>7. AcceptedCf(at) \in TxType
  BY <1>1, <1>6, Zenon DEF AcceptedCf, TxType
<1>8. tx.offset + CfData \in FfData..(Len(tx.payload) - 1)
  BY <1>2, <1>4, <1>5
<1>9. QED
  BY <1>3, <1>5, <1>7, <1>8 DEF NextSeq

\* The next frame boundary follows the current one, number and position alike.
LEMMA NextBoundary ==
  ASSUME TxInv, tx.state # "Idle", CursorOnFrameBoundary,
         NEW t, t.payload = tx.payload, t.offset = tx.offset + CfData,
         t.seq = (tx.seq + 1) % SeqModulus, t.hasLastCf = TRUE,
         t.offset \in FfData..(Len(tx.payload) - 1)
  PROVE  \E k \in 0..Len(t.payload) : /\ t.offset = FfData + k * CfData
                                     /\ t.seq = (k + 1) % SeqModulus
                                     /\ t.hasLastCf = (k > 0)
<1>1. PICK k \in 0..Len(tx.payload) : /\ tx.offset = FfData + k * CfData
                                      /\ tx.seq = (k + 1) % SeqModulus
  BY DEF CursorOnFrameBoundary
<1>2. Len(tx.payload) \in Nat /\ k \in Nat /\ CfData \in Nat \ {0} /\ FfData \in Nat
      /\ SeqModulus \in Nat \ {0}
  BY <1>1, SizeAssumption, LenProperties DEF TxInv, TxType, FfData
<1>3. (k + 1) * CfData = k * CfData + CfData /\ k * CfData \in Nat
  BY <1>2
<1>4. t.offset = FfData + (k + 1) * CfData
  BY <1>1, <1>2, <1>3
<1>5. (k + 1) * CfData >= k + 1
  BY <1>2
<1>6. k + 1 \in 0..Len(t.payload)
  BY <1>2, <1>4, <1>5
<1>7. (((k + 1) % SeqModulus) + 1) % SeqModulus = (k + 1 + 1) % SeqModulus
  <2>1. k + 1 \in Nat
    BY <1>2
  <2>2. QED
    BY <1>2, <2>1, ModularSuccessor
<1>8. t.seq = (k + 1 + 1) % SeqModulus
  BY <1>1, <1>7
<1>9. t.hasLastCf = (k + 1 > 0)
  <2>1. (k + 1 > 0) = TRUE
    BY <1>2
  <2>2. QED
    BY <2>1, Zenon
<1>10. QED
  BY <1>4, <1>6, <1>8, <1>9, Zenon

LEMMA ConsecutiveFramePreservesTxInv ==
  ASSUME IInv, config' = config, now' \in Nat, tx.state = "Sending",
         NEW status \in SendResult, SendNextConsecutiveFrame(status)
  PROVE  TxInv'
<1>1. CASE tx' = tx \/ tx' = IdleTx
  BY <1>1, AbortPreservesTxInv
<1> DEFINE sent == AcceptedCf(now')
<1>2. CASE /\ ~WholePayloadSent(sent)
           /\ tx' = IF LastFrameOfBlock
                    THEN [sent EXCEPT !.blockRemaining = 0,
                            !.state = "WaitFlowControl",
                            !.deadline = now' + config.flowControlTimeout]
                    ELSE [sent EXCEPT
                            !.blockRemaining = IF tx.blockSize = 0 THEN @ ELSE (@ - 1) % 256,
                            !.nextSend = now' + tx.separation]
  <2>1. TxInv /\ tx \in TxType /\ SendPositionConsistent /\ tx.state # "Idle"
    BY DEF IInv, TxInv
  <2>2. /\ sent \in TxType
        /\ sent.payload = tx.payload
        /\ sent.offset = tx.offset + CfData
        /\ sent.offset \in FfData..(Len(tx.payload) - 1)
        /\ sent.seq = (tx.seq + 1) % SeqModulus
        /\ sent.hasLastCf = TRUE
        /\ sent.lastCf = now'
    BY <1>2, <2>1, AcceptedCfCursor
  <2>3. /\ sent.state = tx.state /\ sent.blockSize = tx.blockSize
        /\ sent.blockRemaining = tx.blockRemaining /\ sent.waitCount = tx.waitCount
        /\ sent.separation = tx.separation
    BY <2>1 DEF AcceptedCf, TxType
  <2>4. /\ tx.blockSize \in 0..255 /\ tx.blockRemaining \in 0..255 /\ tx.separation \in Nat
        /\ now' + config.flowControlTimeout \in Nat /\ now' + tx.separation \in Nat
    BY <2>1, ConfigTyped, SMTT(30) DEF TxType
  <2>5. tx.blockSize # 0 => tx.blockRemaining \in 1..tx.blockSize
    BY <2>1, SMTT(30) DEF SendPositionConsistent, BlockHasFramesLeft
  <2> DEFINE left == IF tx.blockSize = 0 THEN sent.blockRemaining ELSE (sent.blockRemaining - 1) % 256
  <2>6. left \in 0..255 /\ (tx.blockSize # 0 /\ tx.blockRemaining # 1 => left \in 1..tx.blockSize)
    BY <2>3, <2>4, <2>5, SMTT(30)
  <2> HIDE DEF sent, left
  <2>7. tx' = IF LastFrameOfBlock
              THEN [sent EXCEPT !.blockRemaining = 0, !.state = "WaitFlowControl",
                                !.deadline = now' + config.flowControlTimeout]
              ELSE [sent EXCEPT !.blockRemaining = left, !.nextSend = now' + tx.separation]
    BY <1>2 DEF sent, left
  <2>8. tx' \in TxType
    <3>1. 0 \in 0..255
      OBVIOUS
    <3>2. QED
      BY <2>2, <2>4, <2>6, <2>7, <3>1, Zenon DEF TxType
  <2>9. /\ tx'.payload = sent.payload /\ tx'.offset = sent.offset /\ tx'.seq = sent.seq
        /\ tx'.hasLastCf = TRUE /\ tx'.lastCf = now' /\ tx'.waitCount = tx.waitCount
        /\ tx'.separation = tx.separation
    BY <2>2, <2>3, <2>7 DEF TxType
  <2>10. CursorOnFrameBoundary'
    <3>1. CursorOnFrameBoundary
      BY <2>1 DEF SendPositionConsistent
    <3>2. QED
      BY <2>1, <2>2, <2>9, <3>1, NextBoundary DEF CursorOnFrameBoundary
  <2>11. BlockHasFramesLeft'
    <3>1. CASE LastFrameOfBlock
      BY <2>2, <2>7, <3>1 DEF BlockHasFramesLeft, TxType
    <3>2. CASE ~LastFrameOfBlock
      BY <2>2, <2>3, <2>6, <2>7, <3>2 DEF BlockHasFramesLeft, LastFrameOfBlock, TxType
    <3>3. QED
      BY <3>1, <3>2
  <2>12. /\ Len(tx'.payload) \in (SfMax + 1)..config'.maxPayload
         /\ tx'.offset \in FfData..(Len(tx'.payload) - 1)
         /\ tx'.waitCount <= config'.maxWaitFrames
    BY <2>1, <2>2, <2>9 DEF SendPositionConsistent
  <2>13. SendPositionConsistent'
    BY <2>10, <2>11, <2>12, Zenon DEF SendPositionConsistent
  <2>14. SendTimes'
    <3>1. CASE LastFrameOfBlock
      BY <2>2, <2>7, <3>1 DEF SendTimes, TxType
    <3>2. CASE ~LastFrameOfBlock
      <4>1. tx'.nextSend = now' + tx.separation
        BY <2>2, <2>7, <3>2 DEF TxType
      <4>2. QED
        BY <2>4, <2>9, <4>1 DEF SendTimes
    <3>3. QED
      BY <3>1, <3>2
  <2>15. QED
    BY <2>8, <2>13, <2>14 DEF TxInv
<1>3. QED
  BY <1>1, <1>2 DEF SendNextConsecutiveFrame

LEMMA FlowControlPreservesTxInv ==
  ASSUME IInv, config' = config, NEW f \in Frame, f.type = "FC", HandleFlowControl(f)
  PROVE  TxInv'
<1>1. CASE tx' = tx \/ tx' = IdleTx
  BY <1>1, AbortPreservesTxInv
<1>2. IsFlowControl(f) /\ now \in Nat /\ TxInv /\ tx \in TxType
  BY FrameTyped DEF IInv, TxInv
<1>3. CASE tx.state = "WaitFlowControl" /\ ContinueToSend(f)
  <2> DEFINE sep == DecodeStMinMs(f.stMin)
  <2>1. f.blockSize \in 0..255 /\ sep \in Nat
    BY <1>2, <1>3, SeparationType DEF IsFlowControl, ContinueToSend
  <2>2. FirstDue(sep) \in Nat /\ (tx.hasLastCf => FirstDue(sep) >= tx.lastCf + sep)
    BY <1>2, <2>1 DEF FirstDue, Max2, TxType
  <2> HIDE DEF sep
  <2>3. tx' = [tx EXCEPT !.blockSize = f.blockSize, !.blockRemaining = f.blockSize,
                         !.separation = sep, !.state = "Sending", !.nextSend = FirstDue(sep)]
    BY <1>3 DEF ContinueToSend, sep
  <2>4. tx' \in TxType
    BY <1>2, <2>1, <2>2, <2>3, ZenonT(60) DEF TxType
  <2>5. /\ tx'.payload = tx.payload /\ tx'.offset = tx.offset /\ tx'.seq = tx.seq
        /\ tx'.hasLastCf = tx.hasLastCf /\ tx'.lastCf = tx.lastCf /\ tx'.waitCount = tx.waitCount
        /\ tx'.separation = sep /\ tx'.nextSend = FirstDue(sep)
        /\ tx'.blockSize = f.blockSize /\ tx'.blockRemaining = f.blockSize
    BY <1>2, <2>3 DEF TxType
  <2>6. /\ Len(tx.payload) \in (SfMax + 1)..config.maxPayload
        /\ tx.offset \in FfData..(Len(tx.payload) - 1)
        /\ tx.waitCount <= config.maxWaitFrames
        /\ CursorOnFrameBoundary
    BY <1>2, <1>3 DEF TxInv, SendPositionConsistent
  <2>7. CursorOnFrameBoundary'
    BY <2>5, <2>6, Zenon DEF CursorOnFrameBoundary
  <2>8. BlockHasFramesLeft'
    BY <2>1, <2>5 DEF BlockHasFramesLeft
  <2>9. SendPositionConsistent'
    BY <2>5, <2>6, <2>7, <2>8, Zenon DEF SendPositionConsistent
  <2>10. SendTimes'
    BY <2>2, <2>5, Zenon DEF SendTimes
  <2>11. QED
    BY <2>4, <2>9, <2>10 DEF TxInv
<1>4. CASE tx.state = "WaitFlowControl" /\ WaitForPeer
  <2> DEFINE w == tx.waitCount + 1
             d == now + config.flowControlTimeout
  <2>1. tx' = [tx EXCEPT !.waitCount = w, !.deadline = d]
    BY <1>4 DEF WaitForPeer
  <2>2. w \in Nat /\ d \in Nat
    BY <1>2, ConfigTyped DEF TxType
  <2>3. w <= config.maxWaitFrames
    <3>1. tx.waitCount < config.maxWaitFrames /\ tx.waitCount \in Nat
      BY <1>2, <1>4 DEF WaitForPeer, TxType
    <3>2. config.maxWaitFrames \in Nat
      BY ConfigTyped
    <3>3. QED
      BY <3>1, <3>2
  <2> HIDE DEF w, d
  <2>4. tx' \in TxType
    BY <1>2, <2>1, <2>2, ZenonT(40) DEF TxType
  <2>5. /\ tx'.state = "WaitFlowControl" /\ tx'.payload = tx.payload /\ tx'.offset = tx.offset
        /\ tx'.seq = tx.seq /\ tx'.hasLastCf = tx.hasLastCf /\ tx'.waitCount = w
    BY <1>2, <1>4, <2>1 DEF TxType
  <2>6. /\ Len(tx.payload) \in (SfMax + 1)..config.maxPayload
        /\ tx.offset \in FfData..(Len(tx.payload) - 1)
        /\ CursorOnFrameBoundary
    BY <1>2, <1>4 DEF TxInv, SendPositionConsistent
  <2>7. CursorOnFrameBoundary'
    BY <2>5, <2>6, Zenon DEF CursorOnFrameBoundary
  <2>8. BlockHasFramesLeft' /\ SendTimes'
    BY <2>5 DEF BlockHasFramesLeft, SendTimes
  <2>9. SendPositionConsistent'
    BY <2>3, <2>5, <2>6, <2>7, <2>8 DEF SendPositionConsistent
  <2>10. QED
    BY <2>4, <2>8, <2>9 DEF TxInv
<1>5. QED
  BY <1>1, <1>3, <1>4 DEF HandleFlowControl, AbortTransmission

LEMMA TransmissionStep ==
  ASSUME IInv, [Next]_vars
  PROVE  TxInv'
<1>1. config' = config
  BY DEF Next, vars, StartSend, Poll, Receive, DiscardPendingMessage, OnCanFrame, Tick
<1>2. now' \in Nat
  BY ClockMonotone
<1>3. ASSUME tx' = tx \/ tx' = IdleTx
      PROVE  TxInv'
  BY <1>1, <1>3, AbortPreservesTxInv
<1>4. ASSUME NEW p \in Payload, StartSend(p)
      PROVE  TxInv'
  <2>1. ASSUME NEW status \in SendResult, Sendable(p), SendFirstFrame(p, status)
        PROVE  TxInv'
    BY <1>1, <1>2, <1>3, <2>1, FirstFramePreservesTxInv DEF SendFirstFrame
  <2>2. QED
    BY <1>3, <1>4, <2>1 DEF StartSend, RejectSend, RefuseSend, SendSingleFrame
<1>5. CASE Poll
  <2>1. ASSUME NEW status \in SendResult, tx.state = "Sending", SendNextConsecutiveFrame(status)
        PROVE  TxInv'
    BY <1>1, <1>2, <2>1, ConsecutiveFramePreservesTxInv
  <2>2. QED
    BY <1>3, <1>5, <2>1 DEF Poll, PollUnconfigured, ExpireAssembly, ExpireTransmission,
       PollNothingDue, DueConsecutiveFrame
<1>6. ASSUME NEW c \in 0..config.maxPayload, Receive(c)
      PROVE  TxInv'
  BY <1>3, <1>6 DEF Receive
<1>7. CASE DiscardPendingMessage
  BY <1>3, <1>7 DEF DiscardPendingMessage
<1>8. ASSUME NEW f \in Frame, OnCanFrame(f)
      PROVE  TxInv'
  <2>1. CASE f.type = "FC" /\ HandleFlowControl(f)
    BY <1>1, <2>1, FlowControlPreservesTxInv
  <2>2. QED
    BY <1>3, <1>8, <2>1 DEF OnCanFrame, ExpireAssembly, ExpireTransmission, Dispatch,
       HandleSingleFrame, HandleFirstFrame, HandleConsecutiveFrame
<1>9. CASE Tick \/ UNCHANGED vars
  BY <1>3, <1>9 DEF Tick, vars
<1>10. QED
  BY <1>4, <1>5, <1>6, <1>7, <1>8, <1>9 DEF Next

(***************************************************************************)
(* The inductive invariant.                                                *)
(***************************************************************************)

LEMMA InitIInv == Init => IInv
<1> SUFFICES ASSUME Init PROVE IInv
  OBVIOUS
<1>1. <<>> \in Seq(Byte) /\ 0 \in Nat /\ 1 \in Nat
  OBVIOUS
<1>2. rx \in RxType
  BY <1>1, SequenceNumbers, Zenon DEF Init, InitRx, RxType
<1>3. BufferHasOneOwner
  BY DEF Init, InitRx, BufferHasOneOwner
<1>4. tx \in TxType
  BY <1>1, TxTypes DEF Init
<1>5. SendPositionConsistent /\ SendTimes
  BY DEF Init, IdleTx, SendPositionConsistent, SendTimes
<1>6. QED
  BY <1>2, <1>3, <1>4, <1>5 DEF IInv, RxInv, TxInv, Init

LEMMA StepIInv == IInv /\ [Next]_vars => IInv'
<1> SUFFICES ASSUME IInv, [Next]_vars PROVE IInv'
  OBVIOUS
<1>1. config' = config
  BY DEF Next, vars, StartSend, Poll, Receive, DiscardPendingMessage, OnCanFrame, Tick
<1>2. QED
  BY <1>1, ClockMonotone, ReceptionStep, TransmissionStep DEF IInv

\* The inductive invariant holds of every behaviour.
THEOREM InductiveInvariant == Spec => []IInv
BY InitIInv, StepIInv, PTL DEF Spec

\* The single message buffer never serves an assembly and a completed message at once,
\* whatever frames arrive and whenever deadlines pass.
THEOREM BufferOwnership == Spec => []BufferHasOneOwner
<1>1. IInv => BufferHasOneOwner
  BY DEF IInv, RxInv
<1>2. QED
  BY <1>1, InductiveInvariant, PTL

\* The send cursor, the sequence number and the block counter agree in every state.
THEOREM SendPosition == Spec => []SendPositionConsistent
<1>1. IInv => SendPositionConsistent
  BY DEF IInv, TxInv
<1>2. QED
  BY <1>1, InductiveInvariant, PTL

(***************************************************************************)
(* Type correctness: what is left is the shape of the frames handed to the *)
(* driver.                                                                 *)
(***************************************************************************)
OutputOK == out = <<>> \/ (out = <<out[1]>> /\ IsFrame(out[1]))

LEMMA OutputStep ==
  ASSUME IInv, OutputOK, [Next]_vars
  PROVE  OutputOK'
<1>1. ASSUME NEW f, NEW status, IsFrame(f), Transmit(f, status)
      PROVE  OutputOK'
  BY <1>1 DEF Transmit, OutputOK
<1>2. ASSUME out' = <<>>
      PROVE  OutputOK'
  BY <1>2 DEF OutputOK
<1>3. ASSUME NEW fs \in {0, 2}
      PROVE  IsFrame(FlowControl(config, fs))
  BY ConfigTyped DEF FlowControl, IsFrame, IsFlowControl
<1>4. ASSUME NEW p \in Payload, StartSend(p)
      PROVE  OutputOK'
  <2>1. p \in Seq(Byte) /\ Len(p) \in Nat
    BY EnvironmentAssumption, LenProperties
  <2>2. ASSUME Len(p) <= SfMax
        PROVE  IsFrame(SingleFrame(p))
    <3>1. Len(p) \in 0..15 /\ Len(p) <= CfData
      <4>1. \A n \in Nat : n <= CfData => n \in 0..15
        BY SizeAssumption
      <4>2. QED
        BY <2>1, <2>2, <4>1, Zenon DEF SfMax
    <3>2. QED
      BY <2>1, <3>1 DEF IsFrame, SingleFrame, IsSingle
  <2>3. ASSUME Len(p) > SfMax
        PROVE  IsFrame(FirstFrame(p))
    <3>1. FfData \in 0..Len(p) /\ FfData \in Nat /\ FfData >= 1
      BY <2>1, <2>3, SizeAssumption DEF SfMax, FfData
    <3>2. SubSeq(p, 1, FfData) \in Seq(Byte) /\ Len(SubSeq(p, 1, FfData)) = FfData
      BY <2>1, <3>1, SliceType
    <3>3. QED
      BY <2>1, <3>2 DEF IsFrame, FirstFrame, IsFirst
  <2>4. QED
    BY <1>1, <1>2, <1>4, <2>2, <2>3 DEF StartSend, RejectSend, RefuseSend, Return,
       SendSingleFrame, SendFirstFrame
<1>5. CASE Poll
  <2>1. ASSUME NEW status \in SendResult, tx.state = "Sending", SendNextConsecutiveFrame(status)
        PROVE  OutputOK'
    <3>1. TxInv /\ tx.state # "Idle"
      BY <2>1 DEF IInv
    <3>2. tx.seq \in 0..(SeqModulus - 1)
      <4>1. PICK k \in 0..Len(tx.payload) : tx.seq = (k + 1) % SeqModulus
        BY <3>1 DEF TxInv, SendPositionConsistent, CursorOnFrameBoundary
      <4>2. k + 1 \in Nat /\ SeqModulus \in Nat \ {0}
        BY <4>1, SizeAssumption
      <4>3. QED
        BY <4>1, <4>2
    <3>3. NextData \in Seq(Byte) /\ Len(NextData) <= CfData
      BY <3>1, NextDataShape, SizeAssumption
    <3>4. IsFrame(ConsecutiveFrame(tx.seq, NextData))
      BY <3>2, <3>3 DEF IsFrame, ConsecutiveFrame, IsConsecutive
    <3>5. QED
      BY <1>1, <2>1, <3>4 DEF SendNextConsecutiveFrame
  <2>2. QED
    BY <1>2, <1>5, <2>1 DEF Poll, PollUnconfigured, ExpireAssembly, ExpireTransmission,
       PollNothingDue, DueConsecutiveFrame, Return
<1>6. ASSUME NEW c \in 0..config.maxPayload, Receive(c)
      PROVE  OutputOK'
  BY <1>2, <1>6 DEF Receive, Return
<1>7. CASE DiscardPendingMessage \/ Tick
  BY <1>2, <1>7 DEF DiscardPendingMessage, Tick
<1>8. ASSUME NEW f \in Frame, OnCanFrame(f)
      PROVE  OutputOK'
  <2>1. ASSUME NEW status, Transmit(FlowControl(config, 0), status)
        PROVE  OutputOK'
    BY <1>1, <1>3, <2>1
  <2>2. ASSUME NEW status, Transmit(FlowControl(config, 2), status)
        PROVE  OutputOK'
    BY <1>1, <1>3, <2>2
  <2>3. CASE HandleSingleFrame(f)
    BY <1>2, <2>3 DEF HandleSingleFrame, Return
  <2>4. CASE HandleFirstFrame(f)
    BY <1>2, <2>1, <2>2, <2>4 DEF HandleFirstFrame, OpenAssembly, Return
  <2>5. CASE HandleConsecutiveFrame(f)
    BY <1>2, <2>1, <2>5 DEF HandleConsecutiveFrame, ContinueAssembly, Return
  <2>6. CASE HandleFlowControl(f)
    BY <1>2, <2>6 DEF HandleFlowControl, ContinueToSend, WaitForPeer, AbortTransmission, Return
  <2>7. QED
    BY <1>2, <1>8, <2>3, <2>4, <2>5, <2>6 DEF OnCanFrame, ExpireAssembly, ExpireTransmission,
       Dispatch, Return
<1>9. CASE UNCHANGED vars
  BY <1>9 DEF vars, OutputOK
<1>10. QED
  BY <1>4, <1>5, <1>6, <1>7, <1>8, <1>9 DEF Next

\* Every variable keeps its declared type, sequence numbers stay below the modulus, and only
\* frames a peer can decode are sent.
THEOREM TypeCorrect == Spec => []TypeOK
<1>1. Init => IInv /\ OutputOK
  BY InitIInv DEF Init, OutputOK
<1>2. IInv /\ OutputOK /\ [Next]_vars => (IInv /\ OutputOK)'
  BY StepIInv, OutputStep
<1>3. IInv /\ OutputOK => TypeOK
  BY DEF IInv, RxInv, TxInv, OutputOK, TypeOK
<1>4. QED
  BY <1>1, <1>2, <1>3, PTL DEF Spec

(***************************************************************************)
(* What a step may never do.                                               *)
(***************************************************************************)

\* No frame, timeout or send disturbs a completed message: it stays readable, byte for
\* byte, until the owner takes it.
THEOREM PendingMessageStability == Spec => PendingMessageIsStable
<1>1. ASSUME IInv, Next, rx.ready
      PROVE  \/ rx' = rx
             \/ \E capacity \in 0..config.maxPayload : Receive(capacity)
             \/ DiscardPendingMessage
  <2>1. rx.state = "Idle" /\ ~RxExpired /\ ~RxFree
    BY <1>1 DEF IInv, RxInv, RxType, BufferHasOneOwner, RxExpired, RxFree
  <2>2. ASSUME NEW p \in Payload, StartSend(p)
        PROVE  rx' = rx
    BY <2>2 DEF StartSend
  <2>3. CASE Poll
    BY <2>1, <2>3 DEF Poll, PollUnconfigured, ExpireAssembly, ExpireTransmission,
       PollNothingDue, SendNextConsecutiveFrame
  <2>4. ASSUME NEW f \in Frame, OnCanFrame(f)
        PROVE  rx' = rx
    BY <2>1, <2>4 DEF OnCanFrame, ExpireAssembly, ExpireTransmission, Dispatch,
       HandleSingleFrame, HandleFirstFrame, HandleConsecutiveFrame, HandleFlowControl
  <2>5. CASE Tick
    BY <2>5 DEF Tick
  <2>6. QED
    BY <1>1, <2>2, <2>3, <2>4, <2>5 DEF Next
<1>2. IInv /\ [Next]_vars =>
        [rx.ready => \/ rx'.ready /\ PendingMessage' = PendingMessage
                     \/ \E capacity \in 0..config.maxPayload : Receive(capacity)
                     \/ DiscardPendingMessage]_vars
  BY <1>1 DEF PendingMessage
<1>3. QED
  BY <1>2, InductiveInvariant, PTL DEF Spec, PendingMessageIsStable

\* Whatever the flow control frames between them asked for, two consecutive frames of a
\* message keep the separation time in force.
THEOREM SeparationKept == Spec => SeparationIsKept
<1>1. ASSUME IInv, Next, CfAccepted, tx.hasLastCf
      PROVE  now >= tx.lastCf + tx.separation
  <2>1. ASSUME NEW f, NEW status, f.type # "CF", Transmit(f, status)
        PROVE  FALSE
    BY <1>1, <2>1 DEF CfAccepted, Transmit
  <2>2. ASSUME out' = <<>>
        PROVE  FALSE
    BY <1>1, <2>2 DEF CfAccepted
  <2>3. ASSUME NEW p \in Payload, StartSend(p)
        PROVE  FALSE
    <3>1. SingleFrame(p).type # "CF" /\ FirstFrame(p).type # "CF"
      BY DEF SingleFrame, FirstFrame
    <3>2. QED
      BY <2>1, <2>2, <2>3, <3>1 DEF StartSend, RejectSend, RefuseSend, Return,
         SendSingleFrame, SendFirstFrame
  <2>4. ASSUME NEW f \in Frame, OnCanFrame(f)
        PROVE  FALSE
    <3>1. FlowControl(config, 0).type # "CF" /\ FlowControl(config, 2).type # "CF"
      BY DEF FlowControl
    <3>2. ~HandleSingleFrame(f)
      BY <2>2 DEF HandleSingleFrame, Return
    <3>3. ~HandleFirstFrame(f)
      BY <2>1, <2>2, <3>1 DEF HandleFirstFrame, OpenAssembly, Return
    <3>4. ~HandleConsecutiveFrame(f)
      BY <2>1, <2>2, <3>1 DEF HandleConsecutiveFrame, ContinueAssembly, Return
    <3>5. ~HandleFlowControl(f)
      BY <2>2 DEF HandleFlowControl, ContinueToSend, WaitForPeer, AbortTransmission, Return
    <3>6. QED
      BY <2>2, <2>4, <3>2, <3>3, <3>4, <3>5 DEF OnCanFrame, ExpireAssembly,
         ExpireTransmission, Dispatch, Return
  <2>5. ~DiscardPendingMessage /\ ~Tick /\ \A c \in 0..config.maxPayload : ~Receive(c)
    BY <2>2 DEF DiscardPendingMessage, Tick, Receive, Return
  <2>6. CASE Poll
    <3>1. tx.state = "Sending" /\ now >= tx.nextSend
      BY <2>2, <2>6 DEF Poll, PollUnconfigured, ExpireAssembly, ExpireTransmission,
         PollNothingDue, DueConsecutiveFrame, Return
    <3>2. tx.nextSend >= tx.lastCf + tx.separation
      BY <1>1, <3>1 DEF IInv, TxInv, SendTimes
    <3>3. now \in Nat /\ tx.nextSend \in Nat /\ tx.lastCf \in Nat /\ tx.separation \in Nat
      BY <1>1 DEF IInv, TxInv, TxType
    <3>4. QED
      BY <3>1, <3>2, <3>3
  <2>7. QED
    BY <1>1, <2>3, <2>4, <2>5, <2>6 DEF Next
<1>2. IInv /\ [Next]_vars =>
        [CfAccepted /\ tx.hasLastCf => now >= tx.lastCf + tx.separation]_vars
  BY <1>1
<1>3. QED
  BY <1>2, InductiveInvariant, PTL DEF Spec, SeparationIsKept

\* Once its deadline has passed an assembly is beyond rescue: the step that touches it
\* drops it.
THEOREM ExpiredDropped == Spec => ExpiredAssemblyIsDropped
<1>1. ASSUME Next, rx.state = "Receiving", now >= rx.deadline
      PROVE  rx' \in {rx, IdleAssembly(rx)} \/ rx' = Emptied
  <2>1. RxExpired
    BY <1>1 DEF RxExpired
  <2>2. CASE Poll
    BY <2>1, <2>2 DEF Poll, PollUnconfigured, ExpireAssembly, ExpireTransmission,
       PollNothingDue
  <2>3. ASSUME NEW f \in Frame, OnCanFrame(f)
        PROVE  rx' \in {rx, IdleAssembly(rx)}
    BY <2>1, <2>3 DEF OnCanFrame, ExpireAssembly, ExpireTransmission
  <2>4. QED
    BY <1>1, <2>2, <2>3 DEF Next, StartSend, Receive, DiscardPendingMessage, Tick
<1>2. [Next]_vars =>
        [(rx.state = "Receiving" /\ now >= rx.deadline)
           => rx' \in {rx, IdleAssembly(rx)} \/ rx' = Emptied]_vars
  BY <1>1
<1>3. QED
  BY <1>2, PTL DEF Spec, ExpiredAssemblyIsDropped

\* Complete is reported for the step that got the last bytes accepted, and for no other
\* end of a transmission.
THEOREM TruthfulEnd == Spec => EndIsReportedTruthfully
<1> DEFINE Failed == /\ ret' \notin {"Idle", "InProgress", "TxBusy", "Busy", "MessageReady"}
                     /\ ret' # "Complete" /\ out' = <<>>
           Finished == /\ ret' = "Complete" /\ CfAccepted
                       /\ tx.offset + Len(NextData) = Len(tx.payload)
<1>1. ASSUME NEW status \in CanStatus, status \notin {"Ok", "TxBusy"}
      PROVE  MapCanStatus[status] \notin
               {"Idle", "InProgress", "TxBusy", "Busy", "MessageReady", "Complete"}
  BY <1>1 DEF CanStatus, MapCanStatus
<1>2. ASSUME IInv, Next, tx.state # "Idle", tx'.state = "Idle"
      PROVE  Failed \/ Finished
  <2> tx \in TxType
    BY <1>2 DEF IInv, TxInv
  <2>1. tx' # tx
    BY <1>2
  <2>2. \A p \in Payload : ~StartSend(p)
    BY <1>2, <2>1 DEF StartSend, RejectSend, RefuseSend, SendSingleFrame, SendFirstFrame
  <2>3. ~DiscardPendingMessage /\ ~Tick /\ \A c \in 0..config.maxPayload : ~Receive(c)
    BY <2>1 DEF DiscardPendingMessage, Tick, Receive
  <2>4. ASSUME ExpireTransmission
        PROVE  Failed
    BY <2>4 DEF ExpireTransmission, Return
  <2>5. ASSUME NEW status \in SendResult, SendNextConsecutiveFrame(status)
        PROVE  Failed \/ Finished
    <3>1. CASE status \notin {"Ok", "TxBusy"}
      <4>1. ret' = MapCanStatus[status] /\ out' = <<>> /\ status \in CanStatus
        BY <2>5, <3>1, EnvironmentAssumption DEF SendNextConsecutiveFrame, Transmit
      <4>2. QED
        BY <1>1, <3>1, <4>1
    <3>2. CASE status = "Ok"
      <4>1. WholePayloadSent(AcceptedCf(now')) /\ ret' = "Complete"
        <5>1. CASE ~WholePayloadSent(AcceptedCf(now'))
          <6>1. CASE LastFrameOfBlock
            <7>1. tx' = [AcceptedCf(now') EXCEPT !.blockRemaining = 0, !.state = "WaitFlowControl",
                           !.deadline = now' + config.flowControlTimeout]
              BY <2>5, <3>2, <5>1, <6>1 DEF SendNextConsecutiveFrame
            <7>2. QED
              BY <1>2, <7>1 DEF AcceptedCf, TxType
          <6>2. CASE ~LastFrameOfBlock
            <7>1. tx' = [AcceptedCf(now') EXCEPT
                           !.blockRemaining = IF tx.blockSize = 0 THEN @ ELSE (@ - 1) % 256,
                           !.nextSend = now' + tx.separation]
              BY <2>5, <3>2, <5>1, <6>2 DEF SendNextConsecutiveFrame
            <7>2. QED
              BY <1>2, <7>1 DEF AcceptedCf, TxType
          <6>3. QED
            BY <6>1, <6>2
        <5>2. QED
          BY <2>5, <3>2, <5>1 DEF SendNextConsecutiveFrame
      <4>2. tx.offset + Len(NextData) = Len(tx.payload)
        BY <4>1 DEF WholePayloadSent, AcceptedCf
      <4>3. CfAccepted
        BY <2>5, <3>2 DEF SendNextConsecutiveFrame, Transmit, CfAccepted, ConsecutiveFrame
      <4>4. QED
        BY <4>1, <4>2, <4>3
    <3>3. QED
      BY <2>1, <2>5, <3>1, <3>2 DEF SendNextConsecutiveFrame
  <2>6. CASE Poll
    BY <2>1, <2>4, <2>5, <2>6 DEF Poll, PollUnconfigured, ExpireAssembly, PollNothingDue
  <2>7. ASSUME NEW f \in Frame, OnCanFrame(f)
        PROVE  Failed
    <3>1. CASE HandleFlowControl(f)
      <4>1. \E s \in {"InvalidFrame", "WaitLimitExceeded", "FlowControlOverflow"} :
              AbortTransmission(s)
        BY <1>2, <2>1, <3>1 DEF HandleFlowControl, ContinueToSend, WaitForPeer, TxType
      <4>2. QED
        BY <4>1 DEF AbortTransmission, Return
    <3>2. QED
      BY <2>1, <2>4, <2>7, <3>1 DEF OnCanFrame, ExpireAssembly, Dispatch, HandleSingleFrame,
         HandleFirstFrame, HandleConsecutiveFrame
  <2>8. QED
    BY <1>2, <2>2, <2>3, <2>6, <2>7 DEF Next
<1>3. IInv /\ [Next]_vars => [(tx.state # "Idle" /\ tx'.state = "Idle") =>
       /\ ret' \notin {"Idle", "InProgress", "TxBusy", "Busy", "MessageReady"}
       /\ ret' = "Complete" <=>
            /\ CfAccepted
            /\ tx.offset + Len(NextData) = Len(tx.payload)]_vars
  <2>1. ASSUME Failed PROVE ~CfAccepted
    BY <2>1 DEF CfAccepted
  <2>2. QED
    BY <1>2, <2>1
<1>4. QED
  BY <1>3, InductiveInvariant, PTL DEF Spec, EndIsReportedTruthfully

(***************************************************************************)
(* The endpoint implements the services' contract. The view is built by    *)
(* one operator, so that a step needs to know only which of its three      *)
(* fields it sets.                                                         *)
(***************************************************************************)
ViewOf(active, assembling, pending) ==
  [active |-> active, assembling |-> assembling, pending |-> pending]

Active     == tx.state # "Idle"
Assembling == rx.state = "Receiving"
Pending    == IF rx.ready THEN PendingMessage ELSE <<>>

Bytes == Seq(Byte) \ {<<>>}

\* Setting one field of a view.
LEMMA SetActive ==
  ASSUME NEW a \in BOOLEAN, NEW b \in BOOLEAN, NEW c, NEW d \in BOOLEAN
  PROVE  [ViewOf(a, b, c) EXCEPT !.active = d] = ViewOf(d, b, c)
BY DEF ViewOf

LEMMA SetAssembling ==
  ASSUME NEW a \in BOOLEAN, NEW b \in BOOLEAN, NEW c, NEW d \in BOOLEAN
  PROVE  [ViewOf(a, b, c) EXCEPT !.assembling = d] = ViewOf(a, d, c)
BY DEF ViewOf

LEMMA SetPending ==
  ASSUME NEW a \in BOOLEAN, NEW b \in BOOLEAN, NEW c, NEW m
  PROVE  [ViewOf(a, b, c) EXCEPT !.pending = m] = ViewOf(a, b, m)
BY DEF ViewOf

\* What each move of the contract does to a view.
LEMMA MoveView ==
  ASSUME NEW a \in BOOLEAN, NEW b \in BOOLEAN, NEW c
  PROVE  /\ Contract!BeginTransmission(ViewOf(a, b, c)) = ViewOf(TRUE, b, c)
         /\ Contract!EndTransmission(ViewOf(a, b, c)) = ViewOf(FALSE, b, c)
         /\ Contract!BeginAssembly(ViewOf(a, b, c)) = ViewOf(a, TRUE, c)
         /\ Contract!EndAssembly(ViewOf(a, b, c)) = ViewOf(a, FALSE, c)
         /\ Contract!TakeMessage(ViewOf(a, b, c)) = ViewOf(a, b, <<>>)
<1>1. TRUE \in BOOLEAN /\ FALSE \in BOOLEAN
  OBVIOUS
<1>2. Contract!BeginTransmission(ViewOf(a, b, c)) = ViewOf(TRUE, b, c)
  BY <1>1, SetActive DEF Contract!BeginTransmission
<1>3. Contract!EndTransmission(ViewOf(a, b, c)) = ViewOf(FALSE, b, c)
  BY <1>1, SetActive DEF Contract!EndTransmission
<1>4. Contract!BeginAssembly(ViewOf(a, b, c)) = ViewOf(a, TRUE, c)
  BY <1>1, SetAssembling DEF Contract!BeginAssembly
<1>5. Contract!EndAssembly(ViewOf(a, b, c)) = ViewOf(a, FALSE, c)
  BY <1>1, SetAssembling DEF Contract!EndAssembly
<1>6. Contract!TakeMessage(ViewOf(a, b, c)) = ViewOf(a, b, <<>>)
  BY SetPending DEF Contract!TakeMessage
<1>7. QED
  BY <1>2, <1>3, <1>4, <1>5, <1>6

LEMMA GetField ==
  ASSUME NEW a \in BOOLEAN, NEW b \in BOOLEAN, NEW c
  PROVE  /\ ViewOf(a, b, c).active <=> a
         /\ ViewOf(a, b, c).assembling <=> b
         /\ ViewOf(a, b, c).pending = c
<1>1. ViewOf(a, b, c).active <=> a
  BY DEF ViewOf
<1>2. ViewOf(a, b, c).assembling <=> b
  BY DEF ViewOf
<1>3. ViewOf(a, b, c).pending = c
  BY DEF ViewOf
<1>4. QED
  BY <1>1, <1>2, <1>3

\* What the contract sees of the current state.
LEMMA CurrentView ==
  /\ ServiceView = ViewOf(Active, Assembling, Pending)
  /\ Active \in BOOLEAN /\ Assembling \in BOOLEAN
  /\ ServiceView.active <=> Active
  /\ ServiceView.assembling <=> Assembling
  /\ ServiceView.pending = Pending
<1>1. Active \in BOOLEAN /\ Assembling \in BOOLEAN
  BY DEF Active, Assembling
<1>2. ServiceView = ViewOf(Active, Assembling, Pending)
  BY Zenon DEF ServiceView, ViewOf, Active, Assembling, Pending
<1>3. QED
  BY <1>1, <1>2, GetField, Zenon

\* The contract's states reached from the current view.
LEMMA ViewMoves ==
  /\ Contract!BeginTransmission(ServiceView) = ViewOf(TRUE, Assembling, Pending)
  /\ Contract!EndTransmission(ServiceView) = ViewOf(FALSE, Assembling, Pending)
  /\ Contract!BeginAssembly(ServiceView) = ViewOf(Active, TRUE, Pending)
  /\ Contract!EndAssembly(ServiceView) = ViewOf(Active, FALSE, Pending)
  /\ Contract!TakeMessage(ServiceView) = ViewOf(Active, Assembling, <<>>)
  /\ \A m : Contract!MessageArrives(ServiceView, m) = ViewOf(Active, FALSE, m)
<1>1. Active \in BOOLEAN /\ Assembling \in BOOLEAN
  BY CurrentView
<1>2. ServiceView = ViewOf(Active, Assembling, Pending)
  BY CurrentView
<1>3. LET v == ViewOf(Active, Assembling, Pending) IN
      /\ Contract!BeginTransmission(v) = ViewOf(TRUE, Assembling, Pending)
      /\ Contract!EndTransmission(v) = ViewOf(FALSE, Assembling, Pending)
      /\ Contract!BeginAssembly(v) = ViewOf(Active, TRUE, Pending)
      /\ Contract!EndAssembly(v) = ViewOf(Active, FALSE, Pending)
      /\ Contract!TakeMessage(v) = ViewOf(Active, Assembling, <<>>)
  BY <1>1, MoveView, ZenonT(60)
<1>4. ASSUME NEW m
      PROVE  Contract!MessageArrives(ServiceView, m) = ViewOf(Active, FALSE, m)
  <2>1. Contract!MessageArrives(ServiceView, m)
          = [Contract!EndAssembly(ServiceView) EXCEPT !.pending = m]
    BY DEF Contract!MessageArrives
  <2>2. [ViewOf(Active, FALSE, Pending) EXCEPT !.pending = m] = ViewOf(Active, FALSE, m)
    <3>1. ASSUME NEW b \in BOOLEAN
          PROVE  [ViewOf(Active, b, Pending) EXCEPT !.pending = m] = ViewOf(Active, b, m)
      BY <1>1, SetPending
    <3>2. QED
      BY <3>1
  <2>3. QED
    BY <1>2, <1>3, <2>1, <2>2
<1>5. QED
  BY <1>2, <1>3, <1>4

\* The view after a step, given what the step did to the two directions.
LEMMA NextView ==
  /\ tx' = tx /\ rx' = rx => ServiceView' = ServiceView
  /\ rx' = rx /\ tx'.state # "Idle" => ServiceView' = ViewOf(TRUE, Assembling, Pending)
  /\ rx' = rx /\ tx'.state = "Idle" => ServiceView' = ViewOf(FALSE, Assembling, Pending)
<1>1. rx' = rx => Assembling' = Assembling /\ Pending' = Pending
  BY DEF Assembling, Pending, PendingMessage
<1>2. tx' = tx => Active' = Active
  BY DEF Active
<1>3. /\ tx'.state # "Idle" => Active' = TRUE
      /\ tx'.state = "Idle" => Active' = FALSE
  BY Zenon DEF Active
<1>4. ServiceView' = ViewOf(Active', Assembling', Pending')
  BY Zenon DEF ServiceView, ViewOf, Active, Assembling, Pending
<1>5. ServiceView = ViewOf(Active, Assembling, Pending)
  BY CurrentView
<1>6. QED
  BY <1>1, <1>2, <1>3, <1>4, <1>5, Zenon

LEMMA OutcomeOf ==
  ASSUME NEW S, NEW R, NEW s \in S, NEW r \in R
  PROVE  [t |-> s, ret |-> r] \in Contract!Outcomes(S, R)
BY SMT DEF Contract!Outcomes

LEMMA InitView == Init => ServiceView = Contract!IdleTransport /\ ret = "Idle"
<1> SUFFICES ASSUME Init PROVE ServiceView = Contract!IdleTransport /\ ret = "Idle"
  OBVIOUS
<1>1. ~Active /\ ~Assembling /\ Pending = <<>> /\ ret = "Idle"
  BY DEF Init, InitRx, IdleTx, Active, Assembling, Pending
<1>2. ServiceView = ViewOf(FALSE, FALSE, <<>>)
  <2>1. Active = FALSE /\ Assembling = FALSE
    BY <1>1, CurrentView
  <2>2. QED
    BY <1>1, <2>1, CurrentView, Zenon
<1>3. QED
  BY <1>1, <1>2, Zenon DEF ViewOf, Contract!IdleTransport

\* Statuses of a driver that refused a frame.
LEMMA SendFailures ==
  ASSUME NEW status \in SendResult, status # "Ok"
  PROVE  /\ MapCanStatus[status] \in Contract!SendFailure
         /\ status # "TxBusy" => MapCanStatus[status] # "TxBusy"
<1>1. status \in CanStatus
  BY EnvironmentAssumption
<1>2. QED
  BY <1>1 DEF CanStatus, MapCanStatus, Contract!SendFailure

\* The calls a service makes, one lemma each.
LEMMA StartSendRefines ==
  ASSUME IInv, NEW p \in Payload, StartSend(p)
  PROVE  Contract!StartSend
<1> USE DEF Contract!StartSend, Contract!StartSendOutcomes
<1>1. rx' = rx
  BY DEF StartSend
<1>2. CASE RejectSend(p)
  <2>1. [t |-> ServiceView', ret |-> ret'] \in Contract!Outcomes({ServiceView}, {"InvalidArgument"})
    BY <1>1, <1>2, NextView, OutcomeOf DEF RejectSend, Return
  <2>2. QED
    BY <2>1, Zenon
<1>3. CASE RefuseSend(p)
  <2>1. [t |-> ServiceView', ret |-> ret'] \in Contract!Outcomes({ServiceView}, {"Busy"})
    BY <1>1, <1>3, NextView, OutcomeOf DEF RefuseSend, Return
  <2>2. ServiceView.active
    BY <1>3, CurrentView DEF RefuseSend, Active
  <2>3. QED
    BY <2>1, <2>2, Zenon
<1>4. ASSUME NEW status \in SendResult, SendSingleFrame(p, status) \/ SendFirstFrame(p, status)
      PROVE  Contract!StartSend
  <2>1. ~ServiceView.active
    BY <1>4, CurrentView DEF SendSingleFrame, SendFirstFrame, Active
  <2>2. CASE ret' = "InProgress" /\ tx'.state = "WaitFlowControl"
    <3>1. ServiceView' = Contract!BeginTransmission(ServiceView)
      BY <1>1, <2>2, NextView, ViewMoves
    <3>2. [t |-> ServiceView', ret |-> ret'] \in
            Contract!Outcomes({Contract!BeginTransmission(ServiceView)}, {"InProgress"})
      BY <2>2, <3>1, OutcomeOf
    <3>3. QED
      BY <2>1, <3>2, Zenon
  <2>3. CASE ret' \in {"Complete"} \cup Contract!SendFailure /\ tx'.state = "Idle"
    <3>1. ServiceView' = ServiceView
      <4>1. ServiceView = ViewOf(FALSE, Assembling, Pending)
        BY <2>1, CurrentView
      <4>2. QED
        BY <1>1, <2>3, <4>1, NextView
    <3>2. [t |-> ServiceView', ret |-> ret'] \in
            Contract!Outcomes({ServiceView}, {"Complete"} \cup Contract!SendFailure)
      BY <2>3, <3>1, OutcomeOf
    <3>3. QED
      BY <2>1, <3>2, Zenon
  <2>4. /\ status # "Ok" => MapCanStatus[status] \in Contract!SendFailure
        /\ MapCanStatus["Ok"] = "Complete"
    BY SendFailures DEF MapCanStatus
  <2>5. CASE SendSingleFrame(p, status)
    BY <2>3, <2>4, <2>5 DEF SendSingleFrame
  <2>6. CASE SendFirstFrame(p, status)
    <3>1. CASE status = "Ok"
      <4>1. ret' = "InProgress" /\ tx'.state = "WaitFlowControl"
        BY <2>6, <3>1 DEF SendFirstFrame, IdleTx
      <4>2. QED
        BY <2>2, <4>1
    <3>2. CASE status # "Ok"
      <4>1. ret' = MapCanStatus[status] /\ tx'.state = "Idle"
        BY <2>6, <3>2 DEF SendFirstFrame, IdleTx
      <4>2. QED
        BY <2>3, <2>4, <3>2, <4>1
    <3>3. QED
      BY <3>1, <3>2
  <2>7. QED
    BY <1>4, <2>5, <2>6
<1>5. QED
  BY <1>2, <1>3, <1>4 DEF StartSend

\* Dropping an assembly clears `assembling` and nothing else.
LEMMA DroppedAssemblyView ==
  ASSUME rx \in RxType, NEW r \in RxType, r.ready = rx.ready, r.length = rx.length,
         r.buffer = rx.buffer, rx' = IdleAssembly(r), tx' = tx
  PROVE  ServiceView' = ViewOf(Active, FALSE, Pending)
<1>1. rx'.state = "Idle" /\ rx'.ready = rx.ready /\ rx'.length = rx.length /\ rx'.buffer = rx.buffer
  BY DEF IdleAssembly, RxType
<1>2. Pending' = Pending /\ Active' = Active
  BY <1>1 DEF Pending, PendingMessage, Active
<1>3. Assembling' = FALSE
  BY <1>1, Zenon DEF Assembling
<1>4. ServiceView' = ViewOf(Active', Assembling', Pending')
  BY Zenon DEF ServiceView, ViewOf, Active, Assembling, Pending
<1>5. QED
  BY <1>2, <1>3, <1>4, Zenon

LEMMA ExpireAssemblyView ==
  ASSUME IInv, ExpireAssembly
  PROVE  /\ ServiceView.assembling
         /\ ServiceView' = Contract!EndAssembly(ServiceView)
         /\ ret' = "Timeout"
<1>1. Assembling /\ rx' = IdleAssembly(rx) /\ tx' = tx /\ ret' = "Timeout" /\ rx \in RxType
  BY DEF IInv, RxInv, ExpireAssembly, RxExpired, Assembling, Return
<1>2. ServiceView' = ViewOf(Active, FALSE, Pending)
  BY <1>1, DroppedAssemblyView
<1>3. QED
  BY <1>1, <1>2, CurrentView, ViewMoves

LEMMA ExpireTransmissionView ==
  ASSUME ExpireTransmission
  PROVE  /\ ServiceView.active
         /\ ServiceView' = Contract!EndTransmission(ServiceView)
         /\ ret' = "Timeout"
<1>1. Active /\ rx' = rx /\ tx'.state = "Idle" /\ ret' = "Timeout"
  BY DEF ExpireTransmission, TxExpired, Active, Return, IdleTx
<1>2. QED
  BY <1>1, CurrentView, ViewMoves, NextView

\* A poll of an active transmission ends it or leaves it active.
LEMMA PollActive ==
  ASSUME ServiceView.active, rx' = rx,
         \/ tx'.state # "Idle" /\ ret' \in {"InProgress", "TxBusy"}
         \/ tx'.state = "Idle" /\ ret' \in {"Complete", "Timeout"} \cup (Contract!SendFailure \ {"TxBusy"})
  PROVE  Contract!Poll
<1>1. CASE tx'.state # "Idle" /\ ret' \in {"InProgress", "TxBusy"}
  <2>1. ServiceView' = ServiceView
    <3>1. Active = TRUE
      BY CurrentView
    <3>2. ServiceView = ViewOf(TRUE, Assembling, Pending)
      BY <3>1, CurrentView, Zenon
    <3>3. QED
      BY <1>1, <3>2, NextView
  <2>2. [t |-> ServiceView', ret |-> ret']
          \in Contract!Outcomes({ServiceView}, {"InProgress", "TxBusy"})
    BY <1>1, <2>1, OutcomeOf
  <2>3. QED
    BY <2>2, Zenon DEF Contract!Poll, Contract!PollOutcomes
<1>2. CASE tx'.state = "Idle" /\ ret' \in {"Complete", "Timeout"} \cup (Contract!SendFailure \ {"TxBusy"})
  <2>1. ServiceView' = Contract!EndTransmission(ServiceView)
    BY <1>2, NextView, ViewMoves
  <2>2. [t |-> ServiceView', ret |-> ret']
          \in Contract!Outcomes({Contract!EndTransmission(ServiceView)},
                                {"Complete", "Timeout"} \cup (Contract!SendFailure \ {"TxBusy"}))
    BY <1>2, <2>1, OutcomeOf
  <2>3. QED
    BY <2>2, Zenon DEF Contract!Poll, Contract!PollOutcomes
<1>3. QED
  BY <1>1, <1>2

LEMMA SendNextRefines ==
  ASSUME IInv, tx.state = "Sending", NEW status \in SendResult, SendNextConsecutiveFrame(status)
  PROVE  Contract!Poll
<1> tx \in TxType
  BY DEF IInv, TxInv
<1>1. ServiceView.active /\ rx' = rx
  BY CurrentView DEF Active, SendNextConsecutiveFrame
<1>2. CASE status = "TxBusy"
  <2>1. tx'.state # "Idle" /\ ret' = "TxBusy"
    BY <1>2 DEF SendNextConsecutiveFrame
  <2>2. QED
    BY <1>1, <2>1, PollActive
<1>3. CASE status \notin {"Ok", "TxBusy"}
  <2>1. tx'.state = "Idle" /\ ret' = MapCanStatus[status]
    BY <1>3 DEF SendNextConsecutiveFrame, IdleTx
  <2>2. QED
    BY <1>1, <1>3, <2>1, PollActive, SendFailures
<1>4. CASE status = "Ok"
  <2>1. CASE WholePayloadSent(AcceptedCf(now'))
    <3>1. tx'.state = "Idle" /\ ret' = "Complete"
      BY <1>4, <2>1 DEF SendNextConsecutiveFrame, IdleTx
    <3>2. QED
      BY <1>1, <3>1, PollActive
  <2>2. CASE ~WholePayloadSent(AcceptedCf(now'))
    <3>1. ret' = "InProgress"
      BY <1>4, <2>2 DEF SendNextConsecutiveFrame
    <3>2. tx'.state # "Idle"
      <4>1. CASE LastFrameOfBlock
        <5>1. tx' = [AcceptedCf(now') EXCEPT !.blockRemaining = 0, !.state = "WaitFlowControl",
                       !.deadline = now' + config.flowControlTimeout]
          BY <1>4, <2>2, <4>1 DEF SendNextConsecutiveFrame
        <5>2. QED
          BY <5>1 DEF AcceptedCf, TxType
      <4>2. CASE ~LastFrameOfBlock
        <5>1. tx' = [AcceptedCf(now') EXCEPT
                       !.blockRemaining = IF tx.blockSize = 0 THEN @ ELSE (@ - 1) % 256,
                       !.nextSend = now' + tx.separation]
          BY <1>4, <2>2, <4>2 DEF SendNextConsecutiveFrame
        <5>2. QED
          BY <5>1 DEF AcceptedCf, TxType
      <4>3. QED
        BY <4>1, <4>2
    <3>3. QED
      BY <1>1, <3>1, <3>2, PollActive
  <2>3. QED
    BY <2>1, <2>2
<1>5. QED
  BY <1>2, <1>3, <1>4

LEMMA PollRefines ==
  ASSUME IInv, Poll
  PROVE  Contract!Poll
<1>1. CASE PollUnconfigured
  <2>1. ServiceView' = ServiceView /\ ret' = "InvalidArgument"
    BY <1>1, NextView DEF PollUnconfigured, Return
  <2>2. [t |-> ServiceView', ret |-> ret'] \in Contract!Outcomes({ServiceView}, {"InvalidArgument"})
    BY <2>1, OutcomeOf
  <2>3. QED
    BY <2>2, Zenon DEF Contract!Poll, Contract!PollOutcomes
<1>2. CASE ExpireAssembly
  <2>1. /\ ServiceView.assembling
        /\ [t |-> ServiceView', ret |-> ret']
             \in Contract!Outcomes({Contract!EndAssembly(ServiceView)}, {"Timeout"})
    BY <1>2, ExpireAssemblyView, OutcomeOf
  <2>2. QED
    BY <2>1, Zenon DEF Contract!Poll, Contract!PollOutcomes
<1>3. CASE ExpireTransmission
  <2>1. ServiceView.active
    BY <1>3, ExpireTransmissionView
  <2>2. rx' = rx /\ tx'.state = "Idle" /\ ret' = "Timeout"
    BY <1>3 DEF ExpireTransmission, IdleTx, Return
  <2>3. QED
    BY <2>1, <2>2, PollActive
<1>4. CASE PollNothingDue
  <2>1. ServiceView' = ServiceView
    BY <1>4, NextView DEF PollNothingDue
  <2>2. CASE tx.state = "Idle"
    <3>1. ~ServiceView.active /\ ret' = "Idle"
      BY <1>4, <2>2, CurrentView DEF PollNothingDue, Active, Return
    <3>2. [t |-> ServiceView', ret |-> ret'] \in Contract!Outcomes({ServiceView}, {"Idle"})
      BY <2>1, <3>1, OutcomeOf
    <3>3. QED
      BY <3>1, <3>2, Zenon DEF Contract!Poll, Contract!PollOutcomes
  <2>3. CASE tx.state # "Idle"
    <3>1. ServiceView.active /\ rx' = rx /\ tx'.state # "Idle" /\ ret' = "InProgress"
      BY <1>4, <2>3, CurrentView DEF PollNothingDue, Active, Return
    <3>2. QED
      BY <3>1, PollActive
  <2>4. QED
    BY <2>2, <2>3
<1>5. QED
  BY <1>1, <1>2, <1>3, <1>4, SendNextRefines DEF Poll, DueConsecutiveFrame

\* A completed message is a non-empty byte sequence.
LEMMA PendingIsMessage ==
  ASSUME RxInv, rx.ready
  PROVE  PendingMessage \in Seq(Byte) \ {<<>>}
<1>1. /\ rx.buffer \in Seq(Byte) /\ rx.length = Len(rx.buffer) /\ rx.length # 0
      /\ rx.length \in Nat
  BY DEF RxInv, RxType, BufferHasOneOwner
<1>2. Len(rx.buffer) \in Nat /\ Len(rx.buffer) \in 0..Len(rx.buffer)
  BY <1>1, LenProperties
<1>3. /\ PendingMessage \in Seq(Byte)
      /\ Len(PendingMessage) = IF 1 <= rx.length THEN rx.length - 1 + 1 ELSE 0
  BY <1>1, <1>2, SliceType DEF PendingMessage
<1>4. Len(PendingMessage) # 0
  BY <1>1, <1>2, <1>3
<1>5. QED
  BY <1>3, <1>4

\* Emptying the buffer takes the message and leaves an assembly alone.
LEMMA EmptiedView ==
  ASSUME rx \in RxType, rx' = Emptied, tx' = tx
  PROVE  ServiceView' = Contract!TakeMessage(ServiceView)
<1>1. rx'.state = rx.state /\ ~rx'.ready
  BY DEF Emptied, RxType
<1>2. Pending' = <<>> /\ Active' = Active /\ Assembling' = Assembling
  BY <1>1 DEF Pending, Active, Assembling
<1>3. ServiceView' = ViewOf(Active', Assembling', Pending')
  BY Zenon DEF ServiceView, ViewOf, Active, Assembling, Pending
<1>4. QED
  BY <1>2, <1>3, ViewMoves

LEMMA ReceiveRefines ==
  ASSUME IInv, NEW c \in 0..config.maxPayload, Receive(c)
  PROVE  Contract!Receive
<1>1. tx' = tx /\ rx \in RxType /\ ServiceView.pending = Pending
  BY CurrentView DEF Receive, IInv, RxInv
<1>2. CASE ~rx.ready
  <2>1. ServiceView.pending = <<>> /\ ServiceView' = ServiceView /\ ret' = "NoData"
    BY <1>1, <1>2, NextView DEF Receive, Return, Pending
  <2>2. QED
    BY <2>1, Zenon DEF Contract!Receive, Contract!ReceiveOutcome
<1>3. CASE rx.ready
  <2>1. ServiceView.pending # <<>>
    BY <1>1, <1>3, PendingIsMessage DEF IInv, Pending
  <2>2. CASE rx' = rx /\ ret' = "Overflow"
    <3>1. ServiceView' = ServiceView
      BY <1>1, <2>2, NextView
    <3>2. [t |-> ServiceView', ret |-> ret'] = Contract!ReceiveOutcome(ServiceView, FALSE)
      BY <2>1, <2>2, <3>1, Zenon DEF Contract!ReceiveOutcome
    <3>3. FALSE \in BOOLEAN
      OBVIOUS
    <3>4. QED
      BY <3>2, <3>3, Zenon DEF Contract!Receive
  <2>3. CASE rx' = Emptied /\ ret' = "Complete"
    <3>1. ServiceView' = Contract!TakeMessage(ServiceView)
      BY <1>1, <2>3, EmptiedView
    <3>2. [t |-> ServiceView', ret |-> ret'] = Contract!ReceiveOutcome(ServiceView, TRUE)
      BY <2>1, <2>3, <3>1, Zenon DEF Contract!ReceiveOutcome
    <3>3. TRUE \in BOOLEAN
      OBVIOUS
    <3>4. QED
      BY <3>2, <3>3, Zenon DEF Contract!Receive
  <2>4. QED
    BY <1>3, <2>2, <2>3 DEF Receive, Return
<1>4. QED
  BY <1>2, <1>3

LEMMA DiscardRefines ==
  ASSUME IInv, DiscardPendingMessage
  PROVE  Contract!Discard
<1>1. rx \in RxType /\ rx' = Emptied /\ tx' = tx /\ ret' = ret
  BY DEF IInv, RxInv, DiscardPendingMessage
<1>2. QED
  BY <1>1, EmptiedView DEF Contract!Discard, Contract!DiscardOutcome

(***************************************************************************)
(* Frames.                                                                 *)
(***************************************************************************)
FrameLeaves == {"InvalidArgument", "Ignored", "InvalidFrame", "UnexpectedFrame", "Busy",
                "Overflow", "InProgress"} \cup Contract!SendFailure

LEMMA FrameUnnoticed ==
  ASSUME ServiceView' = ServiceView, ret' \in FrameLeaves
  PROVE  Contract!Arrive
BY DEF FrameLeaves, Contract!Arrive, Contract!FrameLeavesState

\* A completed message appears when the assembly ends.
LEMMA MessageView ==
  ASSUME IInv, RxInv', ~rx.ready, rx'.ready, rx'.state = "Idle", tx' = tx, ret' = "MessageReady"
  PROVE  Contract!Arrive
<1>1. Pending' \in Seq(Byte) \ {<<>>}
  <2>1. (RxInv /\ rx.ready => PendingMessage \in Seq(Byte) \ {<<>>})'
    BY PendingIsMessage, PTL
  <2>2. QED
    BY <2>1 DEF Pending
<1>2. Active' = Active /\ Assembling' = FALSE
  BY Zenon DEF Active, Assembling
<1>3. ServiceView' = ViewOf(Active', Assembling', Pending')
  BY Zenon DEF ServiceView, ViewOf, Active, Assembling, Pending
<1>4. ServiceView' = Contract!MessageArrives(ServiceView, Pending')
  BY <1>2, <1>3, ViewMoves, Zenon
<1>5. ServiceView'.pending = Pending'
  BY Zenon DEF ServiceView, Pending
<1>6. ServiceView.pending = <<>>
  BY CurrentView DEF Pending
<1>7. QED
  BY <1>1, <1>4, <1>5, <1>6 DEF Contract!Arrive, Contract!FrameCompletesMessage

\* While no message is pending the view shows only whether an assembly is under way.
LEMMA AssemblyView ==
  ASSUME ~rx.ready, ~rx'.ready, tx' = tx
  PROVE  /\ ServiceView.pending = <<>>
         /\ ServiceView.assembling <=> rx.state = "Receiving"
         /\ rx'.state = rx.state => ServiceView' = ServiceView
         /\ rx'.state = "Receiving" => ServiceView' = Contract!BeginAssembly(ServiceView)
         /\ rx'.state # "Receiving" => ServiceView' = Contract!EndAssembly(ServiceView)
<1>1. Pending = <<>> /\ Pending' = <<>> /\ Active' = Active
  BY DEF Pending, Active
<1>2. ServiceView' = ViewOf(Active, Assembling', Pending)
  <2>1. ServiceView' = ViewOf(Active', Assembling', Pending')
    BY Zenon DEF ServiceView, ViewOf, Active, Assembling, Pending
  <2>2. QED
    BY <1>1, <2>1, Zenon
<1>3. ServiceView.pending = <<>> /\ (ServiceView.assembling <=> rx.state = "Receiving")
  BY <1>1, CurrentView DEF Assembling
<1>4. ASSUME rx'.state = rx.state
      PROVE  ServiceView' = ServiceView
  <2>1. Assembling' = Assembling
    BY <1>4 DEF Assembling
  <2>2. QED
    BY <1>2, <2>1, CurrentView, Zenon
<1>5. ASSUME rx'.state = "Receiving"
      PROVE  ServiceView' = Contract!BeginAssembly(ServiceView)
  <2>1. Assembling' = TRUE
    BY <1>5, Zenon DEF Assembling
  <2>2. QED
    BY <1>2, <2>1, ViewMoves, Zenon
<1>6. ASSUME rx'.state # "Receiving"
      PROVE  ServiceView' = Contract!EndAssembly(ServiceView)
  <2>1. Assembling' = FALSE
    BY <1>6, Zenon DEF Assembling
  <2>2. QED
    BY <1>2, <2>1, ViewMoves, Zenon
<1>7. QED
  BY <1>3, <1>4, <1>5, <1>6

LEMMA SingleFrameRefines ==
  ASSUME IInv, IInv', NEW f \in Frame, HandleSingleFrame(f)
  PROVE  Contract!Arrive
<1> rx \in RxType
  BY DEF IInv, RxInv
<1>1. CASE rx' = rx /\ tx' = tx /\ ret' \in {"Busy", "InvalidFrame"}
  BY <1>1, NextView, FrameUnnoticed DEF FrameLeaves
<1>2. CASE RxFree /\ rx' = [rx EXCEPT !.buffer = SubSeq(f.data, 1, f.len), !.length = f.len,
                                      !.ready = TRUE]
           /\ tx' = tx /\ ret' = "MessageReady"
  <2>1. ~rx.ready /\ rx'.ready /\ rx'.state = "Idle"
    BY <1>2 DEF RxFree, RxType
  <2>2. QED
    BY <1>2, <2>1, MessageView DEF IInv
<1>3. QED
  BY <1>1, <1>2 DEF HandleSingleFrame, Return

LEMMA FirstFrameRefines ==
  ASSUME IInv, NEW f \in Frame, HandleFirstFrame(f)
  PROVE  Contract!Arrive
<1> rx \in RxType
  BY DEF IInv, RxInv
<1>1. tx' = tx
  BY DEF HandleFirstFrame
<1>2. CASE rx' = rx /\ ret' \in FrameLeaves
  BY <1>1, <1>2, NextView, FrameUnnoticed
<1>3. ASSUME RxFree, NEW status \in SendResult, OpenAssembly(f, status)
      PROVE  Contract!Arrive
  <2>1. CASE status = "Ok"
    <3>1. ~rx.ready /\ ~rx'.ready /\ rx.state = "Idle" /\ rx'.state = "Receiving"
          /\ ret' = "InProgress"
      BY <1>3, <2>1 DEF OpenAssembly, RxFree, RxType
    <3>2. QED
      BY <1>1, <3>1, AssemblyView DEF Contract!Arrive, Contract!FrameBeginsAssembly
  <2>2. CASE status # "Ok"
    <3>1. ~rx.ready /\ ~rx'.ready /\ rx.state = "Idle" /\ rx'.state = "Idle"
      BY <1>3, <2>2 DEF OpenAssembly, IdleAssembly, RxFree, RxType
    <3>2. ret' \in FrameLeaves
      BY <1>3, <2>2, SendFailures DEF OpenAssembly, FrameLeaves
    <3>3. QED
      BY <1>1, <3>1, <3>2, AssemblyView, FrameUnnoticed
  <2>3. QED
    BY <2>1, <2>2
<1>4. ASSUME NEW status \in SendResult, rx' = rx,
             ret' = IF status = "Ok" THEN "Overflow" ELSE MapCanStatus[status]
      PROVE  Contract!Arrive
  <2>1. ret' \in FrameLeaves
    BY <1>4, SendFailures DEF FrameLeaves
  <2>2. QED
    BY <1>2, <1>4, <2>1
<1>5. QED
  <2>1. CASE ~RxFree
    BY <1>2, <2>1 DEF HandleFirstFrame, Return, FrameLeaves
  <2>2. CASE RxFree
    BY <1>2, <1>3, <1>4, <2>2 DEF HandleFirstFrame, Return, FrameLeaves
  <2>3. QED
    BY <2>1, <2>2

LEMMA ConsecutiveFrameRefines ==
  ASSUME IInv, IInv', NEW f \in Frame, HandleConsecutiveFrame(f)
  PROVE  Contract!Arrive
<1> rx \in RxType
  BY DEF IInv, RxInv
<1>1. tx' = tx
  BY DEF HandleConsecutiveFrame
<1>2. CASE rx.state # "Receiving"
  <2>1. rx' = rx /\ ret' = "UnexpectedFrame"
    BY <1>2 DEF HandleConsecutiveFrame, Return
  <2>2. QED
    BY <1>1, <2>1, NextView, FrameUnnoticed DEF FrameLeaves
<1>3. CASE rx.state = "Receiving"
  <2>1. ~rx.ready
    BY <1>3 DEF IInv, RxInv, BufferHasOneOwner
  <2>2. CASE ~rx'.ready /\ rx'.state # "Receiving"
             /\ ret' \in {"Timeout", "InvalidFrame", "SequenceError"} \cup Contract!SendFailure
    BY <1>1, <1>3, <2>1, <2>2, AssemblyView DEF Contract!Arrive, Contract!FrameEndsAssembly
  <2>3. CASE ~rx'.ready /\ rx'.state = "Receiving" /\ ret' = "InProgress"
    BY <1>1, <1>3, <2>1, <2>3, AssemblyView, FrameUnnoticed DEF FrameLeaves
  <2>4. CASE rx' = IdleAssembly(rx) /\ ret' \in {"InvalidFrame", "SequenceError"}
    <3>1. ~rx'.ready /\ rx'.state # "Receiving"
      BY <2>1, <2>4 DEF IdleAssembly, RxType
    <3>2. QED
      BY <2>2, <2>4, <3>1
  <2>5. CASE rx' = IdleAssembly([Stored(f) EXCEPT !.length = rx.expected, !.ready = TRUE])
             /\ ret' = "MessageReady"
    <3>1. rx'.ready /\ rx'.state = "Idle"
      BY <2>5 DEF IdleAssembly, Stored, RxType
    <3>2. QED
      BY <1>1, <2>1, <2>5, <3>1, MessageView DEF IInv
  <2>6. CASE ContinueAssembly(f)
    <3> DEFINE stored == [Stored(f) EXCEPT !.deadline = now + config.consecutiveFrameTimeout]
    <3>1. stored.state = "Receiving" /\ stored.ready = FALSE
          /\ [stored EXCEPT !.blockCount = 0].state = "Receiving"
          /\ [stored EXCEPT !.blockCount = 0].ready = FALSE
          /\ IdleAssembly(stored).state = "Idle" /\ IdleAssembly(stored).ready = FALSE
      BY <1>3, <2>1 DEF Stored, IdleAssembly, RxType
    <3>2. \/ rx' \in {stored, [stored EXCEPT !.blockCount = 0]} /\ ret' = "InProgress"
          \/ \E status \in SendResult : /\ status # "Ok" /\ ret' = MapCanStatus[status]
                                        /\ rx' = IdleAssembly(stored)
      BY <2>6 DEF ContinueAssembly, Return
    <3> HIDE DEF stored
    <3>3. QED
      BY <2>2, <2>3, <3>1, <3>2, SendFailures
  <2>7. QED
    BY <1>3, <2>4, <2>5, <2>6 DEF HandleConsecutiveFrame, Return
<1>4. QED
  BY <1>2, <1>3

LEMMA FlowControlRefines ==
  ASSUME IInv, NEW f \in Frame, HandleFlowControl(f)
  PROVE  Contract!Arrive
<1> tx \in TxType
  BY DEF IInv, TxInv
<1>1. rx' = rx
  BY DEF HandleFlowControl
<1>2. CASE tx' = tx /\ ret' = "UnexpectedFrame"
  BY <1>1, <1>2, NextView, FrameUnnoticed DEF FrameLeaves
<1>3. CASE tx.state = "WaitFlowControl" /\ tx'.state # "Idle" /\ ret' = "InProgress"
  <2>1. ServiceView' = ServiceView
    <3>1. Active = TRUE
      BY <1>3, Zenon DEF Active
    <3>2. ServiceView = ViewOf(TRUE, Assembling, Pending)
      BY <3>1, CurrentView, Zenon
    <3>3. QED
      BY <1>1, <1>3, <3>2, NextView
  <2>2. QED
    BY <1>3, <2>1, FrameUnnoticed DEF FrameLeaves
<1>4. ASSUME tx.state = "WaitFlowControl",
             NEW status \in {"InvalidFrame", "WaitLimitExceeded", "FlowControlOverflow"},
             AbortTransmission(status)
      PROVE  Contract!Arrive
  <2>1. ServiceView.active /\ tx'.state = "Idle" /\ ret' = status
    BY <1>4, CurrentView DEF Active, AbortTransmission, Return, IdleTx
  <2>2. ServiceView' = Contract!EndTransmission(ServiceView)
    BY <1>1, <2>1, NextView, ViewMoves
  <2>3. QED
    BY <1>4, <2>1, <2>2 DEF Contract!Arrive, Contract!FrameEndsTransmission
<1>5. ASSUME ContinueToSend(f) \/ WaitForPeer
      PROVE  tx'.state = tx.state \/ tx'.state = "Sending"
  BY <1>5 DEF ContinueToSend, WaitForPeer, TxType
<1>6. ASSUME ContinueToSend(f) \/ WaitForPeer
      PROVE  ret' = "InProgress"
  BY <1>6 DEF ContinueToSend, WaitForPeer, Return
<1>7. QED
  BY <1>2, <1>3, <1>4, <1>5, <1>6 DEF HandleFlowControl, Return

LEMMA ArriveRefines ==
  ASSUME IInv, IInv', NEW f \in Frame, OnCanFrame(f)
  PROVE  Contract!Arrive
<1>1. CASE rx' = rx /\ tx' = tx /\ ret' \in {"InvalidArgument", "Ignored", "InvalidFrame"}
  BY <1>1, NextView, FrameUnnoticed DEF FrameLeaves
<1>2. CASE ExpireAssembly
  BY <1>2, ExpireAssemblyView DEF Contract!Arrive, Contract!FrameEndsAssembly
<1>3. CASE ExpireTransmission
  BY <1>3, ExpireTransmissionView DEF Contract!Arrive, Contract!FrameEndsTransmission
<1>4. CASE Dispatch(f)
  BY <1>1, <1>4, SingleFrameRefines, FirstFrameRefines, ConsecutiveFrameRefines,
     FlowControlRefines DEF Dispatch, Return
<1>5. QED
  BY <1>1, <1>2, <1>3, <1>4 DEF OnCanFrame, Return

\* Every behaviour of the endpoint, seen through isTransmitActive, the receive state and
\* the pending message, is a behaviour the diagnostic services may rely on.
THEOREM ContractImplemented == Spec => ImplementsContract
<1>1. Init => Contract!Init
  BY InitView DEF Contract!Init
<1>2. ASSUME IInv, IInv', [Next]_vars
      PROVE  [Contract!Next]_<<ServiceView, ret>>
  <2>1. CASE UNCHANGED vars \/ Tick
    <3>1. tx' = tx /\ rx' = rx /\ ret' = ret
      BY <2>1 DEF vars, Tick
    <3>2. QED
      BY <3>1, NextView
  <2>2. QED
    BY <1>2, <2>1, StartSendRefines, PollRefines, ReceiveRefines, DiscardRefines, ArriveRefines
       DEF Next, Contract!Next
<1>3. QED
  BY <1>1, <1>2, InductiveInvariant, PTL DEF Spec, ImplementsContract, Contract!Spec

\* What onCanFrame makes of the endpoint, as the services see it, is among the states they
\* are modelled to find the transport in between two of their calls.
THEOREM FramesAreForeseen ==
  ASSUME IInv, IInv', NEW f \in Frame, OnCanFrame(f)
  PROVE  ServiceView' \in Contract!FrameStates(ServiceView)
<1>1. Contract!Arrive
  BY ArriveRefines
<1>2. CASE Contract!FrameLeavesState
  BY <1>2 DEF Contract!FrameLeavesState, Contract!FrameStates
<1>3. CASE Contract!FrameEndsTransmission
  BY <1>3 DEF Contract!FrameEndsTransmission, Contract!FrameStates
<1>4. CASE Contract!FrameBeginsAssembly
  BY <1>4 DEF Contract!FrameBeginsAssembly, Contract!FrameStates
<1>5. CASE Contract!FrameEndsAssembly
  BY <1>5 DEF Contract!FrameEndsAssembly, Contract!FrameStates
<1>6. CASE Contract!FrameCompletesMessage
  BY <1>6 DEF Contract!FrameCompletesMessage, Contract!FrameStates
<1> QED
  BY <1>1, <1>2, <1>3, <1>4, <1>5, <1>6 DEF Contract!Arrive
================================================================================
