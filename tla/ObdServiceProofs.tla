---------------------------- MODULE ObdServiceProofs ----------------------------
(***************************************************************************)
(* Theorems about the OBD-II service, for any messages a transport may     *)
(* hand over, any PIDs, any configuration and buffers of any size.         *)
(***************************************************************************)
EXTENDS ObdService, SequenceTheorems, WellFoundedInduction, TLAPS

ObdState ==
  [state : {"Idle", "AwaitingTransmit", "AwaitingResponse"},
   kind : RequestKind, pid : Byte, status : ObdServiceStatus,
   lastTransport : TransportStatus, waitLeft : Nat,
   result : [raw : Seq(Byte), bitmap : Seq(Byte), vin : Seq(Byte), dtcs : Seq(Byte \X Byte)]]

(***************************************************************************)
(* What holds of the members u, the last payload s, the message a of the   *)
(* published result and the time e the wait has lasted, in every reachable *)
(* state.                                                                  *)
(***************************************************************************)

\* The payload s is the request of that kind, for that PID.
Asks(kind, pid, s) ==
  /\ kind \in DOMAIN ModeOf
  /\ s[1] = ModeOf[kind]
  /\ kind # "StoredDtcs" => s[2] = pid

\* The message a answers the payload s, and the result x is what it says and fits what the
\* accessors promise.
Answers(s, a, x) ==
  /\ a # <<>>
  /\ a[1] = PositiveService(s[1])
  /\ s[1] # kModeStoredDtcRead => a[2] = s[2]
  /\ IsContentOf(x, s[1], a)
  /\ Len(x.raw) <= kMaxRawDataLength /\ Len(x.bitmap) \in {0, 4}
  /\ Len(x.vin) \in {0, kVinLength}
  /\ Len(x.dtcs) <= kMaxStoredDtcRecords

TypesFit(u, s, a, e) ==
  /\ u \in ObdState
  /\ s \in Seq(Byte) /\ a \in Seq(Byte) /\ e \in Nat
  /\ u.kind = "None" <=> u.state = "Idle"

\* Before the wait begins no time counts; while it lasts none is lost or won.
WaitFits(u, e) ==
  /\ u.state = "AwaitingTransmit" => e = 0
  /\ u.state = "AwaitingResponse" => e + u.waitLeft = config.responseTimeout
  /\ u.state # "AwaitingResponse" => u.waitLeft = 0

\* While a request is active there is no result, and the payload sent last asks for it.
RequestFits(u, s) ==
  u.state # "Idle" =>
    Asks(u.kind, u.pid, s) /\ u.result = NoResult /\ u.status # "ResponseReady"

\* Between requests the result, if there is one, is the answer to the payload sent last.
ResultFits(u, s, a) ==
  u.state = "Idle" /\ (u.status = "ResponseReady" \/ u.result # NoResult) =>
    Answers(s, a, u.result)

Holds(u, s, a, e) ==
  TypesFit(u, s, a, e) /\ WaitFits(u, e) /\ RequestFits(u, s) /\ ResultFits(u, s, a)

IInv ==
  /\ config \in ObdServiceConfig
  /\ transport \in TransportState
  /\ Holds(obd, sent, answer, elapsed)

LEMMA Kinds ==
  /\ DOMAIN ModeOf = {"CurrentData", "SupportedPids", "Vin", "StoredDtcs"}
  /\ RequestKind = {"CurrentData", "SupportedPids", "Vin", "StoredDtcs", "None"}
  /\ ModeOf["CurrentData"] = kModeCurrentData /\ ModeOf["SupportedPids"] = kModeCurrentData
  /\ ModeOf["Vin"] = kModeVehicleInformation /\ ModeOf["StoredDtcs"] = kModeStoredDtcRead
BY DEF RequestKind, ModeOf

(***************************************************************************)
(* What every call of the transport contract keeps, for any messages.      *)
(***************************************************************************)

\* A transport that does nothing is one of its states.
LEMMA IdleIsTransport == IdleTransport \in TransportState
BY DEF IdleTransport, TransportState

\* Each direction changes without the other, and without touching the message.
LEMMA DirectionsAreSeparate ==
  ASSUME NEW t \in TransportState
  PROVE  /\ BeginTransmission(t) \in TransportState /\ BeginTransmission(t).pending = t.pending
         /\ EndTransmission(t) \in TransportState /\ EndTransmission(t).pending = t.pending
         /\ BeginAssembly(t) \in TransportState /\ BeginAssembly(t).pending = t.pending
         /\ EndAssembly(t) \in TransportState /\ EndAssembly(t).pending = t.pending
BY DEF TransportState, BeginTransmission, EndTransmission, BeginAssembly, EndAssembly

\* Taking the message leaves none.
LEMMA TakingEmpties ==
  ASSUME NEW t \in TransportState
  PROVE  TakeMessage(t) \in TransportState /\ TakeMessage(t).pending = NoMessage
BY DEF TransportState, TakeMessage

\* Sending leaves the completed message alone, whatever comes of it.
LEMMA StartSendKeepsTransport ==
  ASSUME NEW t \in TransportState, NEW o \in StartSendOutcomes(t)
  PROVE  o.t \in TransportState /\ o.ret \in TransportStatus /\ o.t.pending = t.pending
<1>1. o.t \in {t, BeginTransmission(t)}
  BY DEF StartSendOutcomes, Outcomes
<1>2. o.ret \in TransportStatus
  BY DEF StartSendOutcomes, Outcomes, SendFailure, TransportStatus
<1> QED
  BY <1>1, <1>2, DirectionsAreSeparate

\* So does polling.
LEMMA PollKeepsTransport ==
  ASSUME NEW t \in TransportState, NEW o \in PollOutcomes(t)
  PROVE  o.t \in TransportState /\ o.ret \in TransportStatus /\ o.t.pending = t.pending
<1>1. o.t \in {t, EndAssembly(t), EndTransmission(t)}
  BY DEF PollOutcomes, Outcomes
<1>2. o.ret \in TransportStatus
  BY DEF PollOutcomes, Outcomes, SendFailure, TransportStatus
<1> QED
  BY <1>1, <1>2, DirectionsAreSeparate

\* Only a message that fits is taken, and a Complete hands over the one that was pending.
LEMMA ReceiveKeepsTransport ==
  ASSUME NEW t \in TransportState, NEW fits \in BOOLEAN
  PROVE  LET r == ReceiveOutcome(t, fits) IN
         /\ r.t \in TransportState
         /\ r.ret \in {"NoData", "Overflow", "Complete"}
         /\ r.ret = "Complete" => t.pending \in Message /\ fits
BY TakingEmpties DEF ReceiveOutcome, TransportState

\* Frames complete a message only where there is none.
LEMMA FramesKeepTransport ==
  ASSUME NEW t \in TransportState, NEW e \in FrameStates(t)
  PROVE  /\ e \in TransportState
         /\ t.pending # NoMessage => e.pending = t.pending
<1>1. CASE \E m \in Message : t.pending = NoMessage /\ e = MessageArrives(t, m)
  <2>1. PICK m \in Message : t.pending = NoMessage /\ e = [EndAssembly(t) EXCEPT !.pending = m]
    BY <1>1 DEF MessageArrives
  <2>2. EndAssembly(t) \in TransportState
    BY DirectionsAreSeparate
  <2>3. e \in TransportState
    BY <2>1, <2>2 DEF TransportState
  <2> QED
    BY <2>1, <2>3
<1>2. CASE e \in {t, EndTransmission(t), EndAssembly(t), BeginAssembly(t)}
  BY <1>2, DirectionsAreSeparate
<1> QED
  BY <1>1, <1>2 DEF FrameStates

(***************************************************************************)
(* What the helpers return.                                                *)
(***************************************************************************)

LEMMA NotingTransportHas ==
  ASSUME NEW u \in ObdState, NEW ret \in TransportStatus
  PROVE  LET v == [u EXCEPT !.lastTransport = ret] IN
         /\ v \in ObdState
         /\ v.state = u.state /\ v.kind = u.kind /\ v.pid = u.pid /\ v.result = u.result
         /\ v.waitLeft = u.waitLeft /\ v.status = u.status
BY DEF ObdState

LEMMA SetStatusHas ==
  ASSUME NEW u \in ObdState, NEW status \in ObdServiceStatus
  PROVE  LET v == SetStatus(u, status) IN
         /\ v \in ObdState
         /\ v.state = u.state /\ v.kind = u.kind /\ v.pid = u.pid /\ v.result = u.result
         /\ v.waitLeft = u.waitLeft /\ v.status = status
BY DEF ObdState, SetStatus

\* The state the wait for a response begins in, from the service u.
Waiting(u, status) == SetStatus(BeginResponseWait(u), status)

LEMMA WaitingHas ==
  ASSUME NEW u \in ObdState, config.responseTimeout \in Nat, NEW status \in ObdServiceStatus
  PROVE  LET v == Waiting(u, status) IN
         /\ v \in ObdState
         /\ v.state = "AwaitingResponse" /\ v.waitLeft = config.responseTimeout
         /\ v.status = status
         /\ v.kind = u.kind /\ v.pid = u.pid /\ v.result = u.result
<1> DEFINE w == BeginResponseWait(u)
<1>1. /\ w \in ObdState
      /\ w.state = "AwaitingResponse" /\ w.waitLeft = config.responseTimeout
      /\ w.kind = u.kind /\ w.pid = u.pid /\ w.result = u.result
  BY DEF ObdState, BeginResponseWait
<1> HIDE DEF w
<1>2. LET v == SetStatus(w, status) IN
         /\ v \in ObdState
         /\ v.state = w.state /\ v.kind = w.kind /\ v.pid = w.pid /\ v.result = w.result
         /\ v.waitLeft = w.waitLeft /\ v.status = status
  BY <1>1, SetStatusHas
<1> QED
  BY <1>1, <1>2 DEF Waiting, w

LEMMA EmptyResult ==
  NoResult \in [raw : Seq(Byte), bitmap : Seq(Byte), vin : Seq(Byte), dtcs : Seq(Byte \X Byte)]
BY DEF NoResult

\* The service with its result cleared and a new request noted.
Prepared(u, kind, pid) == [ClearResult(u) EXCEPT !.kind = kind, !.pid = pid]

LEMMA PreparedHas ==
  ASSUME NEW u \in ObdState, NEW kind \in RequestKind, NEW pid \in Byte
  PROVE  LET v == Prepared(u, kind, pid) IN
         /\ v \in ObdState
         /\ v.state = u.state /\ v.waitLeft = u.waitLeft /\ v.status = u.status
         /\ v.kind = kind /\ v.pid = pid /\ v.result = NoResult
<1> DEFINE w == ClearResult(u)
<1>1. /\ w \in ObdState
      /\ w.state = u.state /\ w.waitLeft = u.waitLeft /\ w.status = u.status
      /\ w.result = NoResult
  BY EmptyResult DEF ObdState, ClearResult
<1> HIDE DEF w
<1>2. LET v == [w EXCEPT !.kind = kind, !.pid = pid] IN
      /\ v \in ObdState
      /\ v.state = w.state /\ v.waitLeft = w.waitLeft /\ v.status = w.status
      /\ v.kind = kind /\ v.pid = pid /\ v.result = w.result
  BY <1>1 DEF ObdState
<1> QED
  BY <1>1, <1>2 DEF Prepared, w

Ended(u, status) ==
  [SetStatus(u, status) EXCEPT !.state = "Idle", !.kind = "None", !.waitLeft = 0]

LEMMA EndedHas ==
  ASSUME NEW u \in ObdState, NEW status \in ObdServiceStatus
  PROVE  LET v == Ended(u, status) IN
         /\ v \in ObdState
         /\ v.state = "Idle" /\ v.kind = "None" /\ v.waitLeft = 0 /\ v.status = status
         /\ v.result = u.result
<1> DEFINE w == SetStatus(u, status)
<1>1. w \in ObdState /\ w.status = status /\ w.result = u.result
  BY SetStatusHas
<1> HIDE DEF w
<1>2. "None" \in RequestKind
  BY Kinds
<1>3. LET v == [w EXCEPT !.state = "Idle", !.kind = "None", !.waitLeft = 0] IN
      /\ v \in ObdState
      /\ v.state = "Idle" /\ v.kind = "None" /\ v.waitLeft = 0 /\ v.status = w.status
      /\ v.result = w.result
  BY <1>1, <1>2 DEF ObdState
<1> QED
  BY <1>1, <1>3 DEF Ended, w

\* The payloads the guard builds.
LEMMA SinglePidPayload ==
  ASSUME NEW kind \in {"CurrentData", "SupportedPids", "Vin"}, NEW pid \in Byte
  PROVE  LET g == startObdSinglePid(ModeOf[kind], <<pid>>) IN
         /\ g.status = "Forwarded" /\ g.payload \in Seq(Byte)
         /\ g.payload[1] = ModeOf[kind] /\ g.payload[2] = pid
<1> DEFINE mode == ModeOf[kind]
           h == <<mode>>
           p == <<pid>>
<1>1. mode \in {kModeCurrentData, kModeVehicleInformation}
  BY Kinds
<1>2. mode \in Byte
  BY <1>1 DEF kModeCurrentData, kModeVehicleInformation, Byte
<1> HIDE DEF mode
<1>3. /\ h \in Seq(Byte) /\ Len(h) = 1 /\ h[1] = mode
      /\ p \in Seq(Byte) /\ Len(p) = 1 /\ p[1] = pid
  BY <1>2
<1>4. startObdSinglePid(mode, p) = [status |-> "Forwarded", payload |-> h \o p]
  BY <1>1, <1>3 DEF startObdSinglePid, Forward
<1> HIDE DEF h, p
<1>5. /\ h \o p \in Seq(Byte)
      /\ \A i \in 1 .. 2 : (h \o p)[i] = IF i <= 1 THEN h[i] ELSE p[i - 1]
  BY <1>3, ConcatProperties
<1>6. (h \o p)[1] = mode /\ (h \o p)[2] = pid
  <2>1. 1 \in 1 .. 2 /\ 2 \in 1 .. 2 /\ 1 <= 1 /\ ~(2 <= 1) /\ 2 - 1 = 1
    OBVIOUS
  <2>2. (h \o p)[1] = h[1] /\ (h \o p)[2] = p[2 - 1]
    BY <1>5, <2>1, Zenon
  <2> QED
    BY <1>3, <2>1, <2>2
<1> DEFINE g == startObdSinglePid(mode, p)
<1>7. /\ g.status = "Forwarded" /\ g.payload \in Seq(Byte)
      /\ g.payload[1] = mode /\ g.payload[2] = pid
  <2>1. g.status = "Forwarded" /\ g.payload = h \o p
    BY <1>4
  <2> QED
    BY <1>5, <1>6, <2>1
<1> QED
  BY <1>7 DEF mode, p

LEMMA StoredDtcPayload ==
  /\ startObdStoredDtcRead.status = "Forwarded"
  /\ startObdStoredDtcRead.payload \in Seq(Byte)
  /\ startObdStoredDtcRead.payload[1] = ModeOf["StoredDtcs"]
<1>1. kModeStoredDtcRead \in Byte
  BY DEF kModeStoredDtcRead, Byte
<1> QED
  BY <1>1, Kinds DEF startObdStoredDtcRead, Forward

(***************************************************************************)
(* Every action keeps IInv, and is a step of RequestLifecycle: it starts a *)
(* request, or advances one and leaves no message when that ends it.       *)
(***************************************************************************)

LEMMA Kept ==
  ASSUME config \in ObdServiceConfig, config' = config, transport' \in TransportState,
         Holds(obd', sent', answer', elapsed')
  PROVE  IInv'
BY DEF IInv, Holds, TypesFit, WaitFits, RequestFits, ResultFits

LEMMA ConfigIsTyped ==
  ASSUME config \in ObdServiceConfig
  PROVE  config.responseTimeout \in Nat
BY TimeoutsAreNatural

LEMMA InitHolds == Init => IInv
<1> SUFFICES ASSUME Init
             PROVE  IInv
  OBVIOUS
<1>1. "None" \in RequestKind /\ "Idle" \in TransportStatus /\ "Idle" \in ObdServiceStatus
      /\ 0 \in Byte
  BY Kinds DEF TransportStatus, ObdServiceStatus, Byte
<1>2. /\ obd \in ObdState
      /\ obd.state = "Idle" /\ obd.kind = "None" /\ obd.status = "Idle" /\ obd.waitLeft = 0
      /\ obd.result = NoResult
  BY <1>1, EmptyResult DEF Init, ObdState
<1>3. config \in ObdServiceConfig /\ transport \in TransportState
  BY IdleIsTransport DEF Init
<1>4. sent \in Seq(Byte) /\ answer \in Seq(Byte) /\ elapsed \in Nat
  BY DEF Init
<1> QED
  BY <1>2, <1>3, <1>4 DEF IInv, Holds, TypesFit, WaitFits, RequestFits, ResultFits

\* The statuses a request goes on with here, and those it fails with.
OngoingStatus == {"InProgress", "Busy", "UnexpectedResponse"}
FailureStatus == {"Timeout", "InvalidResponse", "TransportFailure"}

LEMMA StatusesAreListed ==
  /\ OngoingStatus \subseteq Lifecycle!Ongoing /\ OngoingStatus \subseteq ObdServiceStatus
  /\ FailureStatus \subseteq Lifecycle!Failures /\ FailureStatus \subseteq ObdServiceStatus
BY DEF OngoingStatus, FailureStatus, Lifecycle!Ongoing, Lifecycle!Failures, ObdServiceStatus

Advances ==
  /\ Lifecycle!Remain \/ Lifecycle!Succeed \/ Lifecycle!Fail
  /\ obd'.state = "Idle" => transport'.pending = NoMessage

\* The service goes on as v, which shows the same result.
LEMMA GoesOn ==
  ASSUME IInv, config' = config, sent' = sent, answer' = answer, elapsed' = elapsed,
         obd.state # "Idle", NEW v \in ObdState, NEW status \in OngoingStatus,
         v.state # "Idle", v.kind = obd.kind, v.pid = obd.pid, v.result = obd.result,
         WaitFits(v, elapsed), v.status = status,
         obd' = v, transport' \in TransportState
  PROVE  IInv' /\ Advances
<1>1. /\ TypesFit(obd, sent, answer, elapsed) /\ RequestFits(obd, sent)
      /\ config \in ObdServiceConfig
  BY DEF IInv, Holds
<1>2. TypesFit(v, sent, answer, elapsed)
  BY <1>1 DEF TypesFit
<1>3. RequestFits(v, sent) /\ ResultFits(v, sent, answer)
  BY <1>1 DEF RequestFits, ResultFits, OngoingStatus
<1>4. Holds(obd', sent', answer', elapsed')
  BY <1>2, <1>3 DEF Holds
<1>5. Lifecycle!Remain
  BY StatusesAreListed DEF Lifecycle!Remain, IsRequestActive
<1> QED
  BY <1>1, <1>4, <1>5, Kept DEF Advances

LEMMA ContinueKeeps ==
  ASSUME IInv, config' = config, sent' = sent, answer' = answer, elapsed' = elapsed,
         obd.state # "Idle", NEW t \in TransportState, NEW u \in ObdState,
         u.state = obd.state, u.kind = obd.kind, u.pid = obd.pid, u.result = obd.result,
         u.waitLeft = obd.waitLeft, NEW status \in OngoingStatus, Continue(t, u, status)
  PROVE  IInv' /\ Advances
<1> DEFINE v == SetStatus(u, status)
<1>1. status \in ObdServiceStatus
  BY StatusesAreListed
<1>2. /\ v \in ObdState
      /\ v.state = u.state /\ v.kind = u.kind /\ v.pid = u.pid /\ v.result = u.result
      /\ v.waitLeft = u.waitLeft /\ v.status = status
  BY <1>1, SetStatusHas
<1>3. obd' = v /\ transport' \in TransportState
  BY DEF Continue
<1> HIDE DEF v
<1>4. WaitFits(v, elapsed)
  BY <1>2 DEF WaitFits, IInv, Holds
<1> QED
  BY <1>2, <1>3, <1>4, GoesOn

\* The wait begins once the request is transmitted, while no time counts yet.
LEMMA WaitBegins ==
  ASSUME IInv, config' = config, sent' = sent, answer' = answer, elapsed' = elapsed,
         obd.state = "AwaitingTransmit", NEW t \in TransportState, NEW u \in ObdState,
         u.kind = obd.kind, u.pid = obd.pid, u.result = obd.result,
         Continue(t, BeginResponseWait(u), "InProgress")
  PROVE  IInv' /\ Advances
<1> DEFINE v == Waiting(u, "InProgress")
<1>1. "InProgress" \in OngoingStatus /\ "InProgress" \in ObdServiceStatus
  BY StatusesAreListed DEF OngoingStatus
<1>2. config.responseTimeout \in Nat /\ elapsed = 0
  BY ConfigIsTyped DEF IInv, Holds, WaitFits
<1>3. /\ v \in ObdState /\ v.state = "AwaitingResponse" /\ v.waitLeft = config.responseTimeout
      /\ v.status = "InProgress"
      /\ v.kind = u.kind /\ v.pid = u.pid /\ v.result = u.result
  BY <1>1, <1>2, WaitingHas
<1>4. obd' = v /\ transport' \in TransportState
  BY DEF Continue, Waiting
<1> HIDE DEF v
<1>5. WaitFits(v, elapsed)
  BY <1>2, <1>3 DEF WaitFits
<1> QED
  BY <1>1, <1>3, <1>4, <1>5, GoesOn

LEMMA FinishLeaves ==
  ASSUME NEW t \in TransportState, NEW u, NEW status, Finish(t, u, status)
  PROVE  /\ transport' \in TransportState /\ obd' = Ended(u, status)
         /\ obd.state # "Idle" => transport'.pending = NoMessage
BY TakingEmpties DEF Finish, Ended, DiscardOutcome, IsRequestActive

LEMMA FinishKeeps ==
  ASSUME IInv, config' = config, sent' = sent, answer' = answer, elapsed' = elapsed,
         obd.state # "Idle", NEW t \in TransportState, NEW u \in ObdState,
         u.result = obd.result, NEW status \in FailureStatus, Finish(t, u, status)
  PROVE  IInv' /\ Advances
<1>1. status \in ObdServiceStatus /\ status # "ResponseReady"
  BY StatusesAreListed DEF FailureStatus
<1>2. /\ transport' \in TransportState /\ obd' = Ended(u, status)
      /\ transport'.pending = NoMessage
  BY FinishLeaves
<1>3. /\ obd' \in ObdState
      /\ obd'.state = "Idle" /\ obd'.kind = "None" /\ obd'.waitLeft = 0
      /\ obd'.status = status /\ obd'.result = obd.result
  BY <1>1, <1>2, EndedHas
<1>4. obd.result = NoResult /\ TypesFit(obd, sent, answer, elapsed)
      /\ config \in ObdServiceConfig
  BY DEF IInv, Holds, RequestFits
<1>5. Holds(obd', sent', answer', elapsed')
  BY <1>1, <1>3, <1>4 DEF Holds, TypesFit, WaitFits, RequestFits, ResultFits
<1>6. Lifecycle!Fail
  BY <1>3, StatusesAreListed DEF Lifecycle!Fail, IsRequestActive
<1> QED
  BY <1>2, <1>4, <1>5, <1>6, Kept DEF Advances

(***************************************************************************)
(* The loop over the pairs of a DTC report. Induction on the number of     *)
(* pairs takes the least number for which the claim would fail.            *)
(***************************************************************************)

LEMMA LeastNatural ==
  ASSUME NEW T, T \subseteq Nat, T # {}
  PROVE  \E x \in T : \A y \in T : ~(y < x)
<1>1. \E x \in T : \A y \in T : ~(<<y, x>> \in OpToRel(<, Nat))
  BY NatLessThanWellFounded, WFMin
<1>2. ASSUME NEW x \in T, NEW y \in T
      PROVE  <<y, x>> \in OpToRel(<, Nat) <=> y < x
  BY DEF OpToRel
<1> QED
  BY <1>1, <1>2

\* The function p lists what the loop has parsed after each of the first n pairs.
Parses(p, pairs, n) ==
  p = [i \in 0 .. n |->
         IF i = 0 THEN <<>>
         ELSE IF pairs[i] = <<0, 0>> THEN p[i - 1]
         ELSE Append(p[i - 1], pairs[i])]

LEMMA ParsingExists ==
  ASSUME NEW pairs, NEW n \in Nat
  PROVE  \E p : Parses(p, pairs, n)
<1> DEFINE Bad == {m \in Nat : ~ \E p : Parses(p, pairs, m)}
<1> SUFFICES ASSUME Bad # {}
             PROVE  FALSE
  OBVIOUS
<1>1. PICK m \in Bad : \A y \in Bad : ~(y < m)
  <2>1. Bad \subseteq Nat
    OBVIOUS
  <2> HIDE DEF Bad
  <2> QED
    BY <2>1, LeastNatural
<1>2. m \in Nat /\ ~ \E p : Parses(p, pairs, m)
  OBVIOUS
<1>3. CASE m = 0
  <2> DEFINE p == [i \in 0 .. 0 |-> <<>>]
  <2>1. Parses(p, pairs, 0)
    BY DEF Parses
  <2> QED
    BY <1>2, <1>3, <2>1
<1>4. CASE m # 0
  <2>1. m - 1 \in Nat /\ m - 1 < m
    BY <1>2, <1>4
  <2>2. PICK p : Parses(p, pairs, m - 1)
    BY <1>1, <2>1
  <2> DEFINE last == IF pairs[m] = <<0, 0>> THEN p[m - 1] ELSE Append(p[m - 1], pairs[m])
             q == [i \in 0 .. m |-> IF i = m THEN last ELSE p[i]]
             Step(f, i) == IF i = 0 THEN <<>>
                           ELSE IF pairs[i] = <<0, 0>> THEN f[i - 1]
                           ELSE Append(f[i - 1], pairs[i])
  <2>3. \A i \in 0 .. m - 1 : p[i] = Step(p, i)
    BY <2>2 DEF Parses
  <2>4. \A i \in 0 .. m : q[i] = Step(q, i)
    <3> SUFFICES ASSUME NEW i \in 0 .. m
                 PROVE  q[i] = Step(q, i)
      OBVIOUS
    <3> DEFINE l == last
    <3>1. /\ q = [x \in 0 .. m |-> IF x = m THEN l ELSE p[x]]
          /\ l = IF pairs[m] = <<0, 0>> THEN p[m - 1] ELSE Append(p[m - 1], pairs[m])
      OBVIOUS
    <3> HIDE DEF l, last, q
    <3>2. CASE i = m
      <4>1. q[i] = l /\ q[i - 1] = p[i - 1]
        BY <1>2, <2>1, <3>1, <3>2
      <4> QED
        BY <1>4, <3>1, <3>2, <4>1
    <3>3. CASE i = 0
      BY <1>2, <1>4, <2>1, <2>3, <3>1, <3>3
    <3>4. CASE i # m /\ i # 0
      <4>1. i - 1 \in 0 .. m /\ i - 1 # m /\ i \in 0 .. m - 1
        BY <1>2, <3>4
      <4>2. q[i] = p[i] /\ q[i - 1] = p[i - 1]
        BY <3>1, <3>4, <4>1
      <4> QED
        BY <2>3, <3>4, <4>1, <4>2
    <3> QED
      BY <3>2, <3>3, <3>4
  <2>5. q = [i \in 0 .. m |-> q[i]]
    OBVIOUS
  <2> HIDE DEF q
  <2>6. Parses(q, pairs, m)
    BY <2>4, <2>5 DEF Parses
  <2> QED
    BY <1>2, <2>6
<1> QED
  BY <1>3, <1>4

Codes(pairs, m) == {i \in 1 .. m : pairs[i] # <<0, 0>>}

\* The records q are the codes among the first m pairs, in their order.
Embeds(at, q, pairs, m) ==
  /\ at \in [1 .. Len(q) -> Codes(pairs, m)]
  /\ \A n \in 1 .. Len(q) : q[n] = pairs[at[n]]
  /\ \A k, n \in 1 .. Len(q) : k < n => at[k] < at[n]
  /\ \A i \in Codes(pairs, m) : \E n \in 1 .. Len(q) : at[n] = i

\* Padding adds nothing.
LEMMA PaddingSkipped ==
  ASSUME NEW pairs, NEW m \in Nat \ {0}, NEW q, NEW at,
         Embeds(at, q, pairs, m - 1), pairs[m] = <<0, 0>>
  PROVE  Embeds(at, q, pairs, m)
<1>1. Codes(pairs, m) = Codes(pairs, m - 1)
  BY DEF Codes
<1> QED
  BY <1>1 DEF Embeds

\* A code goes behind those found so far.
LEMMA CodeAppended ==
  ASSUME NEW S, NEW pairs, NEW m \in Nat \ {0}, NEW q \in Seq(S), NEW at,
         Embeds(at, q, pairs, m - 1), pairs[m] # <<0, 0>>, pairs[m] \in S
  PROVE  \E later : Embeds(later, Append(q, pairs[m]), pairs, m)
<1> DEFINE l == Len(q)
           longer == Append(q, pairs[m])
           later == [n \in 1 .. l + 1 |-> IF n = l + 1 THEN m ELSE at[n]]
<1>1. l \in Nat
  OBVIOUS
<1>2. /\ Len(longer) = l + 1 /\ longer[l + 1] = pairs[m]
      /\ \A n \in 1 .. l : longer[n] = q[n]
  BY AppendProperties
<1>3. m \in Codes(pairs, m) /\ m \notin Codes(pairs, m - 1)
      /\ Codes(pairs, m) = Codes(pairs, m - 1) \cup {m}
  BY DEF Codes
<1>4. /\ \A n \in 1 .. l : later[n] = at[n] /\ at[n] \in Codes(pairs, m - 1)
      /\ later[l + 1] = m
  <2>1. \A n \in 1 .. l : at[n] \in Codes(pairs, m - 1)
    BY DEF Embeds
  <2>2. l + 1 \in 1 .. l + 1 /\ \A n \in 1 .. l : n \in 1 .. l + 1 /\ n # l + 1
    BY <1>1
  <2>3. later[l + 1] = m
    BY <2>2
  <2>4. \A n \in 1 .. l : later[n] = at[n]
    BY <2>2
  <2> QED
    BY <2>1, <2>3, <2>4
<1>5. \A n \in 1 .. l : at[n] \in Nat /\ at[n] < m
  <2>1. \A i \in Codes(pairs, m - 1) : i \in Nat /\ i < m
    BY DEF Codes
  <2> QED
    BY <1>4, <2>1
<1>6. 1 .. l + 1 = 1 .. l \cup {l + 1} /\ \A k, n \in 1 .. l + 1 : k < n => k \in 1 .. l
  BY <1>1
<1>7. later \in [1 .. l + 1 -> Codes(pairs, m)]
  BY <1>3, <1>4, <1>6
<1> HIDE DEF later, longer, l
<1>8. \A n \in 1 .. l + 1 : longer[n] = pairs[later[n]]
  BY <1>2, <1>4, <1>6 DEF Embeds, l
<1>9. \A k, n \in 1 .. l + 1 : k < n => later[k] < later[n]
  <2> SUFFICES ASSUME NEW k \in 1 .. l + 1, NEW n \in 1 .. l + 1, k < n
               PROVE  later[k] < later[n]
    OBVIOUS
  <2>1. k \in 1 .. l
    BY <1>6
  <2>2. CASE n = l + 1
    BY <1>4, <1>5, <2>1, <2>2
  <2>3. CASE n \in 1 .. l
    BY <1>4, <2>1, <2>3 DEF Embeds, l
  <2> QED
    BY <1>6, <2>2, <2>3
<1>10. \A i \in Codes(pairs, m) : \E n \in 1 .. l + 1 : later[n] = i
  <2> SUFFICES ASSUME NEW i \in Codes(pairs, m)
               PROVE  \E n \in 1 .. l + 1 : later[n] = i
    OBVIOUS
  <2>1. CASE i = m
    BY <1>4, <1>6, <2>1
  <2>2. CASE i \in Codes(pairs, m - 1)
    <3>1. PICK n \in 1 .. l : at[n] = i
      BY <2>2 DEF Embeds, l
    <3> QED
      BY <1>4, <1>6, <3>1
  <2> QED
    BY <1>3, <2>1, <2>2
<1>11. Embeds(later, longer, pairs, m)
  BY <1>2, <1>7, <1>8, <1>9, <1>10 DEF Embeds
<1> QED
  BY <1>11 DEF longer

LEMMA ParsingFindsTheCodes ==
  ASSUME NEW S, NEW pairs \in Seq(S), NEW p, Parses(p, pairs, Len(pairs))
  PROVE  /\ p[Len(pairs)] \in Seq(S)
         /\ \E at : Embeds(at, p[Len(pairs)], pairs, Len(pairs))
<1> DEFINE n == Len(pairs)
           Fine(m) == p[m] \in Seq(S) /\ \E at : Embeds(at, p[m], pairs, m)
           Bad == {m \in Nat : m <= n /\ ~Fine(m)}
<1>1. n \in Nat
  OBVIOUS
<1> SUFFICES ASSUME Bad # {}
             PROVE  FALSE
  BY <1>1
<1>2. PICK m \in Bad : \A y \in Bad : ~(y < m)
  <2>1. Bad \subseteq Nat
    OBVIOUS
  <2> HIDE DEF Bad
  <2> QED
    BY <2>1, LeastNatural
<1>3. m \in Nat /\ m <= n /\ ~Fine(m)
  OBVIOUS
<1>4. p[m] = IF m = 0 THEN <<>>
             ELSE IF pairs[m] = <<0, 0>> THEN p[m - 1]
             ELSE Append(p[m - 1], pairs[m])
  <2>1. m \in 0 .. n
    BY <1>1, <1>3
  <2> QED
    BY <2>1 DEF Parses
<1>5. CASE m = 0
  <2> DEFINE at == [i \in {} |-> i]
  <2>1. p[m] = <<>> /\ Len(p[m]) = 0 /\ 1 .. 0 = {} /\ 1 .. m = {}
    BY <1>4, <1>5
  <2>2. at \in [{} -> {}]
    OBVIOUS
  <2>3. Codes(pairs, m) = {}
    BY <2>1 DEF Codes
  <2> HIDE DEF at
  <2>4. Embeds(at, p[m], pairs, m)
    BY <2>1, <2>2, <2>3 DEF Embeds
  <2>5. <<>> \in Seq(S)
    OBVIOUS
  <2> QED
    BY <1>3, <2>1, <2>4, <2>5
<1>6. CASE m # 0
  <2>1. m - 1 \in Nat /\ m - 1 < m /\ m - 1 <= n /\ m \in 1 .. n /\ m \in Nat \ {0}
    BY <1>1, <1>3, <1>6
  <2>2. Fine(m - 1)
    BY <1>2, <2>1
  <2>3. PICK at : Embeds(at, p[m - 1], pairs, m - 1)
    BY <2>2
  <2>4. p[m - 1] \in Seq(S) /\ pairs[m] \in S
    BY <2>1, <2>2, ElementOfSeq
  <2> HIDE DEF Bad
  <2>5. CASE pairs[m] = <<0, 0>>
    <3>1. Embeds(at, p[m - 1], pairs, m)
      BY <2>1, <2>3, <2>5, PaddingSkipped
    <3> QED
      BY <1>3, <1>4, <1>6, <2>4, <2>5, <3>1
  <2>6. CASE pairs[m] # <<0, 0>>
    <3>1. \E later : Embeds(later, Append(p[m - 1], pairs[m]), pairs, m)
      BY <2>1, <2>3, <2>4, <2>6, CodeAppended
    <3>2. Append(p[m - 1], pairs[m]) \in Seq(S)
      BY <2>4, AppendProperties
    <3>3. p[m] = Append(p[m - 1], pairs[m])
      BY <1>4, <1>6, <2>6
    <3> QED
      BY <1>3, <3>1, <3>2, <3>3
  <2> QED
    BY <2>5, <2>6
<1> QED
  BY <1>5, <1>6

\* Whatever the pairs, the records parsed are the pairs that are no padding.
LEMMA WithoutPaddingIsTheCodes ==
  ASSUME NEW S, NEW pairs \in Seq(S)
  PROVE  /\ WithoutPadding(pairs) \in Seq(S)
         /\ \E at : Embeds(at, WithoutPadding(pairs), pairs, Len(pairs))
<1> DEFINE n == Len(pairs)
           p == CHOOSE c : Parses(c, pairs, n)
<1>1. WithoutPadding(pairs) = p[n]
  BY DEF WithoutPadding, Parses
<1>2. n \in Nat
  OBVIOUS
<1>3. Parses(p, pairs, n)
  BY <1>2, ParsingExists
<1> HIDE DEF p
<1> QED
  BY <1>1, <1>3, ParsingFindsTheCodes

LEMMA PairsOfReport ==
  ASSUME NEW r \in Seq(Byte), Len(r) >= 1, (Len(r) - 1) % 2 = 0
  PROVE  /\ DtcPairs(r) \in Seq(Byte \X Byte)
         /\ Len(DtcPairs(r)) = (Len(r) - 1) \div 2
         /\ \A i \in 1 .. (Len(r) - 1) \div 2 : DtcPairs(r)[i] = <<r[2 * i], r[2 * i + 1]>>
         /\ Len(r) % 2 = 1
<1> DEFINE n == (Len(r) - 1) \div 2
           d == [i \in 1 .. n |-> <<r[2 * i], r[2 * i + 1]>>]
<1>1. Len(r) \in Nat
  OBVIOUS
<1>2. n \in Nat /\ Len(r) = 1 + 2 * n
  <2>1. ASSUME NEW l \in Nat, l >= 1, (l - 1) % 2 = 0
        PROVE  (l - 1) \div 2 \in Nat /\ l = 1 + 2 * ((l - 1) \div 2)
    BY <2>1, Z3
  <2> QED
    BY <1>1, <2>1
<1> HIDE DEF n
<1>3. ASSUME NEW i \in 1 .. n
      PROVE  <<r[2 * i], r[2 * i + 1]>> \in Byte \X Byte
  <2>1. 2 * i \in 1 .. Len(r) /\ 2 * i + 1 \in 1 .. Len(r)
    BY <1>2
  <2>2. r[2 * i] \in Byte /\ r[2 * i + 1] \in Byte
    BY <2>1, ElementOfSeq
  <2> QED
    BY <2>2
<1>4. d \in [1 .. n -> Byte \X Byte]
  BY <1>3
<1>5. d \in Seq(Byte \X Byte) /\ Len(d) = n
  BY <1>2, <1>4, SeqDef
<1>6. \A i \in 1 .. n : d[i] = <<r[2 * i], r[2 * i + 1]>>
  OBVIOUS
<1>7. Len(r) % 2 = 1
  <2>1. ASSUME NEW k \in Nat
        PROVE  (1 + 2 * k) % 2 = 1
    BY <2>1, Z3
  <2> QED
    BY <1>2, <2>1
<1> HIDE DEF d
<1> QED
  BY <1>5, <1>6, <1>7 DEF DtcPairs, n, d

LEMMA EveryCodeIsHeld ==
  ASSUME NEW r \in Seq(Byte), Len(r) >= 1, (Len(r) - 1) % 2 = 0
  PROVE  /\ StoredDtcsOf(r) \in Seq(Byte \X Byte)
         /\ HoldsEveryCode(StoredDtcsOf(r), r) /\ Len(r) % 2 = 1
<1> DEFINE pairs == DtcPairs(r)
           q == WithoutPadding(pairs)
<1>1. /\ pairs \in Seq(Byte \X Byte) /\ Len(pairs) = (Len(r) - 1) \div 2
      /\ \A i \in 1 .. Len(pairs) : pairs[i] = <<r[2 * i], r[2 * i + 1]>>
      /\ Len(r) % 2 = 1
  BY PairsOfReport
<1> HIDE DEF pairs
<1>2. q \in Seq(Byte \X Byte) /\ \E at : Embeds(at, q, pairs, Len(pairs))
  BY <1>1, WithoutPaddingIsTheCodes
<1> HIDE DEF q
<1>3. PICK at : Embeds(at, q, pairs, Len(pairs))
  BY <1>2
<1>4. Codes(pairs, Len(pairs)) = CodesIn(r)
  BY <1>1 DEF Codes, CodesIn
<1>5. DOMAIN q = 1 .. Len(q)
  BY <1>2, LenProperties
<1>6. \A i \in CodesIn(r) : pairs[i] = <<r[2 * i], r[2 * i + 1]>>
  BY <1>1, <1>4 DEF Codes
<1>7. /\ at \in [DOMAIN q -> CodesIn(r)]
      /\ \A n \in DOMAIN q : q[n] = <<r[2 * at[n]], r[2 * at[n] + 1]>>
      /\ \A m, n \in DOMAIN q : m < n => at[m] < at[n]
      /\ \A i \in CodesIn(r) : \E n \in DOMAIN q : at[n] = i
  BY <1>3, <1>4, <1>5, <1>6 DEF Embeds
<1>8. HoldsEveryCode(q, r)
  BY <1>7 DEF HoldsEveryCode
<1> QED
  BY <1>1, <1>2, <1>8 DEF StoredDtcsOf, q, pairs

(***************************************************************************)
(* The result of a well-formed response.                                   *)
(***************************************************************************)

\* The result x is what the answer r says, and fits what the accessors promise.
Promised(x, mode, r) ==
  /\ x \in [raw : Seq(Byte), bitmap : Seq(Byte), vin : Seq(Byte), dtcs : Seq(Byte \X Byte)]
  /\ IsContentOf(x, mode, r)
  /\ Len(x.raw) <= kMaxRawDataLength /\ Len(x.bitmap) \in {0, 4}
  /\ Len(x.vin) \in {0, kVinLength}
  /\ Len(x.dtcs) <= kMaxStoredDtcRecords

LEMMA TailOf ==
  ASSUME NEW r \in Seq(Byte), NEW first \in Nat \ {0}, NEW last \in Nat,
         last <= Len(r), first <= last + 1
  PROVE  SubSeq(r, first, last) \in Seq(Byte) /\ Len(SubSeq(r, first, last)) = last - first + 1
<1>1. \A j \in first .. last : r[j] \in Byte
  <2> SUFFICES ASSUME NEW j \in first .. last
               PROVE  r[j] \in Byte
    OBVIOUS
  <2>1. j \in 1 .. Len(r)
    OBVIOUS
  <2> QED
    BY <2>1, ElementOfSeq
<1>2. /\ SubSeq(r, first, last) \in Seq(Byte)
      /\ Len(SubSeq(r, first, last)) = IF first <= last THEN last - first + 1 ELSE 0
  BY <1>1, SubSeqProperties
<1>3. (IF first <= last THEN last - first + 1 ELSE 0) = last - first + 1
  OBVIOUS
<1> QED
  BY <1>2, <1>3

\* Header and rest make the message again.
LEMMA HeaderAndRest ==
  ASSUME NEW a \in Seq(Byte), NEW k \in Nat, k <= Len(a)
  PROVE  SubSeq(a, 1, k) \o SubSeq(a, k + 1, Len(a)) = a
<1>1. Len(a) \in Nat
  OBVIOUS
<1>2. 1 \in 1 .. Len(a) + 1 /\ k \in 1 - 1 .. Len(a) /\ Len(a) \in k .. Len(a)
  BY <1>1
<1>3. SubSeq(a, 1, k) \o SubSeq(a, k + 1, Len(a)) = SubSeq(a, 1, Len(a))
  BY <1>2, ConcatAdjacentSubSeq
<1>4. SubSeq(a, 1, Len(a)) = a
  BY SubSeqFull
<1> QED
  BY <1>3, <1>4

\* A result with one list filled in, and short enough.
LEMMA FilledIn ==
  ASSUME NEW r \in Seq(Byte), NEW b \in Seq(Byte), NEW d \in Seq(Byte \X Byte)
  PROVE  /\ Len(b) <= kMaxRawDataLength /\ Len(r) >= 2 /\ SubSeq(r, 1, 2) \o b = r
              => Promised([NoResult EXCEPT !.raw = b], kModeCurrentData, r)
         /\ Len(b) = 4 /\ Len(r) >= 2 /\ SubSeq(r, 1, 2) \o b = r
              => Promised([NoResult EXCEPT !.bitmap = b], kModeCurrentData, r)
         /\ Len(b) = kVinLength /\ SubSeq(r, 1, 3) \o b = r
              => Promised([NoResult EXCEPT !.vin = b], kModeVehicleInformation, r)
         /\ Len(d) <= kMaxStoredDtcRecords /\ HoldsEveryCode(d, r) /\ Len(r) % 2 = 1
              => Promised([NoResult EXCEPT !.dtcs = d], kModeStoredDtcRead, r)
<1>1. /\ <<>> \in Seq(Byte) /\ <<>> \in Seq(Byte \X Byte)
      /\ 0 <= kMaxRawDataLength /\ 0 <= kMaxStoredDtcRecords
  BY CapacitiesAreNatural
<1>2. Len(<<>>) = 0
  OBVIOUS
<1>3. ASSUME Len(r) >= 2, SubSeq(r, 1, 2) \o b = r
      PROVE  SubSeq(r, 1, 2) \o b \o <<>> = r /\ SubSeq(r, 1, 2) \o <<>> \o b = r
  <2>1. SubSeq(r, 1, 2) \in Seq(Byte)
    <3>1. 1 \in Nat \ {0} /\ 2 \in Nat /\ 2 <= Len(r) /\ 1 <= 2 + 1
      BY <1>3
    <3> QED
      BY <3>1, TailOf
  <2>2. r \o <<>> = r /\ SubSeq(r, 1, 2) \o <<>> = SubSeq(r, 1, 2)
    BY <2>1, ConcatEmptySeq
  <2> QED
    BY <1>3, <2>2
<1>4. ASSUME Len(b) <= kMaxRawDataLength, Len(r) >= 2, SubSeq(r, 1, 2) \o b = r
      PROVE  Promised([NoResult EXCEPT !.raw = b], kModeCurrentData, r)
  <2> DEFINE x == [NoResult EXCEPT !.raw = b]
  <2>1. x = [raw |-> b, bitmap |-> <<>>, vin |-> <<>>, dtcs |-> <<>>]
    BY DEF NoResult
  <2> HIDE DEF x
  <2>2. /\ x.raw = b /\ x.bitmap = <<>> /\ x.vin = <<>> /\ x.dtcs = <<>>
        /\ x \in [raw : Seq(Byte), bitmap : Seq(Byte), vin : Seq(Byte), dtcs : Seq(Byte \X Byte)]
    BY <1>1, <2>1
  <2>3. IsContentOf(x, kModeCurrentData, r)
    BY <1>3, <1>4, <2>2 DEF IsContentOf
  <2> QED
    BY <1>1, <1>2, <1>4, <2>2, <2>3 DEF Promised, x
<1>5. ASSUME Len(b) = 4, Len(r) >= 2, SubSeq(r, 1, 2) \o b = r
      PROVE  Promised([NoResult EXCEPT !.bitmap = b], kModeCurrentData, r)
  <2> DEFINE x == [NoResult EXCEPT !.bitmap = b]
  <2>1. x = [raw |-> <<>>, bitmap |-> b, vin |-> <<>>, dtcs |-> <<>>]
    BY DEF NoResult
  <2> HIDE DEF x
  <2>2. /\ x.raw = <<>> /\ x.bitmap = b /\ x.vin = <<>> /\ x.dtcs = <<>>
        /\ x \in [raw : Seq(Byte), bitmap : Seq(Byte), vin : Seq(Byte), dtcs : Seq(Byte \X Byte)]
    BY <1>1, <2>1
  <2>3. IsContentOf(x, kModeCurrentData, r)
    BY <1>3, <1>5, <2>2 DEF IsContentOf
  <2> QED
    BY <1>1, <1>2, <1>5, <2>2, <2>3 DEF Promised, x
<1>6. ASSUME Len(b) = kVinLength, SubSeq(r, 1, 3) \o b = r
      PROVE  Promised([NoResult EXCEPT !.vin = b], kModeVehicleInformation, r)
  <2> DEFINE x == [NoResult EXCEPT !.vin = b]
  <2>1. x = [raw |-> <<>>, bitmap |-> <<>>, vin |-> b, dtcs |-> <<>>]
    BY DEF NoResult
  <2> HIDE DEF x
  <2>2. /\ x.raw = <<>> /\ x.bitmap = <<>> /\ x.vin = b /\ x.dtcs = <<>>
        /\ x \in [raw : Seq(Byte), bitmap : Seq(Byte), vin : Seq(Byte), dtcs : Seq(Byte \X Byte)]
    BY <1>1, <2>1
  <2>3. IsContentOf(x, kModeVehicleInformation, r)
    BY <1>6, <2>2 DEF IsContentOf
  <2> QED
    BY <1>1, <1>2, <1>6, <2>2, <2>3 DEF Promised, x
<1>7. ASSUME Len(d) <= kMaxStoredDtcRecords, HoldsEveryCode(d, r), Len(r) % 2 = 1
      PROVE  Promised([NoResult EXCEPT !.dtcs = d], kModeStoredDtcRead, r)
  <2> DEFINE x == [NoResult EXCEPT !.dtcs = d]
  <2>1. x = [raw |-> <<>>, bitmap |-> <<>>, vin |-> <<>>, dtcs |-> d]
    BY DEF NoResult
  <2> HIDE DEF x
  <2>2. /\ x.raw = <<>> /\ x.bitmap = <<>> /\ x.vin = <<>> /\ x.dtcs = d
        /\ x \in [raw : Seq(Byte), bitmap : Seq(Byte), vin : Seq(Byte), dtcs : Seq(Byte \X Byte)]
    BY <1>1, <2>1
  <2>3. IsContentOf(x, kModeStoredDtcRead, r)
    BY <1>7, <2>2 DEF IsContentOf
  <2> QED
    BY <1>1, <1>2, <1>7, <2>2, <2>3 DEF Promised, x
<1> QED
  BY <1>4, <1>5, <1>6, <1>7

LEMMA ResultIsPromised ==
  ASSUME NEW u \in ObdState, u.kind # "None", NEW r \in Seq(Byte),
         Matches(u, r), WellFormed(u.kind, r)
  PROVE  Promised(ResultOf(u.kind, r), ModeOf[u.kind], r)
<1>1. /\ Len(r) \in Nat /\ kVinLength \in Nat /\ kMaxRawDataLength \in Nat
      /\ r # <<>>
  BY CapacitiesAreNatural DEF Matches
<1>2. Len(r) >= 1
  BY <1>1, EmptySeq
<1> DEFINE none == <<>>
<1>0. none \in Seq(Byte) /\ none \in Seq(Byte \X Byte)
  OBVIOUS
<1> HIDE DEF none
<1>3. CASE u.kind = "CurrentData"
  <2> DEFINE b == SubSeq(r, 3, Len(r))
  <2>1. Len(r) >= 3 /\ Len(r) - 2 <= kMaxRawDataLength
    BY <1>3 DEF WellFormed
  <2>2. b \in Seq(Byte) /\ Len(b) = Len(r) - 3 + 1
    BY <1>1, <2>1, TailOf
  <2>3. SubSeq(r, 1, 2) \o b = r
    <3>1. 2 \in Nat /\ 2 <= Len(r) /\ 2 + 1 = 3
      BY <1>1, <2>1
    <3> QED
      BY <3>1, HeaderAndRest
  <2>4. ResultOf(u.kind, r) = [NoResult EXCEPT !.raw = b]
    BY <1>3 DEF ResultOf
  <2> HIDE DEF b
  <2>5. Len(b) <= kMaxRawDataLength /\ Len(r) >= 2
    BY <1>1, <2>1, <2>2
  <2>6. Promised([NoResult EXCEPT !.raw = b], kModeCurrentData, r)
    BY <1>0, <2>2, <2>3, <2>5, FilledIn
  <2> QED
    BY <1>3, <2>4, <2>6, Kinds
<1>4. CASE u.kind = "SupportedPids"
  <2> DEFINE b == SubSeq(r, 3, Len(r))
  <2>1. Len(r) = 6
    BY <1>4 DEF WellFormed
  <2>2. b \in Seq(Byte) /\ Len(b) = Len(r) - 3 + 1
    <3>1. 3 \in Nat \ {0} /\ Len(r) \in Nat /\ Len(r) <= Len(r) /\ 3 <= Len(r) + 1
      BY <2>1
    <3> HIDE DEF b
    <3> QED
      BY <3>1, TailOf DEF b
  <2>3. SubSeq(r, 1, 2) \o b = r
    <3>1. 2 \in Nat /\ 2 <= Len(r) /\ 2 + 1 = 3
      BY <1>1, <2>1
    <3> QED
      BY <3>1, HeaderAndRest
  <2>4. ResultOf(u.kind, r) = [NoResult EXCEPT !.bitmap = b]
    BY <1>4, <2>1 DEF ResultOf
  <2> HIDE DEF b
  <2>5. Len(b) = 4 /\ Len(r) >= 2
    BY <2>1, <2>2
  <2>6. Promised([NoResult EXCEPT !.bitmap = b], kModeCurrentData, r)
    BY <1>0, <2>2, <2>3, <2>5, FilledIn
  <2> QED
    BY <1>4, <2>4, <2>6, Kinds
<1>5. CASE u.kind = "Vin"
  <2> DEFINE b == SubSeq(r, 4, Len(r))
  <2>1. Len(r) = 3 + kVinLength
    BY <1>5 DEF WellFormed
  <2>2. b \in Seq(Byte) /\ Len(b) = Len(r) - 4 + 1
    BY <1>1, <2>1, TailOf
  <2>3. SubSeq(r, 1, 3) \o b = r
    <3>1. 3 \in Nat /\ 3 <= Len(r) /\ 3 + 1 = 4
      BY <1>1, <2>1
    <3> QED
      BY <3>1, HeaderAndRest
  <2>4. ResultOf(u.kind, r) = [NoResult EXCEPT !.vin = b]
    BY <1>5 DEF ResultOf
  <2> HIDE DEF b
  <2>5. Len(b) = kVinLength
    BY <1>1, <2>1, <2>2
  <2>6. Promised([NoResult EXCEPT !.vin = b], kModeVehicleInformation, r)
    BY <1>0, <2>2, <2>3, <2>5, FilledIn
  <2> QED
    BY <1>5, <2>4, <2>6, Kinds
<1>6. CASE u.kind = "StoredDtcs"
  <2> DEFINE d == StoredDtcsOf(r)
  <2>1. (Len(r) - 1) % 2 = 0 /\ Len(d) <= kMaxStoredDtcRecords
    BY <1>6 DEF WellFormed
  <2>2. d \in Seq(Byte \X Byte) /\ HoldsEveryCode(d, r) /\ Len(r) % 2 = 1
    BY <1>2, <2>1, EveryCodeIsHeld
  <2>3. ResultOf(u.kind, r) = [NoResult EXCEPT !.dtcs = d]
    BY <1>6 DEF ResultOf
  <2> HIDE DEF d
  <2>4. Promised([NoResult EXCEPT !.dtcs = d], kModeStoredDtcRead, r)
    BY <1>0, <2>1, <2>2, FilledIn
  <2> QED
    BY <1>6, <2>3, <2>4, Kinds
<1> QED
  BY <1>3, <1>4, <1>5, <1>6, Kinds DEF ObdState

(***************************************************************************)
(* The actions.                                                            *)
(***************************************************************************)

LEMMA MembersFit ==
  ASSUME IInv
  PROVE  /\ obd \in ObdState /\ config \in ObdServiceConfig /\ config.responseTimeout \in Nat
         /\ sent \in Seq(Byte) /\ answer \in Seq(Byte) /\ elapsed \in Nat
         /\ obd.kind = "None" <=> obd.state = "Idle"
         /\ obd.state # "AwaitingResponse" => obd.waitLeft = 0
         /\ obd.state # "Idle" =>
              /\ Asks(obd.kind, obd.pid, sent) /\ obd.result = NoResult
              /\ obd.status # "ResponseReady"
BY ConfigIsTyped DEF IInv, Holds, TypesFit, WaitFits, RequestFits

LEMMA ReadyKeeps ==
  ASSUME IInv, config' = config, sent' = sent, elapsed' = elapsed,
         obd.state # "Idle", NEW t \in TransportState, NEW u \in ObdState,
         u.kind = obd.kind, u.pid = obd.pid,
         NEW r \in Seq(Byte), Matches(u, r), WellFormed(u.kind, r),
         Finish(t, [u EXCEPT !.result = ResultOf(u.kind, r)], "ResponseReady"), answer' = r
  PROVE  IInv' /\ Advances
<1> DEFINE x == ResultOf(u.kind, r)
           v == [u EXCEPT !.result = x]
<1>1. u.kind # "None" /\ u.kind \in DOMAIN ModeOf
  BY MembersFit DEF Asks
<1>2. Promised(x, ModeOf[u.kind], r)
  BY <1>1, ResultIsPromised
<1>3. Finish(t, v, "ResponseReady")
  OBVIOUS
<1> HIDE DEF x
<1>4. v \in ObdState /\ v.result = x
  BY <1>2 DEF ObdState, Promised
<1> HIDE DEF v
<1>5. "ResponseReady" \in ObdServiceStatus
  BY DEF ObdServiceStatus
<1>6. /\ transport' \in TransportState /\ obd' = Ended(v, "ResponseReady")
      /\ transport'.pending = NoMessage
  BY <1>3, FinishLeaves
<1>7. /\ obd' \in ObdState
      /\ obd'.state = "Idle" /\ obd'.kind = "None" /\ obd'.waitLeft = 0
      /\ obd'.status = "ResponseReady" /\ obd'.result = x
  BY <1>4, <1>5, <1>6, EndedHas
<1>8. Answers(sent, r, x)
  <2>1. Asks(u.kind, u.pid, sent)
    BY MembersFit
  <2>2. /\ r # <<>> /\ r[1] = PositiveService(sent[1])
        /\ u.kind # "StoredDtcs" => r[2] = sent[2]
    BY <2>1 DEF Matches, Asks
  <2>3. /\ u.kind = "StoredDtcs" => sent[1] = kModeStoredDtcRead
        /\ sent[1] = ModeOf[u.kind]
    BY <2>1, Kinds DEF Asks
  <2> QED
    BY <1>2, <2>2, <2>3 DEF Answers, Promised
<1>9. Holds(obd', sent', answer', elapsed')
  <2>1. TypesFit(obd', sent', answer', elapsed')
    BY <1>7, MembersFit DEF TypesFit
  <2>2. WaitFits(obd', elapsed') /\ RequestFits(obd', sent')
    BY <1>7 DEF WaitFits, RequestFits
  <2>3. ResultFits(obd', sent', answer')
    BY <1>7, <1>8 DEF ResultFits
  <2> QED
    BY <2>1, <2>2, <2>3 DEF Holds
<1>10. Lifecycle!Succeed
  BY <1>7 DEF Lifecycle!Succeed, IsRequestActive
<1> QED
  BY <1>6, <1>9, <1>10, MembersFit, Kept DEF Advances

LEMMA HandleResponseKeeps ==
  ASSUME IInv, config' = config, sent' = sent, elapsed' = elapsed,
         obd.state # "Idle", NEW t \in TransportState, NEW u \in ObdState,
         u.state = obd.state, u.kind = obd.kind, u.pid = obd.pid, u.result = obd.result,
         u.waitLeft = obd.waitLeft, NEW r \in Seq(Byte), HandleResponse(t, u, r)
  PROVE  IInv' /\ Advances
<1>1. "UnexpectedResponse" \in OngoingStatus /\ "InvalidResponse" \in FailureStatus
  BY DEF OngoingStatus, FailureStatus
<1>2. CASE ~Matches(u, r)
  <2>1. Continue(t, u, "UnexpectedResponse") /\ answer' = answer
    BY <1>2 DEF HandleResponse
  <2> QED
    BY <1>1, <2>1, ContinueKeeps
<1>3. CASE Matches(u, r) /\ ~WellFormed(u.kind, r)
  <2>1. Finish(t, u, "InvalidResponse") /\ answer' = answer
    BY <1>3 DEF HandleResponse
  <2> QED
    BY <1>1, <2>1, FinishKeeps
<1>4. CASE Matches(u, r) /\ WellFormed(u.kind, r)
  <2>1. Finish(t, [u EXCEPT !.result = ResultOf(u.kind, r)], "ResponseReady") /\ answer' = r
    BY <1>4 DEF HandleResponse
  <2> QED
    BY <1>4, <2>1, ReadyKeeps
<1> QED
  BY <1>2, <1>3, <1>4

LEMMA PollTransmissionKeeps ==
  ASSUME IInv, NEW o \in PollOutcomes(transport), PollTransmission(o)
  PROVE  IInv' /\ Advances
<1> DEFINE u == [obd EXCEPT !.lastTransport = o.ret]
<1>1. o.t \in TransportState /\ o.ret \in TransportStatus
  BY PollKeepsTransport DEF IInv
<1>2. /\ u \in ObdState
      /\ u.state = obd.state /\ u.kind = obd.kind /\ u.pid = obd.pid /\ u.result = obd.result
      /\ u.waitLeft = obd.waitLeft
  BY <1>1, MembersFit, NotingTransportHas
<1>3. /\ obd.state = "AwaitingTransmit" /\ obd.state # "Idle"
      /\ config' = config /\ sent' = sent /\ answer' = answer /\ elapsed' = elapsed
      /\ CASE o.ret = "InProgress" -> Continue(o.t, u, "InProgress")
           [] o.ret = "Complete"   -> Continue(o.t, BeginResponseWait(u), "InProgress")
           [] OTHER                -> Finish(o.t, u, "TransportFailure")
  BY DEF PollTransmission
<1> HIDE DEF u
<1>4. "InProgress" \in OngoingStatus /\ "TransportFailure" \in FailureStatus
  BY DEF OngoingStatus, FailureStatus
<1>5. CASE o.ret = "InProgress"
  <2>1. Continue(o.t, u, "InProgress")
    BY <1>3, <1>5
  <2> QED
    BY <1>1, <1>2, <1>3, <1>4, <2>1, ContinueKeeps
<1>6. CASE o.ret = "Complete"
  <2>1. Continue(o.t, BeginResponseWait(u), "InProgress")
    BY <1>3, <1>6
  <2> QED
    BY <1>1, <1>2, <1>3, <2>1, WaitBegins
<1>7. CASE o.ret \notin {"InProgress", "Complete"}
  <2>1. Finish(o.t, u, "TransportFailure")
    BY <1>3, <1>7
  <2> QED
    BY <1>1, <1>2, <1>3, <1>4, <2>1, FinishKeeps
<1> QED
  BY <1>5, <1>6, <1>7

LEMMA ReceiveKeeps ==
  ASSUME IInv, config' = config, sent' = sent, elapsed' = elapsed,
         NEW t \in TransportState, obd.state = "AwaitingResponse", ReceiveResponse(t)
  PROVE  IInv' /\ Advances
<1> DEFINE fits == Fits(t.pending)
           r == ReceiveOutcome(t, fits)
           u == [obd EXCEPT !.lastTransport = r.ret]
<1>1. fits \in BOOLEAN
  BY DEF Fits
<1>2. /\ r.t \in TransportState
      /\ r.ret \in {"NoData", "Overflow", "Complete"}
      /\ r.ret = "Complete" => t.pending \in Message /\ fits
  BY <1>1, ReceiveKeepsTransport
<1>3. /\ r.ret = "NoData" => Continue(r.t, u, "InProgress") /\ answer' = answer
      /\ r.ret = "Complete" => HandleResponse(r.t, u, t.pending)
      /\ r.ret \notin {"NoData", "Complete"} =>
           Finish(r.t, u, "TransportFailure") /\ answer' = answer
  BY DEF ReceiveResponse
<1> HIDE DEF r, fits
<1>4. r.ret \in TransportStatus
  BY <1>2 DEF TransportStatus
<1>5. /\ u \in ObdState
      /\ u.state = obd.state /\ u.kind = obd.kind /\ u.pid = obd.pid /\ u.result = obd.result
      /\ u.waitLeft = obd.waitLeft
  BY <1>4, MembersFit, NotingTransportHas
<1> HIDE DEF u
<1>6. "InProgress" \in OngoingStatus /\ "TransportFailure" \in FailureStatus
      /\ obd.state # "Idle"
  BY DEF OngoingStatus, FailureStatus
<1>7. CASE r.ret = "NoData"
  <2>1. Continue(r.t, u, "InProgress") /\ answer' = answer
    BY <1>3, <1>7
  <2> QED
    BY <1>2, <1>5, <1>6, <2>1, ContinueKeeps
<1>8. CASE r.ret = "Complete"
  <2>1. HandleResponse(r.t, u, t.pending)
    BY <1>3, <1>8
  <2>2. t.pending \in Seq(Byte)
    BY <1>2, <1>8, MessagesAreBytes
  <2> QED
    BY <1>2, <1>5, <1>6, <2>1, <2>2, HandleResponseKeeps
<1>9. CASE r.ret = "Overflow"
  <2>1. Finish(r.t, u, "TransportFailure") /\ answer' = answer
    BY <1>3, <1>9
  <2> QED
    BY <1>2, <1>5, <1>6, <2>1, FinishKeeps
<1> QED
  BY <1>2, <1>7, <1>8, <1>9

LEMMA PollResponseKeeps ==
  ASSUME IInv, NEW o \in PollOutcomes(transport), PollResponse(o)
  PROVE  IInv' /\ Advances
<1> DEFINE u == [obd EXCEPT !.lastTransport = o.ret]
<1>1. o.t \in TransportState /\ o.ret \in TransportStatus
  BY PollKeepsTransport DEF IInv
<1>2. u \in ObdState /\ u.result = obd.result
  BY <1>1, MembersFit, NotingTransportHas
<1>3. /\ obd.state = "AwaitingResponse" /\ obd.state # "Idle"
      /\ config' = config /\ sent' = sent /\ elapsed' = elapsed
      /\ \/ Finish(o.t, u, "TransportFailure") /\ answer' = answer
         \/ Finish(o.t, u, "Timeout") /\ answer' = answer
         \/ ReceiveResponse(o.t)
  BY DEF PollResponse
<1> HIDE DEF u
<1>4. "Timeout" \in FailureStatus /\ "TransportFailure" \in FailureStatus
  BY DEF FailureStatus
<1>5. CASE Finish(o.t, u, "TransportFailure") /\ answer' = answer
  BY <1>1, <1>2, <1>3, <1>4, <1>5, FinishKeeps
<1>6. CASE Finish(o.t, u, "Timeout") /\ answer' = answer
  BY <1>1, <1>2, <1>3, <1>4, <1>6, FinishKeeps
<1>7. CASE ReceiveResponse(o.t)
  BY <1>1, <1>3, <1>7, ReceiveKeeps
<1> QED
  BY <1>3, <1>5, <1>6, <1>7

LEMMA BeginKeeps ==
  ASSUME IInv, NEW kind \in DOMAIN ModeOf, NEW pid \in Byte, NEW g,
         g.status = "Forwarded", g.payload \in Seq(Byte), Asks(kind, pid, g.payload),
         Begin(kind, pid, g)
  PROVE  IInv' /\ Lifecycle!Start /\ obd.state = "Idle"
<1> DEFINE v == Prepared(obd, kind, pid)
<1>1. /\ obd \in ObdState /\ config \in ObdServiceConfig /\ config.responseTimeout \in Nat
      /\ obd.state = "Idle" /\ obd.waitLeft = 0 /\ transport \in TransportState
  BY MembersFit DEF Begin, IsRequestActive, IInv
<1>2. config' = config /\ answer' = <<>> /\ elapsed' = 0
  BY DEF Begin
<1>3. kind \in RequestKind /\ kind # "None"
  BY Kinds
<1>4. /\ v \in ObdState
      /\ v.state = "Idle" /\ v.waitLeft = 0 /\ v.kind = kind /\ v.pid = pid
      /\ v.result = NoResult
  BY <1>1, <1>3, PreparedHas
<1>5. BeginTransport(v, g) /\ ~IsRequestActive
  BY DEF Begin, Prepared
<1> HIDE DEF v
<1>6. PICK o \in StartSendOutcomes(transport) :
        LET u == [v EXCEPT !.lastTransport = o.ret] IN
         /\ sent' = g.payload
         /\ CASE o.ret = "Complete"   -> Continue(o.t, BeginResponseWait(u), "InProgress")
              [] o.ret = "InProgress" ->
                   Continue(o.t, [u EXCEPT !.state = "AwaitingTransmit"], "InProgress")
              [] OTHER -> Finish(o.t, u, "TransportFailure")
  BY <1>5 DEF BeginTransport
<1> DEFINE u == [v EXCEPT !.lastTransport = o.ret]
<1>7. o.t \in TransportState /\ o.ret \in TransportStatus
  BY <1>1, StartSendKeepsTransport
<1>8. /\ u \in ObdState
      /\ u.state = "Idle" /\ u.waitLeft = 0 /\ u.kind = kind /\ u.pid = pid
      /\ u.result = NoResult
  BY <1>4, <1>7, NotingTransportHas
<1>9. /\ sent' = g.payload
      /\ CASE o.ret = "Complete"   -> Continue(o.t, BeginResponseWait(u), "InProgress")
           [] o.ret = "InProgress" ->
                Continue(o.t, [u EXCEPT !.state = "AwaitingTransmit"], "InProgress")
           [] OTHER -> Finish(o.t, u, "TransportFailure")
  BY <1>6
<1> HIDE DEF u
<1>10. "InProgress" \in ObdServiceStatus /\ "TransportFailure" \in ObdServiceStatus
  BY DEF ObdServiceStatus
<1>11. sent' \in Seq(Byte) /\ answer' \in Seq(Byte) /\ elapsed' \in Nat
       /\ Asks(kind, pid, sent')
  BY <1>2, <1>9
<1>12. CASE o.ret = "Complete"
  <2>1. transport' = o.t /\ obd' = Waiting(u, "InProgress")
    BY <1>9, <1>12 DEF Continue, Waiting
  <2>2. /\ obd' \in ObdState /\ obd'.state = "AwaitingResponse"
        /\ obd'.waitLeft = config.responseTimeout /\ obd'.status = "InProgress"
        /\ obd'.kind = kind /\ obd'.pid = pid /\ obd'.result = NoResult
    BY <1>1, <1>8, <1>10, <2>1, WaitingHas
  <2>3. Holds(obd', sent', answer', elapsed')
    <3>1. TypesFit(obd', sent', answer', elapsed')
      BY <1>3, <1>11, <2>2 DEF TypesFit
    <3>2. WaitFits(obd', elapsed')
      BY <1>1, <1>2, <2>2 DEF WaitFits
    <3>3. RequestFits(obd', sent') /\ ResultFits(obd', sent', answer')
      BY <1>11, <2>2 DEF RequestFits, ResultFits
    <3> QED
      BY <3>1, <3>2, <3>3 DEF Holds
  <2>4. Lifecycle!Start
    BY <1>1, <2>2 DEF Lifecycle!Start, IsRequestActive
  <2> QED
    BY <1>1, <1>2, <1>7, <2>1, <2>3, <2>4, Kept
<1>13. CASE o.ret = "InProgress"
  <2> DEFINE w == [u EXCEPT !.state = "AwaitingTransmit"]
  <2>1. transport' = o.t /\ obd' = SetStatus(w, "InProgress")
    BY <1>9, <1>13 DEF Continue
  <2>2. /\ w \in ObdState /\ w.state = "AwaitingTransmit" /\ w.waitLeft = 0
        /\ w.kind = kind /\ w.pid = pid /\ w.result = NoResult
    BY <1>8 DEF ObdState
  <2> HIDE DEF w
  <2>3. /\ obd' \in ObdState /\ obd'.state = "AwaitingTransmit"
        /\ obd'.waitLeft = 0 /\ obd'.status = "InProgress"
        /\ obd'.kind = kind /\ obd'.pid = pid /\ obd'.result = NoResult
    BY <1>10, <2>1, <2>2, SetStatusHas
  <2>4. Holds(obd', sent', answer', elapsed')
    <3>1. TypesFit(obd', sent', answer', elapsed')
      BY <1>3, <1>11, <2>3 DEF TypesFit
    <3>2. WaitFits(obd', elapsed')
      BY <1>2, <2>3 DEF WaitFits
    <3>3. RequestFits(obd', sent') /\ ResultFits(obd', sent', answer')
      BY <1>11, <2>3 DEF RequestFits, ResultFits
    <3> QED
      BY <3>1, <3>2, <3>3 DEF Holds
  <2>5. Lifecycle!Start
    BY <1>1, <2>3 DEF Lifecycle!Start, IsRequestActive
  <2> QED
    BY <1>1, <1>2, <1>7, <2>1, <2>4, <2>5, Kept
<1>14. CASE o.ret \notin {"Complete", "InProgress"}
  <2>1. Finish(o.t, u, "TransportFailure")
    BY <1>9, <1>14
  <2>2. transport' \in TransportState /\ obd' = Ended(u, "TransportFailure")
    BY <1>7, <2>1, FinishLeaves
  <2>3. /\ obd' \in ObdState
        /\ obd'.state = "Idle" /\ obd'.kind = "None" /\ obd'.waitLeft = 0
        /\ obd'.status = "TransportFailure" /\ obd'.result = NoResult
    BY <1>8, <1>10, <2>2, EndedHas
  <2>4. Holds(obd', sent', answer', elapsed')
    BY <1>11, <2>3 DEF Holds, TypesFit, WaitFits, RequestFits, ResultFits
  <2>5. Lifecycle!Start
    BY <1>1, <2>3 DEF Lifecycle!Start, IsRequestActive
  <2> QED
    BY <1>1, <1>2, <2>2, <2>4, <2>5, Kept
<1> QED
  BY <1>1, <1>12, <1>13, <1>14

LEMMA RejectWhileActiveKeeps ==
  ASSUME IInv, RejectWhileActive
  PROVE  IInv' /\ Advances
<1>1. obd \in ObdState /\ obd.state # "Idle" /\ "Busy" \in OngoingStatus
      /\ transport \in TransportState
  BY MembersFit DEF RejectWhileActive, IsRequestActive, OngoingStatus, IInv
<1>2. /\ Continue(transport, obd, "Busy")
      /\ config' = config /\ sent' = sent /\ answer' = answer /\ elapsed' = elapsed
  BY DEF RejectWhileActive, Continue
<1> QED
  BY <1>1, <1>2, ContinueKeeps

LEMMA RejectInvalidKeeps ==
  ASSUME IInv, RejectInvalid
  PROVE  IInv' /\ Lifecycle!Refuse /\ obd.state = "Idle"
<1> DEFINE v == SetStatus(obd, "InvalidRequest")
<1>1. /\ obd \in ObdState /\ obd.state = "Idle" /\ obd.waitLeft = 0
      /\ "InvalidRequest" \in ObdServiceStatus /\ "None" \in RequestKind
  BY MembersFit, Kinds DEF RejectInvalid, IsRequestActive, ObdServiceStatus
<1>2. /\ v \in ObdState /\ v.state = obd.state /\ v.status = "InvalidRequest"
      /\ v.waitLeft = obd.waitLeft /\ v.result = obd.result
  BY <1>1, SetStatusHas
<1>3. obd' = [v EXCEPT !.state = "Idle", !.kind = "None"]
  BY DEF RejectInvalid, FinishWithoutTransport
<1> HIDE DEF v
<1>4. /\ obd' \in ObdState /\ obd'.state = "Idle" /\ obd'.kind = "None"
      /\ obd'.status = "InvalidRequest" /\ obd'.waitLeft = 0 /\ obd'.result = obd.result
  BY <1>1, <1>2, <1>3 DEF ObdState
<1>5. /\ config' = config /\ sent' = sent /\ answer' = answer /\ elapsed' = elapsed
      /\ transport' = transport
  BY DEF RejectInvalid, FinishWithoutTransport
<1>6. Holds(obd', sent', answer', elapsed')
  <2>1. TypesFit(obd, sent, answer, elapsed) /\ ResultFits(obd, sent, answer)
    BY DEF IInv, Holds
  <2> QED
    BY <1>1, <1>4, <1>5, <2>1 DEF Holds, TypesFit, WaitFits, RequestFits, ResultFits
<1>7. Lifecycle!Refuse
  BY <1>1, <1>4 DEF Lifecycle!Refuse, Lifecycle!Refusals, IsRequestActive
<1> QED
  BY <1>1, <1>5, <1>6, <1>7, Kept DEF IInv

\* What a step shows an application.
Shown ==
  \/ (Lifecycle!Start \/ Lifecycle!Refuse) /\ obd.state = "Idle"
  \/ Advances
  \/ /\ UNCHANGED <<IsRequestActive, obd.status, obd.result # NoResult>>
     /\ obd'.state = obd.state

LEMMA BeginRequestKeeps ==
  ASSUME IInv, NEW kind \in {"CurrentData", "SupportedPids", "Vin"}, NEW pid \in Byte,
         BeginRequest(kind, pid)
  PROVE  IInv' /\ Shown
<1> DEFINE g == startObdSinglePid(ModeOf[kind], <<pid>>)
<1>1. /\ g.status = "Forwarded" /\ g.payload \in Seq(Byte)
      /\ g.payload[1] = ModeOf[kind] /\ g.payload[2] = pid
  BY SinglePidPayload
<1>2. RejectWhileActive \/ RejectMisconfigured \/ Begin(kind, pid, g)
  BY DEF BeginRequest
<1> HIDE DEF g
<1>3. kind \in DOMAIN ModeOf /\ Asks(kind, pid, g.payload)
  BY <1>1, Kinds DEF Asks
<1>4. CASE Begin(kind, pid, g)
  BY <1>1, <1>3, <1>4, BeginKeeps DEF Shown
<1>5. CASE RejectWhileActive
  BY <1>5, RejectWhileActiveKeeps DEF Shown
<1>6. CASE RejectMisconfigured
  BY <1>6, RejectInvalidKeeps DEF Shown, RejectMisconfigured
<1> QED
  BY <1>2, <1>4, <1>5, <1>6

LEMMA RequestStoredDtcsKeeps ==
  ASSUME IInv, RequestStoredDtcs
  PROVE  IInv' /\ Shown
<1> DEFINE g == startObdStoredDtcRead
           pid == obd.pid
<1>1. /\ g.status = "Forwarded" /\ g.payload \in Seq(Byte)
      /\ g.payload[1] = ModeOf["StoredDtcs"]
  BY StoredDtcPayload
<1>2. RejectWhileActive \/ RejectMisconfigured \/ Begin("StoredDtcs", pid, g)
  BY DEF RequestStoredDtcs
<1>3. "StoredDtcs" \in DOMAIN ModeOf /\ Asks("StoredDtcs", pid, g.payload) /\ pid \in Byte
  BY <1>1, Kinds, MembersFit DEF Asks, ObdState
<1> HIDE DEF g, pid
<1>4. CASE Begin("StoredDtcs", pid, g)
  BY <1>1, <1>3, <1>4, BeginKeeps DEF Shown
<1>5. CASE RejectWhileActive
  BY <1>5, RejectWhileActiveKeeps DEF Shown
<1>6. CASE RejectMisconfigured
  BY <1>6, RejectInvalidKeeps DEF Shown, RejectMisconfigured
<1> QED
  BY <1>2, <1>4, <1>5, <1>6

LEMMA RequestSupportedPidsKeeps ==
  ASSUME IInv, NEW pid \in Byte, RequestSupportedPids(pid)
  PROVE  IInv' /\ Shown
<1>1. RejectWhileActive \/ RejectInvalid \/ BeginRequest("SupportedPids", pid)
  BY DEF RequestSupportedPids
<1>2. CASE RejectWhileActive
  BY <1>2, RejectWhileActiveKeeps DEF Shown
<1>3. CASE RejectInvalid
  BY <1>3, RejectInvalidKeeps DEF Shown
<1>4. CASE BeginRequest("SupportedPids", pid)
  BY <1>4, BeginRequestKeeps
<1> QED
  BY <1>1, <1>2, <1>3, <1>4

\* A unit of time moves from what is left of the wait to what it has lasted.
LEMMA TickKeeps ==
  ASSUME IInv, Tick
  PROVE  IInv' /\ Shown
<1>1. /\ obd \in ObdState /\ obd.state = "AwaitingResponse"
      /\ obd.waitLeft \in Nat /\ obd.waitLeft > 0
      /\ obd' = [obd EXCEPT !.waitLeft = @ - 1]
  BY MembersFit DEF Tick, ObdState
<1>2. obd.waitLeft - 1 \in Nat
  BY <1>1
<1>3. /\ obd' \in ObdState /\ obd'.state = obd.state /\ obd'.kind = obd.kind
      /\ obd'.pid = obd.pid /\ obd'.status = obd.status /\ obd'.result = obd.result
      /\ obd'.waitLeft = obd.waitLeft - 1
  BY <1>1, <1>2 DEF ObdState
<1>4. /\ config' = config /\ sent' = sent /\ answer' = answer /\ elapsed' = elapsed + 1
      /\ transport' = transport
  BY DEF Tick
<1>5. Holds(obd, sent, answer, elapsed) /\ elapsed \in Nat
  BY DEF IInv, Holds, TypesFit
<1>6. Holds(obd', sent', answer', elapsed')
  <2>1. TypesFit(obd', sent', answer', elapsed')
    BY <1>3, <1>4, <1>5 DEF Holds, TypesFit
  <2>2. WaitFits(obd', elapsed')
    <3>1. elapsed + obd.waitLeft = config.responseTimeout
      BY <1>1, <1>5 DEF Holds, WaitFits
    <3>2. elapsed' + obd'.waitLeft = config.responseTimeout
      BY <1>1, <1>3, <1>4, <1>5, <3>1
    <3> QED
      BY <1>1, <1>3, <1>4, <3>2 DEF WaitFits
  <2>3. RequestFits(obd', sent') /\ ResultFits(obd', sent', answer')
    BY <1>3, <1>4, <1>5 DEF Holds, RequestFits, ResultFits
  <2> QED
    BY <2>1, <2>2, <2>3 DEF Holds
<1>7. Shown
  BY <1>3 DEF Shown, IsRequestActive
<1> QED
  BY <1>4, <1>6, <1>7, Kept DEF IInv

LEMMA FrameArrivesKeeps ==
  ASSUME IInv, FrameArrives
  PROVE  IInv' /\ Shown
<1>1. transport' \in TransportState
  BY FramesKeepTransport DEF IInv, FrameArrives
<1>2. /\ config' = config /\ obd' = obd /\ sent' = sent /\ answer' = answer
      /\ elapsed' = elapsed
  BY DEF FrameArrives
<1>3. Holds(obd', sent', answer', elapsed')
  BY <1>2 DEF IInv
<1>4. Shown
  BY <1>2 DEF Shown, IsRequestActive
<1> QED
  BY <1>1, <1>2, <1>3, <1>4, Kept DEF IInv

LEMMA StutterKeeps ==
  ASSUME IInv, UNCHANGED vars
  PROVE  IInv' /\ Shown
<1>1. /\ config' = config /\ obd' = obd /\ sent' = sent /\ answer' = answer
      /\ elapsed' = elapsed /\ transport' = transport
  BY DEF vars
<1> QED
  BY <1>1 DEF IInv, Holds, TypesFit, WaitFits, RequestFits, ResultFits, Shown, IsRequestActive

LEMMA StepKeeps ==
  ASSUME IInv, [Next]_vars
  PROVE  IInv' /\ Shown
<1>1. ASSUME NEW pid \in Pids, RequestCurrentData(pid) \/ RequestSupportedPids(pid)
      PROVE  IInv' /\ Shown
  <2>1. pid \in Byte
    BY PidsAreBytes
  <2>2. CASE RequestCurrentData(pid)
    BY <2>1, <2>2, BeginRequestKeeps DEF RequestCurrentData
  <2>3. CASE RequestSupportedPids(pid)
    BY <2>1, <2>3, RequestSupportedPidsKeeps
  <2> QED
    BY <1>1, <2>2, <2>3
<1>2. CASE RequestVin
  <2>1. kVinPid \in Byte
    BY DEF kVinPid, Byte
  <2> QED
    BY <1>2, <2>1, BeginRequestKeeps DEF RequestVin
<1>3. CASE RequestStoredDtcs
  BY <1>3, RequestStoredDtcsKeeps
<1>4. CASE Poll
  <2>1. CASE PollIdle
    BY <2>1, StutterKeeps DEF PollIdle
  <2>2. CASE \E o \in PollOutcomes(transport) : PollTransmission(o) \/ PollResponse(o)
    BY <2>2, PollTransmissionKeeps, PollResponseKeeps DEF Shown
  <2> QED
    BY <1>4, <2>1, <2>2 DEF Poll
<1>5. CASE Tick
  BY <1>5, TickKeeps
<1>6. CASE FrameArrives
  BY <1>6, FrameArrivesKeeps
<1>7. CASE UNCHANGED vars
  BY <1>7, StutterKeeps
<1> QED
  BY <1>1, <1>2, <1>3, <1>4, <1>5, <1>6, <1>7 DEF Next

(***************************************************************************)
(* The theorems.                                                           *)
(***************************************************************************)

\* What holds of the service's members, of the request it last sent and of the time it has
\* waited, in every reachable state.
THEOREM InductiveInvariant == Spec => []IInv
<1>1. IInv /\ [Next]_vars => IInv'
  BY StepKeeps
<1> QED
  BY <1>1, InitHolds, PTL DEF Spec

\* Every member keeps its type, and a kind of request is noted exactly while one is active.
THEOREM TypeCorrect == Spec => []TypeOK
<1>1. IInv => TypeOK
  BY DEF IInv, Holds, TypesFit, ObdState, TypeOK, IsRequestActive
<1> QED
  BY <1>1, InductiveInvariant, PTL

LEMMA InvariantBounds == IInv => WaitIsBounded
<1> SUFFICES ASSUME IInv, obd.waitLeft > 0
             PROVE  elapsed + obd.waitLeft = config.responseTimeout
  BY DEF WaitIsBounded
<1>1. WaitFits(obd, elapsed)
  BY DEF IInv, Holds
<1>2. obd.state = "AwaitingResponse"
  BY <1>1 DEF WaitFits
<1> QED
  BY <1>1, <1>2 DEF WaitFits

\* The wait for a response ends responseTimeout after it began: neither unexpected responses
\* nor requests refused as Busy move responseDeadlineMs_.
THEOREM WaitBounded == Spec => []WaitIsBounded
BY InvariantBounds, InductiveInvariant, PTL

LEMMA InvariantAnswers == IInv => ResultAnswersRequest
<1> SUFFICES ASSUME IInv, obd.status = "ResponseReady" \/ obd.result # NoResult
             PROVE  Answers(sent, answer, obd.result)
  BY DEF ResultAnswersRequest, Answers
<1>1. RequestFits(obd, sent) /\ ResultFits(obd, sent, answer)
  BY DEF IInv, Holds
<1> QED
  BY <1>1 DEF RequestFits, ResultFits

\* A published result is the content of the positive answer to the request sent last: every
\* byte of the data, and every trouble code that is no padding in its order. And it fits what
\* the accessors promise: no buffer is overrun.
THEOREM ResultsAnswer == Spec => []ResultAnswersRequest
BY InvariantAnswers, InductiveInvariant, PTL

\* The service keeps the contract of RequestLifecycle: status_ and the published result
\* change only as an application may rely on.
THEOREM LifecycleImplemented == Spec => ImplementsLifecycle
<1>1. Init => Lifecycle!Init
  BY DEF Init, Lifecycle!Init, IsRequestActive
<1>2. IInv /\ [Next]_vars
        => [Lifecycle!Next]_<<IsRequestActive, obd.status, obd.result # NoResult>>
  BY StepKeeps DEF Lifecycle!Next, Advances, Shown
<1> QED
  BY <1>1, <1>2, InductiveInvariant, PTL DEF Spec, ImplementsLifecycle, Lifecycle!Spec

\* A request that ends leaves no completed message to the next one (finish discards it).
THEOREM EndsClean == Spec => EndLeavesNoMessage
<1>1. IInv /\ [Next]_vars
        => [IsRequestActive /\ obd'.state = "Idle" => transport'.pending = NoMessage]_vars
  BY StepKeeps DEF Shown, Advances, IsRequestActive
<1> QED
  BY <1>1, InductiveInvariant, PTL DEF Spec, EndLeavesNoMessage

(***************************************************************************)
(* Beside another service on the same transport.                           *)
(***************************************************************************)

\* A service that is not active takes nothing from the transport: neither a refused request
\* nor one that begins touches a completed message.
LEMMA IdleTakesNothing ==
  ASSUME transport \in TransportState, ~IsRequestActive,
         \/ \E pid \in Pids : RequestCurrentData(pid) \/ RequestSupportedPids(pid)
         \/ RequestVin
         \/ RequestStoredDtcs
         \/ Poll
  PROVE  transport'.pending = transport.pending
<1>1. CASE PollIdle
  BY <1>1 DEF PollIdle, vars
<1>2. CASE RejectInvalid
  BY <1>2 DEF RejectInvalid, FinishWithoutTransport
<1>3. ASSUME NEW prepared, NEW guarded, BeginTransport(prepared, guarded)
      PROVE  transport'.pending = transport.pending
  <2>1. CASE UNCHANGED transport
    BY <2>1
  <2>2. CASE \E o \in StartSendOutcomes(transport) : transport' = o.t
    BY <2>2, StartSendKeepsTransport
  <2> QED
    BY <1>3, <2>1, <2>2 DEF BeginTransport, FinishWithoutTransport, Continue, Finish
<1>4. ASSUME NEW kind, NEW pid, NEW guarded, Begin(kind, pid, guarded)
      PROVE  transport'.pending = transport.pending
  BY <1>3, <1>4 DEF Begin
<1>5. ASSUME NEW kind, NEW pid, BeginRequest(kind, pid)
      PROVE  transport'.pending = transport.pending
  BY <1>2, <1>4, <1>5 DEF BeginRequest, RejectWhileActive, RejectMisconfigured
<1> QED
  BY <1>1, <1>2, <1>4, <1>5 DEF RequestCurrentData, RequestSupportedPids, RequestVin,
     RequestStoredDtcs, RejectWhileActive, RejectMisconfigured,
     Poll, PollTransmission, PollResponse, IsRequestActive

\* What the other service does to the transport leaves this one's invariant alone.
LEMMA OthersMoveTheTransport ==
  ASSUME IInv, transport' \in TransportState,
         UNCHANGED <<config, obd, sent, answer, elapsed>>
  PROVE  IInv'
<1>1. /\ config' = config /\ obd' = obd /\ sent' = sent /\ answer' = answer
      /\ elapsed' = elapsed
  OBVIOUS
<1>2. Holds(obd', sent', answer', elapsed')
  BY <1>1 DEF IInv
<1> QED
  BY <1>1, <1>2, Kept DEF IInv
================================================================================
