---------------------------- MODULE UdsServiceProofs ----------------------------
(***************************************************************************)
(* Theorems about the UDS service, for any messages a transport may hand   *)
(* over, any identifiers, any configuration and buffers of any size.       *)
(***************************************************************************)
EXTENDS UdsService, SequenceTheorems, TLAPS

UdsState ==
  [state : {"Idle", "AwaitingTransmit", "AwaitingResponse"},
   kind : RequestKind, did : Byte \X Byte, status : UdsServiceStatus,
   lastTransport : TransportStatus, nrc : Byte, pendingCount : Byte,
   waitLeft : Nat,
   result : [raw : Seq(Byte), mask : Byte, dtcs : Seq(Seq(Byte))]]

(***************************************************************************)
(* What holds of the members u, the last payload s, the message a of the   *)
(* published result and the time e the wait has lasted, in every reachable *)
(* state.                                                                  *)
(***************************************************************************)

\* The payload s is the request that the service has noted.
Asks(u, s) ==
  \/ /\ u.kind = "ReadDataByIdentifier"
     /\ Len(s) = 3 /\ s[1] = kUdsReadDataByIdentifier /\ s[2] = u.did[1] /\ s[3] = u.did[2]
  \/ /\ u.kind = "ReportDtcByStatusMask"
     /\ Len(s) = 3 /\ s[1] = kUdsReadDtcInformation /\ s[2] = kReportDtcByStatusMask

\* The result x is the data of the message a, or the report in it.
HoldsData(x, a) == x.raw = SubSeq(a, 4, Len(a)) /\ x.dtcs = <<>>

HoldsReport(x, a) ==
  /\ x.mask = a[3] /\ x.raw = <<>>
  /\ Len(a) = 3 + 4 * Len(x.dtcs)
  /\ \A i \in DOMAIN x.dtcs : x.dtcs[i] = SubSeq(a, 4 * i, 4 * i + 3)

\* The message a answers that request, and the result is its content.
Answers(u, a) ==
  \/ /\ u.kind = "ReadDataByIdentifier"
     /\ Len(a) > 3 /\ a[1] = PositiveService(kUdsReadDataByIdentifier)
     /\ a[2] = u.did[1] /\ a[3] = u.did[2]
     /\ HoldsData(u.result, a)
  \/ /\ u.kind = "ReportDtcByStatusMask"
     /\ Len(a) >= 3 /\ a[1] = PositiveService(kUdsReadDtcInformation)
     /\ a[2] = kReportDtcByStatusMask
     /\ HoldsReport(u.result, a)

Budget(count) == config.responseTimeout + count * config.pendingTimeout

TypesFit(u, s, a, e) ==
  /\ u \in UdsState
  /\ s \in Seq(Byte) /\ a \in Seq(Byte) /\ e \in 0 .. MaxElapsed
  /\ u.waitLeft > 0 => u.state = "AwaitingResponse"
  /\ u.pendingCount <= config.maxPending

\* Before the wait begins no time counts, and each response-pending buys one timeout.
WaitFits(u, e) ==
  /\ u.state = "AwaitingTransmit" => e = 0 /\ u.pendingCount = 0
  /\ u.waitLeft > 0 => e + u.waitLeft <= Budget(u.pendingCount)

RequestFits(u, s) == u.state # "Idle" \/ u.status = "ResponseReady" => Asks(u, s)

ResultFits(u, a) == u.status = "ResponseReady" => u.state = "Idle" /\ Answers(u, a)

Holds(u, s, a, e) ==
  TypesFit(u, s, a, e) /\ WaitFits(u, e) /\ RequestFits(u, s) /\ ResultFits(u, a)

IInv ==
  /\ config \in UdsServiceConfig
  /\ transport \in TransportState
  /\ Holds(uds, sent, answer, elapsed)

\* The budget grows with the count, up to the longest wait.
LEMMA BudgetGrows ==
  ASSUME config \in UdsServiceConfig, NEW n \in Nat, n <= config.maxPending
  PROVE  /\ Budget(n) \in Nat /\ MaxWait \in Nat /\ Budget(n) <= MaxWait
         /\ Budget(n + 1) = Budget(n) + config.pendingTimeout
         /\ Budget(0) = config.responseTimeout
<1> DEFINE R == config.responseTimeout
           P == config.pendingTimeout
           m == config.maxPending
<1>1. R \in Nat /\ P \in Nat /\ m \in Nat
  BY TimeoutsAreNatural DEF Byte
<1> HIDE DEF R, P, m
<1>2. n * P \in Nat /\ m * P \in Nat /\ (n + 1) * P = n * P + P /\ 0 * P = 0
  BY <1>1
<1>3. n * P <= m * P
  <2>1. n <= m
    BY DEF m
  <2> QED
    BY <1>1, <2>1, Z3
<1>4. R + n * P \in Nat /\ R + m * P \in Nat /\ R + n * P <= R + m * P
      /\ R + (n + 1) * P = (R + n * P) + P /\ R + 0 * P = R
  BY <1>1, <1>2, <1>3
<1> QED
  BY <1>4 DEF Budget, MaxWait, R, P, m

LEMMA ConfigIsTyped ==
  ASSUME config \in UdsServiceConfig
  PROVE  /\ config.responseTimeout \in Nat /\ config.pendingTimeout \in Nat
         /\ config.maxPending \in Nat
BY TimeoutsAreNatural DEF Byte

LEMMA BudgetStarts ==
  ASSUME config \in UdsServiceConfig
  PROVE  MaxWait \in Nat /\ Budget(0) = config.responseTimeout
<1>1. 0 \in Nat /\ 0 <= config.maxPending
  BY ConfigIsTyped
<1> QED
  BY <1>1, BudgetGrows

LEMMA Kinds ==
  /\ RequestKind = {"ReadDataByIdentifier", "ReportDtcByStatusMask"}
  /\ ServiceOf["ReadDataByIdentifier"] = kUdsReadDataByIdentifier
  /\ ServiceOf["ReportDtcByStatusMask"] = kUdsReadDtcInformation
BY DEF RequestKind, ServiceOf

(***************************************************************************)
(* What every call of the transport contract keeps, for any messages.      *)
(***************************************************************************)

\* A transport that does nothing is one of its states.
LEMMA IdleIsTransport == IdleTransport \in TransportState
BY DEF IdleTransport, TransportState

\* Each direction changes without the other, and without touching the message.
LEMMA DirectionsAreSeparate ==
  ASSUME NEW t \in TransportState
  PROVE  /\ BeginTransmission(t) \in TransportState /\ BeginTransmission(t).pending = t.pending
         /\ EndTransmission(t) \in TransportState /\ EndTransmission(t).pending = t.pending
         /\ BeginAssembly(t) \in TransportState /\ BeginAssembly(t).pending = t.pending
         /\ EndAssembly(t) \in TransportState /\ EndAssembly(t).pending = t.pending
BY DEF TransportState, BeginTransmission, EndTransmission, BeginAssembly, EndAssembly

\* Taking the message leaves none.
LEMMA TakingEmpties ==
  ASSUME NEW t \in TransportState
  PROVE  TakeMessage(t) \in TransportState /\ TakeMessage(t).pending = NoMessage
BY DEF TransportState, TakeMessage

\* Sending leaves the completed message alone, whatever comes of it.
LEMMA StartSendKeepsTransport ==
  ASSUME NEW t \in TransportState, NEW o \in StartSendOutcomes(t)
  PROVE  o.t \in TransportState /\ o.ret \in TransportStatus /\ o.t.pending = t.pending
<1>1. o.t \in {t, BeginTransmission(t)}
  BY DEF StartSendOutcomes, Outcomes
<1>2. o.ret \in TransportStatus
  BY DEF StartSendOutcomes, Outcomes, SendFailure, TransportStatus
<1> QED
  BY <1>1, <1>2, DirectionsAreSeparate

\* So does polling.
LEMMA PollKeepsTransport ==
  ASSUME NEW t \in TransportState, NEW o \in PollOutcomes(t)
  PROVE  o.t \in TransportState /\ o.ret \in TransportStatus /\ o.t.pending = t.pending
<1>1. o.t \in {t, EndAssembly(t), EndTransmission(t)}
  BY DEF PollOutcomes, Outcomes
<1>2. o.ret \in TransportStatus
  BY DEF PollOutcomes, Outcomes, SendFailure, TransportStatus
<1> QED
  BY <1>1, <1>2, DirectionsAreSeparate

\* Only a message that fits is taken, and a Complete hands over the one that was pending.
LEMMA ReceiveKeepsTransport ==
  ASSUME NEW t \in TransportState, NEW fits \in BOOLEAN
  PROVE  LET r == ReceiveOutcome(t, fits) IN
         /\ r.t \in TransportState
         /\ r.ret \in {"NoData", "Overflow", "Complete"}
         /\ r.ret = "Complete" => t.pending \in Message /\ fits
BY TakingEmpties DEF ReceiveOutcome, TransportState

\* Frames complete a message only where there is none.
LEMMA FramesKeepTransport ==
  ASSUME NEW t \in TransportState, NEW e \in FrameStates(t)
  PROVE  /\ e \in TransportState
         /\ t.pending # NoMessage => e.pending = t.pending
<1>1. CASE \E m \in Message : t.pending = NoMessage /\ e = MessageArrives(t, m)
  <2>1. PICK m \in Message : t.pending = NoMessage /\ e = [EndAssembly(t) EXCEPT !.pending = m]
    BY <1>1 DEF MessageArrives
  <2>2. EndAssembly(t) \in TransportState
    BY DirectionsAreSeparate
  <2>3. e \in TransportState
    BY <2>1, <2>2 DEF TransportState
  <2> QED
    BY <2>1, <2>3
<1>2. CASE e \in {t, EndTransmission(t), EndAssembly(t), BeginAssembly(t)}
  BY <1>2, DirectionsAreSeparate
<1> QED
  BY <1>1, <1>2 DEF FrameStates

(***************************************************************************)
(* The helpers keep what holds.                                            *)
(***************************************************************************)

LEMMA NotingTransportKeeps ==
  ASSUME NEW u, NEW s, NEW a, NEW e, Holds(u, s, a, e), NEW ret \in TransportStatus
  PROVE  LET v == [u EXCEPT !.lastTransport = ret] IN
         /\ Holds(v, s, a, e)
         /\ v.state = u.state /\ v.kind = u.kind /\ v.did = u.did /\ v.result = u.result
         /\ v.pendingCount = u.pendingCount /\ v.waitLeft = u.waitLeft /\ v.status = u.status
<1> DEFINE v == [u EXCEPT !.lastTransport = ret]
<1>1. u \in UdsState
  BY DEF Holds, TypesFit
<1>2. v \in UdsState
  BY <1>1 DEF UdsState
<1>3. /\ v.state = u.state /\ v.kind = u.kind /\ v.did = u.did /\ v.result = u.result
      /\ v.pendingCount = u.pendingCount /\ v.waitLeft = u.waitLeft /\ v.status = u.status
  BY <1>1 DEF UdsState
<1> HIDE DEF v
<1>4. Holds(v, s, a, e)
  BY <1>2, <1>3 DEF Holds, TypesFit, WaitFits, RequestFits, ResultFits, Asks, Answers
<1> QED
  BY <1>3, <1>4 DEF v

LEMMA SetStatusKeeps ==
  ASSUME NEW u, NEW s, NEW a, NEW e, Holds(u, s, a, e),
         NEW status \in UdsServiceStatus \ {"ResponseReady"}
  PROVE  /\ Holds(SetStatus(u, status), s, a, e)
         /\ SetStatus(u, status).state = u.state
         /\ SetStatus(u, status).status = status
         /\ SetStatus(u, status).result = u.result
<1> DEFINE v == SetStatus(u, status)
<1>1. u \in UdsState
  BY DEF Holds, TypesFit
<1>2. v \in UdsState
  BY <1>1 DEF UdsState, SetStatus
<1>3. /\ v.state = u.state /\ v.kind = u.kind /\ v.did = u.did /\ v.result = u.result
      /\ v.pendingCount = u.pendingCount /\ v.waitLeft = u.waitLeft /\ v.status = status
  BY <1>1 DEF UdsState, SetStatus
<1> HIDE DEF v
<1>4. Holds(v, s, a, e)
  BY <1>2, <1>3 DEF Holds, TypesFit, WaitFits, RequestFits, ResultFits, Asks
<1> QED
  BY <1>3, <1>4 DEF v

Ended(u, status) == [SetStatus(u, status) EXCEPT !.state = "Idle", !.waitLeft = 0]

LEMMA EndedHas ==
  ASSUME NEW u \in UdsState, NEW status \in UdsServiceStatus
  PROVE  LET v == Ended(u, status) IN
         /\ v \in UdsState
         /\ v.state = "Idle" /\ v.waitLeft = 0 /\ v.status = status
         /\ v.kind = u.kind /\ v.did = u.did /\ v.result = u.result
         /\ v.pendingCount = u.pendingCount
<1> DEFINE w == SetStatus(u, status)
<1>1. /\ w \in UdsState /\ w.status = status
      /\ w.kind = u.kind /\ w.did = u.did /\ w.result = u.result
      /\ w.pendingCount = u.pendingCount
  BY DEF UdsState, SetStatus
<1> HIDE DEF w
<1>2. [w EXCEPT !.state = "Idle", !.waitLeft = 0] \in UdsState
  BY <1>1 DEF UdsState
<1> QED
  BY <1>1, <1>2 DEF UdsState, Ended, w

\* Ending with a failure keeps whatever result was there and counts no time.
LEMMA EndingKeeps ==
  ASSUME NEW u, NEW s, NEW a, NEW e, Holds(u, s, a, e),
         NEW status \in UdsServiceStatus \ {"ResponseReady"}
  PROVE  Holds(Ended(u, status), s, a, e)
<1> DEFINE v == Ended(u, status)
<1>1. u \in UdsState
  BY DEF Holds, TypesFit
<1>2. /\ v \in UdsState
      /\ v.state = "Idle" /\ v.waitLeft = 0 /\ v.status = status
      /\ v.pendingCount = u.pendingCount
  BY <1>1, EndedHas
<1> HIDE DEF v
<1>3. Holds(v, s, a, e)
  BY <1>2 DEF Holds, TypesFit, WaitFits, RequestFits, ResultFits
<1> QED
  BY <1>3 DEF v

LEMMA CountsAreNatural ==
  ASSUME NEW u \in UdsState
  PROVE  u.waitLeft \in Nat /\ u.pendingCount \in Nat
<1>1. u.waitLeft \in Nat /\ u.pendingCount \in Byte
  BY DEF UdsState
<1> QED
  BY <1>1 DEF Byte

LEMMA NotingTransportHas ==
  ASSUME NEW u \in UdsState, NEW ret \in TransportStatus
  PROVE  LET v == [u EXCEPT !.lastTransport = ret] IN
         /\ v \in UdsState
         /\ v.state = u.state /\ v.kind = u.kind /\ v.did = u.did /\ v.result = u.result
         /\ v.pendingCount = u.pendingCount /\ v.waitLeft = u.waitLeft /\ v.status = u.status
BY DEF UdsState

LEMMA SetStatusHas ==
  ASSUME NEW u \in UdsState, NEW status \in UdsServiceStatus
  PROVE  LET v == SetStatus(u, status) IN
         /\ v \in UdsState
         /\ v.state = u.state /\ v.kind = u.kind /\ v.did = u.did /\ v.result = u.result
         /\ v.pendingCount = u.pendingCount /\ v.waitLeft = u.waitLeft /\ v.status = status
BY DEF UdsState, SetStatus

LEMMA BeginWaitHas ==
  ASSUME NEW u \in UdsState, NEW timeout \in Nat
  PROVE  LET v == BeginResponseWait(u, timeout) IN
         /\ v \in UdsState
         /\ v.state = "AwaitingResponse" /\ v.waitLeft = timeout
         /\ v.kind = u.kind /\ v.did = u.did /\ v.result = u.result
         /\ v.pendingCount = u.pendingCount /\ v.status = u.status
BY DEF UdsState, BeginResponseWait

\* The state the wait for a response begins in, from the service u.
Waiting(u, timeout, status) == SetStatus(BeginResponseWait(u, timeout), status)

LEMMA WaitingHas ==
  ASSUME NEW u \in UdsState, NEW timeout \in Nat, NEW status \in UdsServiceStatus
  PROVE  LET v == Waiting(u, timeout, status) IN
         /\ v \in UdsState
         /\ v.state = "AwaitingResponse" /\ v.waitLeft = timeout /\ v.status = status
         /\ v.kind = u.kind /\ v.did = u.did /\ v.result = u.result
         /\ v.pendingCount = u.pendingCount
<1> DEFINE w == BeginResponseWait(u, timeout)
<1>1. /\ w \in UdsState
      /\ w.state = "AwaitingResponse" /\ w.waitLeft = timeout
      /\ w.kind = u.kind /\ w.did = u.did /\ w.result = u.result
      /\ w.pendingCount = u.pendingCount
  BY BeginWaitHas
<1> HIDE DEF w
<1>2. /\ SetStatus(w, status) \in UdsState
      /\ SetStatus(w, status).state = w.state /\ SetStatus(w, status).kind = w.kind
      /\ SetStatus(w, status).did = w.did /\ SetStatus(w, status).result = w.result
      /\ SetStatus(w, status).pendingCount = w.pendingCount
      /\ SetStatus(w, status).waitLeft = w.waitLeft /\ SetStatus(w, status).status = status
  BY <1>1, SetStatusHas
<1> QED
  BY <1>1, <1>2 DEF Waiting, w

\* The service with its result cleared and a new request noted.
Prepared(u, kind, did) == [ClearResult(u) EXCEPT !.kind = kind, !.did = did]

LEMMA PreparedHas ==
  ASSUME NEW u \in UdsState, NEW kind \in RequestKind, NEW did \in Byte \X Byte
  PROVE  LET v == Prepared(u, kind, did) IN
         /\ v \in UdsState
         /\ v.state = u.state /\ v.waitLeft = u.waitLeft /\ v.status = u.status
         /\ v.kind = kind /\ v.did = did /\ v.result = NoResult /\ v.pendingCount = 0
<1> DEFINE w == ClearResult(u)
<1>1. NoResult \in [raw : Seq(Byte), mask : Byte, dtcs : Seq(Seq(Byte))] /\ 0 \in Byte
  BY DEF NoResult, Byte
<1>2. /\ w \in UdsState
      /\ w.state = u.state /\ w.waitLeft = u.waitLeft /\ w.status = u.status
      /\ w.result = NoResult /\ w.pendingCount = 0
  BY <1>1 DEF UdsState, ClearResult
<1> HIDE DEF w
<1>3. LET v == [w EXCEPT !.kind = kind, !.did = did] IN
      /\ v \in UdsState
      /\ v.state = w.state /\ v.waitLeft = w.waitLeft /\ v.status = w.status
      /\ v.kind = kind /\ v.did = did /\ v.result = w.result /\ v.pendingCount = w.pendingCount
  BY <1>2 DEF UdsState
<1> QED
  BY <1>2, <1>3 DEF Prepared, w

\* The payloads the guard builds.
LEMMA ReadPayload ==
  ASSUME NEW did \in Byte \X Byte
  PROVE  LET g == startUdsReadDataByIdentifier(did) IN
         /\ g.status = "Forwarded" /\ g.payload \in Seq(Byte) /\ Len(g.payload) = 3
         /\ g.payload[1] = kUdsReadDataByIdentifier
         /\ g.payload[2] = did[1] /\ g.payload[3] = did[2]
<1> DEFINE h == <<kUdsReadDataByIdentifier>>
<1>0. did \in Seq(Byte) /\ Len(did) = 2
  <2>1. PICK x \in Byte, y \in Byte : did = <<x, y>>
    OBVIOUS
  <2>2. <<x, y>> \in Seq(Byte) /\ Len(<<x, y>>) = 2
    OBVIOUS
  <2> QED
    BY <2>1, <2>2
<1>1. h \in Seq(Byte) /\ Len(h) = 1 /\ h[1] = kUdsReadDataByIdentifier
  <2>1. kUdsReadDataByIdentifier \in Byte
    BY DEF kUdsReadDataByIdentifier, Byte
  <2> QED
    BY <2>1
<1> HIDE DEF h
<1>2. /\ h \o did \in Seq(Byte) /\ Len(h \o did) = 3
      /\ \A i \in 1 .. 3 : (h \o did)[i] = IF i <= 1 THEN h[i] ELSE did[i - 1]
  BY <1>0, <1>1, ConcatProperties
<1>3. (h \o did)[1] = h[1] /\ (h \o did)[2] = did[1] /\ (h \o did)[3] = did[2]
  BY <1>2
<1> QED
  BY <1>1, <1>2, <1>3 DEF startUdsReadDataByIdentifier, Forward, h

LEMMA ReportPayload ==
  ASSUME NEW mask \in Byte
  PROVE  LET g == startUdsReportDtcByStatusMask(mask) IN
         /\ g.status = "Forwarded" /\ g.payload \in Seq(Byte) /\ Len(g.payload) = 3
         /\ g.payload[1] = kUdsReadDtcInformation /\ g.payload[2] = kReportDtcByStatusMask
<1>1. <<kUdsReadDtcInformation, kReportDtcByStatusMask, mask>> \in Seq(Byte)
  BY DEF kUdsReadDtcInformation, kReportDtcByStatusMask, Byte
<1> QED
  BY <1>1 DEF startUdsReportDtcByStatusMask, Forward

(***************************************************************************)
(* Every action keeps IInv.                                                *)
(***************************************************************************)

LEMMA Kept ==
  ASSUME config \in UdsServiceConfig, config' = config, transport' \in TransportState,
         Holds(uds', sent', answer', elapsed')
  PROVE  IInv'
BY DEF IInv, Holds, TypesFit, WaitFits, Budget, MaxElapsed, MaxWait

LEMMA InitHolds == Init => IInv
<1> SUFFICES ASSUME Init
             PROVE  IInv
  OBVIOUS
<1>1. NoResult \in [raw : Seq(Byte), mask : Byte, dtcs : Seq(Seq(Byte))] /\ 0 \in Byte
  BY DEF NoResult, Byte
<1>2. "ReadDataByIdentifier" \in RequestKind /\ "Idle" \in TransportStatus
      /\ "Idle" \in UdsServiceStatus
  BY Kinds DEF TransportStatus, UdsServiceStatus
<1>3. /\ uds \in UdsState
      /\ uds.state = "Idle" /\ uds.status = "Idle" /\ uds.waitLeft = 0 /\ uds.pendingCount = 0
  BY <1>1, <1>2 DEF Init, UdsState
<1>4. config \in UdsServiceConfig /\ config.maxPending \in Nat /\ MaxWait \in Nat
  <2>0. config \in UdsServiceConfig
    BY DEF Init
  <2>1. config \in UdsServiceConfig /\ config.maxPending \in Nat
    BY <2>0, ConfigIsTyped
  <2>2. MaxWait \in Nat
    BY <2>1, BudgetStarts
  <2> QED
    BY <2>1, <2>2
<1>5. transport \in TransportState
  BY IdleIsTransport DEF Init
<1>6. sent \in Seq(Byte) /\ answer \in Seq(Byte) /\ elapsed \in 0 .. MaxElapsed
  BY <1>4 DEF Init, MaxElapsed
<1> QED
  BY <1>3, <1>4, <1>5, <1>6 DEF IInv, Holds, TypesFit, WaitFits, RequestFits, ResultFits

\* An idle service has no time left to wait.
LEMMA IdleWaitsForNothing ==
  ASSUME IInv
  PROVE  /\ uds \in UdsState /\ config.maxPending \in Nat /\ MaxWait \in Nat
         /\ config.responseTimeout \in Nat /\ config.pendingTimeout \in Nat
         /\ uds.pendingCount \in Nat
         /\ uds.state # "AwaitingResponse" => uds.waitLeft = 0
<1>1. /\ uds \in UdsState /\ config \in UdsServiceConfig
      /\ uds.waitLeft > 0 => uds.state = "AwaitingResponse"
  BY DEF IInv, Holds, TypesFit
<1>2. /\ uds.waitLeft \in Nat /\ config.maxPending \in Nat
      /\ config.responseTimeout \in Nat /\ config.pendingTimeout \in Nat
      /\ uds.pendingCount \in Nat
  <2>1. uds.waitLeft \in Nat /\ uds.pendingCount \in Nat
    <3>1. uds.waitLeft \in Nat /\ uds.pendingCount \in Byte
      BY <1>1 DEF UdsState
    <3> QED
      BY <3>1 DEF Byte
  <2>2. config \in UdsServiceConfig
    BY <1>1
  <2>3. /\ config.responseTimeout \in Nat /\ config.pendingTimeout \in Nat
        /\ config.maxPending \in Nat
    BY <2>2, ConfigIsTyped
  <2> QED
    BY <2>1, <2>3
<1>3. MaxWait \in Nat
  BY <1>1, <1>2, BudgetStarts
<1> QED
  BY <1>1, <1>2, <1>3

\* An accepted request has cleared the result; it goes on, or its transmission failed.
Started ==
  /\ uds'.result = NoResult
  /\ \/ uds'.state # "Idle" /\ uds'.status = "InProgress"
     \/ uds'.state = "Idle" /\ uds'.status = "TransportFailure"

LEMMA BeginKeeps ==
  ASSUME IInv, NEW kind \in RequestKind, NEW did \in Byte \X Byte, NEW g,
         g.status = "Forwarded", g.payload \in Seq(Byte),
         \A v : v.kind = kind /\ v.did = did => Asks(v, g.payload),
         Begin(kind, did, g)
  PROVE  IInv' /\ Started
<1> DEFINE v == Prepared(uds, kind, did)
<1>1. /\ uds \in UdsState /\ config.maxPending \in Nat /\ MaxWait \in Nat
      /\ config.responseTimeout \in Nat /\ uds.state = "Idle" /\ uds.waitLeft = 0
  BY IdleWaitsForNothing DEF Begin, IsRequestActive
<1>2. config \in UdsServiceConfig /\ config' = config /\ transport \in TransportState
      /\ answer' = <<>> /\ elapsed' = 0
  BY DEF IInv, Begin
<1>3. /\ v \in UdsState
      /\ v.state = "Idle" /\ v.waitLeft = 0 /\ v.kind = kind /\ v.did = did
      /\ v.pendingCount = 0 /\ v.result = NoResult
  BY <1>1, PreparedHas
<1>4. StartGuardedRequest(v, g) /\ ~IsRequestActive
  BY DEF Begin, Prepared
<1> HIDE DEF v
<1>5. PICK o \in StartSendOutcomes(transport) :
        LET u == [v EXCEPT !.lastTransport = o.ret] IN
         /\ sent' = g.payload
         /\ CASE o.ret = "Complete" ->
                   Continue(o.t, BeginResponseWait(u, config.responseTimeout), "InProgress")
              [] o.ret = "InProgress" ->
                   Continue(o.t, [u EXCEPT !.state = "AwaitingTransmit"], "InProgress")
              [] OTHER -> Finish(o.t, u, "TransportFailure")
  BY <1>4 DEF StartGuardedRequest
<1> DEFINE u == [v EXCEPT !.lastTransport = o.ret]
<1>6. o.t \in TransportState /\ o.ret \in TransportStatus
  BY <1>2, StartSendKeepsTransport
<1>7. /\ u \in UdsState
      /\ u.state = "Idle" /\ u.waitLeft = 0 /\ u.kind = kind /\ u.did = did
      /\ u.pendingCount = 0 /\ u.result = NoResult
  BY <1>3, <1>6, NotingTransportHas
<1>8. /\ sent' = g.payload
      /\ CASE o.ret = "Complete" ->
                   Continue(o.t, BeginResponseWait(u, config.responseTimeout), "InProgress")
           [] o.ret = "InProgress" ->
                   Continue(o.t, [u EXCEPT !.state = "AwaitingTransmit"], "InProgress")
           [] OTHER -> Finish(o.t, u, "TransportFailure")
  BY <1>5
<1> HIDE DEF u
<1>9. "InProgress" \in UdsServiceStatus /\ "TransportFailure" \in UdsServiceStatus
  BY DEF UdsServiceStatus
<1>10. Budget(0) = config.responseTimeout
  BY <1>1, <1>2, BudgetStarts
<1>11. sent' \in Seq(Byte) /\ answer' \in Seq(Byte) /\ elapsed' \in 0 .. MaxElapsed
  BY <1>1, <1>2, <1>8 DEF MaxElapsed
<1>12. CASE o.ret = "Complete"
  <2>1. transport' = o.t
        /\ uds' = Waiting(u, config.responseTimeout, "InProgress")
    BY <1>8, <1>12 DEF Continue, Waiting
  <2>2. /\ uds' \in UdsState /\ uds'.state = "AwaitingResponse"
        /\ uds'.waitLeft = config.responseTimeout /\ uds'.status = "InProgress"
        /\ uds'.kind = kind /\ uds'.did = did /\ uds'.pendingCount = 0
        /\ uds'.result = NoResult
    <3>1. u \in UdsState /\ config.responseTimeout \in Nat /\ "InProgress" \in UdsServiceStatus
      BY <1>1, <1>7, <1>9
    <3>2. LET v1 == Waiting(u, config.responseTimeout, "InProgress") IN
          /\ v1 \in UdsState
          /\ v1.state = "AwaitingResponse" /\ v1.waitLeft = config.responseTimeout
          /\ v1.status = "InProgress"
          /\ v1.kind = u.kind /\ v1.did = u.did /\ v1.result = u.result
          /\ v1.pendingCount = u.pendingCount
      BY <3>1, WaitingHas
    <3> QED
      BY <1>7, <2>1, <3>2
  <2>3. Asks(uds', sent')
    <3>1. uds'.kind = kind /\ uds'.did = did => Asks(uds', g.payload)
      OBVIOUS
    <3> QED
      BY <1>8, <2>2, <3>1
  <2>4. Holds(uds', sent', answer', elapsed')
    BY <1>1, <1>2, <1>10, <1>11, <2>2, <2>3
       DEF Holds, TypesFit, WaitFits, RequestFits, ResultFits
  <2>5. Started
    BY <2>2 DEF Started
  <2> QED
    BY <1>2, <1>6, <2>1, <2>4, <2>5, Kept
<1>13. CASE o.ret = "InProgress"
  <2> DEFINE w == [u EXCEPT !.state = "AwaitingTransmit"]
  <2>1. transport' = o.t /\ uds' = SetStatus(w, "InProgress")
    BY <1>8, <1>13 DEF Continue
  <2>2. /\ w \in UdsState /\ w.state = "AwaitingTransmit" /\ w.waitLeft = 0
        /\ w.kind = kind /\ w.did = did /\ w.pendingCount = 0
        /\ w.result = NoResult
    BY <1>7 DEF UdsState
  <2> HIDE DEF w
  <2>3. /\ uds' \in UdsState /\ uds'.state = "AwaitingTransmit"
        /\ uds'.waitLeft = 0 /\ uds'.status = "InProgress"
        /\ uds'.kind = kind /\ uds'.did = did /\ uds'.pendingCount = 0
        /\ uds'.result = NoResult
    BY <1>9, <2>1, <2>2, SetStatusHas
  <2>4. Asks(uds', sent')
    <3>1. uds'.kind = kind /\ uds'.did = did => Asks(uds', g.payload)
      OBVIOUS
    <3> QED
      BY <1>8, <2>3, <3>1
  <2>5. Holds(uds', sent', answer', elapsed')
    BY <1>1, <1>2, <1>11, <2>3, <2>4
       DEF Holds, TypesFit, WaitFits, RequestFits, ResultFits
  <2>6. Started
    BY <2>3 DEF Started
  <2> QED
    BY <1>2, <1>6, <2>1, <2>5, <2>6, Kept
<1>14. CASE o.ret \notin {"Complete", "InProgress"}
  <2>1. transport' = o.t /\ uds' = Ended(u, "TransportFailure")
    BY <1>4, <1>8, <1>14 DEF Finish, Ended
  <2>2. /\ uds' \in UdsState /\ uds'.state = "Idle"
        /\ uds'.waitLeft = 0 /\ uds'.status = "TransportFailure" /\ uds'.pendingCount = 0
        /\ uds'.result = NoResult
    BY <1>7, <1>9, <2>1, EndedHas
  <2>3. Holds(uds', sent', answer', elapsed')
    BY <1>1, <1>2, <1>11, <2>2
       DEF Holds, TypesFit, WaitFits, RequestFits, ResultFits
  <2>4. Started
    BY <2>2 DEF Started
  <2> QED
    BY <1>2, <1>6, <2>1, <2>3, <2>4, Kept
<1> QED
  BY <1>12, <1>13, <1>14

LEMMA ReadKeeps ==
  ASSUME IInv, NEW did \in Dids,
         Begin("ReadDataByIdentifier", did, startUdsReadDataByIdentifier(did))
  PROVE  IInv' /\ Started
<1> DEFINE g == startUdsReadDataByIdentifier(did)
<1>1. did \in Byte \X Byte /\ "ReadDataByIdentifier" \in RequestKind
  BY DidsAreTwoBytes, Kinds
<1>2. /\ g.status = "Forwarded" /\ g.payload \in Seq(Byte) /\ Len(g.payload) = 3
      /\ g.payload[1] = kUdsReadDataByIdentifier
      /\ g.payload[2] = did[1] /\ g.payload[3] = did[2]
  BY <1>1, ReadPayload
<1>3. Begin("ReadDataByIdentifier", did, g)
  OBVIOUS
<1> HIDE DEF g
<1>4. \A v : v.kind = "ReadDataByIdentifier" /\ v.did = did => Asks(v, g.payload)
  BY <1>2 DEF Asks
<1> QED
  BY <1>1, <1>2, <1>3, <1>4, BeginKeeps

LEMMA ReportKeeps ==
  ASSUME IInv, NEW mask \in StatusMasks,
         Begin("ReportDtcByStatusMask", uds.did, startUdsReportDtcByStatusMask(mask))
  PROVE  IInv' /\ Started
<1> DEFINE g == startUdsReportDtcByStatusMask(mask)
           did == uds.did
<1>1. mask \in Byte /\ "ReportDtcByStatusMask" \in RequestKind /\ did \in Byte \X Byte
  <2>1. uds \in UdsState
    BY IdleWaitsForNothing
  <2> QED
    BY <2>1, DidsAreTwoBytes, Kinds DEF UdsState
<1>2. /\ g.status = "Forwarded" /\ g.payload \in Seq(Byte) /\ Len(g.payload) = 3
      /\ g.payload[1] = kUdsReadDtcInformation /\ g.payload[2] = kReportDtcByStatusMask
  BY <1>1, ReportPayload
<1>3. Begin("ReportDtcByStatusMask", did, g)
  OBVIOUS
<1> HIDE DEF g, did
<1>4. \A v : v.kind = "ReportDtcByStatusMask" /\ v.did = did => Asks(v, g.payload)
  BY <1>2 DEF Asks
<1> QED
  BY <1>1, <1>2, <1>3, <1>4, BeginKeeps

LEMMA RejectWhileActiveKeeps ==
  ASSUME IInv, RejectWhileActive
  PROVE  IInv'
<1>1. "Busy" \in UdsServiceStatus \ {"ResponseReady"}
  BY DEF UdsServiceStatus
<1>2. Holds(SetStatus(uds, "Busy"), sent, answer, elapsed)
  BY <1>1, SetStatusKeeps DEF IInv
<1>3. Holds(uds', sent', answer', elapsed')
  BY <1>2 DEF RejectWhileActive
<1> QED
  BY <1>3, Kept DEF RejectWhileActive, IInv

LEMMA RejectMisconfiguredKeeps ==
  ASSUME IInv, RejectMisconfigured
  PROVE  IInv'
<1> DEFINE v == SetStatus(uds, "InvalidRequest")
<1>1. uds \in UdsState /\ uds.state = "Idle" /\ uds.waitLeft = 0
      /\ "InvalidRequest" \in UdsServiceStatus \ {"ResponseReady"}
  BY IdleWaitsForNothing DEF RejectMisconfigured, IsRequestActive, UdsServiceStatus
<1>2. /\ v \in UdsState /\ v.state = uds.state /\ v.status = "InvalidRequest"
      /\ v.waitLeft = uds.waitLeft /\ v.pendingCount = uds.pendingCount
  BY <1>1, SetStatusHas
<1>3. uds' = [v EXCEPT !.state = "Idle"]
  BY DEF RejectMisconfigured, FinishWithoutTransport
<1> HIDE DEF v
<1>4. /\ uds' \in UdsState /\ uds'.state = "Idle" /\ uds'.status = "InvalidRequest"
      /\ uds'.waitLeft = 0 /\ uds'.pendingCount = uds.pendingCount
  BY <1>1, <1>2, <1>3 DEF UdsState
<1>5. TypesFit(uds, sent, answer, elapsed)
  BY DEF IInv, Holds
<1>6. sent' = sent /\ answer' = answer /\ elapsed' = elapsed
  BY DEF RejectMisconfigured
<1>7. Holds(uds', sent', answer', elapsed')
  BY <1>4, <1>5, <1>6 DEF Holds, TypesFit, WaitFits, RequestFits, ResultFits
<1> QED
  BY <1>7, Kept DEF RejectMisconfigured, FinishWithoutTransport, IInv

\* A request goes on, or ends without a result.
LEMMA ContinueKeeps ==
  ASSUME IInv, config' = config, sent' = sent, answer' = answer, elapsed' = elapsed,
         NEW t \in TransportState, NEW u, Holds(u, sent, answer, elapsed),
         NEW status \in UdsServiceStatus \ {"ResponseReady"}, Continue(t, u, status)
  PROVE  IInv'
<1>1. Holds(SetStatus(u, status), sent, answer, elapsed)
  BY SetStatusKeeps
<1>2. uds' = SetStatus(u, status) /\ transport' = t
  BY DEF Continue
<1>3. Holds(uds', sent', answer', elapsed')
  BY <1>1, <1>2
<1> QED
  BY <1>2, <1>3, Kept DEF IInv

LEMMA FinishKeepsTransport ==
  ASSUME NEW t \in TransportState, NEW u, NEW status, Finish(t, u, status)
  PROVE  /\ transport' \in TransportState /\ uds' = Ended(u, status)
         /\ IsRequestActive => transport'.pending = NoMessage
BY TakingEmpties DEF Finish, Ended, DiscardOutcome

LEMMA FinishKeeps ==
  ASSUME IInv, config' = config, sent' = sent, answer' = answer, elapsed' = elapsed,
         NEW t \in TransportState, NEW u, Holds(u, sent, answer, elapsed),
         NEW status \in UdsServiceStatus \ {"ResponseReady"}, Finish(t, u, status)
  PROVE  IInv'
<1>1. Holds(Ended(u, status), sent, answer, elapsed)
  BY EndingKeeps
<1>2. uds' = Ended(u, status) /\ transport' \in TransportState
  BY FinishKeepsTransport
<1>3. Holds(uds', sent', answer', elapsed')
  BY <1>1, <1>2
<1> QED
  BY <1>2, <1>3, Kept DEF IInv

\* A response wait begins: nothing has counted against it that its budget does not cover.
LEMMA WaitBegins ==
  ASSUME IInv, config' = config, sent' = sent, answer' = answer, elapsed' = elapsed,
         NEW t \in TransportState, NEW u \in UdsState,
         NEW timeout \in Nat, NEW status \in UdsServiceStatus \ {"ResponseReady"},
         u.pendingCount <= config.maxPending, Asks(u, sent),
         elapsed + timeout <= Budget(u.pendingCount),
         Continue(t, BeginResponseWait(u, timeout), status)
  PROVE  IInv'
<1>1. uds' = Waiting(u, timeout, status) /\ transport' = t
  BY DEF Continue, Waiting
<1>2. LET v == Waiting(u, timeout, status) IN
         /\ v \in UdsState
         /\ v.state = "AwaitingResponse" /\ v.waitLeft = timeout /\ v.status = status
         /\ v.kind = u.kind /\ v.did = u.did /\ v.result = u.result
         /\ v.pendingCount = u.pendingCount
  BY WaitingHas
<1>3. /\ uds' \in UdsState
      /\ uds'.state = "AwaitingResponse" /\ uds'.waitLeft = timeout /\ uds'.status = status
      /\ uds'.kind = u.kind /\ uds'.did = u.did /\ uds'.pendingCount = u.pendingCount
  BY <1>1, <1>2
<1>4. TypesFit(uds', sent', answer', elapsed')
  BY <1>3 DEF TypesFit, Holds, IInv
<1>5. WaitFits(uds', elapsed')
  BY <1>3 DEF WaitFits
<1>6. RequestFits(uds', sent') /\ ResultFits(uds', answer')
  BY <1>3 DEF RequestFits, ResultFits, Asks
<1> QED
  BY <1>1, <1>4, <1>5, <1>6, Kept DEF IInv, Holds

(***************************************************************************)
(* What the handlers conclude from a response, and the result they read.   *)
(***************************************************************************)

LEMMA ReadyVerdict ==
  ASSUME NEW u \in UdsState, NEW r \in Seq(Byte), Verdict(u, r) = "ResponseReady"
  PROVE  \/ /\ u.kind = "ReadDataByIdentifier"
            /\ Len(r) > 3 /\ r[1] = PositiveService(kUdsReadDataByIdentifier)
            /\ r[2] = u.did[1] /\ r[3] = u.did[2]
         \/ /\ u.kind = "ReportDtcByStatusMask"
            /\ Len(r) >= 3 /\ (Len(r) - 3) % 4 = 0
            /\ r[1] = PositiveService(kUdsReadDtcInformation)
            /\ r[2] = kReportDtcByStatusMask
<1>1. Len(r) \in Nat /\ u.kind \in {"ReadDataByIdentifier", "ReportDtcByStatusMask"}
  BY Kinds DEF UdsState
<1>2. r # <<>> /\ r[1] # kNegativeResponse /\ r[1] = PositiveService(ServiceOf[u.kind])
      /\ IF u.kind = "ReadDataByIdentifier" THEN DidVerdict(u, r) = "ResponseReady"
         ELSE DtcVerdict(r) = "ResponseReady"
  BY DEF Verdict, NegativeVerdict
<1>3. CASE u.kind = "ReadDataByIdentifier"
  <2>1. DidVerdict(u, r) = "ResponseReady"
    BY <1>2, <1>3
  <2>2. ~(Len(r) < 3) /\ <<r[2], r[3]>> = u.did /\ Len(r) # 3
    BY <2>1, Zenon DEF DidVerdict
  <2>3. Len(r) > 3
    <3> DEFINE n == Len(r)
    <3>1. n \in Nat
      BY <1>1
    <3>2. ~(n < 3)
      BY <2>2
    <3>3. n # 3
      BY <2>2
    <3> HIDE DEF n
    <3>4. n > 3
      BY <3>1, <3>2, <3>3
    <3> QED
      BY <3>4 DEF n
  <2>4. u.did[1] = r[2] /\ u.did[2] = r[3]
    <3>1. <<r[2], r[3]>>[1] = r[2] /\ <<r[2], r[3]>>[2] = r[3]
      OBVIOUS
    <3>2. <<r[2], r[3]>> = u.did
      BY <2>2
    <3> QED
      BY <3>1, <3>2, Zenon
  <2> QED
    BY <1>2, <1>3, <2>3, <2>4, Kinds
<1>4. CASE u.kind = "ReportDtcByStatusMask"
  <2>1. DtcVerdict(r) = "ResponseReady"
    BY <1>2, <1>4
  <2>2. r[2] = kReportDtcByStatusMask /\ ~(Len(r) < 3) /\ ~((Len(r) - 3) % 4 # 0)
    BY <2>1, Zenon DEF DtcVerdict
  <2>3. Len(r) >= 3
    BY <1>1, <2>2
  <2> QED
    BY <1>2, <1>4, <2>2, <2>3, Kinds
<1> QED
  BY <1>1, <1>3, <1>4

LEMMA PendingVerdict ==
  ASSUME NEW u \in UdsState, NEW r, Verdict(u, r) = "ResponsePending",
         config \in UdsServiceConfig
  PROVE  Len(r) = 3 /\ u.pendingCount + 1 <= config.maxPending
<1>1. DidVerdict(u, r) # "ResponsePending" /\ DtcVerdict(r) # "ResponsePending"
  BY DEF DidVerdict, DtcVerdict
<1>2. NegativeVerdict(u, r) = "ResponsePending"
  BY <1>1 DEF Verdict
<1>3. Len(r) = 3 /\ ~(u.pendingCount >= config.maxPending)
  BY <1>2, Zenon DEF NegativeVerdict
<1>4. u.pendingCount \in Nat
  <2>1. u.pendingCount \in Byte
    BY DEF UdsState
  <2> QED
    BY <2>1 DEF Byte
<1>5. config.maxPending \in Nat
  BY ConfigIsTyped
<1> QED
  BY <1>3, <1>4, <1>5

LEMMA RefusalVerdict ==
  ASSUME NEW u, NEW r, Verdict(u, r) \in {"NegativeResponse", "PendingLimitExceeded"}
  PROVE  Len(r) = 3
<1>1. DidVerdict(u, r) \notin {"NegativeResponse", "PendingLimitExceeded"}
      /\ DtcVerdict(r) \notin {"NegativeResponse", "PendingLimitExceeded"}
  BY DEF DidVerdict, DtcVerdict
<1>2. NegativeVerdict(u, r) \in {"NegativeResponse", "PendingLimitExceeded"}
  BY <1>1 DEF Verdict
<1> QED
  BY <1>2 DEF NegativeVerdict

\* A report holds one record for every four bytes after its header.
LEMMA RecordsOfReport ==
  ASSUME NEW r \in Seq(Byte), Len(r) >= 3, (Len(r) - 3) % 4 = 0
  PROVE  LET n == (Len(r) - 3) \div 4
             d == [i \in 1 .. n |-> SubSeq(r, 4 * i, 4 * i + 3)]
         IN  /\ d \in Seq(Seq(Byte)) /\ Len(r) = 3 + 4 * Len(d)
             /\ \A i \in DOMAIN d : d[i] = SubSeq(r, 4 * i, 4 * i + 3)
<1> DEFINE n == (Len(r) - 3) \div 4
           d == [i \in 1 .. n |-> SubSeq(r, 4 * i, 4 * i + 3)]
<1>1. Len(r) \in Nat
  OBVIOUS
<1>2. n \in Nat /\ Len(r) = 3 + 4 * n
  <2>1. ASSUME NEW l \in Nat, l >= 3, (l - 3) % 4 = 0
        PROVE  (l - 3) \div 4 \in Nat /\ l = 3 + 4 * ((l - 3) \div 4)
    BY <2>1, Z3
  <2> QED
    BY <1>1, <2>1
<1> HIDE DEF n
<1>3. ASSUME NEW i \in 1 .. n
      PROVE  SubSeq(r, 4 * i, 4 * i + 3) \in Seq(Byte)
  <2>1. 4 * i \in Int /\ 4 * i + 3 \in Int /\ 4 * i >= 1 /\ 4 * i + 3 <= Len(r)
    BY <1>2
  <2>2. \A j \in 4 * i .. 4 * i + 3 : r[j] \in Byte
    BY <1>1, <2>1, ElementOfSeq
  <2> QED
    BY <2>1, <2>2, SubSeqProperties
<1>4. d \in [1 .. n -> Seq(Byte)]
  BY <1>3
<1>5. d \in Seq(Seq(Byte))
  BY <1>2, <1>4, SeqDef
<1>6. DOMAIN d = 1 .. n /\ DOMAIN d = 1 .. Len(d) /\ Len(d) \in Nat
  BY <1>5, LenProperties
<1>7. Len(d) = n
  BY <1>2, <1>6
<1>8. \A i \in DOMAIN d : d[i] = SubSeq(r, 4 * i, 4 * i + 3)
  OBVIOUS
<1> HIDE DEF d
<1> QED
  BY <1>2, <1>5, <1>7, <1>8 DEF n, d

LEMMA ResultIsTyped ==
  ASSUME NEW u \in UdsState, NEW r \in Seq(Byte), Verdict(u, r) = "ResponseReady"
  PROVE  LET x == ResultOf(u.kind, r) IN
         /\ x \in [raw : Seq(Byte), mask : Byte, dtcs : Seq(Seq(Byte))]
         /\ u.kind = "ReadDataByIdentifier" => HoldsData(x, r)
         /\ u.kind = "ReportDtcByStatusMask" => HoldsReport(x, r)
<1>1. 0 \in Byte /\ Len(r) \in Nat
  BY DEF Byte
<1>2. CASE u.kind = "ReadDataByIdentifier"
  <2>1. Len(r) > 3
    BY <1>2, ReadyVerdict
  <2>2. \A j \in 4 .. Len(r) : r[j] \in Byte
    BY <1>1, ElementOfSeq
  <2>3. SubSeq(r, 4, Len(r)) \in Seq(Byte)
    BY <1>1, <2>2, SubSeqProperties
  <2>4. ResultOf(u.kind, r) = [raw |-> SubSeq(r, 4, Len(r)), mask |-> 0, dtcs |-> <<>>]
    BY <1>2 DEF ResultOf, NoResult
  <2>5. <<>> \in Seq(Seq(Byte))
    OBVIOUS
  <2> DEFINE x == ResultOf(u.kind, r)
             raw == SubSeq(r, 4, Len(r))
  <2>6. x = [raw |-> raw, mask |-> 0, dtcs |-> <<>>] /\ raw \in Seq(Byte)
    BY <2>3, <2>4
  <2> HIDE DEF x, raw
  <2>7. x \in [raw : Seq(Byte), mask : Byte, dtcs : Seq(Seq(Byte))] /\ x.raw = raw
      /\ x.dtcs = <<>>
    BY <1>1, <2>5, <2>6
  <2> QED
    BY <1>2, <2>7 DEF x, raw, HoldsData
<1>3. CASE u.kind = "ReportDtcByStatusMask"
  <2> DEFINE d == [i \in 1 .. ((Len(r) - 3) \div 4) |-> SubSeq(r, 4 * i, 4 * i + 3)]
  <2>1. Len(r) >= 3 /\ (Len(r) - 3) % 4 = 0
    BY <1>3, ReadyVerdict
  <2>2. /\ d \in Seq(Seq(Byte)) /\ Len(r) = 3 + 4 * Len(d)
        /\ \A i \in DOMAIN d : d[i] = SubSeq(r, 4 * i, 4 * i + 3)
    BY <2>1, RecordsOfReport
  <2>3. ResultOf(u.kind, r) = [raw |-> <<>>, mask |-> r[3], dtcs |-> d]
    BY <1>3 DEF ResultOf, NoResult
  <2> HIDE DEF d
  <2>4. r[3] \in Byte
    BY <1>1, <2>1, ElementOfSeq
  <2>5. <<>> \in Seq(Byte)
    OBVIOUS
  <2> DEFINE x == ResultOf(u.kind, r)
  <2>6. x = [raw |-> <<>>, mask |-> r[3], dtcs |-> d]
    BY <2>3
  <2> HIDE DEF x
  <2>7. x \in [raw : Seq(Byte), mask : Byte, dtcs : Seq(Seq(Byte))] /\ x.dtcs = d
    BY <2>2, <2>4, <2>5, <2>6
  <2>8. x.mask = r[3] /\ x.raw = <<>>
    BY <2>6
  <2>9. HoldsReport(x, r)
    BY <2>2, <2>7, <2>8 DEF HoldsReport
  <2> QED
    BY <1>3, <2>7, <2>9 DEF x
<1>4. u.kind \in {"ReadDataByIdentifier", "ReportDtcByStatusMask"}
  BY Kinds DEF UdsState
<1> QED
  BY <1>2, <1>3, <1>4

LEMMA NotingNrcHas ==
  ASSUME NEW u \in UdsState, NEW r \in Seq(Byte), Len(r) = 3
  PROVE  LET v == NoteNrc(u, r) IN
         /\ v \in UdsState
         /\ v.state = u.state /\ v.kind = u.kind /\ v.did = u.did /\ v.result = u.result
         /\ v.pendingCount = u.pendingCount /\ v.waitLeft = u.waitLeft /\ v.status = u.status
<1>1. r[3] \in Byte
  <2>1. 3 \in 1 .. Len(r)
    OBVIOUS
  <2> QED
    BY <2>1, ElementOfSeq
<1> DEFINE b == r[3]
<1> HIDE DEF b
<1>2. LET v == [u EXCEPT !.nrc = b] IN
      /\ v \in UdsState
      /\ v.state = u.state /\ v.kind = u.kind /\ v.did = u.did /\ v.result = u.result
      /\ v.pendingCount = u.pendingCount /\ v.waitLeft = u.waitLeft /\ v.status = u.status
  <2>1. b \in Byte
    BY <1>1 DEF b
  <2> QED
    BY <2>1 DEF UdsState
<1> QED
  BY <1>2 DEF NoteNrc, b

LEMMA NotingNrcKeeps ==
  ASSUME NEW u, NEW s, NEW a, NEW e, Holds(u, s, a, e), NEW r \in Seq(Byte), Len(r) = 3
  PROVE  Holds(NoteNrc(u, r), s, a, e)
<1> DEFINE v == NoteNrc(u, r)
<1>1. u \in UdsState
  BY DEF Holds, TypesFit
<1>2. /\ v \in UdsState
      /\ v.state = u.state /\ v.kind = u.kind /\ v.did = u.did /\ v.result = u.result
      /\ v.pendingCount = u.pendingCount /\ v.waitLeft = u.waitLeft /\ v.status = u.status
  BY <1>1, NotingNrcHas
<1> HIDE DEF v
<1>3. Holds(v, s, a, e)
  BY <1>2 DEF Holds, TypesFit, WaitFits, RequestFits, ResultFits, Asks, Answers
<1> QED
  BY <1>3 DEF v

LEMMA CountingHas ==
  ASSUME NEW u \in UdsState, config \in UdsServiceConfig, u.pendingCount + 1 <= config.maxPending
  PROVE  LET v == CountPending(u) IN
         /\ v \in UdsState
         /\ v.kind = u.kind /\ v.did = u.did /\ v.pendingCount = u.pendingCount + 1
<1>1. u.pendingCount \in Byte /\ config.maxPending \in Byte
  BY TimeoutsAreNatural DEF UdsState
<1>2. u.pendingCount + 1 \in Byte
  BY <1>1 DEF Byte
<1> QED
  BY <1>2 DEF UdsState, CountPending

\* One response-pending more: what is left of the wait pays for the time that has passed.
LEMMA PendingKeeps ==
  ASSUME IInv, config' = config, sent' = sent, answer' = answer, elapsed' = elapsed,
         NEW t \in TransportState, NEW u, Holds(u, sent, answer, elapsed),
         u.state = "AwaitingResponse", u.waitLeft # 0,
         NEW r \in Seq(Byte), Verdict(u, r) = "ResponsePending",
         Continue(t, BeginResponseWait(CountPending(NoteNrc(u, r)), config.pendingTimeout),
                  "ResponsePending")
  PROVE  IInv'
<1> DEFINE v == NoteNrc(u, r)
           w == CountPending(v)
           n == u.pendingCount
           left == u.waitLeft
<1>1. u \in UdsState /\ config \in UdsServiceConfig
  BY DEF IInv, Holds, TypesFit
<1>2. Len(r) = 3 /\ n + 1 <= config.maxPending
  BY <1>1, PendingVerdict
<1>3. v \in UdsState /\ v.kind = u.kind /\ v.did = u.did /\ v.pendingCount = n
  BY <1>1, <1>2, NotingNrcHas
<1>4. Continue(t, BeginResponseWait(w, config.pendingTimeout), "ResponsePending")
  OBVIOUS
<1>5. n \in Nat /\ left \in Nat /\ elapsed \in Nat
  <2>1. n \in Nat /\ left \in Nat
    BY <1>1, CountsAreNatural
  <2>2. MaxWait \in Nat /\ elapsed \in 0 .. MaxElapsed
    BY <1>1, BudgetStarts DEF IInv, Holds, TypesFit
  <2>3. elapsed \in Nat
    BY <2>2 DEF MaxElapsed
  <2> QED
    BY <2>1, <2>3
<1>6. elapsed + left <= Budget(n)
  BY <1>5 DEF Holds, WaitFits
<1>7. Asks(u, sent)
  BY DEF Holds, RequestFits
<1> HIDE DEF v
<1>8. w \in UdsState /\ w.kind = u.kind /\ w.did = u.did /\ w.pendingCount = n + 1
  BY <1>1, <1>2, <1>3, CountingHas
<1> HIDE DEF w, n, left
<1>9. config.pendingTimeout \in Nat /\ config.maxPending \in Nat
  BY <1>1, ConfigIsTyped
<1>10. Budget(n) \in Nat /\ Budget(n + 1) = Budget(n) + config.pendingTimeout
  BY <1>1, <1>2, <1>5, <1>9, BudgetGrows
<1>11. elapsed + config.pendingTimeout <= Budget(w.pendingCount)
  BY <1>5, <1>6, <1>8, <1>9, <1>10
<1>12. w.pendingCount <= config.maxPending /\ Asks(w, sent)
  BY <1>2, <1>7, <1>8 DEF Asks
<1>13. "ResponsePending" \in UdsServiceStatus \ {"ResponseReady"}
  BY DEF UdsServiceStatus
<1> QED
  BY <1>4, <1>8, <1>9, <1>11, <1>12, <1>13, WaitBegins

\* A positive answer ends the request with a result that was read from it.
LEMMA ReadyKeeps ==
  ASSUME IInv, config' = config, sent' = sent, elapsed' = elapsed,
         NEW t \in TransportState, NEW u, Holds(u, sent, answer, elapsed),
         u.state = "AwaitingResponse",
         NEW r \in Seq(Byte), Verdict(u, r) = "ResponseReady",
         Finish(t, [u EXCEPT !.result = ResultOf(u.kind, r)], "ResponseReady"), answer' = r
  PROVE  IInv'
<1> DEFINE x == ResultOf(u.kind, r)
           v == [u EXCEPT !.result = x]
<1>1. u \in UdsState /\ TypesFit(u, sent, answer, elapsed) /\ Asks(u, sent)
  BY DEF Holds, TypesFit, RequestFits
<1>2. /\ x \in [raw : Seq(Byte), mask : Byte, dtcs : Seq(Seq(Byte))]
      /\ u.kind = "ReadDataByIdentifier" => HoldsData(x, r)
      /\ u.kind = "ReportDtcByStatusMask" => HoldsReport(x, r)
  BY <1>1, ResultIsTyped
<1>3. Finish(t, v, "ResponseReady")
  OBVIOUS
<1> HIDE DEF x
<1>4. /\ v \in UdsState /\ v.kind = u.kind /\ v.did = u.did /\ v.result = x
      /\ v.pendingCount = u.pendingCount
  BY <1>1, <1>2 DEF UdsState
<1> HIDE DEF v
<1>5. "ResponseReady" \in UdsServiceStatus
  BY DEF UdsServiceStatus
<1>6. uds' = Ended(v, "ResponseReady") /\ transport' \in TransportState
  BY <1>3, FinishKeepsTransport
<1>7. /\ uds' \in UdsState
      /\ uds'.state = "Idle" /\ uds'.waitLeft = 0
      /\ uds'.kind = u.kind /\ uds'.did = u.did /\ uds'.result = x
      /\ uds'.pendingCount = u.pendingCount
  BY <1>4, <1>5, <1>6, EndedHas
<1>8. Asks(uds', sent')
  BY <1>1, <1>7 DEF Asks
<1>9. Answers(uds', answer')
  <2>1. \/ /\ u.kind = "ReadDataByIdentifier"
           /\ Len(r) > 3 /\ r[1] = PositiveService(kUdsReadDataByIdentifier)
           /\ r[2] = u.did[1] /\ r[3] = u.did[2]
        \/ /\ u.kind = "ReportDtcByStatusMask"
           /\ Len(r) >= 3 /\ (Len(r) - 3) % 4 = 0
           /\ r[1] = PositiveService(kUdsReadDtcInformation)
           /\ r[2] = kReportDtcByStatusMask
    BY <1>1, ReadyVerdict
  <2>2. Answers(uds', r)
    BY <1>2, <1>7, <2>1 DEF Answers
  <2> QED
    BY <2>2
<1>10. TypesFit(uds', sent', answer', elapsed')
  BY <1>1, <1>7 DEF TypesFit
<1>11. WaitFits(uds', elapsed') /\ RequestFits(uds', sent') /\ ResultFits(uds', answer')
  BY <1>7, <1>8, <1>9 DEF WaitFits, RequestFits, ResultFits
<1> QED
  BY <1>6, <1>10, <1>11, Kept DEF IInv, Holds

LEMMA HandleResponseKeeps ==
  ASSUME IInv, config' = config, sent' = sent, elapsed' = elapsed,
         NEW t \in TransportState, NEW u, Holds(u, sent, answer, elapsed),
         u.state = "AwaitingResponse", u.waitLeft # 0,
         NEW r \in Seq(Byte), HandleResponse(t, u, r)
  PROVE  IInv'
<1>1. /\ {"UnexpectedResponse", "NegativeResponse", "PendingLimitExceeded", "InvalidResponse"}
           \subseteq UdsServiceStatus \ {"ResponseReady"}
  BY DEF UdsServiceStatus
<1>2. CASE Verdict(u, r) = "UnexpectedResponse"
  <2>1. Continue(t, u, "UnexpectedResponse") /\ answer' = answer
    BY <1>2 DEF HandleResponse
  <2> QED
    BY <1>1, <2>1, ContinueKeeps
<1>3. CASE Verdict(u, r) = "ResponsePending"
  <2>1. /\ answer' = answer
        /\ Continue(t, BeginResponseWait(CountPending(NoteNrc(u, r)), config.pendingTimeout),
                    "ResponsePending")
    BY <1>3 DEF HandleResponse
  <2> QED
    BY <1>3, <2>1, PendingKeeps
<1>4. CASE Verdict(u, r) \in {"NegativeResponse", "PendingLimitExceeded"}
  <2> DEFINE status == Verdict(u, r)
  <2>1. Finish(t, NoteNrc(u, r), status) /\ answer' = answer
    BY <1>4 DEF HandleResponse
  <2>2. Len(r) = 3
    BY <1>4, RefusalVerdict
  <2>3. status \in UdsServiceStatus \ {"ResponseReady"}
    BY <1>1, <1>4
  <2> HIDE DEF status
  <2>4. Holds(NoteNrc(u, r), sent, answer, elapsed)
    BY <2>2, NotingNrcKeeps
  <2> QED
    BY <2>1, <2>3, <2>4, FinishKeeps
<1>5. CASE Verdict(u, r) = "InvalidResponse"
  <2>1. Finish(t, u, "InvalidResponse") /\ answer' = answer
    BY <1>5 DEF HandleResponse
  <2> QED
    BY <1>1, <2>1, FinishKeeps
<1>6. CASE Verdict(u, r) = "ResponseReady"
  <2>1. Finish(t, [u EXCEPT !.result = ResultOf(u.kind, r)], "ResponseReady") /\ answer' = r
    BY <1>6 DEF HandleResponse
  <2> QED
    BY <1>6, <2>1, ReadyKeeps
<1> QED
  BY <1>2, <1>3, <1>4, <1>5, <1>6 DEF HandleResponse

LEMMA PollTransmissionKeeps ==
  ASSUME IInv, NEW o \in PollOutcomes(transport), PollTransmission(o)
  PROVE  IInv'
<1> DEFINE u == [uds EXCEPT !.lastTransport = o.ret]
<1>1. o.t \in TransportState /\ o.ret \in TransportStatus
  BY PollKeepsTransport DEF IInv
<1>2. /\ Holds(u, sent, answer, elapsed)
      /\ u.state = uds.state /\ u.kind = uds.kind /\ u.did = uds.did /\ u.result = uds.result
      /\ u.pendingCount = uds.pendingCount /\ u.waitLeft = uds.waitLeft /\ u.status = uds.status
  BY <1>1, NotingTransportKeeps DEF IInv
<1>3. /\ uds.state = "AwaitingTransmit"
      /\ config' = config /\ sent' = sent /\ answer' = answer /\ elapsed' = elapsed
      /\ CASE o.ret = "InProgress" -> Continue(o.t, u, "InProgress")
           [] o.ret = "Complete" ->
                Continue(o.t, BeginResponseWait(u, config.responseTimeout), "InProgress")
           [] OTHER -> Finish(o.t, u, "TransportFailure")
  BY DEF PollTransmission
<1> HIDE DEF u
<1>4. {"InProgress", "TransportFailure"} \subseteq UdsServiceStatus \ {"ResponseReady"}
  BY DEF UdsServiceStatus
<1>5. CASE o.ret = "InProgress"
  <2>1. Continue(o.t, u, "InProgress")
    BY <1>3, <1>5
  <2> QED
    BY <1>1, <1>2, <1>3, <1>4, <2>1, ContinueKeeps
<1>6. CASE o.ret = "Complete"
  <2>1. Continue(o.t, BeginResponseWait(u, config.responseTimeout), "InProgress")
    BY <1>3, <1>6
  <2>2. u \in UdsState /\ Asks(u, sent) /\ u.pendingCount <= config.maxPending
    BY <1>2, <1>3 DEF Holds, TypesFit, RequestFits
  <2>3. elapsed = 0 /\ u.pendingCount = 0
    BY <1>2, <1>3 DEF Holds, WaitFits
  <2>4. config \in UdsServiceConfig
    BY DEF IInv
  <2>5. config.responseTimeout \in Nat /\ Budget(0) = config.responseTimeout
    BY <2>4, ConfigIsTyped, BudgetStarts
  <2>6. elapsed + config.responseTimeout <= Budget(u.pendingCount)
    BY <2>3, <2>5
  <2> QED
    BY <1>1, <1>3, <1>4, <2>1, <2>2, <2>5, <2>6, WaitBegins
<1>7. CASE o.ret \notin {"InProgress", "Complete"}
  <2>1. Finish(o.t, u, "TransportFailure")
    BY <1>3, <1>7
  <2> QED
    BY <1>1, <1>2, <1>3, <1>4, <2>1, FinishKeeps
<1> QED
  BY <1>5, <1>6, <1>7

LEMMA ReceiveKeeps ==
  ASSUME IInv, config' = config, sent' = sent, elapsed' = elapsed,
         NEW t \in TransportState,
         uds.state = "AwaitingResponse", ~DeadlineReached, ReceiveResponse(t)
  PROVE  IInv'
<1> DEFINE fits == Fits(t.pending)
           r == ReceiveOutcome(t, fits)
           u == [uds EXCEPT !.lastTransport = r.ret]
<1>1. fits \in BOOLEAN
  BY DEF Fits
<1>2. /\ r.t \in TransportState
      /\ r.ret \in {"NoData", "Overflow", "Complete"}
      /\ r.ret = "Complete" => t.pending \in Message /\ fits
  BY <1>1, ReceiveKeepsTransport
<1>3. /\ r.ret = "NoData" => Continue(r.t, u, "InProgress") /\ answer' = answer
      /\ r.ret = "Complete" => HandleResponse(r.t, u, t.pending)
      /\ r.ret \notin {"NoData", "Complete"} =>
           Finish(r.t, u, "TransportFailure") /\ answer' = answer
  BY DEF ReceiveResponse
<1> HIDE DEF r, fits
<1>4. r.ret \in TransportStatus
  BY <1>2 DEF TransportStatus
<1>5. Holds(u, sent, answer, elapsed) /\ u.state = "AwaitingResponse" /\ u.waitLeft # 0
  BY <1>4, NotingTransportKeeps DEF IInv, DeadlineReached
<1> HIDE DEF u
<1>6. {"InProgress", "TransportFailure"} \subseteq UdsServiceStatus \ {"ResponseReady"}
  BY DEF UdsServiceStatus
<1>7. CASE r.ret = "NoData"
  <2>1. Continue(r.t, u, "InProgress") /\ answer' = answer
    BY <1>3, <1>7
  <2> QED
    BY <1>2, <1>5, <1>6, <2>1, ContinueKeeps
<1>8. CASE r.ret = "Complete"
  <2>1. HandleResponse(r.t, u, t.pending)
    BY <1>3, <1>8
  <2>2. t.pending \in Seq(Byte)
    BY <1>2, <1>8, MessagesAreBytes
  <2> QED
    BY <1>2, <1>5, <2>1, <2>2, HandleResponseKeeps
<1>9. CASE r.ret = "Overflow"
  <2>1. Finish(r.t, u, "TransportFailure") /\ answer' = answer
    BY <1>3, <1>9
  <2> QED
    BY <1>2, <1>5, <1>6, <2>1, FinishKeeps
<1> QED
  BY <1>2, <1>7, <1>8, <1>9

LEMMA PollResponseKeeps ==
  ASSUME IInv, NEW o \in PollOutcomes(transport), PollResponse(o)
  PROVE  IInv'
<1> DEFINE u == [uds EXCEPT !.lastTransport = o.ret]
<1>1. o.t \in TransportState /\ o.ret \in TransportStatus
  BY PollKeepsTransport DEF IInv
<1>2. Holds(u, sent, answer, elapsed)
  BY <1>1, NotingTransportKeeps DEF IInv
<1>3. {"Timeout", "TransportFailure"} \subseteq UdsServiceStatus \ {"ResponseReady"}
  BY DEF UdsServiceStatus
<1>4. /\ uds.state = "AwaitingResponse"
      /\ config' = config /\ sent' = sent /\ elapsed' = elapsed
      /\ \/ Finish(o.t, u, "TransportFailure") /\ answer' = answer
         \/ Finish(o.t, u, "Timeout") /\ answer' = answer
         \/ ~DeadlineReached /\ ReceiveResponse(o.t)
  BY DEF PollResponse
<1> HIDE DEF u
<1>5. CASE Finish(o.t, u, "TransportFailure") /\ answer' = answer
  BY <1>1, <1>2, <1>3, <1>4, <1>5, FinishKeeps
<1>6. CASE Finish(o.t, u, "Timeout") /\ answer' = answer
  BY <1>1, <1>2, <1>3, <1>4, <1>6, FinishKeeps
<1>7. CASE ~DeadlineReached /\ ReceiveResponse(o.t)
  BY <1>1, <1>4, <1>7, ReceiveKeeps
<1> QED
  BY <1>4, <1>5, <1>6, <1>7

LEMMA TickKeeps ==
  ASSUME IInv, Tick
  PROVE  IInv'
<1> DEFINE left == uds.waitLeft
           n == uds.pendingCount
<1>1. /\ TypesFit(uds, sent, answer, elapsed) /\ WaitFits(uds, elapsed)
      /\ RequestFits(uds, sent) /\ ResultFits(uds, answer)
      /\ uds \in UdsState /\ config \in UdsServiceConfig
      /\ n <= config.maxPending
  BY DEF IInv, Holds, TypesFit
<1>2. /\ uds.state = "AwaitingResponse" /\ left > 0
      /\ uds' = [uds EXCEPT !.waitLeft = left - 1]
      /\ elapsed' = IF elapsed < MaxElapsed THEN elapsed + 1 ELSE elapsed
      /\ config' = config /\ transport' = transport /\ sent' = sent /\ answer' = answer
  BY DEF Tick
<1>3. left \in Nat /\ n \in Nat
  BY <1>1, CountsAreNatural
<1>4. /\ uds' \in UdsState
      /\ uds'.state = uds.state /\ uds'.status = uds.status /\ uds'.kind = uds.kind
      /\ uds'.did = uds.did /\ uds'.result = uds.result
      /\ uds'.pendingCount = n /\ uds'.waitLeft = left - 1
  <2>1. left - 1 \in Nat
    BY <1>2, <1>3
  <2> DEFINE l == left - 1
  <2> HIDE DEF l
  <2>2. LET v == [uds EXCEPT !.waitLeft = l] IN
        /\ v \in UdsState
        /\ v.state = uds.state /\ v.status = uds.status /\ v.kind = uds.kind
        /\ v.did = uds.did /\ v.result = uds.result
        /\ v.pendingCount = n /\ v.waitLeft = l
    <3>1. l \in Nat
      BY <2>1 DEF l
    <3> QED
      BY <1>1, <3>1 DEF UdsState
  <2> QED
    BY <1>2, <2>2 DEF l
<1>5. MaxWait \in Nat /\ Budget(n) \in Nat /\ Budget(n) <= MaxWait
  BY <1>1, <1>3, BudgetGrows
<1>6. elapsed + left <= Budget(n) /\ elapsed \in 0 .. MaxElapsed
  BY <1>1, <1>2 DEF WaitFits, TypesFit
<1> HIDE DEF left, n
<1>7. elapsed' = elapsed + 1 /\ elapsed' \in 0 .. MaxElapsed
      /\ elapsed' + (left - 1) <= Budget(n)
  BY <1>2, <1>3, <1>5, <1>6 DEF MaxElapsed
<1>8. TypesFit(uds', sent', answer', elapsed')
  BY <1>1, <1>2, <1>4, <1>7 DEF TypesFit, n
<1>9. WaitFits(uds', elapsed')
  BY <1>2, <1>4, <1>7 DEF WaitFits
<1>10. RequestFits(uds', sent') /\ ResultFits(uds', answer')
  BY <1>1, <1>2, <1>4 DEF RequestFits, ResultFits, Asks, Answers
<1>11. transport' \in TransportState
  BY <1>2 DEF IInv
<1> QED
  BY <1>1, <1>2, <1>8, <1>9, <1>10, <1>11, Kept DEF Holds

LEMMA FrameArrivesKeeps ==
  ASSUME IInv, FrameArrives
  PROVE  IInv'
<1>1. transport' \in TransportState
  BY FramesKeepTransport DEF IInv, FrameArrives
<1> QED
  BY <1>1, Kept DEF IInv, FrameArrives

LEMMA StutterKeeps ==
  ASSUME IInv, UNCHANGED vars
  PROVE  IInv'
BY Kept DEF vars, IInv

(***************************************************************************)
(* The theorems.                                                           *)
(***************************************************************************)

LEMMA StepKeeps == IInv /\ [Next]_vars => IInv'
<1> SUFFICES ASSUME IInv, [Next]_vars
             PROVE  IInv'
  OBVIOUS
<1>1. ASSUME NEW did \in Dids, RequestReadDataByIdentifier(did)
      PROVE  IInv'
  BY <1>1, ReadKeeps, RejectWhileActiveKeeps, RejectMisconfiguredKeeps
     DEF RequestReadDataByIdentifier
<1>2. ASSUME NEW mask \in StatusMasks, RequestReportDtcByStatusMask(mask)
      PROVE  IInv'
  BY <1>2, ReportKeeps, RejectWhileActiveKeeps, RejectMisconfiguredKeeps
     DEF RequestReportDtcByStatusMask
<1>3. ASSUME Poll
      PROVE  IInv'
  BY <1>3, StutterKeeps, PollTransmissionKeeps, PollResponseKeeps DEF Poll, PollIdle
<1>4. CASE Tick
  BY <1>4, TickKeeps
<1>5. CASE FrameArrives
  BY <1>5, FrameArrivesKeeps
<1>6. CASE UNCHANGED vars
  BY <1>6, StutterKeeps
<1> QED
  BY <1>1, <1>2, <1>3, <1>4, <1>5, <1>6 DEF Next

\* IInv holds in every reachable state.
THEOREM InductiveInvariant == Spec => []IInv
BY InitHolds, StepKeeps, PTL DEF Spec

\* Every member keeps its type, only a service that awaits a response has time left, and
\* the pending answers counted never exceed maxPending.
THEOREM TypeCorrect == Spec => []TypeOK
<1>1. IInv => TypeOK
  BY DEF IInv, Holds, TypesFit, TypeOK, UdsState
<1> QED
  BY <1>1, InductiveInvariant, PTL

LEMMA InvariantBounds == IInv => WaitIsBounded
<1> SUFFICES ASSUME IInv, uds.waitLeft > 0
             PROVE  elapsed + uds.waitLeft <= MaxWait
  BY DEF WaitIsBounded
<1> DEFINE n == uds.pendingCount
           left == uds.waitLeft
<1>1. /\ uds \in UdsState /\ config \in UdsServiceConfig /\ elapsed \in 0 .. MaxElapsed
      /\ n <= config.maxPending /\ elapsed + left <= Budget(n)
  BY DEF IInv, Holds, TypesFit, WaitFits
<1>2. n \in Nat /\ left \in Nat
  BY <1>1, CountsAreNatural
<1>3. MaxWait \in Nat /\ Budget(n) \in Nat /\ Budget(n) <= MaxWait
  BY <1>1, <1>2, BudgetGrows
<1> HIDE DEF n, left
<1>4. elapsed + left <= MaxWait
  BY <1>1, <1>2, <1>3 DEF MaxElapsed
<1> QED
  BY <1>4 DEF left

\* However many response-pending answers extend the wait (BeginResponseWait), it ends
\* within the response timeout and maxPending pending timeouts.
THEOREM WaitBounded == Spec => []WaitIsBounded
BY InvariantBounds, InductiveInvariant, PTL

\* A message is its header and what follows it.
LEMMA HeaderAndRest ==
  ASSUME NEW a \in Seq(Byte), Len(a) > 3
  PROVE  SubSeq(a, 1, 3) \o SubSeq(a, 4, Len(a)) = a
<1>1. Len(a) \in Nat
  OBVIOUS
<1>2. 1 \in 1 .. Len(a) + 1 /\ 3 \in 1 - 1 .. Len(a) /\ Len(a) \in 3 .. Len(a) /\ 3 + 1 = 4
  BY <1>1
<1>3. SubSeq(a, 1, 3) \o SubSeq(a, 3 + 1, Len(a)) = SubSeq(a, 1, Len(a))
  BY <1>2, ConcatAdjacentSubSeq
<1>4. SubSeq(a, 1, Len(a)) = a
  BY SubSeqFull
<1> QED
  BY <1>2, <1>3, <1>4

LEMMA SameIdentifier ==
  ASSUME NEW a \in Seq(Byte), NEW s \in Seq(Byte), Len(a) >= 3, Len(s) >= 3,
         a[2] = s[2], a[3] = s[3]
  PROVE  SubSeq(a, 2, 3) = SubSeq(s, 2, 3)
<1>1. ASSUME NEW m \in Seq(Byte), Len(m) >= 3
      PROVE  /\ SubSeq(m, 2, 3) \in Seq(Byte) /\ Len(SubSeq(m, 2, 3)) = 2
             /\ SubSeq(m, 2, 3)[1] = m[2] /\ SubSeq(m, 2, 3)[2] = m[3]
  <2>1. \A j \in 2 .. 3 : m[j] \in Byte
    BY <1>1, ElementOfSeq
  <2>2. /\ SubSeq(m, 2, 3) \in Seq(Byte)
        /\ Len(SubSeq(m, 2, 3)) = 2
        /\ \A i \in 1 .. 3 - 2 + 1 : SubSeq(m, 2, 3)[i] = m[2 + i - 1]
    BY <2>1, SubSeqProperties
  <2> QED
    BY <2>2
<1>2. \A i \in 1 .. 2 : SubSeq(a, 2, 3)[i] = SubSeq(s, 2, 3)[i]
  <2>1. /\ SubSeq(a, 2, 3)[1] = SubSeq(s, 2, 3)[1]
        /\ SubSeq(a, 2, 3)[2] = SubSeq(s, 2, 3)[2]
    BY <1>1
  <2> QED
    BY <2>1
<1>3. /\ SubSeq(a, 2, 3) \in Seq(Byte) /\ Len(SubSeq(a, 2, 3)) = 2
      /\ SubSeq(s, 2, 3) \in Seq(Byte) /\ Len(SubSeq(s, 2, 3)) = 2
  BY <1>1
<1> QED
  BY <1>2, <1>3, SeqEqual

LEMMA InvariantAnswers == IInv => ResultAnswersRequest
<1> SUFFICES ASSUME IInv, uds.status = "ResponseReady"
             PROVE  /\ answer # <<>>
                    /\ answer[1] = PositiveService(sent[1])
                    /\ sent[1] = kUdsReadDataByIdentifier =>
                         /\ SubSeq(answer, 2, 3) = SubSeq(sent, 2, 3)
                         /\ SubSeq(answer, 1, 3) \o uds.result.raw = answer
                         /\ uds.result.dtcs = <<>>
                    /\ sent[1] = kUdsReadDtcInformation =>
                         answer[2] = sent[2] /\ HoldsReport(uds.result, answer)
  BY DEF ResultAnswersRequest, HoldsReport
<1>1. /\ Asks(uds, sent) /\ Answers(uds, answer)
      /\ sent \in Seq(Byte) /\ answer \in Seq(Byte)
  BY DEF IInv, Holds, TypesFit, RequestFits, ResultFits
<1>2. Len(answer) \in Nat /\ Len(<<>>) = 0
  BY <1>1
<1>3. kUdsReadDataByIdentifier # kUdsReadDtcInformation
  BY DEF kUdsReadDataByIdentifier, kUdsReadDtcInformation
<1>4. CASE uds.kind = "ReadDataByIdentifier"
  <2>1. /\ Len(sent) = 3 /\ sent[1] = kUdsReadDataByIdentifier
        /\ sent[2] = uds.did[1] /\ sent[3] = uds.did[2]
        /\ Len(answer) > 3 /\ answer[1] = PositiveService(kUdsReadDataByIdentifier)
        /\ answer[2] = uds.did[1] /\ answer[3] = uds.did[2]
        /\ uds.result.raw = SubSeq(answer, 4, Len(answer)) /\ uds.result.dtcs = <<>>
    BY <1>1, <1>4 DEF Asks, Answers, HoldsData
  <2>2. Len(answer) >= 3 /\ Len(sent) >= 3 /\ answer # <<>>
    BY <1>2, <2>1
  <2>3. SubSeq(answer, 2, 3) = SubSeq(sent, 2, 3)
    BY <1>1, <2>1, <2>2, SameIdentifier
  <2>4. SubSeq(answer, 1, 3) \o uds.result.raw = answer
    BY <1>1, <2>1, HeaderAndRest
  <2> QED
    BY <1>3, <2>1, <2>2, <2>3, <2>4
<1>5. CASE uds.kind = "ReportDtcByStatusMask"
  <2>1. /\ sent[1] = kUdsReadDtcInformation /\ sent[2] = kReportDtcByStatusMask
        /\ Len(answer) >= 3 /\ answer[1] = PositiveService(kUdsReadDtcInformation)
        /\ answer[2] = kReportDtcByStatusMask
        /\ HoldsReport(uds.result, answer)
    BY <1>1, <1>5 DEF Asks, Answers
  <2>2. answer # <<>>
    BY <1>2, <2>1
  <2> QED
    BY <1>3, <2>1, <2>2
<1> QED
  BY <1>1, <1>4, <1>5 DEF Asks

\* A published result is the content of the answer to the request sent last, the data of an
\* identifier as well as mask and records of a report, whatever arrived in between and however
\* many requests were refused meanwhile (handleResponse).
THEOREM ResultsAnswer == Spec => []ResultAnswersRequest
BY InvariantAnswers, InductiveInvariant, PTL

(***************************************************************************)
(* The lifecycle, step by step. A poll of an active request is a step of   *)
(* RequestLifecycle, and leaves no message when it ends the request.       *)
(***************************************************************************)

Advances ==
  /\ Lifecycle!Remain \/ Lifecycle!Succeed \/ Lifecycle!Fail
  /\ uds'.state = "Idle" => transport'.pending = NoMessage

LEMMA ContinueRemains ==
  ASSUME uds.state # "Idle", NEW t, NEW u \in UdsState, u.state # "Idle",
         u.result = uds.result, NEW status \in Lifecycle!Ongoing, Continue(t, u, status)
  PROVE  Advances
<1>1. status \in UdsServiceStatus
  BY DEF Lifecycle!Ongoing, UdsServiceStatus
<1>2. uds' = SetStatus(u, status)
  BY DEF Continue
<1>3. uds'.state # "Idle" /\ uds'.status = status /\ uds'.result = uds.result
  BY <1>1, <1>2, SetStatusHas
<1>4. Lifecycle!Remain
  BY <1>3 DEF Lifecycle!Remain, IsRequestActive
<1> QED
  BY <1>3, <1>4 DEF Advances

LEMMA WaitRemains ==
  ASSUME uds.state # "Idle", NEW t, NEW u \in UdsState,
         u.result = uds.result, NEW timeout \in Nat, NEW status \in Lifecycle!Ongoing,
         Continue(t, BeginResponseWait(u, timeout), status)
  PROVE  Advances
<1> DEFINE w == BeginResponseWait(u, timeout)
<1>1. w \in UdsState /\ w.state = "AwaitingResponse" /\ w.result = u.result
  BY BeginWaitHas
<1>2. Continue(t, w, status)
  OBVIOUS
<1> HIDE DEF w
<1> QED
  BY <1>1, <1>2, ContinueRemains

LEMMA FinishFails ==
  ASSUME uds.state # "Idle", NEW t \in TransportState, NEW u \in UdsState,
         u.result = uds.result, NEW status \in Lifecycle!Failures, Finish(t, u, status)
  PROVE  Advances
<1>1. status \in UdsServiceStatus
  BY DEF Lifecycle!Failures, UdsServiceStatus
<1>2. uds' = Ended(u, status) /\ transport'.pending = NoMessage
  BY FinishKeepsTransport DEF IsRequestActive
<1>3. uds'.state = "Idle" /\ uds'.status = status /\ uds'.result = uds.result
  BY <1>1, <1>2, EndedHas
<1>4. Lifecycle!Fail
  BY <1>3 DEF Lifecycle!Fail, IsRequestActive
<1> QED
  BY <1>2, <1>4 DEF Advances

LEMMA FinishSucceeds ==
  ASSUME uds.state # "Idle", NEW t \in TransportState, NEW u \in UdsState,
         Finish(t, u, "ResponseReady")
  PROVE  Advances
<1>1. "ResponseReady" \in UdsServiceStatus
  BY DEF UdsServiceStatus
<1>2. uds' = Ended(u, "ResponseReady") /\ transport'.pending = NoMessage
  BY FinishKeepsTransport DEF IsRequestActive
<1>3. uds'.state = "Idle" /\ uds'.status = "ResponseReady"
  BY <1>1, <1>2, EndedHas
<1>4. Lifecycle!Succeed
  BY <1>3 DEF Lifecycle!Succeed, IsRequestActive
<1> QED
  BY <1>2, <1>4 DEF Advances

LEMMA HandleResponseAdvances ==
  ASSUME config \in UdsServiceConfig, uds.state # "Idle",
         NEW t \in TransportState, NEW u \in UdsState, u.state # "Idle",
         u.result = uds.result, NEW r \in Seq(Byte), HandleResponse(t, u, r)
  PROVE  Advances
<1>1. /\ {"UnexpectedResponse", "ResponsePending"} \subseteq Lifecycle!Ongoing
      /\ {"NegativeResponse", "PendingLimitExceeded", "InvalidResponse"}
           \subseteq Lifecycle!Failures
  BY DEF Lifecycle!Ongoing, Lifecycle!Failures
<1>2. CASE Verdict(u, r) = "UnexpectedResponse"
  <2>1. Continue(t, u, "UnexpectedResponse")
    BY <1>2 DEF HandleResponse
  <2> QED
    BY <1>1, <2>1, ContinueRemains
<1>3. CASE Verdict(u, r) = "ResponsePending"
  <2> DEFINE v == NoteNrc(u, r)
             w == CountPending(v)
  <2>1. Continue(t, BeginResponseWait(w, config.pendingTimeout), "ResponsePending")
    BY <1>3 DEF HandleResponse
  <2>2. Len(r) = 3 /\ u.pendingCount + 1 <= config.maxPending
    BY <1>3, PendingVerdict
  <2>3. v \in UdsState /\ v.result = u.result /\ v.pendingCount = u.pendingCount
    BY <2>2, NotingNrcHas
  <2> HIDE DEF v
  <2>4. w \in UdsState /\ w.result = v.result
    <3>1. v.pendingCount + 1 <= config.maxPending
      BY <2>2, <2>3
    <3>2. w \in UdsState
      BY <2>3, <3>1, CountingHas
    <3>3. w.result = v.result
      BY <2>3 DEF CountPending, UdsState
    <3> QED
      BY <3>2, <3>3
  <2> HIDE DEF w
  <2>5. config.pendingTimeout \in Nat
    BY ConfigIsTyped
  <2>6. w.result = uds.result /\ "ResponsePending" \in Lifecycle!Ongoing
    BY <1>1, <2>3, <2>4
  <2> QED
    BY <2>1, <2>4, <2>5, <2>6, WaitRemains
<1>4. CASE Verdict(u, r) \in {"NegativeResponse", "PendingLimitExceeded"}
  <2> DEFINE status == Verdict(u, r)
             v == NoteNrc(u, r)
  <2>1. Finish(t, v, status)
    BY <1>4 DEF HandleResponse
  <2>2. v \in UdsState /\ v.result = u.result
    BY <1>4, RefusalVerdict, NotingNrcHas
  <2>3. status \in Lifecycle!Failures
    BY <1>1, <1>4
  <2> HIDE DEF status, v
  <2> QED
    BY <2>1, <2>2, <2>3, FinishFails
<1>5. CASE Verdict(u, r) = "InvalidResponse"
  <2>1. Finish(t, u, "InvalidResponse")
    BY <1>5 DEF HandleResponse
  <2> QED
    BY <1>1, <2>1, FinishFails
<1>6. CASE Verdict(u, r) = "ResponseReady"
  <2> DEFINE x == ResultOf(u.kind, r)
             v == [u EXCEPT !.result = x]
  <2>1. Finish(t, v, "ResponseReady")
    BY <1>6 DEF HandleResponse
  <2>2. x \in [raw : Seq(Byte), mask : Byte, dtcs : Seq(Seq(Byte))]
    BY <1>6, ResultIsTyped
  <2> HIDE DEF x
  <2>3. v \in UdsState
    BY <2>2 DEF UdsState
  <2> HIDE DEF v
  <2> QED
    BY <2>1, <2>3, FinishSucceeds
<1> QED
  BY <1>2, <1>3, <1>4, <1>5, <1>6 DEF HandleResponse

LEMMA PollTransmissionAdvances ==
  ASSUME IInv, NEW o \in PollOutcomes(transport), PollTransmission(o)
  PROVE  Advances
<1> DEFINE u == [uds EXCEPT !.lastTransport = o.ret]
<1>1. o.t \in TransportState /\ o.ret \in TransportStatus
  BY PollKeepsTransport DEF IInv
<1>2. uds \in UdsState /\ config.responseTimeout \in Nat
  BY IdleWaitsForNothing
<1>3. u \in UdsState /\ u.state = uds.state /\ u.result = uds.result
  BY <1>1, <1>2, NotingTransportHas
<1>4. /\ uds.state = "AwaitingTransmit"
      /\ CASE o.ret = "InProgress" -> Continue(o.t, u, "InProgress")
           [] o.ret = "Complete" ->
                Continue(o.t, BeginResponseWait(u, config.responseTimeout), "InProgress")
           [] OTHER -> Finish(o.t, u, "TransportFailure")
  BY DEF PollTransmission
<1> HIDE DEF u
<1>5. "InProgress" \in Lifecycle!Ongoing /\ "TransportFailure" \in Lifecycle!Failures
  BY DEF Lifecycle!Ongoing, Lifecycle!Failures
<1>6. CASE o.ret = "InProgress"
  <2>1. Continue(o.t, u, "InProgress") /\ uds.state # "Idle" /\ u.state # "Idle"
    BY <1>3, <1>4, <1>6
  <2> QED
    BY <1>3, <1>5, <2>1, ContinueRemains
<1>7. CASE o.ret = "Complete"
  <2>1. /\ Continue(o.t, BeginResponseWait(u, config.responseTimeout), "InProgress")
        /\ uds.state # "Idle"
    BY <1>4, <1>7
  <2> QED
    BY <1>2, <1>3, <1>5, <2>1, WaitRemains
<1>8. CASE o.ret \notin {"InProgress", "Complete"}
  <2>1. Finish(o.t, u, "TransportFailure") /\ uds.state # "Idle"
    BY <1>4, <1>8
  <2> QED
    BY <1>1, <1>3, <1>5, <2>1, FinishFails
<1> QED
  BY <1>6, <1>7, <1>8

LEMMA ReceiveAdvances ==
  ASSUME IInv, NEW t \in TransportState, uds.state = "AwaitingResponse", ReceiveResponse(t)
  PROVE  Advances
<1> DEFINE fits == Fits(t.pending)
           r == ReceiveOutcome(t, fits)
           u == [uds EXCEPT !.lastTransport = r.ret]
<1>1. fits \in BOOLEAN
  BY DEF Fits
<1>2. /\ r.t \in TransportState
      /\ r.ret \in {"NoData", "Overflow", "Complete"}
      /\ r.ret = "Complete" => t.pending \in Message /\ fits
  BY <1>1, ReceiveKeepsTransport
<1>3. /\ r.ret = "NoData" => Continue(r.t, u, "InProgress")
      /\ r.ret = "Complete" => HandleResponse(r.t, u, t.pending)
      /\ r.ret \notin {"NoData", "Complete"} => Finish(r.t, u, "TransportFailure")
  BY DEF ReceiveResponse
<1> HIDE DEF r, fits
<1>4. r.ret \in TransportStatus
  BY <1>2 DEF TransportStatus
<1>5. uds \in UdsState /\ config \in UdsServiceConfig
  BY DEF IInv, Holds, TypesFit
<1>6. u \in UdsState /\ u.state = uds.state /\ u.result = uds.result
  BY <1>4, <1>5, NotingTransportHas
<1> HIDE DEF u
<1>7. "InProgress" \in Lifecycle!Ongoing /\ "TransportFailure" \in Lifecycle!Failures
  BY DEF Lifecycle!Ongoing, Lifecycle!Failures
<1>8. uds.state # "Idle" /\ u.state # "Idle"
  BY <1>6
<1>9. CASE r.ret = "NoData"
  <2>1. Continue(r.t, u, "InProgress")
    BY <1>3, <1>9
  <2> QED
    BY <1>6, <1>7, <1>8, <2>1, ContinueRemains
<1>10. CASE r.ret = "Complete"
  <2>1. HandleResponse(r.t, u, t.pending)
    BY <1>3, <1>10
  <2>2. t.pending \in Seq(Byte)
    BY <1>2, <1>10, MessagesAreBytes
  <2> QED
    BY <1>2, <1>5, <1>6, <1>8, <2>1, <2>2, HandleResponseAdvances
<1>11. CASE r.ret = "Overflow"
  <2>1. Finish(r.t, u, "TransportFailure")
    BY <1>3, <1>11
  <2> QED
    BY <1>2, <1>6, <1>7, <1>8, <2>1, FinishFails
<1> QED
  BY <1>2, <1>9, <1>10, <1>11

LEMMA PollResponseAdvances ==
  ASSUME IInv, NEW o \in PollOutcomes(transport), PollResponse(o)
  PROVE  Advances
<1> DEFINE u == [uds EXCEPT !.lastTransport = o.ret]
<1>1. o.t \in TransportState /\ o.ret \in TransportStatus
  BY PollKeepsTransport DEF IInv
<1>2. uds \in UdsState
  BY IdleWaitsForNothing
<1>3. u \in UdsState /\ u.state = uds.state /\ u.result = uds.result
  BY <1>1, <1>2, NotingTransportHas
<1>4. /\ uds.state = "AwaitingResponse"
      /\ \/ Finish(o.t, u, "TransportFailure")
         \/ Finish(o.t, u, "Timeout")
         \/ ReceiveResponse(o.t)
  BY DEF PollResponse
<1> HIDE DEF u
<1>5. {"TransportFailure", "Timeout"} \subseteq Lifecycle!Failures /\ uds.state # "Idle"
  BY <1>4 DEF Lifecycle!Failures
<1>6. CASE Finish(o.t, u, "TransportFailure")
  BY <1>1, <1>3, <1>5, <1>6, FinishFails
<1>7. CASE Finish(o.t, u, "Timeout")
  BY <1>1, <1>3, <1>5, <1>7, FinishFails
<1>8. CASE ReceiveResponse(o.t)
  BY <1>1, <1>4, <1>8, ReceiveAdvances
<1> QED
  BY <1>4, <1>6, <1>7, <1>8

\* Every step of the service: it begins a request, advances one, or leaves alone what an
\* application sees.
Seen == <<IsRequestActive, uds.status, uds.result # NoResult>>

LEMMA BeginStarts ==
  ASSUME Started, uds.state = "Idle"
  PROVE  Lifecycle!Start
BY DEF Started, Lifecycle!Start, IsRequestActive

LEMMA RejectWhileActiveAdvances ==
  ASSUME IInv, RejectWhileActive
  PROVE  Advances
<1>1. uds \in UdsState /\ uds.state # "Idle" /\ "Busy" \in Lifecycle!Ongoing
  BY IdleWaitsForNothing DEF RejectWhileActive, IsRequestActive, Lifecycle!Ongoing
<1>2. Continue(transport, uds, "Busy")
  BY DEF RejectWhileActive, Continue
<1> QED
  BY <1>1, <1>2, ContinueRemains

LEMMA RejectMisconfiguredRefuses ==
  ASSUME IInv, RejectMisconfigured
  PROVE  Lifecycle!Refuse /\ uds.state = "Idle"
<1> DEFINE v == SetStatus(uds, "InvalidRequest")
<1>1. uds \in UdsState /\ uds.state = "Idle" /\ "InvalidRequest" \in UdsServiceStatus
  BY IdleWaitsForNothing DEF RejectMisconfigured, IsRequestActive, UdsServiceStatus
<1>2. v \in UdsState /\ v.status = "InvalidRequest" /\ v.result = uds.result
  BY <1>1, SetStatusHas
<1>3. uds' = [v EXCEPT !.state = "Idle"]
  BY DEF RejectMisconfigured, FinishWithoutTransport
<1> HIDE DEF v
<1>4. uds'.state = "Idle" /\ uds'.status = "InvalidRequest" /\ uds'.result = uds.result
  BY <1>2, <1>3 DEF UdsState
<1> QED
  BY <1>1, <1>4 DEF Lifecycle!Refuse, Lifecycle!Refusals, IsRequestActive

LEMMA TickShowsNothing ==
  ASSUME IInv, Tick
  PROVE  UNCHANGED Seen /\ uds.state = "AwaitingResponse" /\ uds'.state = uds.state
<1>1. uds \in UdsState /\ uds.state = "AwaitingResponse"
      /\ uds' = [uds EXCEPT !.waitLeft = @ - 1]
  BY IdleWaitsForNothing DEF Tick
<1>2. uds'.state = uds.state /\ uds'.status = uds.status /\ uds'.result = uds.result
  BY <1>1 DEF UdsState
<1> QED
  BY <1>1, <1>2 DEF Seen, IsRequestActive

LEMMA StepIsSeen ==
  ASSUME IInv, [Next]_vars
  PROVE  \/ (Lifecycle!Start \/ Lifecycle!Refuse) /\ uds.state = "Idle"
         \/ Advances
         \/ UNCHANGED Seen /\ uds'.state = uds.state
<1> DEFINE Goal == \/ (Lifecycle!Start \/ Lifecycle!Refuse) /\ uds.state = "Idle"
                   \/ Advances
                   \/ UNCHANGED Seen /\ uds'.state = uds.state
<1>1. ASSUME NEW did \in Dids, RequestReadDataByIdentifier(did)
      PROVE  Goal
  <2>1. CASE RejectWhileActive
    BY <2>1, RejectWhileActiveAdvances
  <2>2. CASE RejectMisconfigured
    BY <2>2, RejectMisconfiguredRefuses
  <2>3. CASE Begin("ReadDataByIdentifier", did, startUdsReadDataByIdentifier(did))
    <3>1. Started /\ uds.state = "Idle"
      BY <2>3, ReadKeeps DEF Begin, IsRequestActive
    <3> QED
      BY <3>1, BeginStarts
  <2> QED
    BY <1>1, <2>1, <2>2, <2>3 DEF RequestReadDataByIdentifier
<1>2. ASSUME NEW mask \in StatusMasks, RequestReportDtcByStatusMask(mask)
      PROVE  Goal
  <2>1. CASE RejectWhileActive
    BY <2>1, RejectWhileActiveAdvances
  <2>2. CASE RejectMisconfigured
    BY <2>2, RejectMisconfiguredRefuses
  <2>3. CASE Begin("ReportDtcByStatusMask", uds.did, startUdsReportDtcByStatusMask(mask))
    <3>1. Started /\ uds.state = "Idle"
      BY <2>3, ReportKeeps DEF Begin, IsRequestActive
    <3> QED
      BY <3>1, BeginStarts
  <2> QED
    BY <1>2, <2>1, <2>2, <2>3 DEF RequestReportDtcByStatusMask
<1>3. ASSUME uds' = uds
      PROVE  Goal
  BY <1>3 DEF Seen, IsRequestActive
<1>4. CASE Poll
  <2>1. CASE PollIdle
    BY <1>3, <2>1 DEF PollIdle, vars
  <2>2. CASE \E o \in PollOutcomes(transport) : PollTransmission(o) \/ PollResponse(o)
    BY <2>2, PollTransmissionAdvances, PollResponseAdvances
  <2> QED
    BY <1>4, <2>1, <2>2 DEF Poll
<1>5. CASE Tick
  BY <1>5, TickShowsNothing
<1>6. CASE FrameArrives
  BY <1>3, <1>6 DEF FrameArrives
<1>7. CASE UNCHANGED vars
  BY <1>3, <1>7 DEF vars
<1> QED
  BY <1>1, <1>2, <1>4, <1>5, <1>6, <1>7 DEF Next

\* The service keeps the contract of RequestLifecycle: the members status_ and
\* responseLength_ change only as an application may rely on.
THEOREM LifecycleImplemented == Spec => ImplementsLifecycle
<1>1. Init => Lifecycle!Init
  BY DEF Init, Lifecycle!Init, IsRequestActive
<1>2. IInv /\ [Next]_vars
        => [Lifecycle!Next]_<<IsRequestActive, uds.status, uds.result # NoResult>>
  BY StepIsSeen DEF Lifecycle!Next, Advances, Seen
<1> QED
  BY <1>1, <1>2, InductiveInvariant, PTL DEF Spec, ImplementsLifecycle, Lifecycle!Spec

\* A request that ends leaves no completed message to the next one (finish discards it).
THEOREM EndsClean == Spec => EndLeavesNoMessage
<1>1. IInv /\ [Next]_vars
        => [IsRequestActive /\ uds'.state = "Idle" => transport'.pending = NoMessage]_vars
  BY StepIsSeen DEF Advances, IsRequestActive
<1> QED
  BY <1>1, InductiveInvariant, PTL DEF Spec, EndLeavesNoMessage

(***************************************************************************)
(* Beside another service on the same transport.                           *)
(***************************************************************************)

\* A service that is not active takes nothing from the transport: neither a refused request
\* nor one that begins touches a completed message.
LEMMA IdleTakesNothing ==
  ASSUME transport \in TransportState, ~IsRequestActive,
         \/ \E did \in Dids : RequestReadDataByIdentifier(did)
         \/ \E mask \in StatusMasks : RequestReportDtcByStatusMask(mask)
         \/ Poll
  PROVE  transport'.pending = transport.pending
<1>1. CASE PollIdle
  BY <1>1 DEF PollIdle, vars
<1>2. CASE RejectMisconfigured
  BY <1>2 DEF RejectMisconfigured, FinishWithoutTransport
<1>3. ASSUME NEW prepared, NEW guarded, StartGuardedRequest(prepared, guarded)
      PROVE  transport'.pending = transport.pending
  <2>1. CASE UNCHANGED transport
    BY <2>1
  <2>2. CASE \E o \in StartSendOutcomes(transport) : transport' = o.t
    BY <2>2, StartSendKeepsTransport
  <2> QED
    BY <1>3, <2>1, <2>2 DEF StartGuardedRequest, FinishWithoutTransport, Continue, Finish
<1>4. ASSUME NEW kind, NEW did, NEW guarded, Begin(kind, did, guarded)
      PROVE  transport'.pending = transport.pending
  BY <1>3, <1>4 DEF Begin
<1> QED
  BY <1>1, <1>2, <1>4 DEF RequestReadDataByIdentifier, RequestReportDtcByStatusMask,
     RejectWhileActive, Poll, PollTransmission, PollResponse, IsRequestActive

\* What the other service does to the transport leaves this one's invariant alone.
LEMMA OthersMoveTheTransport ==
  ASSUME IInv, transport' \in TransportState,
         UNCHANGED <<config, uds, sent, answer, elapsed>>
  PROVE  IInv'
<1>1. /\ config' = config /\ uds' = uds /\ sent' = sent /\ answer' = answer
      /\ elapsed' = elapsed
  OBVIOUS
<1>2. Holds(uds', sent', answer', elapsed')
  BY <1>1 DEF IInv
<1> QED
  BY <1>1, <1>2, Kept DEF IInv
================================================================================
