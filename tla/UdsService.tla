------------------------------ MODULE UdsService ------------------------------
(***************************************************************************)
(* The UDS client service (protocol/uds_service.h): one request at a time  *)
(* over a DiagnosticTransport, reached through the ReadOnlyGuard. The      *)
(* application asks and polls; frames reach the transport on their own.    *)
(*                                                                         *)
(* Time is what is left of the response wait: Tick is one unit of Clock,   *)
(* and clock_.nowMs() >= responseDeadlineMs_ is waitLeft = 0; a service    *)
(* that waits for no response has nothing left to wait.                    *)
(***************************************************************************)
EXTENDS DiagnosticTransport, ReadOnlyGuard

CONSTANTS
  Dids,                \* identifiers the application asks for, <<high, low>>
  StatusMasks,         \* DTC status masks the application asks for
  UdsServiceConfig,    \* configurations: [responseTimeout, pendingTimeout, maxPending]
  kMaxRawDataLength    \* capacity of response_ and of rawData_

ASSUME MessagesAreBytes == Message \subseteq Seq(Byte)
ASSUME DidsAreTwoBytes == Dids \subseteq Byte \X Byte /\ StatusMasks \subseteq Byte
ASSUME TimeoutsAreNatural ==
  UdsServiceConfig \subseteq
    [responseTimeout : Nat, pendingTimeout : Nat, maxPending : Byte]
ASSUME CapacityHoldsAHeader == kMaxRawDataLength \in Nat /\ kMaxRawDataLength >= 3

VARIABLES
  config,      \* config_
  transport,   \* the transport behind guard_, as the contract describes it
  uds,         \* the members of the service
  sent,        \* history: the last payload handed to startSend
  answer,      \* history: the message the published result was read from
  elapsed      \* history: time since the response wait began, up to MaxElapsed

vars == <<config, transport, uds, sent, answer, elapsed>>

kNegativeResponse   == 127   \* 0x7F
kResponsePendingNrc == 120   \* 0x78

ServiceOf ==
  [ReadDataByIdentifier  |-> kUdsReadDataByIdentifier,
   ReportDtcByStatusMask |-> kUdsReadDtcInformation]

RequestKind == DOMAIN ServiceOf

UdsServiceStatus ==
  {"Idle", "InProgress", "Busy", "ResponseReady", "ResponsePending", "NegativeResponse",
   "PendingLimitExceeded", "Timeout", "InvalidResponse", "UnexpectedResponse",
   "PolicyDenied", "InvalidRequest", "TransportFailure"}

NoResult == [raw |-> <<>>, mask |-> 0, dtcs |-> <<>>]

\* The longest a response wait may last, one unit over which elapsed stops counting.
MaxWait    == config.responseTimeout + config.maxPending * config.pendingTimeout
MaxElapsed == MaxWait + 1

Init ==
  /\ config \in UdsServiceConfig
  /\ transport = IdleTransport
  /\ uds = [state |-> "Idle", kind |-> "ReadDataByIdentifier", did |-> <<0, 0>>,
            status |-> "Idle", lastTransport |-> "Idle", nrc |-> 0,
            pendingCount |-> 0, waitLeft |-> 0, result |-> NoResult]
  /\ sent = <<>>
  /\ answer = <<>>
  /\ elapsed = 0

(***************************************************************************)
(* The helpers the handlers share.                                         *)
(***************************************************************************)
IsRequestActive == uds.state # "Idle"

SetStatus(u, status) == [u EXCEPT !.status = status]

BeginResponseWait(u, timeout) ==
  [u EXCEPT !.state = "AwaitingResponse", !.waitLeft = timeout]

\* Mutant: a new request keeps the result of the one before.
ClearResultButRecords(u) == [u EXCEPT !.nrc = 0, !.pendingCount = 0]

ClearResult(u) == [u EXCEPT !.result = NoResult, !.nrc = 0, !.pendingCount = 0]

\* Mutant: the end of a request leaves the completed message to the next one.
FinishKeepingMessage(t, u, status) ==
  /\ transport' = t
  /\ uds' = [SetStatus(u, status) EXCEPT !.state = "Idle", !.waitLeft = 0]

\* Mutant: a request that could not even begin drops the message as well.
FinishAlwaysDiscarding(t, u, status) ==
  /\ transport' = DiscardOutcome(t)
  /\ uds' = [SetStatus(u, status) EXCEPT !.state = "Idle", !.waitLeft = 0]

\* Ending an active request also drops whatever message completed meanwhile.
Finish(t, u, status) ==
  /\ transport' = IF IsRequestActive THEN DiscardOutcome(t) ELSE t
  /\ uds' = [SetStatus(u, status) EXCEPT !.state = "Idle", !.waitLeft = 0]

FinishWithoutTransport(u, status) ==
  /\ uds' = [SetStatus(u, status) EXCEPT !.state = "Idle"]
  /\ UNCHANGED transport

Continue(t, u, status) ==
  /\ transport' = t
  /\ uds' = SetStatus(u, status)

(***************************************************************************)
(* requestReadDataByIdentifier, requestReportDtcByStatusMask               *)
(***************************************************************************)
RejectWhileActive ==
  /\ IsRequestActive
  /\ uds' = SetStatus(uds, "Busy")
  /\ UNCHANGED <<config, transport, sent, answer, elapsed>>

IsConfigValid == config.responseTimeout # 0 /\ config.pendingTimeout # 0

RejectMisconfigured ==
  /\ ~IsRequestActive
  /\ ~IsConfigValid
  /\ FinishWithoutTransport(uds, "InvalidRequest")
  /\ UNCHANGED <<config, sent, answer, elapsed>>

\* `prepared` is the service with its result cleared and the new request noted.
StartGuardedRequest(prepared, guarded) ==
  IF guarded.status # "Forwarded"
  THEN /\ FinishWithoutTransport([prepared EXCEPT !.lastTransport = "Idle"], guarded.status)
       /\ UNCHANGED sent
  ELSE \E o \in StartSendOutcomes(transport) :
         LET u == [prepared EXCEPT !.lastTransport = o.ret] IN
         /\ sent' = guarded.payload
         /\ CASE o.ret = "Complete" ->
                   Continue(o.t, BeginResponseWait(u, config.responseTimeout), "InProgress")
              [] o.ret = "InProgress" ->
                   Continue(o.t, [u EXCEPT !.state = "AwaitingTransmit"], "InProgress")
              [] OTHER -> Finish(o.t, u, "TransportFailure")

Begin(kind, did, guarded) ==
  /\ ~IsRequestActive
  /\ IsConfigValid
  /\ StartGuardedRequest([ClearResult(uds) EXCEPT !.kind = kind, !.did = did], guarded)
  /\ answer' = <<>>
  /\ elapsed' = 0
  /\ UNCHANGED config

\* Mutant: the identifier is noted before the service looks whether it is free.
RequestReadDataByIdentifierNotedFirst(did) ==
  \/ /\ IsRequestActive
     /\ uds' = [SetStatus(uds, "Busy") EXCEPT !.did = did]
     /\ UNCHANGED <<config, transport, sent, answer, elapsed>>
  \/ RejectMisconfigured
  \/ Begin("ReadDataByIdentifier", did, startUdsReadDataByIdentifier(did))

RequestReadDataByIdentifier(did) ==
  \/ RejectWhileActive
  \/ RejectMisconfigured
  \/ Begin("ReadDataByIdentifier", did, startUdsReadDataByIdentifier(did))

RequestReportDtcByStatusMask(mask) ==
  \/ RejectWhileActive
  \/ RejectMisconfigured
  \/ Begin("ReportDtcByStatusMask", uds.did, startUdsReportDtcByStatusMask(mask))

(***************************************************************************)
(* handleResponse and the two handlers it calls, as the status they end    *)
(* with. A response is unexpected when it may answer somebody else: the    *)
(* service goes on waiting for its own.                                    *)
(***************************************************************************)
\* Mutant: the pending limit admits one answer more.
NegativeVerdictLimitPlusOne(u, r) ==
  IF Len(r) # 3 THEN "InvalidResponse"
  ELSE IF r[2] # ServiceOf[u.kind] THEN "UnexpectedResponse"
  ELSE IF r[3] # kResponsePendingNrc THEN "NegativeResponse"
  ELSE IF u.pendingCount > config.maxPending THEN "PendingLimitExceeded"
  ELSE "ResponsePending"

NegativeVerdict(u, r) ==
  IF Len(r) # 3 THEN "InvalidResponse"
  ELSE IF r[2] # ServiceOf[u.kind] THEN "UnexpectedResponse"
  ELSE IF r[3] # kResponsePendingNrc THEN "NegativeResponse"
  ELSE IF u.pendingCount >= config.maxPending THEN "PendingLimitExceeded"
  ELSE "ResponsePending"

DidVerdict(u, r) ==
  IF Len(r) < 3 THEN "InvalidResponse"
  ELSE IF <<r[2], r[3]>> # u.did THEN "UnexpectedResponse"
  ELSE IF Len(r) = 3 \/ Len(r) - 3 > kMaxRawDataLength THEN "InvalidResponse"
  ELSE "ResponseReady"

DtcVerdict(r) ==
  IF Len(r) < 2 THEN "InvalidResponse"
  ELSE IF r[2] # kReportDtcByStatusMask THEN "UnexpectedResponse"
  ELSE IF Len(r) < 3 \/ (Len(r) - 3) % 4 # 0 \/ (Len(r) - 3) \div 4 > (kMaxRawDataLength - 3) \div 4
       THEN "InvalidResponse"
  ELSE "ResponseReady"

Verdict(u, r) ==
  IF r = <<>>
  THEN IF u.kind = "ReportDtcByStatusMask" THEN "InvalidResponse" ELSE "UnexpectedResponse"
  ELSE IF r[1] = kNegativeResponse THEN NegativeVerdict(u, r)
  ELSE IF r[1] # PositiveService(ServiceOf[u.kind]) THEN "UnexpectedResponse"
  ELSE IF u.kind = "ReadDataByIdentifier" THEN DidVerdict(u, r)
  ELSE DtcVerdict(r)

\* Raw DTC records keep their order, the zero ones included.
ResultOf(kind, r) ==
  IF kind = "ReadDataByIdentifier"
  THEN [NoResult EXCEPT !.raw = SubSeq(r, 4, Len(r))]
  ELSE [NoResult EXCEPT !.mask = r[3],
                        !.dtcs = [i \in 1..((Len(r) - 3) \div 4) |-> SubSeq(r, 4 * i, 4 * i + 3)]]

NoteNrc(u, r) == [u EXCEPT !.nrc = r[3]]

\* Mutant: response-pending answers are not counted.
CountPendingNever(u) == u

CountPending(u) == [u EXCEPT !.pendingCount = @ + 1]

HandleResponse(t, u, r) ==
  LET verdict == Verdict(u, r) IN
  \/ /\ verdict = "UnexpectedResponse"
     /\ Continue(t, u, verdict)
     /\ UNCHANGED answer
  \/ /\ verdict = "ResponsePending"
     /\ Continue(t, BeginResponseWait(CountPending(NoteNrc(u, r)), config.pendingTimeout), verdict)
     /\ UNCHANGED answer
  \/ /\ verdict \in {"NegativeResponse", "PendingLimitExceeded"}
     /\ Finish(t, NoteNrc(u, r), verdict)
     /\ UNCHANGED answer
  \/ /\ verdict = "InvalidResponse"
     /\ Finish(t, u, verdict)
     /\ UNCHANGED answer
  \/ /\ verdict = "ResponseReady"
     /\ Finish(t, [u EXCEPT !.result = ResultOf(u.kind, r)], verdict)
     /\ answer' = r

(***************************************************************************)
(* poll                                                                    *)
(***************************************************************************)
PollIdle == ~IsRequestActive /\ UNCHANGED vars

PollTransmission(o) ==
  /\ uds.state = "AwaitingTransmit"
  /\ LET u == [uds EXCEPT !.lastTransport = o.ret] IN
     CASE o.ret = "InProgress" -> Continue(o.t, u, "InProgress")
       [] o.ret = "Complete" ->
            Continue(o.t, BeginResponseWait(u, config.responseTimeout), "InProgress")
       [] OTHER -> Finish(o.t, u, "TransportFailure")
  /\ UNCHANGED <<config, sent, answer, elapsed>>

NonFailingPollStatus == {"Idle", "InProgress", "Complete"}

DeadlineReached == uds.waitLeft = 0

Fits(message) == message \in Message /\ Len(message) <= kMaxRawDataLength

ReceiveResponse(t) ==
  LET r == ReceiveOutcome(t, Fits(t.pending))
      u == [uds EXCEPT !.lastTransport = r.ret]
  IN  CASE r.ret = "NoData"   -> Continue(r.t, u, "InProgress") /\ UNCHANGED answer
        [] r.ret = "Complete" -> HandleResponse(r.t, u, t.pending)
        [] OTHER              -> Finish(r.t, u, "TransportFailure") /\ UNCHANGED answer

PollResponse(o) ==
  /\ uds.state = "AwaitingResponse"
  /\ LET u == [uds EXCEPT !.lastTransport = o.ret] IN
     \/ /\ o.ret \notin NonFailingPollStatus
        /\ Finish(o.t, u, "TransportFailure")
        /\ UNCHANGED answer
     \/ /\ o.ret \in NonFailingPollStatus
        /\ DeadlineReached
        /\ Finish(o.t, u, "Timeout")
        /\ UNCHANGED answer
     \/ /\ o.ret \in NonFailingPollStatus
        /\ ~DeadlineReached
        /\ ReceiveResponse(o.t)
  /\ UNCHANGED <<config, sent, elapsed>>

Poll ==
  \/ PollIdle
  \/ \E o \in PollOutcomes(transport) : PollTransmission(o) \/ PollResponse(o)

(***************************************************************************)
(* Time, and the frames onCanFrame hands to the transport.                 *)
(***************************************************************************)
Tick ==
  /\ uds.state = "AwaitingResponse"
  /\ uds.waitLeft > 0
  /\ uds' = [uds EXCEPT !.waitLeft = @ - 1]
  /\ elapsed' = IF elapsed < MaxElapsed THEN elapsed + 1 ELSE elapsed
  /\ UNCHANGED <<config, transport, sent, answer>>

FrameArrives ==
  /\ transport' \in FrameStates(transport)
  /\ UNCHANGED <<config, uds, sent, answer, elapsed>>

Next ==
  \/ \E did \in Dids : RequestReadDataByIdentifier(did)
  \/ \E mask \in StatusMasks : RequestReportDtcByStatusMask(mask)
  \/ Poll
  \/ Tick
  \/ FrameArrives

Spec == Init /\ [][Next]_vars

(***************************************************************************)
(* Properties.                                                             *)
(***************************************************************************)

\* Every member keeps its type; only a service that awaits a response has time left to wait.
TypeOK ==
  /\ config \in UdsServiceConfig
  /\ transport \in TransportState
  /\ uds \in [state : {"Idle", "AwaitingTransmit", "AwaitingResponse"},
              kind : RequestKind, did : Byte \X Byte, status : UdsServiceStatus,
              lastTransport : TransportStatus, nrc : Byte, pendingCount : Byte,
              waitLeft : Nat,
              result : [raw : Seq(Byte), mask : Byte, dtcs : Seq(Seq(Byte))]]
  /\ sent \in Seq(Byte) /\ answer \in Seq(Byte) /\ elapsed \in 0..MaxElapsed
  /\ uds.waitLeft > 0 => uds.state = "AwaitingResponse"
  /\ uds.pendingCount <= config.maxPending

\* A published result is the content of the positive answer to the request sent last, byte for
\* byte: the data of the identifier, or the availability mask and the records of four bytes.
\* So it is whatever else arrived in between and however many requests were refused as Busy.
ResultAnswersRequest ==
  uds.status = "ResponseReady" =>
    /\ answer # <<>>
    /\ answer[1] = PositiveService(sent[1])
    /\ sent[1] = kUdsReadDataByIdentifier =>
         /\ SubSeq(answer, 2, 3) = SubSeq(sent, 2, 3)
         /\ SubSeq(answer, 1, 3) \o uds.result.raw = answer
         /\ uds.result.dtcs = <<>>
    /\ sent[1] = kUdsReadDtcInformation =>
         /\ answer[2] = sent[2]
         /\ uds.result.mask = answer[3]
         /\ Len(answer) = 3 + 4 * Len(uds.result.dtcs)
         /\ \A i \in DOMAIN uds.result.dtcs :
              uds.result.dtcs[i] = SubSeq(answer, 4 * i, 4 * i + 3)
         /\ uds.result.raw = <<>>

\* A request that ends leaves no completed message behind for the next one to take for its
\* own answer.
EndLeavesNoMessage ==
  [][IsRequestActive /\ uds'.state = "Idle" => transport'.pending = NoMessage]_vars

\* Response-pending answers extend the wait, by what the configuration allows and no more:
\* a chatty ECU cannot keep a request waiting.
WaitIsBounded == uds.waitLeft > 0 => elapsed + uds.waitLeft <= MaxWait

\* The service keeps the contract applications rely on: a result is there only from a
\* ResponseReady until the next accepted request, and never part of a malformed one.
Lifecycle == INSTANCE RequestLifecycle WITH
  active    <- IsRequestActive,
  status    <- uds.status,
  published <- uds.result # NoResult

ImplementsLifecycle == Lifecycle!Spec

(***************************************************************************)
(* Liveness. The application polls an active request and time passes. The  *)
(* transport has deadlines of its own: one transmission does not stay      *)
(* InProgress for ever. No progress is expected from InvalidArgument, the  *)
(* answer of a transport whose configuration never lets it send.           *)
(***************************************************************************)
PollWhileWaiting ==
  \E o \in PollOutcomes(transport) : o.ret \in NonFailingPollStatus /\ PollResponse(o)

TransmissionAdvances ==
  \E o \in PollOutcomes(transport) :
    o.ret \notin {"InProgress", "InvalidArgument"} /\ PollTransmission(o)

Fairness ==
  /\ WF_vars(PollWhileWaiting)
  /\ WF_vars(TransmissionAdvances)
  /\ WF_vars(Tick)

FairSpec == Spec /\ Fairness

\* Every accepted request ends, whatever the bus and the ECU do.
EveryRequestEnds == IsRequestActive ~> ~IsRequestActive
===============================================================================
