-------------------------- MODULE DiagnosticStackProofs --------------------------
(***************************************************************************)
(* Theorems about the two services over one transport. The proofs about    *)
(* each service alone say that its invariant survives its own steps; here  *)
(* it also survives those of the other, which change nothing of it but the *)
(* transport, and what is proved of a service alone holds beside the other *)
(* wherever it does not speak of the transport between two of its calls.   *)
(***************************************************************************)
EXTENDS DiagnosticStack, TLAPS

UdsP == INSTANCE UdsServiceProofs WITH
  config <- uConfig, sent <- uSent, answer <- uAnswer, elapsed <- uElapsed,
  kMaxRawDataLength <- UdsRawDataLength

ObdP == INSTANCE ObdServiceProofs WITH
  config <- oConfig, sent <- oSent, answer <- oAnswer, elapsed <- oElapsed,
  kMaxRawDataLength <- ObdRawDataLength

\* Both invariants speak of the one transport.
StackInv == UdsP!IInv /\ ObdP!IInv

(***************************************************************************)
(* Uds and UdsP are the same service, instantiated alone and with the      *)
(* proofs about it; so are Obd and ObdP.                                   *)
(***************************************************************************)

LEMMA UdsAssumed ==
  /\ UdsP!NoMessageIsNotAMessage /\ UdsP!MessagesAreBytes /\ UdsP!DidsAreTwoBytes
  /\ UdsP!TimeoutsAreNatural /\ UdsP!CapacityHoldsAHeader
BY UdsAssumptions
   DEF Uds!Byte, UdsP!Byte, Uds!NoMessageIsNotAMessage, UdsP!NoMessageIsNotAMessage,
   Uds!MessagesAreBytes, UdsP!MessagesAreBytes, Uds!DidsAreTwoBytes, UdsP!DidsAreTwoBytes,
   Uds!TimeoutsAreNatural, UdsP!TimeoutsAreNatural,
   Uds!CapacityHoldsAHeader, UdsP!CapacityHoldsAHeader

LEMMA ObdAssumed ==
  /\ ObdP!NoMessageIsNotAMessage /\ ObdP!MessagesAreBytes /\ ObdP!PidsAreBytes
  /\ ObdP!TimeoutsAreNatural /\ ObdP!CapacitiesAreNatural
BY ObdAssumptions
   DEF Obd!Byte, ObdP!Byte, Obd!NoMessageIsNotAMessage, ObdP!NoMessageIsNotAMessage,
   Obd!MessagesAreBytes, ObdP!MessagesAreBytes, Obd!PidsAreBytes, ObdP!PidsAreBytes,
   Obd!TimeoutsAreNatural, ObdP!TimeoutsAreNatural,
   Obd!CapacitiesAreNatural, ObdP!CapacitiesAreNatural

LEMMA SameUdsSteps ==
  /\ Uds!Init <=> UdsP!Init
  /\ \A did : Uds!RequestReadDataByIdentifier(did) <=> UdsP!RequestReadDataByIdentifier(did)
  /\ \A mask :
       Uds!RequestReportDtcByStatusMask(mask) <=> UdsP!RequestReportDtcByStatusMask(mask)
  /\ Uds!Poll <=> UdsP!Poll
  /\ Uds!Tick <=> UdsP!Tick
  /\ Uds!FrameArrives <=> UdsP!FrameArrives
BY Zenon DEF Uds!Begin, UdsP!Begin, Uds!BeginAssembly, UdsP!BeginAssembly,
   Uds!BeginResponseWait, UdsP!BeginResponseWait, Uds!BeginTransmission,
   UdsP!BeginTransmission, Uds!ClearResult, UdsP!ClearResult, Uds!Continue, UdsP!Continue,
   Uds!CountPending, UdsP!CountPending, Uds!DeadlineReached, UdsP!DeadlineReached,
   Uds!DidVerdict, UdsP!DidVerdict, Uds!DiscardOutcome, UdsP!DiscardOutcome, Uds!DtcVerdict,
   UdsP!DtcVerdict, Uds!EndAssembly, UdsP!EndAssembly, Uds!EndTransmission,
   UdsP!EndTransmission, Uds!Finish, UdsP!Finish, Uds!FinishWithoutTransport,
   UdsP!FinishWithoutTransport, Uds!Fits, UdsP!Fits, Uds!Forward, UdsP!Forward,
   Uds!FrameArrives, UdsP!FrameArrives, Uds!FrameStates, UdsP!FrameStates, Uds!HandleResponse,
   UdsP!HandleResponse, Uds!IdleTransport, UdsP!IdleTransport, Uds!Init, UdsP!Init,
   Uds!IsConfigValid, UdsP!IsConfigValid, Uds!IsRequestActive, UdsP!IsRequestActive,
   Uds!MaxElapsed, UdsP!MaxElapsed, Uds!MaxWait, UdsP!MaxWait, Uds!MessageArrives,
   UdsP!MessageArrives, Uds!NegativeVerdict, UdsP!NegativeVerdict, Uds!NoResult,
   UdsP!NoResult, Uds!NonFailingPollStatus, UdsP!NonFailingPollStatus, Uds!NoteNrc,
   UdsP!NoteNrc, Uds!Outcomes, UdsP!Outcomes, Uds!Poll, UdsP!Poll, Uds!PollIdle,
   UdsP!PollIdle, Uds!PollOutcomes, UdsP!PollOutcomes, Uds!PollResponse, UdsP!PollResponse,
   Uds!PollTransmission, UdsP!PollTransmission, Uds!PositiveService, UdsP!PositiveService,
   Uds!ReceiveOutcome, UdsP!ReceiveOutcome, Uds!ReceiveResponse, UdsP!ReceiveResponse,
   Uds!RejectMisconfigured, UdsP!RejectMisconfigured, Uds!RejectWhileActive,
   UdsP!RejectWhileActive, Uds!RequestReadDataByIdentifier, UdsP!RequestReadDataByIdentifier,
   Uds!RequestReportDtcByStatusMask, UdsP!RequestReportDtcByStatusMask, Uds!ResultOf,
   UdsP!ResultOf, Uds!SendFailure, UdsP!SendFailure, Uds!ServiceOf, UdsP!ServiceOf,
   Uds!SetStatus, UdsP!SetStatus, Uds!StartGuardedRequest, UdsP!StartGuardedRequest,
   Uds!StartSendOutcomes, UdsP!StartSendOutcomes, Uds!TakeMessage, UdsP!TakeMessage, Uds!Tick,
   UdsP!Tick, Uds!Verdict, UdsP!Verdict, Uds!kNegativeResponse, UdsP!kNegativeResponse,
   Uds!kReportDtcByStatusMask, UdsP!kReportDtcByStatusMask, Uds!kResponsePendingNrc,
   UdsP!kResponsePendingNrc, Uds!kUdsReadDataByIdentifier, UdsP!kUdsReadDataByIdentifier,
   Uds!kUdsReadDtcInformation, UdsP!kUdsReadDtcInformation, Uds!startUdsReadDataByIdentifier,
   UdsP!startUdsReadDataByIdentifier, Uds!startUdsReportDtcByStatusMask,
   UdsP!startUdsReportDtcByStatusMask, Uds!vars, UdsP!vars

LEMMA SameObdSteps ==
  /\ Obd!Init <=> ObdP!Init
  /\ \A pid : Obd!RequestCurrentData(pid) <=> ObdP!RequestCurrentData(pid)
  /\ \A pid : Obd!RequestSupportedPids(pid) <=> ObdP!RequestSupportedPids(pid)
  /\ Obd!RequestVin <=> ObdP!RequestVin
  /\ Obd!RequestStoredDtcs <=> ObdP!RequestStoredDtcs
  /\ Obd!Poll <=> ObdP!Poll
  /\ Obd!Tick <=> ObdP!Tick
BY Zenon DEF Obd!Begin, ObdP!Begin, Obd!BeginRequest, ObdP!BeginRequest,
   Obd!BeginResponseWait, ObdP!BeginResponseWait, Obd!BeginTransmission,
   ObdP!BeginTransmission, Obd!BeginTransport, ObdP!BeginTransport, Obd!ClearResult,
   ObdP!ClearResult, Obd!Continue, ObdP!Continue, Obd!DeadlineReached, ObdP!DeadlineReached,
   Obd!DiscardOutcome, ObdP!DiscardOutcome, Obd!DtcPairs, ObdP!DtcPairs, Obd!EndAssembly,
   ObdP!EndAssembly, Obd!EndTransmission, ObdP!EndTransmission, Obd!Finish, ObdP!Finish,
   Obd!FinishWithoutTransport, ObdP!FinishWithoutTransport, Obd!Fits, ObdP!Fits, Obd!Forward,
   ObdP!Forward, Obd!HandleResponse, ObdP!HandleResponse, Obd!IdleTransport,
   ObdP!IdleTransport, Obd!Init, ObdP!Init, Obd!IsConfigValid, ObdP!IsConfigValid,
   Obd!IsRequestActive, ObdP!IsRequestActive, Obd!IsSupportedPidBlockBase,
   ObdP!IsSupportedPidBlockBase, Obd!Matches, ObdP!Matches, Obd!ModeOf, ObdP!ModeOf,
   Obd!NoResult, ObdP!NoResult, Obd!NonFailingPollStatus, ObdP!NonFailingPollStatus,
   Obd!Outcomes, ObdP!Outcomes, Obd!Poll, ObdP!Poll, Obd!PollIdle, ObdP!PollIdle,
   Obd!PollOutcomes, ObdP!PollOutcomes, Obd!PollResponse, ObdP!PollResponse,
   Obd!PollTransmission, ObdP!PollTransmission, Obd!PositiveService, ObdP!PositiveService,
   Obd!ReceiveOutcome, ObdP!ReceiveOutcome, Obd!ReceiveResponse, ObdP!ReceiveResponse,
   Obd!Refuse, ObdP!Refuse, Obd!RejectInvalid, ObdP!RejectInvalid, Obd!RejectMisconfigured,
   ObdP!RejectMisconfigured, Obd!RejectWhileActive, ObdP!RejectWhileActive,
   Obd!RequestCurrentData, ObdP!RequestCurrentData, Obd!RequestStoredDtcs,
   ObdP!RequestStoredDtcs, Obd!RequestSupportedPids, ObdP!RequestSupportedPids,
   Obd!RequestVin, ObdP!RequestVin, Obd!ResultOf, ObdP!ResultOf, Obd!SendFailure,
   ObdP!SendFailure, Obd!SetStatus, ObdP!SetStatus, Obd!StartSendOutcomes,
   ObdP!StartSendOutcomes, Obd!StoredDtcsOf, ObdP!StoredDtcsOf, Obd!TakeMessage,
   ObdP!TakeMessage, Obd!Tick, ObdP!Tick, Obd!WellFormed, ObdP!WellFormed, Obd!WithoutPadding,
   ObdP!WithoutPadding, Obd!kModeCurrentData, ObdP!kModeCurrentData, Obd!kModeStoredDtcRead,
   ObdP!kModeStoredDtcRead, Obd!kModeVehicleInformation, ObdP!kModeVehicleInformation,
   Obd!kVinPid, ObdP!kVinPid, Obd!startObdSinglePid, ObdP!startObdSinglePid,
   Obd!startObdStoredDtcRead, ObdP!startObdStoredDtcRead, Obd!vars, ObdP!vars

LEMMA SameUdsProperties ==
  /\ Uds!IsRequestActive <=> UdsP!IsRequestActive
  /\ Uds!ResultAnswersRequest <=> UdsP!ResultAnswersRequest
  /\ Uds!WaitIsBounded <=> UdsP!WaitIsBounded
BY Zenon DEF Uds!IsRequestActive, UdsP!IsRequestActive, Uds!MaxWait, UdsP!MaxWait,
   Uds!PositiveService, UdsP!PositiveService, Uds!ResultAnswersRequest,
   UdsP!ResultAnswersRequest, Uds!WaitIsBounded, UdsP!WaitIsBounded,
   Uds!kUdsReadDataByIdentifier, UdsP!kUdsReadDataByIdentifier, Uds!kUdsReadDtcInformation,
   UdsP!kUdsReadDtcInformation

LEMMA SameObdProperties ==
  /\ Obd!IsRequestActive <=> ObdP!IsRequestActive
  /\ Obd!ResultAnswersRequest <=> ObdP!ResultAnswersRequest
  /\ Obd!WaitIsBounded <=> ObdP!WaitIsBounded
BY Zenon DEF Obd!IsRequestActive, ObdP!IsRequestActive, Obd!NoResult, ObdP!NoResult,
   Obd!PositiveService, ObdP!PositiveService, Obd!ResultAnswersRequest,
   ObdP!ResultAnswersRequest, Obd!IsContentOf, ObdP!IsContentOf, Obd!HoldsEveryCode,
   ObdP!HoldsEveryCode, Obd!CodesIn, ObdP!CodesIn, Obd!WaitIsBounded, ObdP!WaitIsBounded,
   Obd!kModeCurrentData, ObdP!kModeCurrentData, Obd!kModeStoredDtcRead,
   ObdP!kModeStoredDtcRead, Obd!kModeVehicleInformation, ObdP!kModeVehicleInformation

LEMMA SameTransport == UdsP!TransportState = ObdP!TransportState
BY DEF UdsP!TransportState, ObdP!TransportState

(***************************************************************************)
(* The invariant. A step of the stack is a step of one service, which the  *)
(* other sees as a change of its transport.                                *)
(***************************************************************************)

LEMMA UdsMoves ==
  ASSUME StackInv, [UdsP!Next]_UdsP!vars, UNCHANGED obdVars
  PROVE  StackInv'
<1>1. UdsP!IInv'
  BY UdsAssumed, UdsP!StepKeeps DEF StackInv
<1>2. transport' \in ObdP!TransportState
  BY <1>1, SameTransport DEF UdsP!IInv
<1>3. ObdP!IInv'
  BY <1>2, ObdAssumed, ObdP!OthersMoveTheTransport DEF StackInv, obdVars
<1> QED
  BY <1>1, <1>3 DEF StackInv

LEMMA ObdMoves ==
  ASSUME StackInv, [ObdP!Next]_ObdP!vars, UNCHANGED udsVars
  PROVE  StackInv'
<1>1. ObdP!IInv'
  BY ObdAssumed, ObdP!StepKeeps DEF StackInv
<1>2. transport' \in UdsP!TransportState
  BY <1>1, SameTransport DEF ObdP!IInv
<1>3. UdsP!IInv'
  BY <1>2, UdsAssumed, UdsP!OthersMoveTheTransport DEF StackInv, udsVars
<1> QED
  BY <1>1, <1>3 DEF StackInv

LEMMA UdsCallIsAStep == UdsCall => UdsP!Next /\ UNCHANGED obdVars
BY SameUdsSteps DEF UdsCall, UdsP!Next

LEMMA ObdCallIsAStep == ObdCall => ObdP!Next /\ UNCHANGED udsVars
BY SameObdSteps DEF ObdCall, ObdP!Next

\* Time passes for each service that waits, and the transport keeps still.
LEMMA TickIsAStepOfEach ==
  ASSUME Tick
  PROVE  [UdsP!Next]_UdsP!vars /\ [ObdP!Next]_ObdP!vars /\ UNCHANGED transport
<1>1. CASE UdsWaits
  <2>1. UdsP!Tick
    BY <1>1, SameUdsSteps DEF Tick
  <2>2. UNCHANGED transport
    BY <2>1 DEF UdsP!Tick
  <2>3. CASE ObdWaits
    BY <1>1, <2>1, <2>2, <2>3, SameObdSteps DEF Tick, UdsP!Next, ObdP!Next
  <2>4. CASE ~ObdWaits
    BY <2>1, <2>2, <2>4 DEF Tick, obdVars, UdsP!Next, ObdP!vars
  <2> QED
    BY <2>3, <2>4
<1>2. CASE ~UdsWaits
  <2>1. UNCHANGED <<transport, udsVars>> /\ ObdWaits
    BY <1>2 DEF Tick
  <2>2. ObdP!Tick
    BY <2>1, SameObdSteps DEF Tick
  <2> QED
    BY <2>1, <2>2 DEF udsVars, ObdP!Next, UdsP!vars
<1> QED
  BY <1>1, <1>2

LEMMA TickKeeps ==
  ASSUME StackInv, Tick
  PROVE  StackInv'
<1>1. [UdsP!Next]_UdsP!vars /\ [ObdP!Next]_ObdP!vars
  BY TickIsAStepOfEach
<1>2. UdsP!IInv'
  BY <1>1, UdsAssumed, UdsP!StepKeeps DEF StackInv
<1>3. ObdP!IInv'
  BY <1>1, ObdAssumed, ObdP!StepKeeps DEF StackInv
<1> QED
  BY <1>2, <1>3 DEF StackInv

LEMMA FrameArrivesIsAStep == FrameArrives => UdsP!Next /\ UNCHANGED obdVars
BY SameUdsSteps DEF FrameArrives, UdsP!Next

LEMMA StackStepKeeps == StackInv /\ [Next]_vars => StackInv'
<1> SUFFICES ASSUME StackInv, [Next]_vars
             PROVE  StackInv'
  OBVIOUS
<1>1. CASE UdsCall
  BY <1>1, UdsCallIsAStep, UdsMoves
<1>2. CASE ObdCall
  BY <1>2, ObdCallIsAStep, ObdMoves
<1>3. CASE Tick
  BY <1>3, TickKeeps
<1>4. CASE FrameArrives
  BY <1>4, FrameArrivesIsAStep, UdsMoves
<1>5. CASE UNCHANGED vars
  BY <1>5, UdsMoves DEF vars, udsVars, obdVars, UdsP!vars
<1> QED
  BY <1>1, <1>2, <1>3, <1>4, <1>5 DEF Next

LEMMA StackInitHolds == Init => StackInv
<1>1. UdsP!Init => UdsP!IInv
  BY UdsAssumed, UdsP!InitHolds
<1>2. ObdP!Init => ObdP!IInv
  BY ObdAssumed, ObdP!InitHolds
<1> QED
  BY <1>1, <1>2, SameUdsSteps, SameObdSteps DEF Init, StackInv

(***************************************************************************)
(* The theorems.                                                           *)
(***************************************************************************)

\* Sharing a transport breaks the invariant of neither service.
THEOREM SharingKeepsInvariants == Spec => []StackInv
BY StackInitHolds, StackStepKeeps, PTL DEF Spec

\* The services may take each other's messages, but no result is published from them: what
\* either shows is the answer to the request it sent last.
THEOREM ResultsNotMixedUp == Spec => []ResultsAreNotMixedUp
<1>1. StackInv => ResultsAreNotMixedUp
  <2>1. UdsP!IInv => UdsP!ResultAnswersRequest
    BY UdsAssumed, UdsP!InvariantAnswers
  <2>2. ObdP!IInv => ObdP!ResultAnswersRequest
    BY ObdAssumed, ObdP!InvariantAnswers
  <2> QED
    BY <2>1, <2>2, SameUdsProperties, SameObdProperties DEF StackInv, ResultsAreNotMixedUp
<1> QED
  BY <1>1, SharingKeepsInvariants, PTL

\* Neither service's wait for a response grows longer by what the other does.
THEOREM SharingKeepsWaits == Spec => [](Uds!WaitIsBounded /\ Obd!WaitIsBounded)
<1>1. StackInv => Uds!WaitIsBounded /\ Obd!WaitIsBounded
  <2>1. UdsP!IInv => UdsP!WaitIsBounded
    BY UdsAssumed, UdsP!InvariantBounds
  <2>2. ObdP!IInv => ObdP!WaitIsBounded
    BY ObdAssumed, ObdP!InvariantBounds
  <2> QED
    BY <2>1, <2>2, SameUdsProperties, SameObdProperties DEF StackInv
<1> QED
  BY <1>1, SharingKeepsInvariants, PTL

(***************************************************************************)
(* What the steps show an application, and what becomes of a message.      *)
(***************************************************************************)

\* A message leaves the transport only where an active service took or discarded it.
LEMMA OnlyActiveTake ==
  ASSUME StackInv, [Next]_vars,
         transport.pending # NoMessage, transport'.pending # transport.pending
  PROVE  \/ Uds!IsRequestActive /\ UNCHANGED obdVars
         \/ Obd!IsRequestActive /\ UNCHANGED udsVars
<1>1. transport \in UdsP!TransportState /\ transport \in ObdP!TransportState
  BY SameTransport DEF StackInv, UdsP!IInv
<1>2. CASE UdsCall
  <2>1. \/ \E did \in Dids : UdsP!RequestReadDataByIdentifier(did)
        \/ \E mask \in StatusMasks : UdsP!RequestReportDtcByStatusMask(mask)
        \/ UdsP!Poll
    BY <1>2, SameUdsSteps DEF UdsCall
  <2>2. UdsP!IsRequestActive
    BY <1>1, <2>1, UdsAssumed, UdsP!IdleTakesNothing
  <2> QED
    BY <1>2, <2>2, SameUdsProperties DEF UdsCall
<1>3. CASE ObdCall
  <2>1. \/ \E pid \in Pids : ObdP!RequestCurrentData(pid) \/ ObdP!RequestSupportedPids(pid)
        \/ ObdP!RequestVin
        \/ ObdP!RequestStoredDtcs
        \/ ObdP!Poll
    BY <1>3, SameObdSteps DEF ObdCall
  <2>2. ObdP!IsRequestActive
    BY <1>1, <2>1, ObdAssumed, ObdP!IdleTakesNothing
  <2> QED
    BY <1>3, <2>2, SameObdProperties DEF ObdCall
<1>4. CASE Tick
  BY <1>4, TickIsAStepOfEach
<1>5. CASE FrameArrives
  <2>1. transport' \in UdsP!FrameStates(transport)
    BY <1>5, SameUdsSteps DEF FrameArrives, UdsP!FrameArrives
  <2> QED
    BY <1>1, <2>1, UdsAssumed, UdsP!FramesKeepTransport
<1>6. CASE UNCHANGED vars
  BY <1>6 DEF vars
<1> QED
  BY <1>2, <1>3, <1>4, <1>5, <1>6 DEF Next

\* A step of the stack is a step of the service alone, or leaves its members as they are.
LEMMA UdsStepOrNone ==
  ASSUME [Next]_vars
  PROVE  [UdsP!Next]_UdsP!vars \/ UNCHANGED udsVars
BY UdsCallIsAStep, ObdCallIsAStep, TickIsAStepOfEach, FrameArrivesIsAStep DEF Next, vars

LEMMA ObdStepOrNone ==
  ASSUME [Next]_vars
  PROVE  [ObdP!Next]_ObdP!vars \/ UNCHANGED obdVars
BY UdsCallIsAStep, ObdCallIsAStep, TickIsAStepOfEach, FrameArrivesIsAStep DEF Next, vars

LEMMA UdsShows ==
  ASSUME StackInv, [Next]_vars
  PROVE  /\ [UdsP!Lifecycle!Next]_UdsP!Seen
         /\ uds.state # "Idle" /\ uds'.state = "Idle" => transport'.pending = NoMessage
<1>1. CASE [UdsP!Next]_UdsP!vars
  BY <1>1, UdsAssumed, UdsP!StepIsSeen DEF StackInv, UdsP!Advances, UdsP!Lifecycle!Next
<1>2. CASE UNCHANGED udsVars
  BY <1>2 DEF udsVars, UdsP!Seen, UdsP!IsRequestActive
<1> QED
  BY <1>1, <1>2, UdsStepOrNone

LEMMA ObdShows ==
  ASSUME StackInv, [Next]_vars
  PROVE  /\ [ObdP!Lifecycle!Next]_<<ObdP!IsRequestActive, obd.status,
                                     obd.result # ObdP!NoResult>>
         /\ obd.state # "Idle" /\ obd'.state = "Idle" => transport'.pending = NoMessage
<1>1. CASE [ObdP!Next]_ObdP!vars
  BY <1>1, ObdAssumed, ObdP!StepKeeps
     DEF StackInv, ObdP!Shown, ObdP!Advances, ObdP!Lifecycle!Next
<1>2. CASE UNCHANGED obdVars
  BY <1>2 DEF obdVars, ObdP!IsRequestActive
<1> QED
  BY <1>1, <1>2, ObdStepOrNone

LEMMA SameUdsLifecycle ==
  /\ UdsP!IsRequestActive <=> Uds!IsRequestActive
  /\ UdsP!NoResult = Uds!NoResult
  /\ UdsP!Lifecycle!Next <=> Uds!Lifecycle!Next
BY Zenon DEF Uds!IsRequestActive, UdsP!IsRequestActive, Uds!NoResult, UdsP!NoResult,
   Uds!Lifecycle!Init, UdsP!Lifecycle!Init, Uds!Lifecycle!Next, UdsP!Lifecycle!Next,
   Uds!Lifecycle!Refuse, UdsP!Lifecycle!Refuse, Uds!Lifecycle!Refusals,
   UdsP!Lifecycle!Refusals, Uds!Lifecycle!Start, UdsP!Lifecycle!Start, Uds!Lifecycle!Remain,
   UdsP!Lifecycle!Remain, Uds!Lifecycle!Ongoing, UdsP!Lifecycle!Ongoing,
   Uds!Lifecycle!Succeed, UdsP!Lifecycle!Succeed, Uds!Lifecycle!Fail, UdsP!Lifecycle!Fail,
   Uds!Lifecycle!Failures, UdsP!Lifecycle!Failures

LEMMA SameObdLifecycle ==
  /\ ObdP!IsRequestActive <=> Obd!IsRequestActive
  /\ ObdP!NoResult = Obd!NoResult
  /\ ObdP!Lifecycle!Next <=> Obd!Lifecycle!Next
BY Zenon DEF Obd!IsRequestActive, ObdP!IsRequestActive, Obd!NoResult, ObdP!NoResult,
   Obd!Lifecycle!Init, ObdP!Lifecycle!Init, Obd!Lifecycle!Next, ObdP!Lifecycle!Next,
   Obd!Lifecycle!Refuse, ObdP!Lifecycle!Refuse, Obd!Lifecycle!Refusals,
   ObdP!Lifecycle!Refusals, Obd!Lifecycle!Start, ObdP!Lifecycle!Start, Obd!Lifecycle!Remain,
   ObdP!Lifecycle!Remain, Obd!Lifecycle!Ongoing, ObdP!Lifecycle!Ongoing,
   Obd!Lifecycle!Succeed, ObdP!Lifecycle!Succeed, Obd!Lifecycle!Fail, ObdP!Lifecycle!Fail,
   Obd!Lifecycle!Failures, ObdP!Lifecycle!Failures

\* A completed message leaves the transport only in a call by a service with a request under
\* way: a request that is refused or begins never throws away the other's response.
THEOREM ActiveServicesTake == Spec => OnlyActiveServicesTake
<1>1. StackInv /\ [Next]_vars
        => [transport.pending # NoMessage /\ transport'.pending # transport.pending =>
              \/ Uds!IsRequestActive /\ UNCHANGED obdVars
              \/ Obd!IsRequestActive /\ UNCHANGED udsVars]_vars
  BY OnlyActiveTake
<1> QED
  BY <1>1, SharingKeepsInvariants, PTL DEF Spec, OnlyActiveServicesTake

\* Both services keep the contract of RequestLifecycle beside each other, although either
\* may take the message, the status or the transmission the other waits for.
THEOREM SharingKeepsLifecycles == Spec => Uds!ImplementsLifecycle /\ Obd!ImplementsLifecycle
<1>1. Init => Uds!Lifecycle!Init
  BY DEF Init, Uds!Init, Uds!Lifecycle!Init, Uds!IsRequestActive
<1>2. Init => Obd!Lifecycle!Init
  BY DEF Init, Obd!Init, Obd!Lifecycle!Init, Obd!IsRequestActive
<1>3. StackInv /\ [Next]_vars
        => [Uds!Lifecycle!Next]_<<Uds!IsRequestActive, uds.status, uds.result # Uds!NoResult>>
  BY UdsShows, SameUdsLifecycle DEF UdsP!Seen, Uds!IsRequestActive, UdsP!IsRequestActive,
     Uds!NoResult, UdsP!NoResult
<1>4. StackInv /\ [Next]_vars
        => [Obd!Lifecycle!Next]_<<Obd!IsRequestActive, obd.status, obd.result # Obd!NoResult>>
  BY ObdShows, SameObdLifecycle DEF Obd!IsRequestActive, ObdP!IsRequestActive,
     Obd!NoResult, ObdP!NoResult
<1> QED
  BY <1>1, <1>2, <1>3, <1>4, SharingKeepsInvariants, PTL
     DEF Spec, Uds!ImplementsLifecycle, Obd!ImplementsLifecycle, Uds!Lifecycle!Spec,
         Obd!Lifecycle!Spec

\* A request that ends leaves the transport empty for its own next request, also when the
\* message it discards was the other service's.
THEOREM SharingKeepsEndsClean == Spec => Uds!EndLeavesNoMessage /\ Obd!EndLeavesNoMessage
<1>1. StackInv /\ [Next]_vars
        => [Uds!IsRequestActive /\ uds'.state = "Idle" => transport'.pending = NoMessage]_Uds!vars
  BY UdsShows DEF Uds!IsRequestActive
<1>2. StackInv /\ [Next]_vars
        => [Obd!IsRequestActive /\ obd'.state = "Idle" => transport'.pending = NoMessage]_Obd!vars
  BY ObdShows DEF Obd!IsRequestActive
<1> QED
  BY <1>1, <1>2, SharingKeepsInvariants, PTL
     DEF Spec, Uds!EndLeavesNoMessage, Obd!EndLeavesNoMessage
================================================================================
