---------------------------- MODULE DiagnosticStack ----------------------------
(***************************************************************************)
(* An ObdService and a UdsService over one DiagnosticTransport, as both    *)
(* accept any transport by reference and nothing keeps an owner from       *)
(* giving them the same. Requests and polls of the two interleave; each    *)
(* service is the module of its own, and time passes for both at once.     *)
(***************************************************************************)
EXTENDS Naturals, Sequences

CONSTANTS
  Message, NoMessage,
  Dids, StatusMasks, UdsServiceConfig, UdsRawDataLength,
  Pids, ObdServiceConfig, ObdRawDataLength, kVinLength, kMaxStoredDtcRecords

VARIABLES
  transport,                                \* shared
  uConfig, uds, uSent, uAnswer, uElapsed,   \* the UDS service
  oConfig, obd, oSent, oAnswer, oElapsed    \* the OBD-II service

udsVars == <<uConfig, uds, uSent, uAnswer, uElapsed>>
obdVars == <<oConfig, obd, oSent, oAnswer, oElapsed>>
vars == <<transport, udsVars, obdVars>>

Uds == INSTANCE UdsService WITH
  config <- uConfig, sent <- uSent, answer <- uAnswer, elapsed <- uElapsed,
  kMaxRawDataLength <- UdsRawDataLength

Obd == INSTANCE ObdService WITH
  config <- oConfig, sent <- oSent, answer <- oAnswer, elapsed <- oElapsed,
  kMaxRawDataLength <- ObdRawDataLength

\* What each service assumes when it is alone.
ASSUME UdsAssumptions ==
  /\ Uds!NoMessageIsNotAMessage /\ Uds!MessagesAreBytes /\ Uds!DidsAreTwoBytes
  /\ Uds!TimeoutsAreNatural /\ Uds!CapacityHoldsAHeader

ASSUME ObdAssumptions ==
  /\ Obd!NoMessageIsNotAMessage /\ Obd!MessagesAreBytes /\ Obd!PidsAreBytes
  /\ Obd!TimeoutsAreNatural /\ Obd!CapacitiesAreNatural

Init == Uds!Init /\ Obd!Init

(***************************************************************************)
(* Steps.                                                                  *)
(***************************************************************************)
UdsCall ==
  /\ \/ \E did \in Dids : Uds!RequestReadDataByIdentifier(did)
     \/ \E mask \in StatusMasks : Uds!RequestReportDtcByStatusMask(mask)
     \/ Uds!Poll
  /\ UNCHANGED obdVars

ObdCall ==
  /\ \/ \E pid \in Pids : Obd!RequestCurrentData(pid) \/ Obd!RequestSupportedPids(pid)
     \/ Obd!RequestVin
     \/ Obd!RequestStoredDtcs
     \/ Obd!Poll
  /\ UNCHANGED udsVars

UdsWaits == uds.state = "AwaitingResponse" /\ uds.waitLeft > 0
ObdWaits == obd.state = "AwaitingResponse" /\ obd.waitLeft > 0

Tick ==
  /\ UdsWaits \/ ObdWaits
  /\ IF UdsWaits THEN Uds!Tick ELSE UNCHANGED <<transport, udsVars>>
  /\ IF ObdWaits THEN Obd!Tick ELSE UNCHANGED <<transport, obdVars>>

FrameArrives == Uds!FrameArrives /\ UNCHANGED obdVars

Next == UdsCall \/ ObdCall \/ Tick \/ FrameArrives

Spec == Init /\ [][Next]_vars

(***************************************************************************)
(* The application polls both services while they are active, and time     *)
(* passes, as assumed of each service alone.                               *)
(***************************************************************************)
Fairness ==
  /\ WF_vars(Uds!PollWhileWaiting /\ UNCHANGED obdVars)
  /\ WF_vars(Uds!TransmissionAdvances /\ UNCHANGED obdVars)
  /\ WF_vars(Obd!PollWhileWaiting /\ UNCHANGED udsVars)
  /\ WF_vars(Obd!TransmissionAdvances /\ UNCHANGED udsVars)
  /\ WF_vars(Tick)

FairSpec == Spec /\ Fairness

(***************************************************************************)
(* Properties.                                                             *)
(***************************************************************************)

\* The services may take each other's messages but never publish from them: a result is
\* always read from the answer to the own request, as with a transport of one's own.
ResultsAreNotMixedUp == Uds!ResultAnswersRequest /\ Obd!ResultAnswersRequest

\* A completed message leaves the transport only in a poll by a service with a request under
\* way: a request that is refused or cannot begin never throws away the other's response.
OnlyActiveServicesTake ==
  [][transport.pending # NoMessage /\ transport'.pending # transport.pending =>
       \/ Uds!IsRequestActive /\ UNCHANGED obdVars
       \/ Obd!IsRequestActive /\ UNCHANGED udsVars]_vars

\* Sharing keeps neither service waiting for ever, although each may take the response, the
\* transport status or the transmission the other waits for.
BothRequestsEnd == Uds!EveryRequestEnds /\ Obd!EveryRequestEnds
================================================================================
