------------------------ MODULE DiagnosticTransport ------------------------
(***************************************************************************)
(* What a diagnostic service may rely on when it holds a                   *)
(* DiagnosticTransport (protocol/diagnostic_transport.h): at most one      *)
(* outgoing message at a time, at most one completed incoming message,     *)
(* kept until it is received or discarded, and never a completed message   *)
(* beside an unfinished assembly.                                          *)
(*                                                                         *)
(* The four calls are sets of outcomes, [t |-> next state, ret |-> status],*)
(* so that a service, which makes several calls within one of its own      *)
(* steps, can chain them. DiagnosticTransportSpec turns them into a        *)
(* specification.                                                          *)
(***************************************************************************)
EXTENDS Naturals

CONSTANTS
  Message,     \* completed payloads
  NoMessage    \* stands for "rxMessageReady_ is false"

ASSUME NoMessageIsNotAMessage == NoMessage \notin Message

TransportStatus ==
  {"Idle", "InProgress", "Complete", "MessageReady", "NoData", "Ignored", "Busy",
   "InvalidArgument", "InvalidFrame", "UnexpectedFrame", "Overflow",
   "SequenceError", "Timeout", "WaitLimitExceeded", "FlowControlOverflow",
   "TxBusy", "TxFailed", "BusOff", "NotInitialized", "CanError"}

\* Statuses a CAN send can fail with once mapped to the transport's vocabulary.
SendFailure ==
  {"TxBusy", "TxFailed", "BusOff", "NotInitialized", "InvalidArgument", "CanError"}

TransportState ==
  [active : BOOLEAN, assembling : BOOLEAN, pending : Message \cup {NoMessage}]

IdleTransport == [active |-> FALSE, assembling |-> FALSE, pending |-> NoMessage]

BeginTransmission(t) == [t EXCEPT !.active = TRUE]
EndTransmission(t)   == [t EXCEPT !.active = FALSE]
BeginAssembly(t)     == [t EXCEPT !.assembling = TRUE]
EndAssembly(t)       == [t EXCEPT !.assembling = FALSE]
TakeMessage(t)       == [t EXCEPT !.pending = NoMessage]
MessageArrives(t, m) == [EndAssembly(t) EXCEPT !.pending = m]

Outcomes(states, statuses) == [t : states, ret : statuses]

(***************************************************************************)
(* The calls a service makes.                                              *)
(***************************************************************************)

\* A message that fits one frame completes in the call; a longer one leaves the
\* transport active. A rejected or failed send leaves it as it was.
StartSendOutcomes(t) ==
  Outcomes({t}, {"InvalidArgument"}) \cup
  IF t.active
  THEN Outcomes({t}, {"Busy"})
  ELSE Outcomes({t}, {"Complete"} \cup SendFailure)
         \cup Outcomes({BeginTransmission(t)}, {"InProgress"})

\* One call advances at most one direction. An expired assembly is reported with
\* the same Timeout as an expired transmission, which it leaves running.
PollOutcomes(t) ==
  Outcomes({t}, {"InvalidArgument"})
    \cup (IF t.assembling
          THEN Outcomes({EndAssembly(t)}, {"Timeout"})
          ELSE {})
    \cup (IF t.active
          THEN Outcomes({t}, {"InProgress", "TxBusy"})
                 \cup Outcomes({EndTransmission(t)},
                               {"Complete", "Timeout"} \cup (SendFailure \ {"TxBusy"}))
          ELSE Outcomes({t}, {"Idle"}))

\* `fits` says whether the caller's buffer holds the pending message.
ReceiveOutcome(t, fits) ==
  IF t.pending = NoMessage THEN [t |-> t, ret |-> "NoData"]
  ELSE IF ~fits THEN [t |-> t, ret |-> "Overflow"]
  ELSE [t |-> TakeMessage(t), ret |-> "Complete"]

DiscardOutcome(t) == TakeMessage(t)

(***************************************************************************)
(* What a frame from the bus may turn the transport into: it may end the   *)
(* transmission, begin or end an assembly, or complete a message while     *)
(* none is pending. It never touches a completed message.                  *)
(***************************************************************************)
FrameStates(t) ==
  {t} \cup (IF t.active THEN {EndTransmission(t)} ELSE {})
      \cup (IF t.assembling THEN {EndAssembly(t)} ELSE {})
      \cup (IF t.pending = NoMessage
            THEN {BeginAssembly(t)} \cup {MessageArrives(t, m) : m \in Message}
            ELSE {})
=============================================================================
