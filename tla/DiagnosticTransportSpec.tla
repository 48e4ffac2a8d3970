----------------------- MODULE DiagnosticTransportSpec -----------------------
(***************************************************************************)
(* The contract of DiagnosticTransport as a specification: one transport,  *)
(* whose owner makes the four calls in any order while frames arrive.      *)
(* IsoTpTransport is shown to implement Spec.                              *)
(***************************************************************************)
EXTENDS DiagnosticTransport

VARIABLES
  transport,   \* [active, assembling, pending]
  ret          \* status returned by the last call

(***************************************************************************)
(* A frame from the bus, and what onCanFrame reports of it.                *)
(***************************************************************************)

FrameLeavesState ==
  /\ UNCHANGED transport
  /\ ret' \in {"InvalidArgument", "Ignored", "InvalidFrame", "UnexpectedFrame", "Busy",
              "Overflow", "InProgress"} \cup SendFailure

FrameEndsTransmission ==
  /\ transport.active
  /\ transport' = EndTransmission(transport)
  /\ ret' \in {"Timeout", "InvalidFrame", "WaitLimitExceeded", "FlowControlOverflow"}

FrameBeginsAssembly ==
  /\ ~transport.assembling
  /\ transport.pending = NoMessage
  /\ transport' = BeginAssembly(transport)
  /\ ret' = "InProgress"

FrameEndsAssembly ==
  /\ transport.assembling
  /\ transport' = EndAssembly(transport)
  /\ ret' \in {"Timeout", "InvalidFrame", "SequenceError"} \cup SendFailure

FrameCompletesMessage ==
  /\ transport.pending = NoMessage
  /\ transport'.pending \in Message
  /\ transport' = MessageArrives(transport, transport'.pending)
  /\ ret' = "MessageReady"

Arrive ==
  \/ FrameLeavesState
  \/ FrameEndsTransmission
  \/ FrameBeginsAssembly
  \/ FrameEndsAssembly
  \/ FrameCompletesMessage

(***************************************************************************)
(* Specification.                                                          *)
(***************************************************************************)

Init == transport = IdleTransport /\ ret = "Idle"

StartSend == [t |-> transport', ret |-> ret'] \in StartSendOutcomes(transport)
Poll      == [t |-> transport', ret |-> ret'] \in PollOutcomes(transport)
Receive   == \E fits \in BOOLEAN :
               [t |-> transport', ret |-> ret'] = ReceiveOutcome(transport, fits)
Discard   == transport' = DiscardOutcome(transport) /\ UNCHANGED ret

Next == StartSend \/ Poll \/ Receive \/ Discard \/ Arrive

Spec == Init /\ [][Next]_<<transport, ret>>
=============================================================================
