------------------------------- MODULE IsoTpLink -------------------------------
(***************************************************************************)
(* Two ISO-TP endpoints on one bus: `sender` transmits messages, `receiver`*)
(* assembles them, and each is the code of protocol/isotp_transport.h.     *)
(* What a driver accepts waits on the wire in the order it was accepted,   *)
(* until the owner of the other endpoint dispatches it to onCanFrame or it *)
(* is lost. Frames are dispatched within MaxDelay, and the endpoints share *)
(* one clock. Byte i of message n is <<n, i>>, so that a mixture shows.     *)
(***************************************************************************)
EXTENDS Integers, Sequences

CONSTANTS
  CfData, SeqModulus, KMaxPayload, SendResult, MaxTime,
  SenderConfig,     \* IsoTpConfig of the sender
  ReceiverConfig,   \* those the receiver may be built with
  Lengths,          \* of the messages sent
  MaxMessages,      \* bound on messages accepted for transmission
  MaxDelay,         \* from the driver of one side to onCanFrame of the other
  MaxLost           \* bound on frames lost in a row on the way to the receiver

ASSUME LinkAssumption ==
  /\ Lengths \subseteq Nat
  /\ MaxMessages \in Nat \ {0} /\ MaxDelay \in Nat /\ MaxLost \in Nat

\* A round trip is over before the sender gives up waiting for its flow control, and flow
\* control arrives before its receiver gives up waiting for the frames it asks for.
ASSUME FlowControlIsTimely ==
  /\ 2 * MaxDelay < SenderConfig.flowControlTimeout
  /\ \A c \in ReceiverConfig : MaxDelay < c.consecutiveFrameTimeout

\* Consecutive frames carry their number modulo SeqModulus only: that many of them lost in
\* a row are not noticed, by any endpoint.
ASSUME LossIsNoticeable == MaxLost < SeqModulus

VARIABLES
  now,
  sConfig, sRx, sTx, sOut, sRet,   \* the sending endpoint
  rConfig, rRx, rTx, rOut, rRet,   \* the receiving endpoint
  toReceiver, toSender,            \* frames on the wire: [frame, due]
  messages,                        \* history: the messages startSend accepted, in order
  completed,                       \* history: number of the message completed last
  lost                             \* frames lost since the receiver heard one

senderVars   == <<sConfig, sRx, sTx, sOut, sRet>>
receiverVars == <<rConfig, rRx, rTx, rOut, rRet>>
wireVars     == <<toReceiver, toSender, lost>>
vars == <<now, senderVars, receiverVars, wireVars, messages, completed>>

Byte == (1 .. MaxMessages) \X (1 .. KMaxPayload)
Payloads == {[i \in 1 .. n |-> <<Len(messages) + 1, i>>] : n \in Lengths}

Sender == INSTANCE IsoTpTransport WITH
  Config <- {SenderConfig}, Payload <- {}, Frame <- {}, SendDelay <- {0},
  config <- sConfig, rx <- sRx, tx <- sTx, out <- sOut, ret <- sRet

Receiver == INSTANCE IsoTpTransport WITH
  Config <- ReceiverConfig, Payload <- {}, Frame <- {}, SendDelay <- {0},
  config <- rConfig, rx <- rRx, tx <- rTx, out <- rOut, ret <- rRet

\* What IsoTpTransport assumes of its constants, said of these, for the proofs about both.
ASSUME SenderAssumptions == Sender!SizeAssumption /\ Sender!EnvironmentAssumption
ASSUME ReceiverAssumptions == Receiver!SizeAssumption /\ Receiver!EnvironmentAssumption

Init ==
  /\ Sender!Init
  /\ Receiver!Init
  /\ toReceiver = <<>> /\ toSender = <<>> /\ lost = 0
  /\ messages = <<>> /\ completed = 0

(***************************************************************************)
(* The wire.                                                               *)
(***************************************************************************)
OnWire(frames) == [i \in DOMAIN frames |-> [frame |-> frames[i], due |-> now + MaxDelay]]

SenderTransmits   == toReceiver' = toReceiver \o OnWire(sOut')
ReceiverTransmits == toSender' = toSender \o OnWire(rOut')

Lose ==
  /\ \/ /\ toReceiver # <<>> /\ lost < MaxLost
        /\ toReceiver' = Tail(toReceiver)
        /\ lost' = lost + 1
        /\ UNCHANGED toSender
     \/ /\ toSender # <<>>
        /\ toSender' = Tail(toSender)
        /\ UNCHANGED <<toReceiver, lost>>
  /\ UNCHANGED <<now, senderVars, receiverVars, messages, completed>>

(***************************************************************************)
(* The owners of the endpoints.                                            *)
(***************************************************************************)
SendMessage ==
  /\ Len(messages) < MaxMessages
  /\ \E p \in Payloads :
       /\ Sender!StartSend(p)
       /\ messages' = IF sRet' \in {"Complete", "InProgress"} THEN Append(messages, p)
                      ELSE messages
  /\ SenderTransmits
  /\ UNCHANGED <<receiverVars, toSender, lost, completed>>

SenderPolls ==
  /\ Sender!Poll
  /\ SenderTransmits
  /\ UNCHANGED <<receiverVars, toSender, lost, messages, completed>>

SenderHears ==
  /\ toSender # <<>>
  /\ Sender!OnCanFrame(Head(toSender).frame)
  /\ toSender' = Tail(toSender)
  /\ SenderTransmits
  /\ UNCHANGED <<receiverVars, lost, messages, completed>>

ReceiverPolls ==
  /\ Receiver!Poll
  /\ ReceiverTransmits
  /\ UNCHANGED <<senderVars, toReceiver, lost, messages, completed>>

ReceiverHears ==
  /\ toReceiver # <<>>
  /\ Receiver!OnCanFrame(Head(toReceiver).frame)
  /\ toReceiver' = Tail(toReceiver)
  /\ ReceiverTransmits
  /\ completed' = IF rRet' = "MessageReady" THEN rRx'.buffer[1][1] ELSE completed
  /\ lost' = 0
  /\ UNCHANGED <<senderVars, messages>>

ReceiverFetches ==
  /\ rRx.ready
  /\ Receiver!Receive(rConfig.maxPayload)
  /\ UNCHANGED <<senderVars, wireVars, messages, completed>>

Tick ==
  /\ now < MaxTime
  /\ \A wire \in {toReceiver, toSender} : \A i \in DOMAIN wire : now < wire[i].due
  /\ now' = now + 1
  /\ UNCHANGED <<senderVars, receiverVars, wireVars, messages, completed>>

Next ==
  \/ SendMessage \/ SenderPolls \/ SenderHears
  \/ ReceiverPolls \/ ReceiverHears \/ ReceiverFetches
  \/ Lose
  \/ Tick

Spec == Init /\ [][Next]_vars

(***************************************************************************)
(* Properties.                                                             *)
(***************************************************************************)

\* What the receiver completes is one message as the sender was given it, never pieces of
\* two, and messages complete in the order they were sent, none twice: whichever frames are
\* lost, however the owners poll, and although the next message may start while the receiver
\* still assembles the one before.
DeliveredAsSent ==
  [][~rRx.ready /\ rRx'.ready =>
       /\ \E n \in completed + 1 .. Len(messages) : Receiver!PendingMessage' = messages[n]
       /\ completed' > completed]_vars

\* The sender only acts on flow control the receiver sent for the message under way: a late
\* one, of a message given up, never starts the frames of the next.
FlowControlIsForThisMessage ==
  [][sTx.state = "WaitFlowControl" /\ sTx'.state = "Sending" =>
       /\ rRx.state = "Receiving"
       /\ rRx.buffer[1] = sTx.payload[1]
       /\ rRx.offset = sTx.offset]_vars
================================================================================
