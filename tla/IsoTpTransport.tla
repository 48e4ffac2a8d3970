--------------------------- MODULE IsoTpTransport ---------------------------
(***************************************************************************)
(* One ISO-TP endpoint (protocol/isotp_transport.h): segmentation and flow *)
(* control on the sending side, reassembly into a single message buffer on *)
(* the receiving side, both driven by poll() and onCanFrame().             *)
(*                                                                         *)
(* The CAN frame is a record of its decoded fields. A payload is a         *)
(* sequence of bytes; bytes of txPayload_ at or past txLength_ are never   *)
(* read and are left out, so Len(tx.payload) is txLength_. The CAN driver  *)
(* and the clock are the environment: a send returns any CanStatus and may *)
(* take time.                                                              *)
(***************************************************************************)
EXTENDS Integers, Sequences

CONSTANTS
  Byte,          \* payload bytes
  CfData,        \* data bytes of a consecutive frame (7)
  SeqModulus,    \* consecutive frames are numbered modulo this (16)
  KMaxPayload,   \* kMaxPayload (4095)
  Config,        \* the configurations an endpoint may be built with
  Payload,       \* payloads the services pass to startSend
  Frame,         \* frames the CAN owner may dispatch to onCanFrame
  SendResult,    \* CanStatus values CanHal::send may return
  SendDelay,     \* milliseconds a call of CanHal::send may take
  MaxTime        \* bound on the clock

FfData == CfData - 1   \* data bytes of a first frame
SfMax  == CfData       \* longest payload of a single frame

\* protocol status of each CanStatus
MapCanStatus ==
  [Ok |-> "Complete", TxBusy |-> "TxBusy", TxFailed |-> "TxFailed", BusOff |-> "BusOff",
   NotInitialized |-> "NotInitialized", InvalidConfig |-> "InvalidArgument",
   NoData |-> "CanError", DriverError |-> "CanError", RxOverflow |-> "CanError"]

CanStatus == DOMAIN MapCanStatus

IsStMinCodeValid(code) == code \in 0..127 \/ code \in 241..249

\* Milliseconds of a valid code; 100-900 us round up to 1 ms.
DecodeStMinMs(code) == IF code \in 0..127 THEN code ELSE 1

ConfigType ==
  [idsValid : BOOLEAN, maxPayload : Nat, flowControlTimeout : Nat,
   consecutiveFrameTimeout : Nat, maxWaitFrames : 0..255, rxBlockSize : 0..255,
   rxStMin : 0..255]

IsConfigValid(c) ==
  /\ c.idsValid
  /\ c.maxPayload \in 1..KMaxPayload
  /\ c.flowControlTimeout > 0
  /\ c.consecutiveFrameTimeout > 0
  /\ IsStMinCodeValid(c.rxStMin)

(***************************************************************************)
(* Frames. "Foreign" has another id or format, "Malformed" fails           *)
(* CanFrame::isValid or is empty, "Reserved" has a type nibble above 3.    *)
(* `data` holds the payload bytes the frame's length leaves room for.      *)
(***************************************************************************)
IsSingle(f)   == f.type = "SF" /\ f.len \in 0..15 /\ f.data \in Seq(Byte) /\ Len(f.data) <= CfData
IsFirst(f)    == /\ f.type = "FF" /\ f.full \in BOOLEAN /\ f.len \in Nat /\ f.data \in Seq(Byte)
                 /\ f.full => Len(f.data) = FfData
IsConsecutive(f) == /\ f.type = "CF" /\ f.sn \in 0..(SeqModulus - 1)
                    /\ f.data \in Seq(Byte) /\ Len(f.data) <= CfData
IsFlowControl(f) == /\ f.type = "FC" /\ f.short \in BOOLEAN /\ f.flowStatus \in 0..15
                    /\ f.blockSize \in 0..255 /\ f.stMin \in 0..255
IsFrame(f) ==
  \/ f.type \in {"Foreign", "Malformed", "Reserved"}
  \/ IsSingle(f) \/ IsFirst(f) \/ IsConsecutive(f) \/ IsFlowControl(f)

SingleFrame(p)      == [type |-> "SF", len |-> Len(p), data |-> p]
FirstFrame(p)       == [type |-> "FF", full |-> TRUE, len |-> Len(p),
                        data |-> SubSeq(p, 1, FfData)]
ConsecutiveFrame(n, d) == [type |-> "CF", sn |-> n, data |-> d]
FlowControl(c, fs)  == [type |-> "FC", short |-> FALSE, flowStatus |-> fs,
                        blockSize |-> c.rxBlockSize, stMin |-> c.rxStMin]

ASSUME SizeAssumption ==
  /\ CfData \in 2..15
  /\ SeqModulus \in Nat \ {0, 1}
  /\ KMaxPayload \in Nat
  /\ MaxTime \in Nat
ASSUME EnvironmentAssumption ==
  /\ Config \subseteq ConfigType
  /\ Payload \subseteq Seq(Byte)
  /\ \A f \in Frame : IsFrame(f)
  /\ SendResult \subseteq CanStatus
  /\ SendDelay \subseteq Nat

VARIABLES
  config,  \* IsoTpConfig, fixed at construction
  rx,      \* reception: the assembly and the completed message share `buffer`
  tx,      \* transmission
  now,     \* Clock::nowMs()
  out,     \* frames the driver accepted during the last call
  ret      \* status the last call returned

vars == <<config, rx, tx, now, out, ret>>

IdleAssembly(r) ==
  [r EXCEPT !.state = "Idle", !.expected = 0, !.offset = 0, !.seq = 1,
            !.blockCount = 0, !.deadline = 0]

InitRx ==
  [state |-> "Idle", expected |-> 0, offset |-> 0, seq |-> 1, blockCount |-> 0,
   deadline |-> 0, ready |-> FALSE, length |-> 0, buffer |-> <<>>]

IdleTx ==
  [state |-> "Idle", payload |-> <<>>, offset |-> 0, seq |-> 1, blockSize |-> 0,
   blockRemaining |-> 0, waitCount |-> 0, separation |-> 0, deadline |-> 0,
   nextSend |-> 0, lastCf |-> 0, hasLastCf |-> FALSE]

Init ==
  /\ config \in Config
  /\ rx = InitRx
  /\ tx = IdleTx
  /\ now = 0
  /\ out = <<>>
  /\ ret = "Idle"

\* Bytes of the buffer past the write position are overwritten before they are read.
WriteAt(buffer, offset, data) == SubSeq(buffer, 1, offset) \o data

\* Fault: the number is sent without the 4-bit mask.
NextSeqUnmasked(n) == n + 1
NextSeq(n) == (n + 1) % SeqModulus

Min2(a, b) == IF a < b THEN a ELSE b
Max2(a, b) == IF a < b THEN b ELSE a

\* Fault: the deadline itself still counts as in time.
RxExpiredLate == rx.state = "Receiving" /\ now > rx.deadline
RxExpired == rx.state = "Receiving" /\ now >= rx.deadline
TxExpired == tx.state = "WaitFlowControl" /\ now >= tx.deadline

\* Fault: a completed message that nobody fetched yet does not block a new one.
RxFreeIgnoringReady == rx.state = "Idle"
RxFree == rx.state = "Idle" /\ ~rx.ready

Return(status) == ret' = status /\ out' = <<>> /\ UNCHANGED now

\* One call of CanHal::send: the clock may move before it returns.
Transmit(f, status) ==
  /\ out' = IF status = "Ok" THEN <<f>> ELSE <<>>
  /\ \E d \in SendDelay : now' = now + d /\ now' <= MaxTime

(***************************************************************************)
(* startSend                                                               *)
(***************************************************************************)
Sendable(p) == IsConfigValid(config) /\ Len(p) \in 1..config.maxPayload

RejectSend(p) ==
  /\ ~Sendable(p)
  /\ Return("InvalidArgument")
  /\ UNCHANGED tx

RefuseSend(p) ==
  /\ tx.state # "Idle"
  /\ Return("Busy")
  /\ UNCHANGED tx

SendSingleFrame(p, status) ==
  /\ tx.state = "Idle"
  /\ Len(p) <= SfMax
  /\ Transmit(SingleFrame(p), status)
  /\ ret' = MapCanStatus[status]
  /\ UNCHANGED tx

\* Fault: a new message replaces the one under way.
SendFirstFrameAnyway(p, status) ==
  /\ Len(p) > SfMax
  /\ Transmit(FirstFrame(p), status)
  /\ ret' = IF status = "Ok" THEN "InProgress" ELSE MapCanStatus[status]
  /\ tx' = IF status # "Ok" THEN IdleTx
           ELSE [IdleTx EXCEPT !.state = "WaitFlowControl", !.payload = p, !.offset = FfData,
                               !.deadline = now' + config.flowControlTimeout]

SendFirstFrame(p, status) ==
  /\ tx.state = "Idle"
  /\ Len(p) > SfMax
  /\ Transmit(FirstFrame(p), status)
  /\ IF status = "Ok"
     THEN /\ ret' = "InProgress"
          /\ tx' = [IdleTx EXCEPT !.state = "WaitFlowControl", !.payload = p,
                                  !.offset = FfData,
                                  !.deadline = now' + config.flowControlTimeout]
     ELSE ret' = MapCanStatus[status] /\ tx' = IdleTx

StartSend(p) ==
  /\ UNCHANGED <<config, rx>>
  /\ \/ RejectSend(p)
     \/ /\ Sendable(p)
        /\ \/ RefuseSend(p)
           \/ \E status \in SendResult :
                SendSingleFrame(p, status) \/ SendFirstFrame(p, status)

(***************************************************************************)
(* poll                                                                    *)
(***************************************************************************)
ExpireAssembly ==
  /\ RxExpired
  /\ rx' = IdleAssembly(rx)
  /\ Return("Timeout")
  /\ UNCHANGED tx

ExpireTransmission ==
  /\ ~RxExpired /\ TxExpired
  /\ tx' = IdleTx
  /\ Return("Timeout")
  /\ UNCHANGED rx

\* Bytes the next consecutive frame carries.
NextData == SubSeq(tx.payload, tx.offset + 1, Min2(tx.offset + CfData, Len(tx.payload)))

\* State after the driver accepted the frame carrying NextData.
AcceptedCf(acceptedAt) ==
  [tx EXCEPT !.offset = @ + Len(NextData), !.seq = NextSeq(@),
             !.lastCf = acceptedAt, !.hasLastCf = TRUE]

\* Fault: the payload is taken as finished one frame early.
WholePayloadSentEarly(sent) == sent.offset + CfData >= Len(tx.payload)
WholePayloadSent(sent) == sent.offset = Len(tx.payload)

\* Fault: the counter is tested before it is decremented.
LastFrameOfBlockStale == tx.blockSize # 0 /\ tx.blockRemaining = 0
LastFrameOfBlock == tx.blockSize # 0 /\ tx.blockRemaining = 1

SendNextConsecutiveFrame(status) ==
  /\ Transmit(ConsecutiveFrame(tx.seq, NextData), status)
  /\ UNCHANGED rx
  /\ \/ /\ status = "TxBusy"                       \* retried by a later poll
        /\ ret' = "TxBusy"
        /\ UNCHANGED tx
     \/ /\ status \notin {"Ok", "TxBusy"}
        /\ ret' = MapCanStatus[status]
        /\ tx' = IdleTx
     \/ /\ status = "Ok"
        /\ LET sent == AcceptedCf(now') IN
           \/ /\ WholePayloadSent(sent)
              /\ ret' = "Complete"
              /\ tx' = IdleTx
           \/ /\ ~WholePayloadSent(sent)
              /\ ret' = "InProgress"
              /\ tx' = IF LastFrameOfBlock
                       THEN [sent EXCEPT !.blockRemaining = 0,
                               !.state = "WaitFlowControl",
                               !.deadline = now' + config.flowControlTimeout]
                       ELSE [sent EXCEPT
                               !.blockRemaining = IF tx.blockSize = 0 THEN @ ELSE (@ - 1) % 256,
                               !.nextSend = now' + tx.separation]

DueConsecutiveFrame == tx.state = "Sending" /\ now >= tx.nextSend

PollNothingDue ==
  /\ ~RxExpired /\ ~TxExpired /\ ~DueConsecutiveFrame
  /\ Return(IF tx.state = "Idle" THEN "Idle" ELSE "InProgress")
  /\ UNCHANGED <<rx, tx>>

PollUnconfigured == Return("InvalidArgument") /\ UNCHANGED <<rx, tx>>

Poll ==
  /\ UNCHANGED config
  /\ \/ ~IsConfigValid(config) /\ PollUnconfigured
     \/ /\ IsConfigValid(config)
        /\ \/ ExpireAssembly
           \/ ExpireTransmission
           \/ /\ ~RxExpired /\ DueConsecutiveFrame
              /\ \E status \in SendResult : SendNextConsecutiveFrame(status)
           \/ PollNothingDue

(***************************************************************************)
(* receive and discardPendingMessage                                       *)
(***************************************************************************)
PendingMessage == SubSeq(rx.buffer, 1, rx.length)

\* Fault: emptying the buffer also drops the assembly under way.
EmptiedWithAssembly == [IdleAssembly(rx) EXCEPT !.ready = FALSE, !.length = 0]
Emptied == [rx EXCEPT !.ready = FALSE, !.length = 0]

Receive(capacity) ==
  /\ UNCHANGED <<config, tx>>
  /\ \/ ~rx.ready /\ Return("NoData") /\ UNCHANGED rx
     \/ rx.ready /\ capacity < rx.length /\ Return("Overflow") /\ UNCHANGED rx
     \/ rx.ready /\ capacity >= rx.length /\ Return("Complete") /\ rx' = Emptied

DiscardPendingMessage ==
  /\ rx' = Emptied
  /\ out' = <<>>
  /\ UNCHANGED <<config, tx, now, ret>>

(***************************************************************************)
(* onCanFrame                                                              *)
(***************************************************************************)
HandleSingleFrame(f) ==
  /\ UNCHANGED tx
  /\ \/ ~RxFree /\ Return("Busy") /\ UNCHANGED rx
     \/ /\ RxFree
        /\ f.len \notin 1..Min2(SfMax, config.maxPayload) \/ Len(f.data) < f.len
        /\ Return("InvalidFrame")
        /\ UNCHANGED rx
     \/ /\ RxFree
        /\ f.len \in 1..Min2(SfMax, config.maxPayload) /\ Len(f.data) >= f.len
        /\ Return("MessageReady")
        /\ rx' = [rx EXCEPT !.buffer = SubSeq(f.data, 1, f.len), !.length = f.len,
                            !.ready = TRUE]

\* The assembly is opened before the flow control goes out and dropped again
\* if that fails; its deadline runs from before the send.
OpenAssembly(f, status) ==
  LET opened == [rx EXCEPT !.state = "Receiving", !.expected = f.len,
                           !.offset = FfData, !.buffer = f.data, !.seq = 1, !.blockCount = 0,
                           !.deadline = now + config.consecutiveFrameTimeout]
  IN  /\ Transmit(FlowControl(config, 0), status)
      /\ IF status = "Ok"
         THEN ret' = "InProgress" /\ rx' = opened
         ELSE ret' = MapCanStatus[status] /\ rx' = IdleAssembly(opened)

HandleFirstFrame(f) ==
  /\ UNCHANGED tx
  /\ \/ ~RxFree /\ Return("Busy") /\ UNCHANGED rx
     \/ /\ RxFree
        /\ ~f.full \/ f.len \notin (SfMax + 1)..KMaxPayload
        /\ Return("InvalidFrame")
        /\ UNCHANGED rx
     \/ /\ RxFree /\ f.full /\ f.len \in (SfMax + 1)..KMaxPayload
        /\ \E status \in SendResult :
             \/ /\ f.len > config.maxPayload
                /\ Transmit(FlowControl(config, 2), status)
                /\ ret' = IF status = "Ok" THEN "Overflow" ELSE MapCanStatus[status]
                /\ UNCHANGED rx
             \/ f.len <= config.maxPayload /\ OpenAssembly(f, status)

\* The frame's data is cut at the declared length.
\* Fault: the padding of the last frame is stored too.
UsefulDataUncut(f) == f.data
UsefulData(f) == SubSeq(f.data, 1, Min2(Len(f.data), rx.expected - rx.offset))

Stored(f) ==
  [rx EXCEPT !.buffer = WriteAt(@, rx.offset, UsefulData(f)),
             !.offset = @ + Len(UsefulData(f)),
             !.seq = NextSeq(@),
             !.blockCount = (@ + 1) % 256]

\* Fault: flow control goes out one frame before the block ends.
BlockFullEarly(r) == config.rxBlockSize # 0 /\ r.blockCount + 1 >= config.rxBlockSize
BlockFull(r) == config.rxBlockSize # 0 /\ r.blockCount >= config.rxBlockSize

ContinueAssembly(f) ==
  LET stored == [Stored(f) EXCEPT !.deadline = now + config.consecutiveFrameTimeout]
  IN  \/ /\ ~BlockFull(stored)
         /\ Return("InProgress")
         /\ rx' = stored
      \/ /\ BlockFull(stored)
         /\ \E status \in SendResult :
              /\ Transmit(FlowControl(config, 0), status)
              /\ IF status = "Ok"
                 THEN ret' = "InProgress" /\ rx' = [stored EXCEPT !.blockCount = 0]
                 ELSE ret' = MapCanStatus[status] /\ rx' = IdleAssembly(stored)

HandleConsecutiveFrame(f) ==
  /\ UNCHANGED tx
  /\ \/ rx.state # "Receiving" /\ Return("UnexpectedFrame") /\ UNCHANGED rx
     \/ /\ rx.state = "Receiving"
        /\ Len(f.data) = 0 \/ f.sn # rx.seq
        /\ Return(IF Len(f.data) = 0 THEN "InvalidFrame" ELSE "SequenceError")
        /\ rx' = IdleAssembly(rx)
     \/ /\ rx.state = "Receiving" /\ Len(f.data) > 0 /\ f.sn = rx.seq
        /\ \/ /\ Stored(f).offset = rx.expected
              /\ Return("MessageReady")
              /\ rx' = IdleAssembly([Stored(f) EXCEPT !.length = rx.expected, !.ready = TRUE])
           \/ /\ Stored(f).offset # rx.expected
              /\ ContinueAssembly(f)

\* The first consecutive frame is due at once; a new block keeps the distance from
\* the last frame the driver accepted.
\* Fault: every block starts at once.
FirstDueAtOnce(separation) == now
FirstDue(separation) == IF tx.hasLastCf THEN Max2(now, tx.lastCf + separation) ELSE now

ContinueToSend(f) ==
  LET separation == DecodeStMinMs(f.stMin) IN
  /\ IsStMinCodeValid(f.stMin)
  /\ tx' = [tx EXCEPT !.blockSize = f.blockSize, !.blockRemaining = f.blockSize,
                      !.separation = separation, !.state = "Sending",
                      !.nextSend = FirstDue(separation)]
  /\ Return("InProgress")

WaitForPeer ==
  /\ tx.waitCount < config.maxWaitFrames
  /\ tx' = [tx EXCEPT !.waitCount = @ + 1, !.deadline = now + config.flowControlTimeout]
  /\ Return("InProgress")

AbortTransmission(status) == tx' = IdleTx /\ Return(status)

HandleFlowControl(f) ==
  /\ UNCHANGED rx
  /\ \/ tx.state # "WaitFlowControl" /\ Return("UnexpectedFrame") /\ UNCHANGED tx
     \/ /\ tx.state = "WaitFlowControl" /\ f.short
        /\ AbortTransmission("InvalidFrame")
     \/ /\ tx.state = "WaitFlowControl" /\ ~f.short
        /\ \/ f.flowStatus = 0 /\ ContinueToSend(f)
           \/ f.flowStatus = 0 /\ ~IsStMinCodeValid(f.stMin) /\ AbortTransmission("InvalidFrame")
           \/ f.flowStatus = 1 /\ WaitForPeer
           \/ /\ f.flowStatus = 1 /\ tx.waitCount >= config.maxWaitFrames
              /\ AbortTransmission("WaitLimitExceeded")
           \/ f.flowStatus = 2 /\ AbortTransmission("FlowControlOverflow")
           \/ f.flowStatus \notin 0..2 /\ AbortTransmission("InvalidFrame")

\* A frame that finds a deadline passed is dropped: it only reports the timeout.
Dispatch(f) ==
  \/ f.type = "SF" /\ HandleSingleFrame(f)
  \/ f.type = "FF" /\ HandleFirstFrame(f)
  \/ f.type = "CF" /\ HandleConsecutiveFrame(f)
  \/ f.type = "FC" /\ HandleFlowControl(f)
  \/ f.type = "Reserved" /\ Return("InvalidFrame") /\ UNCHANGED <<rx, tx>>

OnCanFrame(f) ==
  /\ UNCHANGED config
  /\ \/ ~IsConfigValid(config) /\ Return("InvalidArgument") /\ UNCHANGED <<rx, tx>>
     \/ /\ IsConfigValid(config) /\ f.type \in {"Foreign", "Malformed"}
        /\ Return(IF f.type = "Foreign" THEN "Ignored" ELSE "InvalidFrame")
        /\ UNCHANGED <<rx, tx>>
     \/ /\ IsConfigValid(config) /\ f.type \notin {"Foreign", "Malformed"}
        /\ \/ ExpireAssembly
           \/ ExpireTransmission
           \/ ~RxExpired /\ ~TxExpired /\ Dispatch(f)

(***************************************************************************)
(* Specification.                                                          *)
(***************************************************************************)
Tick ==
  /\ now < MaxTime
  /\ now' = now + 1
  /\ out' = <<>>
  /\ UNCHANGED <<config, rx, tx, ret>>

Next ==
  \/ \E p \in Payload : StartSend(p)
  \/ Poll
  \/ \E capacity \in 0..config.maxPayload : Receive(capacity)
  \/ DiscardPendingMessage
  \/ \E f \in Frame : OnCanFrame(f)
  \/ Tick

Spec == Init /\ [][Next]_vars

(***************************************************************************)
(* Type invariant.                                                         *)
(***************************************************************************)
SequenceNumber == 0..(SeqModulus - 1)

RxType ==
  [state : {"Idle", "Receiving"}, expected : Nat, offset : Nat, seq : SequenceNumber,
   blockCount : 0..255, deadline : Nat, ready : BOOLEAN, length : Nat, buffer : Seq(Byte)]

TxType ==
  [state : {"Idle", "WaitFlowControl", "Sending"}, payload : Seq(Byte), offset : Nat,
   seq : SequenceNumber, blockSize : 0..255, blockRemaining : 0..255, waitCount : Nat,
   separation : Nat, deadline : Nat, nextSend : Nat, lastCf : Nat, hasLastCf : BOOLEAN]

\* Every variable holds a value of the type the class declares for it, sequence numbers one of
\* four bits, and every frame handed to the driver is one a peer's onCanFrame can decode.
TypeOK ==
  /\ config \in Config
  /\ rx \in RxType
  /\ tx \in TxType
  /\ now \in Nat
  /\ out = <<>> \/ (out = <<out[1]>> /\ IsFrame(out[1]))

(***************************************************************************)
(* Invariants.                                                             *)
(***************************************************************************)
\* The one buffer has one owner: while frames are assembled into it no completed
\* message is in it, the write position is inside the declared length, and exactly the
\* bytes before it have been written; a completed message is as long as it was declared.
BufferHasOneOwner ==
  /\ rx.state = "Receiving" =>
       /\ ~rx.ready
       /\ rx.expected \in (SfMax + 1)..config.maxPayload
       /\ rx.offset \in FfData..(rx.expected - 1)
       /\ Len(rx.buffer) = rx.offset
  /\ rx.ready => rx.length \in 1..config.maxPayload /\ Len(rx.buffer) = rx.length
  /\ ~rx.ready => rx.length = 0

CursorOnFrameBoundary ==
  \E k \in 0..Len(tx.payload) :
    /\ tx.offset = FfData + k * CfData
    /\ tx.seq = (k + 1) % SeqModulus
    /\ tx.hasLastCf = (k > 0)

BlockHasFramesLeft ==
  tx.state = "Sending" /\ tx.blockSize # 0 => tx.blockRemaining \in 1..tx.blockSize

\* The sequence number is a function of the position, so a retry after TxBusy, a new
\* block or a wrap of the 4-bit number never skips or repeats a slice of the payload;
\* and the block counter cannot pass zero while a block is being sent.
SendPositionConsistent ==
  tx.state # "Idle" =>
    /\ Len(tx.payload) \in (SfMax + 1)..config.maxPayload
    /\ tx.offset \in FfData..(Len(tx.payload) - 1)
    /\ tx.waitCount <= config.maxWaitFrames
    /\ CursorOnFrameBoundary
    /\ BlockHasFramesLeft

(***************************************************************************)
(* What a step may never do.                                               *)
(***************************************************************************)
\* A completed message stays byte for byte in the buffer until the owner receives or
\* discards it: no frame, timeout, send or refused receive disturbs it.
PendingMessageIsStable ==
  [][rx.ready => \/ rx'.ready /\ PendingMessage' = PendingMessage
                 \/ \E capacity \in 0..config.maxPayload : Receive(capacity)
                 \/ DiscardPendingMessage]_vars

CfAccepted == out' # <<>> /\ out'[1].type = "CF"

\* Two consecutive frames of one message are never closer than the separation time the
\* peer asked for last, block boundaries and flow control in between included.
SeparationIsKept ==
  [][CfAccepted /\ tx.hasLastCf => now >= tx.lastCf + tx.separation]_vars

\* An assembly whose deadline has passed can only be dropped: a late frame neither
\* extends it nor completes it.
ExpiredAssemblyIsDropped ==
  [][(rx.state = "Receiving" /\ now >= rx.deadline) => rx' \in {rx, IdleAssembly(rx)} \/ rx' = Emptied]_vars

\* A transmission ends with Complete exactly when this step got its last bytes accepted
\* by the driver; every other end is reported as a failure.
EndIsReportedTruthfully ==
  [][(tx.state # "Idle" /\ tx'.state = "Idle") =>
       /\ ret' \notin {"Idle", "InProgress", "TxBusy", "Busy", "MessageReady"}
       /\ ret' = "Complete" <=>
            /\ CfAccepted
            /\ tx.offset + Len(NextData) = Len(tx.payload)]_vars

(***************************************************************************)
(* The services' view of the endpoint.                                     *)
(***************************************************************************)
ServiceView ==
  [active |-> tx.state # "Idle", assembling |-> rx.state = "Receiving",
   pending |-> IF rx.ready THEN PendingMessage ELSE <<>>]

Contract == INSTANCE DiagnosticTransportSpec WITH
  Message   <- Seq(Byte) \ {<<>>},
  NoMessage <- <<>>,
  transport <- ServiceView

\* The endpoint implements the contract the diagnostic services are written against.
ImplementsContract == Contract!Spec
=============================================================================
