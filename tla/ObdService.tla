------------------------------ MODULE ObdService ------------------------------
(***************************************************************************)
(* The OBD-II client service (protocol/obd_service.h): one request at a    *)
(* time over a DiagnosticTransport, reached through the ReadOnlyGuard.     *)
(*                                                                         *)
(* Time is what is left of the response wait: Tick is one unit of Clock,   *)
(* and clock_.nowMs() >= responseDeadlineMs_ is waitLeft = 0; a service    *)
(* that waits for no response has nothing left to wait.                    *)
(***************************************************************************)
EXTENDS DiagnosticTransport, ReadOnlyGuard

CONSTANTS
  Pids,                   \* PIDs the application asks for
  ObdServiceConfig,       \* configurations: [responseTimeout]
  kMaxRawDataLength,      \* capacity of response_ and of rawData_
  kVinLength,
  kMaxStoredDtcRecords

ASSUME MessagesAreBytes == Message \subseteq Seq(Byte)
ASSUME PidsAreBytes == Pids \subseteq Byte
ASSUME TimeoutsAreNatural == ObdServiceConfig \subseteq [responseTimeout : Nat]
ASSUME CapacitiesAreNatural ==
  kMaxRawDataLength \in Nat /\ kVinLength \in Nat /\ kMaxStoredDtcRecords \in Nat

VARIABLES
  config,      \* config_
  transport,   \* the transport behind guard_, as the contract describes it
  obd,         \* the members of the service
  sent,        \* history: the last payload handed to startSend
  answer,      \* history: the message the published result was read from
  elapsed      \* history: time since the response wait began

vars == <<config, transport, obd, sent, answer, elapsed>>

kVinPid == 2

\* The mode each kind of request is sent with.
ModeOf ==
  [CurrentData   |-> kModeCurrentData,
   SupportedPids |-> kModeCurrentData,
   Vin           |-> kModeVehicleInformation,
   StoredDtcs    |-> kModeStoredDtcRead]

RequestKind == DOMAIN ModeOf \cup {"None"}

ObdServiceStatus ==
  {"Idle", "InProgress", "Busy", "ResponseReady", "Timeout", "InvalidResponse",
   "UnexpectedResponse", "PolicyDenied", "InvalidRequest", "TransportFailure"}

\* The bitmap is its four bytes, most significant first; the VIN its characters' codes.
NoResult == [raw |-> <<>>, bitmap |-> <<>>, vin |-> <<>>, dtcs |-> <<>>]

Init ==
  /\ config \in ObdServiceConfig
  /\ transport = IdleTransport
  /\ obd = [state |-> "Idle", kind |-> "None", pid |-> 0, status |-> "Idle",
            lastTransport |-> "Idle", waitLeft |-> 0, result |-> NoResult]
  /\ sent = <<>>
  /\ answer = <<>>
  /\ elapsed = 0

(***************************************************************************)
(* The helpers the handlers share.                                         *)
(***************************************************************************)
IsRequestActive == obd.state # "Idle"

SetStatus(s, status) == [s EXCEPT !.status = status]

BeginResponseWait(s) ==
  [s EXCEPT !.state = "AwaitingResponse", !.waitLeft = config.responseTimeout]

\* Mutant: a new request keeps the DTCs of the one before.
ClearResultButDtcs(s) == [s EXCEPT !.result = [NoResult EXCEPT !.dtcs = s.result.dtcs]]

ClearResult(s) == [s EXCEPT !.result = NoResult]

\* Mutant: the end of a request keeps its kind.
FinishKeepingKind(t, s, status) ==
  /\ transport' = IF IsRequestActive THEN DiscardOutcome(t) ELSE t
  /\ obd' = [SetStatus(s, status) EXCEPT !.state = "Idle", !.waitLeft = 0]

\* Ending an active request also drops whatever message completed meanwhile.
Finish(t, s, status) ==
  /\ transport' = IF IsRequestActive THEN DiscardOutcome(t) ELSE t
  /\ obd' = [SetStatus(s, status) EXCEPT !.state = "Idle", !.kind = "None", !.waitLeft = 0]

FinishWithoutTransport(s, status) ==
  /\ obd' = [SetStatus(s, status) EXCEPT !.state = "Idle", !.kind = "None"]
  /\ UNCHANGED transport

Continue(t, s, status) ==
  /\ transport' = t
  /\ obd' = SetStatus(s, status)

(***************************************************************************)
(* The requests.                                                           *)
(***************************************************************************)
\* Mutant: a refused request restarts the deadline.
RejectWhileActiveRestarting ==
  /\ obd.state = "AwaitingResponse"
  /\ obd' = SetStatus(BeginResponseWait(obd), "Busy")
  /\ UNCHANGED <<config, transport, sent, answer, elapsed>>

RejectWhileActive ==
  /\ IsRequestActive
  /\ obd' = SetStatus(obd, "Busy")
  /\ UNCHANGED <<config, transport, sent, answer, elapsed>>

RejectInvalid ==
  /\ ~IsRequestActive
  /\ FinishWithoutTransport(obd, "InvalidRequest")
  /\ UNCHANGED <<config, sent, answer, elapsed>>

IsConfigValid == config.responseTimeout # 0

RejectMisconfigured == ~IsConfigValid /\ RejectInvalid

\* `prepared` is the service with its result cleared and the new request noted.
BeginTransport(prepared, guarded) ==
  IF guarded.status # "Forwarded"
  THEN /\ FinishWithoutTransport([prepared EXCEPT !.lastTransport = "Idle"], guarded.status)
       /\ UNCHANGED sent
  ELSE \E o \in StartSendOutcomes(transport) :
         LET s == [prepared EXCEPT !.lastTransport = o.ret] IN
         /\ sent' = guarded.payload
         /\ CASE o.ret = "Complete"   -> Continue(o.t, BeginResponseWait(s), "InProgress")
              [] o.ret = "InProgress" ->
                   Continue(o.t, [s EXCEPT !.state = "AwaitingTransmit"], "InProgress")
              [] OTHER -> Finish(o.t, s, "TransportFailure")

Begin(kind, pid, guarded) ==
  /\ ~IsRequestActive
  /\ IsConfigValid
  /\ BeginTransport([ClearResult(obd) EXCEPT !.kind = kind, !.pid = pid], guarded)
  /\ answer' = <<>>
  /\ elapsed' = 0
  /\ UNCHANGED config

BeginRequest(kind, pid) ==
  \/ RejectWhileActive
  \/ RejectMisconfigured
  \/ Begin(kind, pid, startObdSinglePid(ModeOf[kind], <<pid>>))

RequestCurrentData(pid) == BeginRequest("CurrentData", pid)

IsSupportedPidBlockBase(pid) == pid <= 192 /\ pid % 32 = 0

\* Mutant: the block is checked before the service looks whether it is free.
RequestSupportedPidsCheckedFirst(pid) ==
  \/ /\ ~IsSupportedPidBlockBase(pid)
     /\ FinishWithoutTransport(obd, "InvalidRequest")
     /\ UNCHANGED <<config, sent, answer, elapsed>>
  \/ IsSupportedPidBlockBase(pid) /\ BeginRequest("SupportedPids", pid)

\* Busy comes before the check of the PID: an invalid block cannot end an active request.
RequestSupportedPids(pid) ==
  \/ ~IsSupportedPidBlockBase(pid) /\ (RejectWhileActive \/ RejectInvalid)
  \/ IsSupportedPidBlockBase(pid) /\ BeginRequest("SupportedPids", pid)

RequestVin == BeginRequest("Vin", kVinPid)

RequestStoredDtcs ==
  \/ RejectWhileActive
  \/ RejectMisconfigured
  \/ Begin("StoredDtcs", obd.pid, startObdStoredDtcRead)

(***************************************************************************)
(* handleResponse, as the status it ends with.                             *)
(***************************************************************************)
\* Mutant: the PID of the response is not compared.
MatchesService(s, r) == r # <<>> /\ r[1] = PositiveService(ModeOf[s.kind])

Matches(s, r) ==
  /\ r # <<>>
  /\ r[1] = PositiveService(ModeOf[s.kind])
  /\ s.kind # "StoredDtcs" => Len(r) >= 2 /\ r[2] = s.pid

DtcPairs(r) == [i \in 1..((Len(r) - 1) \div 2) |-> <<r[2 * i], r[2 * i + 1]>>]

\* What the loop over the pairs has parsed: a pair of zero bytes is padding.
WithoutPadding(pairs) ==
  LET parsed[n \in 0..Len(pairs)] ==
        IF n = 0 THEN <<>>
        ELSE IF pairs[n] = <<0, 0>> THEN parsed[n - 1]
        ELSE Append(parsed[n - 1], pairs[n])
  IN  parsed[Len(pairs)]

\* Mutant: trouble codes beyond the capacity are left out.
StoredDtcsUpToCapacity(r) ==
  LET all == WithoutPadding(DtcPairs(r))
  IN  IF Len(all) <= kMaxStoredDtcRecords THEN all ELSE SubSeq(all, 1, kMaxStoredDtcRecords)

StoredDtcsOf(r) == WithoutPadding(DtcPairs(r))

WellFormed(kind, r) ==
  CASE kind = "CurrentData"   -> Len(r) >= 3 /\ Len(r) - 2 <= kMaxRawDataLength
    [] kind = "SupportedPids" -> Len(r) = 6
    [] kind = "Vin"           -> Len(r) = 3 + kVinLength /\ r[3] = 1
    [] kind = "StoredDtcs"    ->
         (Len(r) - 1) % 2 = 0 /\ Len(StoredDtcsOf(r)) <= kMaxStoredDtcRecords

ResultOf(kind, r) ==
  CASE kind = "CurrentData"   -> [NoResult EXCEPT !.raw = SubSeq(r, 3, Len(r))]
    [] kind = "SupportedPids" -> [NoResult EXCEPT !.bitmap = SubSeq(r, 3, 6)]
    [] kind = "Vin"           -> [NoResult EXCEPT !.vin = SubSeq(r, 4, Len(r))]
    [] kind = "StoredDtcs"    -> [NoResult EXCEPT !.dtcs = StoredDtcsOf(r)]

\* A response is unexpected when it may answer somebody else: the service goes on waiting.
HandleResponse(t, s, r) ==
  \/ /\ ~Matches(s, r)
     /\ Continue(t, s, "UnexpectedResponse")
     /\ UNCHANGED answer
  \/ /\ Matches(s, r)
     /\ ~WellFormed(s.kind, r)
     /\ Finish(t, s, "InvalidResponse")
     /\ UNCHANGED answer
  \/ /\ Matches(s, r)
     /\ WellFormed(s.kind, r)
     /\ Finish(t, [s EXCEPT !.result = ResultOf(s.kind, r)], "ResponseReady")
     /\ answer' = r

(***************************************************************************)
(* poll                                                                    *)
(***************************************************************************)
PollIdle == ~IsRequestActive /\ UNCHANGED vars

PollTransmission(o) ==
  /\ obd.state = "AwaitingTransmit"
  /\ LET s == [obd EXCEPT !.lastTransport = o.ret] IN
     CASE o.ret = "InProgress" -> Continue(o.t, s, "InProgress")
       [] o.ret = "Complete"   -> Continue(o.t, BeginResponseWait(s), "InProgress")
       [] OTHER                -> Finish(o.t, s, "TransportFailure")
  /\ UNCHANGED <<config, sent, answer, elapsed>>

NonFailingPollStatus == {"Idle", "InProgress", "Complete"}

\* Mutant: a completed message is handled before the deadline is looked at.
DeadlineReachedInSilence == obd.waitLeft = 0 /\ transport.pending = NoMessage

DeadlineReached == obd.waitLeft = 0

Fits(message) == message \in Message /\ Len(message) <= kMaxRawDataLength

ReceiveResponse(t) ==
  LET r == ReceiveOutcome(t, Fits(t.pending))
      s == [obd EXCEPT !.lastTransport = r.ret]
  IN  CASE r.ret = "NoData"   -> Continue(r.t, s, "InProgress") /\ UNCHANGED answer
        [] r.ret = "Complete" -> HandleResponse(r.t, s, t.pending)
        [] OTHER              -> Finish(r.t, s, "TransportFailure") /\ UNCHANGED answer

PollResponse(o) ==
  /\ obd.state = "AwaitingResponse"
  /\ LET s == [obd EXCEPT !.lastTransport = o.ret] IN
     \/ /\ o.ret \notin NonFailingPollStatus
        /\ Finish(o.t, s, "TransportFailure")
        /\ UNCHANGED answer
     \/ /\ o.ret \in NonFailingPollStatus
        /\ DeadlineReached
        /\ Finish(o.t, s, "Timeout")
        /\ UNCHANGED answer
     \/ /\ o.ret \in NonFailingPollStatus
        /\ ~DeadlineReached
        /\ ReceiveResponse(o.t)
  /\ UNCHANGED <<config, sent, elapsed>>

Poll ==
  \/ PollIdle
  \/ \E o \in PollOutcomes(transport) : PollTransmission(o) \/ PollResponse(o)

(***************************************************************************)
(* Time, and the frames onCanFrame hands to the transport.                 *)
(***************************************************************************)
Tick ==
  /\ obd.state = "AwaitingResponse"
  /\ obd.waitLeft > 0
  /\ obd' = [obd EXCEPT !.waitLeft = @ - 1]
  /\ elapsed' = elapsed + 1
  /\ UNCHANGED <<config, transport, sent, answer>>

FrameArrives ==
  /\ transport' \in FrameStates(transport)
  /\ UNCHANGED <<config, obd, sent, answer, elapsed>>

Next ==
  \/ \E pid \in Pids : RequestCurrentData(pid) \/ RequestSupportedPids(pid)
  \/ RequestVin
  \/ RequestStoredDtcs
  \/ Poll
  \/ Tick
  \/ FrameArrives

Spec == Init /\ [][Next]_vars

(***************************************************************************)
(* Properties.                                                             *)
(***************************************************************************)

\* Every member keeps its type; a kind of request is noted exactly while one is active.
TypeOK ==
  /\ config \in ObdServiceConfig
  /\ transport \in TransportState
  /\ obd \in [state : {"Idle", "AwaitingTransmit", "AwaitingResponse"},
              kind : RequestKind, pid : Byte, status : ObdServiceStatus,
              lastTransport : TransportStatus, waitLeft : Nat,
              result : [raw : Seq(Byte), bitmap : Seq(Byte), vin : Seq(Byte),
                        dtcs : Seq(Byte \X Byte)]]
  /\ sent \in Seq(Byte) /\ answer \in Seq(Byte) /\ elapsed \in Nat
  /\ obd.kind = "None" <=> ~IsRequestActive

\* The pairs of bytes of the report r that are trouble codes, not padding.
CodesIn(r) == {i \in 1 .. (Len(r) - 1) \div 2 : <<r[2 * i], r[2 * i + 1]>> # <<0, 0>>}

\* The records are all trouble codes of the report, each once, in the order they stand there.
HoldsEveryCode(dtcs, r) ==
  \E at \in [DOMAIN dtcs -> CodesIn(r)] :
    /\ \A n \in DOMAIN dtcs : dtcs[n] = <<r[2 * at[n]], r[2 * at[n] + 1]>>
    /\ \A m, n \in DOMAIN dtcs : m < n => at[m] < at[n]
    /\ \A i \in CodesIn(r) : \E n \in DOMAIN dtcs : at[n] = i

\* The result x is what the answer r to a request of this mode says, all of it and nothing else.
IsContentOf(x, mode, r) ==
  \/ /\ mode = kModeCurrentData
     /\ SubSeq(r, 1, 2) \o x.raw \o x.bitmap = r
     /\ x.raw = <<>> \/ x.bitmap = <<>>
     /\ x.vin = <<>> /\ x.dtcs = <<>>
  \/ /\ mode = kModeVehicleInformation
     /\ SubSeq(r, 1, 3) \o x.vin = r
     /\ x.raw = <<>> /\ x.bitmap = <<>> /\ x.dtcs = <<>>
  \/ /\ mode = kModeStoredDtcRead
     /\ Len(r) % 2 = 1 /\ HoldsEveryCode(x.dtcs, r)
     /\ x.raw = <<>> /\ x.bitmap = <<>> /\ x.vin = <<>>

\* A published result is the content of the positive answer to the request sent last, byte for
\* byte and without a trouble code left out, and fits what the accessors promise, whatever
\* arrived or was asked in between.
ResultAnswersRequest ==
  obd.status = "ResponseReady" \/ obd.result # NoResult =>
    /\ answer # <<>>
    /\ answer[1] = PositiveService(sent[1])
    /\ sent[1] # kModeStoredDtcRead => answer[2] = sent[2]
    /\ IsContentOf(obd.result, sent[1], answer)
    /\ Len(obd.result.raw) <= kMaxRawDataLength
    /\ Len(obd.result.bitmap) \in {0, 4}
    /\ Len(obd.result.vin) \in {0, kVinLength}
    /\ Len(obd.result.dtcs) <= kMaxStoredDtcRecords

\* A request that ends leaves no completed message behind for the next one to take for its
\* own answer.
EndLeavesNoMessage ==
  [][IsRequestActive /\ obd'.state = "Idle" => transport'.pending = NoMessage]_vars

\* Neither unexpected responses nor requests refused as Busy move the deadline.
WaitIsBounded == obd.waitLeft > 0 => elapsed + obd.waitLeft = config.responseTimeout

\* The service keeps the contract applications rely on.
Lifecycle == INSTANCE RequestLifecycle WITH
  active    <- IsRequestActive,
  status    <- obd.status,
  published <- obd.result # NoResult

ImplementsLifecycle == Lifecycle!Spec

(***************************************************************************)
(* Liveness (DiagnosticStack states the fairness for both services): the   *)
(* application polls an active request and time passes. The                *)
(* transport has deadlines of its own: one transmission does not stay      *)
(* InProgress for ever. No progress is expected from InvalidArgument, the  *)
(* answer of a transport whose configuration never lets it send.           *)
(***************************************************************************)
PollWhileWaiting ==
  \E o \in PollOutcomes(transport) : o.ret \in NonFailingPollStatus /\ PollResponse(o)

TransmissionAdvances ==
  \E o \in PollOutcomes(transport) :
    o.ret \notin {"InProgress", "InvalidArgument"} /\ PollTransmission(o)

\* Every accepted request ends, whatever the bus and the vehicle do.
EveryRequestEnds == IsRequestActive ~> ~IsRequestActive
===============================================================================
