# Verification of esp32-vag-data-server

TLA+ models, TLC runs and TLAPS proofs for the header-only C++ core of the data server: the
ISO-TP endpoint, the OBD-II and UDS services above it, the read-only guard between them, the adapter of the
CAN driver below, the job scheduler, the vehicle data store and read model, and the codecs that publish what
they hold. Paths below are relative to the repository root `src/`; `PROJECT.json` ties every definition to the lines it models.

The program has no threads. All its hardness comes from calls that interleave on one owner: the CAN
owner dispatches frames into `onCanFrame`, the application polls, the clock moves between any two of
these and even inside one of them (a send to the driver takes time), and every send may fail.

## 1. Inventory

| component | state | operations | talks to |
|---|---|---|---|
| ISO-TP transport (`protocol/isotp_transport.h`) | one reception buffer with assembly cursor, sequence, block counter, deadline, `rxMessageReady_`; transmission payload, cursor, sequence, block counter, separation, deadlines, wait count | `startSend`, `poll`, `receive`, `discardPendingMessage`, `onCanFrame` | `CanHal::send`, `Clock`; called by the services and by the CAN owner |
| Diagnostic transport (`protocol/diagnostic_transport.h`) | interface | the first four of these | implemented by ISO-TP |
| Read-only guard (`protocol/read_only_guard.h`) | none | builds the payload of each permitted read, passes poll, receive and discard through | services above, transport below |
| OBD-II service (`protocol/obd_service.h`) | request state and kind, response deadline, result, DTCs, VIN | four requests, `poll` | guard |
| UDS service (`protocol/uds_service.h`) | the same, plus pending count, last NRC | two requests, `poll` | guard |
| Scheduler (`core/scheduler.h`) | jobs with deadline and pending flag, active index | `registerJob`, `request`, `takeNextDue`, `complete` | `Clock` |
| Vehicle data store (`core/vehicle_data_store.h`) | newest sample per signal, bounded | `upsert`, `lookup`, `snapshot` | read model |
| Active profile, registry (`profiles/*.h`) | selection state and identity; immutable table | `selectManually`, `clear` | read model |
| Read model (`application/vehicle_data_read_model.h`) | none of its own; buffers of the caller | `snapshot` | store, profile, registry |
| TWAI adapter (`esp32_twai_can.cpp`) | `installed_`, `started_`, latched alerts | `initialize`, `stop`, `send`, `receive` | ESP-IDF driver |
| Encoders (`application/ble_*`, `*_export_record.h`, `web_*`) | none | encode, decode | read model values |
| Value types (`core/vehicle_data.h`) | none | factories, bounded UTF-8 text | all of the above |
| Profiles, board, fixture, types | none | tables and types | |

`src.ino` is empty: no integration code connects the components yet. What calls them, how often and in
what order is therefore left open in every model, except where a fairness assumption says otherwise.

### Hard behaviours and what correct means

* **ISO-TP.** One buffer serves the message being assembled and the message not yet fetched. Correct:
  they never overlap, a fetched message is what was announced, an expired assembly is never completed
  whichever call notices the expiry. Sending: position, 4-bit sequence number and block counter agree
  after retries, wait frames, block boundaries and wrap; the peer's separation time holds across block
  boundaries although the driver's call takes time; `Complete` is reported exactly when the last byte was
  accepted.
* **Services.** Their request outlives many polls while anything may arrive. Correct: a result answers
  the request sent last, refused requests leave no trace in the active one, an ended request leaves no
  message for the next, response-pending answers cannot stretch the wait past the configured bound, every
  request ends.
* **Scheduler.** Unsigned times up to their last value. Correct: no deadline ahead of the clock is
  subtracted, a periodic job stays on its grid, a promised run is neither lost nor counted twice, also when it
  is requested during a run.
* **Store and read model.** Samples out of order, a full store, a selection that changes between
  snapshots, two caller buffers either of which may be too small. Correct: the newest sample wins, a
  caller holds one moment of the system, capabilities are only those of the selected profile.

* **TWAI adapter.** Any driver call may fail, and the controller moves between them. Correct: the flags tell
  what is installed after every partial failure, a healthy driver can always be started again, no latched alert
  is lost by being captured in the wrong call, a receive that reads the alerts after a loss reports it instead of
  handing over a frame.
* **Codecs.** Byte formats with lengths, options and quoting. Correct: decoding inverts encoding and accepts
  nothing else, also after damage; texts are UTF-8 exactly as Unicode defines it; a value that is not to be relied
  on shows nowhere; the caller's memory changes only on success and only within its buffer.

`PROJECT.json` lists each hazard at its line with the property that would catch it.

## 2. Modules

| module | models | how |
|---|---|---|
| `IsoTpTransport` | `IsoTpTransport` | `rx` and `tx` group the members of each direction, `buffer` holds the bytes written so far, `Len(tx.payload)` is `txLength_`. One action per public method, one named disjunct per early return or branch. Every `CanHal::send` is `Transmit`: any status, any delay out of `SendDelay`, and the clock reads after it see the later time. |
| `DiagnosticTransport` | the interface | Each call as a set of outcomes (next state, status), so that a service, whose one `poll` makes several calls, can chain them. `FrameStates` is what frames may do meanwhile. |
| `DiagnosticTransportSpec` | the interface as a specification | The same outcomes as actions over `transport` and `ret`. `IsoTpTransport` implements it (refinement mapping `ServiceView`). |
| `ReadOnlyGuard` | `ReadOnlyGuard` | One operator per entry point: status and payload. |
| `UdsService`, `ObdService` | the services | One action per request and `Poll`, over the contract, through the guard. Messages are sequences of bytes because the handlers compare bytes. `waitLeft` is the distance to `responseDeadlineMs_`. `sent`, `answer`, `elapsed` are history. |
| `RequestLifecycle` | what applications rely on | Abstract specification of three variables (active, status, result published); both services implement it. |
| `Scheduler` | `Scheduler` | One action per method, times modulo `MaxTime + 1`; `owed` is history. |
| `VehicleDataStore` | the store | `Upsert`; `newest` is history. |
| `VehicleDataReadModel` | profile, registry, read model | Extends the store; `caller` is what a caller's buffers and metadata hold, `taken` is history. |
| `IsoTpLink` | two endpoints on one bus | Two instances of `IsoTpTransport` and the frames between them, each with the time it is due. Byte i of message n is `<<n, i>>`, so that a mixture of two messages shows. |
| `DiagnosticStack` | both services on one transport | Instances of `UdsService` and `ObdService` that share `transport`; time passes for both at once. |
| `Esp32TwaiCan` | the TWAI adapter | One action per method, every driver call in it included; `fails` says which of them fail. The driver (`twai`) is external: queues, state, alerts, and moves of its own, any number of them between the calls and inside `send` and `receive`, after the alerts were read (`MovedOn`, the closure of `Moves`). Destruction is `Stop` with nothing called afterwards. The bit rate table is a configuration that is accepted or not. |
| `VehicleData` | bounded text, samples | Operators: the UTF-8 scan as a recursive function over the bytes, the factories as the set of the samples they make, and what texts and samples there are (`BoundedText`, `IsMade`), which both codecs assume of their inputs. An enumerator is its number. |
| `VehicleDataExport` | the export codec | `Encode`, `Decode`, and damage in between (external). A reference of UTF-8 (code point, shortest encoding, no surrogate) stands beside the scan, written without its boundary tables. |
| `PublicationWriter` | the writers and the two passes of both encoders | `Encoded`: sizing pass, capacity, null output, write pass, terminator; the caller's memory goes on behind its buffer so that a write beyond it shows. |
| `BlePayload`, `WebResponse` | the records and the response as chunks | One chunk per append. BLE is modelled byte by byte, the response character by character inside its texts; fixed JSON pieces, enumerator names and digits are cells of their own beyond the bytes. An identity is its four bytes. |
| `VehicleDataPublication` | the encoders and their callers | `Publish` for each of the four kinds. A reference JSON reader takes the texts out of a response again. |
| `MC*` | | Instances for TLC. |
| `IsoTpTransportProofs`, `IsoTpLinkProofs`, `UdsServiceProofs`, `ObdServiceProofs`, `DiagnosticStackProofs`, `SchedulerProofs`, `VehicleDataProofs`, `Esp32TwaiCanProofs` | | Theorems about the modules they are named after; `VehicleDataProofs` is about the store, the read model, the publications and the export records, and those about the calls of the contract are with each service. |

How they compose: the services are checked over *every* transport that keeps the contract, and the
ISO-TP endpoint is proved to keep it. So what holds of a service holds of it over the real endpoint,
without one large product. `IsoTpLink` and `DiagnosticStack` compose whole modules where the question is about
two of them: what one endpoint makes of the other's frames, and what two services do to each other. The codecs
share `VehicleData`. `FrameStates` is the contract's `Arrive` with the returned status left out,
since a service never sees it; `FramesAreForeseen` proves that the endpoint stays within it.

Definitions whose comment begins with *Fault* or *Mutant* are plausible bugs (a dropped mask, an
off-by-one, a swapped order). They are used by nothing here; each stands beside the definition it
damages, and `PROJECT.json` names the property that notices when it takes that definition's place.

## 3. Runs

| run | checks | instance and why it is enough |
|---|---|---|
| `endpoint` | `TypeOK`, `BufferHasOneOwner`, `SendPositionConsistent`; steps: `PendingMessageIsStable`, `SeparationIsKept`, `ExpiredAssemblyIsDropped`, `EndIsReportedTruthfully`; refinement `ImplementsContract` | Frames of 2 data bytes instead of 7, sequence numbers modulo 2 instead of 16, so that a message of 5 bytes already has a first and two consecutive frames and wraps the number. Three configurations: blocks of one with one wait frame, no blocks and no wait frame, and an invalid one. 31 frames: each type, valid and with each defect the code tells apart, and lengths below, at and above the configured and the protocol maximum. The driver answers `Ok`, `TxBusy` or a fatal error and takes 0 or 1 ms. Timeouts of 2 and a clock up to 3 let each deadline be met, missed by one and missed inside a send. The proofs remove all these bounds. |
| `uds` | `TypeOK`, `ResultAnswersRequest`, `WaitIsBounded`; `EndLeavesNoMessage`; refinement `ImplementsLifecycle` | Two identifiers, so one can be confused with the other; both kinds; 15 messages, one per path of the handlers, one over capacity; one response-pending allowed, the second exceeds the limit; a second configuration the service rejects. |
| `uds_ends` | `EveryRequestEnds` under `FairSpec` | The messages that decide whether a request goes on. |
| `obd` | the same five for `ObdService` | PIDs that are and are not a block base, messages for every path, VIN and DTC limit of 2 entries instead of 17 and 16, so that "more than fit" occurs. |
| `scheduler` | `TypeOK`, `ActiveIsDue`, `PromisedRunsAreOwed`; `CadenceIsKept`; `FirstJobIsServed` under `FairSpec` | Two slots for three identities (duplicate and full), periods 0, 2, 3, a clock that starts anywhere and ends at 9, so that several periods are missed and both overflow checks bite. Two jobs show every order relative to the first. |
| `read_model` | `TypeOK`, `NewestIsHeld`, `SnapshotIsOneMoment` | Three signals for a store of two; older, equal and newer timestamps; two admitted profiles, one of which has the registry, one identity not admitted; capacities 0, 1, 2 for each buffer. |
| `link` | steps: `DeliveredAsSent`, `FlowControlIsForThisMessage` | Three messages of one frame or of four, sequence numbers modulo 4, with blocks of two and without, delays up to 1, any losses on the way back and up to two frames in a row on the way out, timeouts of 3 and a clock up to 6: the sender gives up, a new message starts while the receiver still assembles, and either side's deadline expires first. |
| `stack` | `ResultsAreNotMixedUp`; steps `OnlyActiveServicesTake`; `BothRequestsEnd` under `FairSpec` | One identifier and one PID, an answer to each, an answer to another PID, response-pending, and a message that only one service has room for; both services wait 1. It includes each service alone, since the other need never ask, so the OBD-II service needs no liveness run of its own. |
| `driver` | `TypeOK`, `HealthyDriverStarts`; steps `AlertsReachTheCaller`, `LossIsReportedFirst` | A receive queue of two instead of 16 (a loss falls before, between and behind frames not yet read), a transmit queue of one, all combinations of failing calls, frames that are handed over and frames that are refused (remote or too long). |
| `export` | steps `EveryRecordReads`, `OnlyRecordsRead` | A sample of each kind, with characters of one to four bytes at the start, inside and at the end of texts, NaN, a boolean, a status. Damage overwrites one or two neighbouring bytes anywhere with both sides of every boundary of the scan, cuts the record at every length or adds bytes. Limits of 5, 2 and 3 bytes for texts instead of 64, 32 and 17, met exactly by a sample. |
| `publication` | `TellsExactlyTheView`, `CallerMemoryIsRespected` | 4 kinds, some 330 inputs: texts of every class of character JSON escapes, texts that differ only in where one ends, values that do and do not show, indices and counts on both sides of 255 and 65535, lists of up to two; capacities of zero, one less than the content to two more, and a null output. |

`link` rests on two assumptions about the bus, which ISO-TP itself relies on; no document of the repository
promises otherwise.

* `FlowControlIsTimely`: a round trip is over before the sender gives up waiting, and flow control arrives before its
  receiver gives up (both timeouts are configured, a second by default). Flow control carries no message number, so a
  later one starts the frames of the *next* message, and the receiver, which still assembles the one before and
  answered the new first frame Busy, joins the two. With a `MaxDelay` of 4 and without the assumption TLC finds this.
* `LossIsNoticeable`: fewer frames in a row are lost on the way to the receiver than there are sequence numbers (16).
  That many leave the expected number in the next frame, and no endpoint could tell. `lost` starts again with every
  frame heard, so there is no bound on the losses of a behaviour.

`TellsExactlyTheView` says of every format that two publications are equal exactly when what they are about is:
one direction is that nothing is lost or ambiguous, the other that a value without `hasValue()` does not show.

All runs pass, with deadlock checked. `VALIDATION.md:59-62` of the repository reports host tests of the
same points: a response too long for the service ends the request and is discarded (`EndLeavesNoMessage`);
an invalid request made while one is active is answered Busy and moves neither its identity nor its deadline
(`ResultAnswersRequest`, `WaitIsBounded`); the separation time counts from the return of the last accepted
send (`SeparationIsKept`); the wait counter stops at its limit (`SendPositionConsistent`). The runs hold
the code to these over every order of calls. No disagreement between code and documents was found, so there
are no findings.

### Fairness

* **Services** (`FairSpec`): the application polls an active request and time passes (weak fairness of
  `PollWhileWaiting` and of `Tick`); nothing is assumed of the bus or of the ECU. The transport ends a
  transmission it was given (`TransmissionAdvances`), which its flow control deadline, wait limit and the
  error paths justify; `InvalidArgument`, the answer of a transport whose configuration never let it
  send, is not counted on, and neither are failing polls, which end the request at once anyway.
* **Both services on one transport** (`stack`): the same of each. Taking the other's message, status or
  transmission away is not excluded by it.
* **Scheduler** (`FairSpec`): the owner keeps taking and completes what it took. The clock need not
  move: the property starts from a job that is already due.

## 4. Proofs

`IsoTpTransportProofs` proves, for every frame size `CfData` in 2..15, every sequence modulus above 1,
every set of configurations, payloads, frames and driver answers, every send delay and every clock
bound, under the two assumptions of `IsoTpTransport`
(`SizeAssumption`, `EnvironmentAssumption`: constants have their types, and every frame is one of the
decoded shapes; the real values 7, 16 and 4095 satisfy them):

| theorem | statement |
|---|---|
| `InductiveInvariant` | `Spec => []IInv` |
| `TypeCorrect`, `BufferOwnership`, `SendPosition` | the three invariants of the run |
| `PendingMessageStability`, `SeparationKept`, `ExpiredDropped`, `TruthfulEnd` | the four step properties |
| `ContractImplemented` | `Spec => Contract!Spec`, the refinement |
| `FramesAreForeseen` | what `onCanFrame` makes of the endpoint is one of the contract's `FrameStates`, the operator the services use in place of `Arrive` |

The invariants of the run are not inductive. `IInv` adds what they lean on: the types without the part
about `out` (which no step reads), the buffer facts (`RxInv`), the cursor facts (`TxInv`) and the relation of
send times, that while `Sending` with a frame behind it `nextSend` is at least `lastCf + separation`.
The last one is why a block boundary keeps the distance: `ContinueToSend` is the only step that changes
`separation`, and it recomputes `nextSend` with it. The proof that a step preserves `IInv` has one
lemma per handler; the arithmetic of the cursor (one frame moves it from boundary k to k + 1 and the
number to (k + 2) mod the modulus) and the cut of the last frame are lemmas of their own.
The step properties then follow from `IInv` before the step, and the refinement
by one case per handler outcome, each mapped to one contract action or to a stutter.

`IsoTpLinkProofs` proves both properties of the run `link`, and so what the endpoint is for: that two of them carry
messages. It holds for every frame size, sequence modulus, set of message lengths, block size, delay and number of
messages, under the assumptions of the two endpoints and the two about the bus.

| theorem | statement |
|---|---|
| `LinkInvariant` | `Spec => []IInv` |
| `DeliveredAsSentHolds` | `Spec => DeliveredAsSent` |
| `FlowControlIsForThisMessageHolds` | `Spec => FlowControlIsForThisMessage` |

Neither follows from what an endpoint knows of itself: frames carry no message number, so the argument is about what
can be on the wire. `IInv` says what a frame is by what it carries (`IsPiece`: byte i of message n is `<<n, i>>`),
and joins

* `AreInOrder`: the wire holds frames in the order they were cut, with nothing missing between two of them;
* `SenderFits`, `ReceiverFits`: transmission and assembly stand at a frame boundary of one message, and sequence and
  block numbers are what that boundary says (`Index`);
* `AssemblyFits`: the next consecutive frame belongs to the message under assembly, and is no more frames ahead of it
  than were lost since one was heard. Fewer than the modulus: so a frame with the expected number *is* the expected
  one (`SameNumber`, `RightFrame`), and a loss is noticed;
* `WireMeetsSender`, `FlowControlFits`, `TimesFit`: only the last frame sent asks for flow control, its sender
  waits and sends nothing meanwhile, and the answer is in time at both ends. So the receiver stands where the sender
  does when the answer arrives.

That nothing is missing between two frames on the wire and that the sender never starts a message while consecutive
frames of the one before are awaited come from each other, which is why the parts are inductive only together. Effects of the
handlers (`HearsConsecutive`, `SenderPollEffect`, `SendEffect` and the like) are lemmas about one endpoint; one lemma per
action of the link builds on them.

Five more modules prove every invariant and every step property of their runs, for all constants that
satisfy the assumptions named in the module (the constants have their types, a capacity is positive, a message
is a sequence of bytes, the UDS buffer holds at least the header of three bytes):

| module | theorems | argument |
|---|---|---|
| `SchedulerProofs` | `TypeCorrect`, `ActiveStaysDue`, `PromisesAreKept`, `CadenceKept` | The three invariants are inductive only together: that a completed job was pending follows from `ActiveIsDue`, and that the account of its runs is even from the identities being distinct. `CadenceKept` rests on `NextDeadlineFollowsNow`: the due job's deadline is not ahead of the clock, so the subtraction does not wrap, and `NextDeadlineFits` keeps the product and the sum below the clock's end. |
| `VehicleDataProofs` | `TypeCorrect`, `NewestAlwaysHeld`, `SnapshotAlwaysOneMoment` | `NewestIsHeld` is split into one sample per signal, every held sample being the newest, and every missing signal excused; each call of `upsert` keeps the three. `SnapshotIsOneMoment` needs only that a caller's buffers are sequences, whatever an earlier snapshot left in them. |
| `Esp32TwaiCanProofs` | `TypeCorrect`, `AlertsAreReported`, `HealthyDriverAlwaysStarts`, `LossIsAlwaysReportedFirst` | One lemma per handler shows types and alerts at once, for any subset of failing driver calls and any number of moves of the controller in between (`MovedOnIsClosed` shows that `MovedOn` has all of them). `LossIsReportedFirst` is not inductive; `LossHasAlert` adds that a loss not yet reported has its alert, latched in the driver or kept by the adapter. |
| `UdsServiceProofs` | `TypeCorrect`, `WaitBounded`, `ResultsAnswer`, `EndsClean`, `LifecycleImplemented` | `WaitIsBounded` is not inductive: `WaitFits` says which part of the budget the pending answers counted so far have used (`elapsed + waitLeft <= Budget(pendingCount)`), and that before the wait begins no time counts. `ResultsAnswer` needs `RequestFits`, that the payload sent last still is the request the members describe while it is active, and `ResultFits`, that a result is the content of `answer`: for an identifier its data, for a report the availability mask and every record with its code and status (`HoldsData`, `HoldsReport`); it ends in two lemmas about sequences, that header and rest make the message again and that equal bytes make equal identifiers. |
| `ObdServiceProofs` | the same five | `elapsed + waitLeft = responseTimeout` while a response is awaited. `ResultsAnswer` says that a result is the content of the answer: its bytes, and of the trouble codes every one that is no padding, in the order received. The second is a fact about the loop over the pairs for responses of any length, see below; that none is cut off rests on the capacity check in front of the loop (`EveryCodeIsHeld`). |

An `IInv` per service joins these parts; each was an invariant of a TLC run before it was proved. One lemma per
handler gives the invariant after the step and what the step shows: a step of `RequestLifecycle` or nothing. The
refinement and `EndLeavesNoMessage` follow from that lemma alone.

`DiagnosticStackProofs` proves `ResultsNotMixedUp` and `ActiveServicesTake`, the safety of the run `stack`, for
any messages and buffers, and beyond the run that both services keep their lifecycle (`SharingKeepsLifecycles`),
their bounded wait (`SharingKeepsWaits`) and `EndLeavesNoMessage` (`SharingKeepsEndsClean`) beside each other. The
invariant of a service speaks of the transport only in its type. So a step of the other service, which keeps the
transport within the contract, keeps it too (`OthersMoveTheTransport`), and `StackInv`, the conjunction of the two,
is inductive with no lemma about a handler repeated. `SameUdsSteps` and its like say that the services the stack is
made of are those the proofs are about. `IdleTakesNothing` (in the modules of the services) says that a service
that is not active never touches a completed message.

Induction over data: the induction theorems of the library take an operator as a parameter, which the provers
cannot instantiate, but the least-number principle does not (`LeastNatural`, from `WFMin` and
`NatLessThanWellFounded`). `ParsingExists` shows with it that the recursive function of `WithoutPadding` exists for any
number of pairs, and `ParsingFindsTheCodes` that what it has parsed are exactly the pairs that are no padding, in the
order of the pairs, each from a least counterexample.

The same principle carries `CallerMemoryIsRespectedHolds` (in `VehicleDataProofs`), which states `CallerMemoryIsRespected`
for all four publications, any texts, values, indices and lists of any length (`InputsAreTyped`) and memory of any
size. `WritingFills` is its heart: as long as the sum of all chunks fits, every prefix of them was written, the memory
holds their concatenation from its beginning and the writer's `good` never failed; against a null output the
same function only counts, so the sizing pass and the write pass agree. `EncodedRespectsMemory` adds the
checks of both encoders in their order, and the terminator, which the writer does not count. That what is published is a
sequence of chunks at all, whatever is in a sample, is part of the lemmas about each record and object below
(`ContentTells`). It also follows that the branch for a write pass that differs from its sizing pass is dead.

`VehicleDataProofs` also proves both properties of the run `export`, for any samples the factories make (`SamplesAreMade`),
texts of any length up to limits of at most 255, and any damage by bytes (`BurstsAreBytes`):

| theorem | statement |
|---|---|
| `WellFormedIsUnicode` | the scan of `isWellFormedUtf8` accepts the texts Unicode defines and no others |
| `RecordSaysItsSampleHolds` | `ExportSpec => []RecordSaysItsSample` |
| `OnlyRecordsReadHolds` | `ExportSpec => OnlyRecordsRead` |
| `EveryRecordReadsHolds` | `ExportSpec => EveryRecordReads` |

The scan decides by a table of first bytes and the bounds of the second; the definition says which code points
exist and that an encoding is the shortest. `ScannedIsScalar` compares the two for one character, length by length;
`WellFormedIsUnicode` then goes through the text. From left to right: the places where a scan may stand are the cuts the
definition asks for. Back: of the cuts from which the rest would not be scanned there would be a last one, and the scan leads
from it to the next. `RecordIs` gives the layout of a record in both directions: `Bytes(s)` has this length, header and
fields, and nothing else has them. So `DecodedIs` (what comes out of `decode` has the record it came out of, because the
header's lengths must add up and the flags must agree) and `RecordReads` (what `encode` wrote gives back the sample) use one lemma.
`EveryRecordReads` speaks of what a record means (`meant`), so it needs `RecordSaysItsSample`: a record stays the
record of its sample while it is damaged within the signal id. `SignalIdDamaged` shows that overwriting there and overwriting
the sample's text are the same. The run checked that invariant too before it was proved.

`TellsExactlyTheViewHolds` (in `VehicleDataProofs`) states `TellsExactlyTheView` for all four publications, any identities,
indices and lists of any length, texts of any length up to limits of at most 255, and samples as the factories make them
(`InputsAreTyped`). It has two halves.

* *Two publications are equal exactly when what they are about is.* That the view decides what is published
  (`SampleObjectShows`, `ResponseShows`) is the half about values that must not show. The other is about ambiguity, and
  the formats have every kind of it to avoid: texts behind a length, texts between quotes, members that are there or
  not, lists that end in a bracket, a tag that decides how the next field reads. `Tells(a, b, x, y)` says of the cells of
  one field that, whatever follows them, they begin the same publication only if they *are* the same, and then stand for
  the same. It goes through the layout: `TellField` and its like put two fields together, a flag or a type that was told
  decides the next field, and a list of objects of which each tells its member tells the list (`SeparatedTells`). A
  quoted text tells because no escaped character begins with a quote (`EscapedIsNoQuote`, `EscapedTells`,
  `QuotedTells`); `BleSampleTells`, `ResponseTells` and their like put a record and a response together.
* *A reader finds the very texts.* `Gives(chunks, texts)` says that a JSON reader that stands outside the quotes at their
  beginning stands there at their end and has taken exactly these texts out. `EscapedReads` compares the escaping with
  the reader in each of its cases (two characters, six of which four are hexadecimal digits, and the character itself);
  `WrittenReads` goes through a text of any length, `ListGives` through lists, `ResponseGives` through the response.

`ReadJoined` (reading two sequences joined is reading one after the other), `ReadIs` and `AllNaturals` take the place of
induction over data: the first two are about a recursive function, and all rest on the least-number principle. The
invariant is inductive together with `PublicationIsValid` alone: only a valid input was ever encoded.

Only model-checked: liveness (`EveryRequestEnds`, `BothRequestsEnd`, `FirstJobIsServed`), which stays with TLC because the
prover does not reach `ENABLED`. Every invariant and every step property of the runs is a theorem, and so is every refinement.

## 5. What a reader should know of the code

These are consequences of the code that the models show and no document denies.

* Late responses: a message that completes while no request is active stays in the transport
  (`startGuardedRequest` does not discard) and is taken for the answer of the next request of the same
  service and identifier. `EndLeavesNoMessage` bounds this to messages that arrive while idle.
* If the peer aborts inside `onCanFrame`, the transport is already idle at the next poll, which returns
  `Idle`; the service reports `TransportFailure` and `lastTransportStatus` says `Idle`, not the reason.
* In `AwaitingTransmit` any status but `InProgress` and `Complete` ends the request, `TxBusy` and the
  `Timeout` of an unrelated reception included, while the transmission goes on in the transport. The
  guard's payloads are 1 to 3 bytes, so over ISO-TP this state is not reached.
* `lastNegativeResponseCode` keeps 0x78 after a `ResponseReady` that followed a response-pending.
* `requestSupportedPids` with an invalid base sets `InvalidRequest` and leaves the earlier result readable.
* A transmission in `Sending` whose driver stays busy has no deadline.
* `TimeOverflow` in `complete` leaves the job active, and jobs registered later may starve behind an earlier
  one that is always due again; only the first has a promise.
* Two services over one transport take or discard each other's messages; nothing arbitrates. Each still ends and
  publishes only its own answers, but a request may fail because the other took its response.
* The adapter reports a latched alert instead of working: after `TxFailed` or `BusOff` from `send` nothing was
  handed to the driver, and the alert may be of an earlier frame.
* `receive` reads the alerts (`esp32_twai_can.cpp:207`) before the queue (`:219`). A frame lost in between, say to an
  overrun of an empty queue, with another arriving right after, lets that call return the later frame with `Ok`; the
  next one reports `RxOverflow`. `LossIsReportedFirst` says that this is one frame at most, and only in that call.
* One sample with a value that is not finite makes the whole web response `InvalidInput`, while it costs BLE only
  that sample's record; without `hasValue()` it harms neither.
* A stored record whose bytes changed into another consistent record (a changed timestamp) is decoded: the format
  has no checksum. What is decoded is always the record of what comes out.

## 6. Not modelled, and the plan

Not modelled: constant tables (profiles, board, configuration), the web fixture (a static page), the
empty entry point, `lookup` (changes nothing), null texts and null lists, the digits of numbers in JSON (assumed
to determine the number, as 17 significant digits do), the real values of payload bytes in `IsoTpTransport`
beyond one (TLC) or an arbitrary set (proofs), sums of sizes that overflow `size_t`, and the enumerator validity checks
of the encoders (`ble_vehicle_data_payload.h:217-255`, `web_vehicle_data_response.h:192-211` and their like in the
encoder of the export record): the enumerators of an input are always among their names here, as the factories make
them. What `decode` reads is checked as the code checks it. The branches of the UDS
service for a result over capacity are modelled and not reachable, since receive buffer and result have the same
size; so is the `InvalidInput` of a write pass that differs from its sizing pass.

Nothing of the plan is left but what is out of the provers' reach. Once integration code connects the components, the
order of calls it makes is what should be modelled next: it decides whether the late responses and shared transports of
section 5 happen.

## 7. Running

    tlc -workers 2 -config MCUdsService.cfg MCUdsService
    tlapm IsoTpTransportProofs.tla     # and the other *Proofs modules
