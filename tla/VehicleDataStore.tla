--------------------------- MODULE VehicleDataStore ---------------------------
(***************************************************************************)
(* The bounded store of the newest sample of each signal                   *)
(* (core/vehicle_data_store.h). A sample is [id, timestamp, value]; quality *)
(* and unit travel with the value.                                         *)
(***************************************************************************)
EXTENDS Naturals, Sequences

CONSTANTS
  SignalId,
  SampleValue,
  Timestamp,
  Capacity,
  NoSample     \* stands for "never offered"

ASSUME CapacityIsPositive == Capacity \in Nat \ {0}
ASSUME TimestampsAreNatural == Timestamp \subseteq Nat

VARIABLES
  samples,   \* the first size_ entries of samples_
  newest     \* history: the newest sample offered for each signal

storeVars == <<samples, newest>>

Sample == [id : SignalId, timestamp : Timestamp, value : SampleValue]

ASSUME NoSampleIsNone == NoSample \notin Sample

StoreInit ==
  /\ samples = <<>>
  /\ newest = [id \in SignalId |-> NoSample]

\* Mutant: a sample as new as the stored one is ignored too.
IsOlderOrEqual(incoming, stored) == incoming.timestamp <= stored.timestamp

IsOlder(incoming, stored) == incoming.timestamp < stored.timestamp

Holds(id) == \E i \in DOMAIN samples : samples[i].id = id

(***************************************************************************)
(* upsert: IgnoredOlder, Updated, Full, Inserted                           *)
(***************************************************************************)
IgnoreOlder(incoming) ==
  /\ \E i \in DOMAIN samples : samples[i].id = incoming.id /\ IsOlder(incoming, samples[i])
  /\ UNCHANGED samples

Update(incoming) ==
  \E i \in DOMAIN samples :
    /\ samples[i].id = incoming.id
    /\ ~IsOlder(incoming, samples[i])
    /\ samples' = [samples EXCEPT ![i] = incoming]

RefuseFull(incoming) ==
  /\ ~Holds(incoming.id)
  /\ Len(samples) = Capacity
  /\ UNCHANGED samples

Insert(incoming) ==
  /\ ~Holds(incoming.id)
  /\ Len(samples) # Capacity
  /\ samples' = Append(samples, incoming)

Upsert(incoming) ==
  /\ \/ IgnoreOlder(incoming)
     \/ Update(incoming)
     \/ RefuseFull(incoming)
     \/ Insert(incoming)
  /\ newest' = [newest EXCEPT ![incoming.id] =
                  IF @ # NoSample /\ @.timestamp > incoming.timestamp THEN @
                  ELSE incoming]

\* Full copies, or nothing but the size the caller needs.
SnapshotFits(capacity) == Len(samples) <= capacity

(***************************************************************************)
(* Properties.                                                             *)
(***************************************************************************)
StoreTypeOK ==
  /\ samples \in Seq(Sample) /\ Len(samples) <= Capacity
  /\ newest \in [SignalId -> Sample \cup {NoSample}]

\* The store holds one sample of a signal, the newest ever offered and the last offered of
\* those as new; a signal it does not hold was never offered or found the store full.
NewestIsHeld ==
  \A id \in SignalId :
    LET at == {i \in DOMAIN samples : samples[i].id = id} IN
    IF at = {} THEN newest[id] = NoSample \/ Len(samples) = Capacity
    ELSE \E i \in at : at = {i} /\ samples[i] = newest[id]
===============================================================================
