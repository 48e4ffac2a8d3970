--------------------------- MODULE VehicleDataProofs ---------------------------
(***************************************************************************)
(* Theorems about the store and the read model, for any signals, any       *)
(* capacity, any registry and any buffers; about the export records, for   *)
(* any samples and any damage; and about the publication of what is read,  *)
(* for any texts, any lists and memory of any size: what it does to the    *)
(* caller's memory, that it tells exactly what is to be seen of its        *)
(* input, and that a JSON reader finds its texts in it.                    *)
(***************************************************************************)
EXTENDS VehicleDataReadModel, VehicleDataPublication, VehicleDataExport, SequenceTheorems,
        WellFoundedInduction, TLAPS

(***************************************************************************)
(* The store.                                                              *)
(***************************************************************************)

OnePerSignal == \A i, j \in DOMAIN samples : samples[i].id = samples[j].id => i = j

HeldIsNewest == \A i \in DOMAIN samples : samples[i] = newest[samples[i].id]

MissingIsExcused ==
  \A id \in SignalId : ~Holds(id) => newest[id] = NoSample \/ Len(samples) = Capacity

StoreInv == StoreTypeOK /\ OnePerSignal /\ HeldIsNewest /\ MissingIsExcused

LEMMA StoreInvSuffices == StoreInv => NewestIsHeld
<1> SUFFICES ASSUME StoreInv, NEW id \in SignalId
             PROVE  LET at == {i \in DOMAIN samples : samples[i].id = id} IN
                    IF at = {} THEN newest[id] = NoSample \/ Len(samples) = Capacity
                    ELSE \E i \in at : at = {i} /\ samples[i] = newest[id]
  BY DEF NewestIsHeld
<1> DEFINE at == {i \in DOMAIN samples : samples[i].id = id}
<1>1. CASE at = {}
  <2>1. ~Holds(id)
    BY <1>1 DEF Holds
  <2> QED
    BY <1>1, <2>1 DEF StoreInv, MissingIsExcused
<1>2. CASE at # {}
  <2>1. PICK i \in at : TRUE
    BY <1>2
  <2>2. at = {i}
    BY <2>1 DEF StoreInv, OnePerSignal
  <2>3. samples[i] = newest[id]
    BY <2>1 DEF StoreInv, HeldIsNewest
  <2> QED
    BY <1>2, <2>1, <2>2, <2>3
<1> QED
  BY <1>1, <1>2

\* What the history makes of an offered sample.
Offered(incoming) ==
  IF newest[incoming.id] # NoSample /\ newest[incoming.id].timestamp > incoming.timestamp
  THEN newest[incoming.id] ELSE incoming

LEMMA OfferedIsNewest ==
  ASSUME StoreTypeOK, NEW incoming \in Sample, Upsert(incoming)
  PROVE  /\ newest' \in [SignalId -> Sample \cup {NoSample}]
         /\ incoming.id \in SignalId
         /\ newest'[incoming.id] = Offered(incoming)
         /\ \A id \in SignalId : id # incoming.id => newest'[id] = newest[id]
<1>1. incoming.id \in SignalId
  BY DEF Sample
<1>2. newest' = [newest EXCEPT ![incoming.id] = Offered(incoming)]
  BY <1>1 DEF Upsert, Offered, StoreTypeOK
<1>3. Offered(incoming) \in Sample \cup {NoSample}
  BY <1>1 DEF Offered, StoreTypeOK
<1> QED
  BY <1>1, <1>2, <1>3 DEF StoreTypeOK

LEMMA UpsertKeepsStore ==
  ASSUME StoreInv, NEW incoming \in Sample, Upsert(incoming)
  PROVE  StoreInv'
<1> DEFINE id == incoming.id
<1>1. /\ newest' \in [SignalId -> Sample \cup {NoSample}]
      /\ id \in SignalId
      /\ newest'[id] = Offered(incoming)
      /\ \A x \in SignalId : x # id => newest'[x] = newest[x]
  BY OfferedIsNewest DEF StoreInv
<1>2. samples \in Seq(Sample) /\ DOMAIN samples = 1 .. Len(samples) /\ Len(samples) \in Nat
  BY DEF StoreInv, StoreTypeOK
<1>3. \A i \in DOMAIN samples : samples[i] \in Sample /\ samples[i].id \in SignalId
  <2>1. \A i \in DOMAIN samples : samples[i] \in Sample
    BY <1>2
  <2> QED
    BY <2>1 DEF Sample
<1>4. CASE IgnoreOlder(incoming)
  <2>1. PICK i \in DOMAIN samples : samples[i].id = id /\ IsOlder(incoming, samples[i])
    BY <1>4 DEF IgnoreOlder
  <2>2. newest[id] = samples[i] /\ newest[id] # NoSample
    BY <1>3, <2>1, NoSampleIsNone DEF StoreInv, HeldIsNewest
  <2>3. incoming.timestamp \in Nat /\ samples[i].timestamp \in Nat
    BY <1>3, TimestampsAreNatural DEF Sample
  <2>4. newest'[id] = newest[id]
    BY <1>1, <2>1, <2>2, <2>3 DEF Offered, IsOlder
  <2>5. \A x \in SignalId : newest'[x] = newest[x]
    BY <1>1, <2>4
  <2>6. samples' = samples
    BY <1>4 DEF IgnoreOlder
  <2> QED
    BY <1>1, <1>3, <2>5, <2>6
    DEF StoreInv, StoreTypeOK, OnePerSignal, HeldIsNewest, MissingIsExcused, Holds
<1>5. CASE Update(incoming)
  <2>1. PICK k \in DOMAIN samples : /\ samples[k].id = id
                                    /\ ~IsOlder(incoming, samples[k])
                                    /\ samples' = [samples EXCEPT ![k] = incoming]
    BY <1>5 DEF Update
  <2>2. /\ samples' \in Seq(Sample) /\ Len(samples') = Len(samples)
        /\ DOMAIN samples' = DOMAIN samples
        /\ \A i \in DOMAIN samples : samples'[i] = IF i = k THEN incoming ELSE samples[i]
    BY <1>2, <2>1
  <2>3. newest'[id] = incoming
    <3>1. newest[id] = samples[k]
      BY <2>1 DEF StoreInv, HeldIsNewest
    <3>2. incoming.timestamp \in Nat /\ samples[k].timestamp \in Nat
      BY <1>3, TimestampsAreNatural DEF Sample
    <3> QED
      BY <1>1, <2>1, <3>1, <3>2 DEF Offered, IsOlder
  <2>4. \A i \in DOMAIN samples : samples'[i].id = samples[i].id
    BY <2>1, <2>2
  <2>5. StoreTypeOK'
    BY <1>1, <2>2 DEF StoreInv, StoreTypeOK
  <2>6. OnePerSignal'
    BY <2>2, <2>4 DEF StoreInv, OnePerSignal
  <2>7. HeldIsNewest'
    <3> SUFFICES ASSUME NEW i \in DOMAIN samples PROVE samples'[i] = newest'[samples'[i].id]
      BY <2>2 DEF HeldIsNewest
    <3>1. CASE i = k
      BY <2>2, <2>3, <3>1
    <3>2. CASE i # k
      <4>1. samples[i].id # id
        BY <2>1, <3>2 DEF StoreInv, OnePerSignal
      <4> QED
        BY <1>1, <1>3, <2>2, <3>2, <4>1 DEF StoreInv, HeldIsNewest
    <3> QED
      BY <3>1, <3>2
  <2>8. MissingIsExcused'
    <3> SUFFICES ASSUME NEW x \in SignalId, ~Holds(x)'
                 PROVE  newest'[x] = NoSample \/ Len(samples') = Capacity
      BY DEF MissingIsExcused
    <3>1. ~Holds(x) /\ x # id
      BY <2>1, <2>2, <2>4 DEF Holds
    <3> QED
      BY <1>1, <2>2, <3>1 DEF StoreInv, MissingIsExcused
  <2> QED
    BY <2>5, <2>6, <2>7, <2>8 DEF StoreInv
<1>6. CASE RefuseFull(incoming)
  <2>1. samples' = samples /\ Len(samples) = Capacity /\ ~Holds(id)
    BY <1>6 DEF RefuseFull
  <2>2. \A i \in DOMAIN samples : newest'[samples[i].id] = newest[samples[i].id]
    BY <1>1, <1>3, <2>1 DEF Holds
  <2> QED
    BY <1>1, <2>1, <2>2
    DEF StoreInv, StoreTypeOK, OnePerSignal, HeldIsNewest, MissingIsExcused
<1>7. CASE Insert(incoming)
  <2> DEFINE new == Len(samples) + 1
  <2>1. samples' = Append(samples, incoming) /\ Len(samples) # Capacity /\ ~Holds(id)
    BY <1>7 DEF Insert
  <2>2. /\ samples' \in Seq(Sample) /\ Len(samples') = new
        /\ DOMAIN samples' = DOMAIN samples \cup {new} /\ new \notin DOMAIN samples
        /\ \A i \in DOMAIN samples : samples'[i] = samples[i]
        /\ samples'[new] = incoming
    BY <1>2, <2>1
  <2>3. \A i \in DOMAIN samples : samples[i].id # id
    BY <2>1 DEF Holds
  <2>4. newest'[id] = incoming
    BY <1>1, <2>1 DEF StoreInv, MissingIsExcused, Offered
  <2>5. StoreTypeOK'
    <3>1. Len(samples) <= Capacity
      BY DEF StoreInv, StoreTypeOK
    <3>2. ASSUME NEW n \in Nat, n <= Capacity, n # Capacity PROVE n + 1 <= Capacity
      BY <3>2, CapacityIsPositive
    <3>3. new <= Capacity
      BY <1>2, <2>1, <3>1, <3>2
    <3> QED
      BY <1>1, <2>2, <3>3 DEF StoreTypeOK
  <2> HIDE DEF new
  <2>6. OnePerSignal'
    BY <2>2, <2>3 DEF StoreInv, OnePerSignal
  <2>7. HeldIsNewest'
    BY <1>1, <1>3, <2>2, <2>3, <2>4 DEF StoreInv, HeldIsNewest
  <2>8. MissingIsExcused'
    <3> SUFFICES ASSUME NEW x \in SignalId, ~Holds(x)' PROVE newest'[x] = NoSample
      BY DEF MissingIsExcused
    <3>1. x # id /\ ~Holds(x)
      BY <2>2 DEF Holds
    <3> QED
      BY <1>1, <2>1, <3>1 DEF StoreInv, MissingIsExcused
  <2> QED
    BY <2>5, <2>6, <2>7, <2>8 DEF StoreInv
<1> QED
  BY <1>4, <1>5, <1>6, <1>7 DEF Upsert

(***************************************************************************)
(* The read model. The buffers behind a caller are sequences whatever was  *)
(* copied into them before.                                                *)
(***************************************************************************)

Descriptor == {Registry[i] : i \in DOMAIN Registry}

CallerTypeOK == caller.samples \in Seq(Sample) /\ caller.capabilities \in Seq(Descriptor)

IInv == TypeOK /\ StoreInv /\ CallerTypeOK /\ SnapshotIsOneMoment

LEMMA OverwriteCopies ==
  ASSUME NEW S, NEW buffer \in Seq(S), NEW content \in Seq(S)
  PROVE  /\ Overwrite(buffer, content) \in Seq(S)
         /\ SubSeq(Overwrite(buffer, content), 1, Len(content)) = content
<1> DEFINE rest == SubSeq(buffer, Len(content) + 1, Len(buffer))
           whole == content \o rest
<1>1. Len(content) \in Nat /\ Len(buffer) \in Nat
  OBVIOUS
<1>2. rest \in Seq(S)
  BY <1>1
<1> HIDE DEF rest
<1>3. whole \in Seq(S) /\ Len(whole) = Len(content) + Len(rest) /\ Len(rest) \in Nat
  BY <1>2
<1>4. \A i \in 1 .. Len(content) : whole[i] = content[i]
  BY <1>2
<1> HIDE DEF whole
<1>5. SubSeq(whole, 1, Len(content)) = content
  <2> DEFINE front == SubSeq(whole, 1, Len(content))
  <2>1. Len(content) <= Len(whole)
    BY <1>1, <1>3
  <2>2. front \in Seq(S) /\ Len(front) = Len(content)
    BY <1>1, <1>3, <2>1
  <2>3. \A i \in 1 .. Len(content) : front[i] = content[i]
    BY <1>1, <1>3, <1>4, <2>1
  <2> HIDE DEF front
  <2>4. front = content
    BY <2>2, <2>3
  <2> QED
    BY <2>4 DEF front
<1> QED
  BY <1>3, <1>5 DEF Overwrite, whole, rest

LEMMA SnapshotKeepsIInv ==
  ASSUME IInv, NEW n, NEW m, SnapshotCompletes(n, m), UNCHANGED <<samples, newest, profile>>
  PROVE  CallerTypeOK' /\ SnapshotIsOneMoment'
<1>1. samples \in Seq(Sample) /\ Capabilities \in Seq(Descriptor)
  BY RegistryIsSequence DEF IInv, TypeOK, StoreTypeOK, Capabilities, Descriptor
<1>2. caller' = [samples      |-> Overwrite(caller.samples, samples),
                 capabilities |-> Overwrite(caller.capabilities, Capabilities),
                 metadata     |-> Metadata]
  BY DEF SnapshotCompletes
<1>3. /\ caller'.samples = Overwrite(caller.samples, samples)
      /\ caller'.capabilities = Overwrite(caller.capabilities, Capabilities)
      /\ caller'.metadata = Metadata
      /\ taken'.samples = samples /\ taken'.profile = profile
  BY <1>2 DEF SnapshotCompletes
<1>4. /\ CallerTypeOK'
      /\ SubSeq(caller'.samples, 1, Len(samples)) = samples
      /\ SubSeq(caller'.capabilities, 1, Len(Capabilities)) = Capabilities
  <2>1. caller.samples \in Seq(Sample) /\ caller.capabilities \in Seq(Descriptor)
    BY DEF IInv, CallerTypeOK
  <2>2. /\ Overwrite(caller.samples, samples) \in Seq(Sample)
        /\ SubSeq(Overwrite(caller.samples, samples), 1, Len(samples)) = samples
    BY <1>1, <2>1, OverwriteCopies, Zenon
  <2>3. /\ Overwrite(caller.capabilities, Capabilities) \in Seq(Descriptor)
        /\ SubSeq(Overwrite(caller.capabilities, Capabilities), 1, Len(Capabilities))
           = Capabilities
    BY <1>1, <2>1, OverwriteCopies, Zenon
  <2> QED
    BY <1>3, <2>2, <2>3 DEF CallerTypeOK
<1>5. /\ Metadata.selectionState = profile.state
      /\ Metadata.activeIdentity = ActiveIdentity
      /\ Metadata.sampleCount = Len(samples)
      /\ Metadata.capabilityCount = Len(Capabilities)
  BY DEF Metadata
<1>6. Metadata.hasCapabilityRegistry <=> HasCapabilityRegistry
  BY DEF Metadata
<1>7. /\ ActiveIdentity = profile.active
      /\ profile.state = "Selected" <=> ActiveIdentity # NoIdentity
  BY DEF IInv, TypeOK, ActiveIdentity
<1>8. HasCapabilityRegistry <=> ActiveIdentity = RegistryProfile /\ ActiveIdentity # NoIdentity
  BY DEF HasCapabilityRegistry
<1>9. /\ HasCapabilityRegistry => Capabilities = Registry
      /\ ~HasCapabilityRegistry => Len(Capabilities) = 0
  BY DEF Capabilities
<1>10. /\ SubSeq(caller'.samples, 1, caller'.metadata.sampleCount) = taken'.samples
       /\ caller'.metadata.selectionState = taken'.profile.state
       /\ caller'.metadata.activeIdentity = taken'.profile.active
  BY <1>3, <1>4, <1>5, <1>7
<1>11. /\ caller'.metadata.selectionState = "Selected"
            <=> caller'.metadata.activeIdentity # NoIdentity
       /\ caller'.metadata.hasCapabilityRegistry
            <=> /\ caller'.metadata.activeIdentity = RegistryProfile
                /\ caller'.metadata.activeIdentity # NoIdentity
  BY <1>3, <1>5, <1>6, <1>7, <1>8
<1>12. IF caller'.metadata.hasCapabilityRegistry
       THEN /\ caller'.metadata.capabilityCount = Len(Registry)
            /\ SubSeq(caller'.capabilities, 1, caller'.metadata.capabilityCount) = Registry
       ELSE caller'.metadata.capabilityCount = 0
  BY <1>3, <1>4, <1>5, <1>6, <1>9
<1> QED
  BY <1>4, <1>10, <1>11, <1>12 DEF SnapshotIsOneMoment

LEMMA CallerKept ==
  ASSUME IInv, UNCHANGED <<caller, taken>>
  PROVE  CallerTypeOK' /\ SnapshotIsOneMoment'
BY DEF IInv, CallerTypeOK, SnapshotIsOneMoment

LEMMA StoreKept ==
  ASSUME IInv, UNCHANGED <<samples, newest>>
  PROVE  StoreInv'
BY DEF IInv, StoreInv, StoreTypeOK, OnePerSignal, HeldIsNewest, MissingIsExcused, Holds

ProfileTypeOK ==
  /\ profile \in [state : Unresolved \cup {"Selected"}, active : Admitted \cup {NoIdentity}]
  /\ profile.active # NoIdentity <=> profile.state = "Selected"

LEMMA NextKeepsIInv ==
  ASSUME IInv, [Next]_vars
  PROVE  IInv'
<1>1. TypeOK <=> StoreTypeOK /\ ProfileTypeOK
  BY DEF TypeOK, ProfileTypeOK
<1>2. StoreInv' /\ ProfileTypeOK' /\ CallerTypeOK' /\ SnapshotIsOneMoment' => IInv'
  BY DEF IInv, TypeOK, ProfileTypeOK, StoreInv
<1>3. UNCHANGED profile => ProfileTypeOK'
  BY <1>1 DEF IInv, ProfileTypeOK
<1>4. CASE \E incoming \in Sample : Upsert(incoming) /\ UNCHANGED <<profile, caller, taken>>
  BY <1>2, <1>3, <1>4, UpsertKeepsStore, CallerKept DEF IInv
<1>5. ASSUME NEW identity \in ProfileIdentity, SelectManually(identity)
      PROVE  IInv'
  <2>1. ProfileTypeOK'
    BY <1>1, <1>5, IdentitiesAreAdmitted DEF IInv, SelectManually, ProfileTypeOK
  <2> QED
    BY <1>2, <1>5, <2>1, StoreKept, CallerKept DEF SelectManually
<1>6. ASSUME NEW state \in Unresolved, Clear(state)
      PROVE  IInv'
  <2>1. ProfileTypeOK'
    BY <1>6 DEF Clear, ProfileTypeOK, Unresolved
  <2> QED
    BY <1>2, <1>6, <2>1, StoreKept, CallerKept DEF Clear
<1>7. ASSUME NEW n \in BufferCapacity, NEW m \in BufferCapacity, Snapshot(n, m)
      PROVE  IInv'
  <2>1. CASE SnapshotFails(n, m)
    BY <1>2, <1>3, <1>7, <2>1, StoreKept, CallerKept DEF Snapshot, SnapshotFails
  <2>2. CASE SnapshotCompletes(n, m)
    BY <1>2, <1>3, <1>7, <2>2, StoreKept, SnapshotKeepsIInv DEF Snapshot
  <2> QED
    BY <1>7, <2>1, <2>2 DEF Snapshot
<1>8. CASE UNCHANGED vars
  BY <1>2, <1>3, <1>8, StoreKept, CallerKept DEF vars
<1> QED
  BY <1>4, <1>5, <1>6, <1>7, <1>8 DEF Next

\* The parts of NewestIsHeld and the one moment a caller holds, in every reachable state.
THEOREM InductiveInvariant == Spec => []IInv
<1>1. Init => IInv
  <2> SUFFICES ASSUME Init PROVE IInv
    OBVIOUS
  <2>1. samples = <<>> /\ DOMAIN samples = {} /\ Len(samples) = 0
    BY DEF Init, StoreInit
  <2>2. StoreTypeOK
    BY <2>1, CapacityIsPositive DEF Init, StoreInit, StoreTypeOK
  <2>3. StoreInv
    BY <2>1, <2>2 DEF Init, StoreInit, StoreInv, OnePerSignal, HeldIsNewest, MissingIsExcused
  <2>4. TypeOK
    BY <2>2 DEF Init, TypeOK, Unresolved
  <2>5. CallerTypeOK
    BY DEF Init, CallerTypeOK
  <2>6. SnapshotIsOneMoment
    <3>1. /\ caller.samples = <<>> /\ caller.metadata = NoMetadata
          /\ taken.samples = <<>> /\ taken.profile = profile
          /\ profile.state = "Unknown" /\ profile.active = NoIdentity
      BY DEF Init
    <3>2. SubSeq(<<>>, 1, 0) = <<>>
      OBVIOUS
    <3>3. /\ NoMetadata.sampleCount = 0 /\ NoMetadata.capabilityCount = 0
          /\ NoMetadata.selectionState = "Unknown" /\ NoMetadata.activeIdentity = NoIdentity
      BY DEF NoMetadata
    <3>4. ~NoMetadata.hasCapabilityRegistry
      BY DEF NoMetadata
    <3> QED
      BY <3>1, <3>2, <3>3, <3>4 DEF SnapshotIsOneMoment
  <2> QED
    BY <2>3, <2>4, <2>5, <2>6 DEF IInv
<1> QED
  BY <1>1, NextKeepsIInv, PTL DEF Spec

\* The store and the selection keep their types, and exactly a selected profile has an identity.
THEOREM TypeCorrect == Spec => []TypeOK
BY InductiveInvariant, PTL DEF IInv

\* For any capacity the store holds one sample of a signal, the newest offered, and misses a
\* signal only if it was never offered or the store is full.
THEOREM NewestAlwaysHeld == Spec => []NewestIsHeld
BY InductiveInvariant, StoreInvSuffices, PTL DEF IInv

\* Whatever buffers a caller brings, and however often a snapshot failed in between, what it
\* holds is one moment of the store and the selection.
THEOREM SnapshotAlwaysOneMoment == Spec => []SnapshotIsOneMoment
BY InductiveInvariant, PTL DEF IInv

(***************************************************************************)
(* How chunks get into memory. What the recursive functions compute        *)
(* follows from there being no first place where it is something else.     *)
(***************************************************************************)

\* A set of numbers that is not empty has a least one.
LEMMA LeastNatural ==
  ASSUME NEW T, T \subseteq Nat, T # {}
  PROVE  \E x \in T : \A y \in T : ~(y < x)
<1>1. \E x \in T : \A y \in T : ~(<<y, x>> \in OpToRel(<, Nat))
  BY NatLessThanWellFounded, WFMin
<1>2. ASSUME NEW x \in T, NEW y \in T
      PROVE  <<y, x>> \in OpToRel(<, Nat) <=> y < x
  BY DEF OpToRel
<1> QED
  BY <1>1, <1>2

\* The function w lists what the writer is after each of the first n appends.
Writes(w, writer, chunks, n) ==
  w = [i \in 0 .. n |-> IF i = 0 THEN writer ELSE AppendChunk(w[i - 1], chunks[i])]

LEMMA WritingExists ==
  ASSUME NEW writer, NEW chunks, NEW n \in Nat
  PROVE  \E w : Writes(w, writer, chunks, n)
<1> DEFINE Bad == {m \in Nat : ~ \E w : Writes(w, writer, chunks, m)}
<1> SUFFICES ASSUME Bad # {}
             PROVE  FALSE
  OBVIOUS
<1>1. PICK m \in Bad : \A y \in Bad : ~(y < m)
  <2>1. Bad \subseteq Nat
    OBVIOUS
  <2> HIDE DEF Bad
  <2> QED
    BY <2>1, LeastNatural
<1>2. m \in Nat /\ ~ \E w : Writes(w, writer, chunks, m)
  OBVIOUS
<1>3. CASE m = 0
  <2> DEFINE w == [i \in 0 .. 0 |-> writer]
  <2>1. Writes(w, writer, chunks, 0)
    BY DEF Writes
  <2> QED
    BY <1>2, <1>3, <2>1
<1>4. CASE m # 0
  <2>1. m - 1 \in Nat /\ m - 1 < m
    BY <1>2, <1>4
  <2>2. PICK w : Writes(w, writer, chunks, m - 1)
    BY <1>1, <2>1
  <2> DEFINE last == AppendChunk(w[m - 1], chunks[m])
             v == [i \in 0 .. m |-> IF i = m THEN last ELSE w[i]]
             Step(f, i) == IF i = 0 THEN writer
                           ELSE AppendChunk(f[i - 1], chunks[i])
  <2>3. \A i \in 0 .. m - 1 : w[i] = Step(w, i)
    BY <2>2 DEF Writes
  <2>4. \A i \in 0 .. m : v[i] = Step(v, i)
    <3> SUFFICES ASSUME NEW i \in 0 .. m
                 PROVE  v[i] = Step(v, i)
      OBVIOUS
    <3> DEFINE l == last
    <3>1. v = [x \in 0 .. m |-> IF x = m THEN l ELSE w[x]]
      OBVIOUS
    <3> HIDE DEF l, v
    <3>2. CASE i = m
      <4>1. v[i] = l /\ v[i - 1] = w[i - 1]
        BY <1>2, <2>1, <3>1, <3>2
      <4> QED
        BY <1>4, <3>2, <4>1 DEF l
    <3>3. CASE i = 0
      <4>1. 0 \in 0 .. m - 1 /\ 0 # m
        BY <1>4, <2>1
      <4>2. v[0] = w[0] /\ w[0] = writer
        BY <2>3, <3>1, <3>3, <4>1
      <4> QED
        BY <3>3, <4>2
    <3>4. CASE i # m /\ i # 0
      <4>1. i - 1 \in 0 .. m /\ i - 1 # m /\ i \in 0 .. m - 1
        BY <1>2, <3>4
      <4>2. v[i] = w[i] /\ v[i - 1] = w[i - 1]
        BY <3>1, <3>4, <4>1
      <4> QED
        BY <2>3, <3>4, <4>1, <4>2
    <3> QED
      BY <3>2, <3>3, <3>4
  <2>5. v = [i \in 0 .. m |-> v[i]]
    OBVIOUS
  <2> HIDE DEF v
  <2>6. Writes(v, writer, chunks, m)
    BY <2>4, <2>5 DEF Writes
  <2> QED
    BY <1>2, <2>6
<1> QED
  BY <1>3, <1>4

\* The function j lists the first i of the sequences s, joined.
Joins(j, s, n) == j = [i \in 1 .. n |-> IF i = 1 THEN s[i] ELSE j[i - 1] \o s[i]]

LEMMA JoiningExists ==
  ASSUME NEW s, NEW n \in Nat
  PROVE  \E j : Joins(j, s, n)
<1> DEFINE Bad == {m \in Nat : ~ \E j : Joins(j, s, m)}
<1> SUFFICES ASSUME Bad # {}
             PROVE  FALSE
  OBVIOUS
<1>1. PICK m \in Bad : \A y \in Bad : ~(y < m)
  <2>1. Bad \subseteq Nat
    OBVIOUS
  <2> HIDE DEF Bad
  <2> QED
    BY <2>1, LeastNatural
<1>2. m \in Nat /\ ~ \E j : Joins(j, s, m)
  OBVIOUS
<1>3. CASE m = 0
  <2> DEFINE j == [i \in 1 .. 0 |-> s[i]]
  <2>1. Joins(j, s, 0)
    BY DEF Joins
  <2> QED
    BY <1>2, <1>3, <2>1
<1>4. CASE m # 0
  <2>1. m - 1 \in Nat /\ m - 1 < m
    BY <1>2, <1>4
  <2>2. PICK j : Joins(j, s, m - 1)
    BY <1>1, <2>1
  <2> DEFINE last == IF m = 1 THEN s[m] ELSE j[m - 1] \o s[m]
             k == [i \in 1 .. m |-> IF i = m THEN last ELSE j[i]]
             Step(f, i) == IF i = 1 THEN s[i] ELSE f[i - 1] \o s[i]
  <2>3. \A i \in 1 .. m - 1 : j[i] = Step(j, i)
    BY <2>2 DEF Joins
  <2>4. \A i \in 1 .. m : k[i] = Step(k, i)
    <3> SUFFICES ASSUME NEW i \in 1 .. m
                 PROVE  k[i] = Step(k, i)
      OBVIOUS
    <3> DEFINE l == last
    <3>1. k = [x \in 1 .. m |-> IF x = m THEN l ELSE j[x]]
      OBVIOUS
    <3> HIDE DEF l, k
    <3>2. CASE i = m /\ i # 1
      <4>1. k[i] = l /\ k[i - 1] = j[i - 1]
        BY <1>2, <2>1, <3>1, <3>2
      <4> QED
        BY <3>2, <4>1 DEF l
    <3>3. CASE i = m /\ i = 1
      BY <1>2, <3>1, <3>3 DEF l
    <3>4. CASE i # m
      <4>1. i \in 1 .. m - 1 /\ k[i] = j[i]
        BY <1>2, <3>1, <3>4
      <4>2. i # 1 => k[i - 1] = j[i - 1]
        BY <1>2, <3>1, <3>4
      <4> QED
        BY <2>3, <4>1, <4>2
    <3> QED
      BY <3>2, <3>3, <3>4
  <2>5. k = [i \in 1 .. m |-> k[i]]
    OBVIOUS
  <2> HIDE DEF k
  <2>6. Joins(k, s, m)
    BY <2>4, <2>5 DEF Joins
  <2> QED
    BY <1>2, <2>6
<1> QED
  BY <1>3, <1>4

\* What FlattenSeq makes of sequences: each step joins the next one to those before.
LEMMA FlattenSteps ==
  ASSUME NEW S, NEW s \in Seq(Seq(S))
  PROVE  \E j \in [0 .. Len(s) -> Seq(S)] :
           /\ j[0] = <<>>
           /\ \A i \in 1 .. Len(s) : j[i] = j[i - 1] \o s[i]
           /\ FlattenSeq(s) = j[Len(s)]
<1> DEFINE n == Len(s)
<1>1. n \in Nat /\ \A i \in 1 .. n : s[i] \in Seq(S)
  BY ElementOfSeq
<1>2. CASE n = 0
  <2>1. s = <<>> /\ <<>> \in Seq(S)
    BY <1>2, EmptySeq
  <2>2. FlattenSeq(s) = <<>>
    BY <1>2, <2>1 DEF FlattenSeq
  <2> DEFINE j == [i \in 0 .. 0 |-> <<>>]
  <2>3. j \in [0 .. 0 -> Seq(S)] /\ j[0] = <<>> /\ \A i \in 1 .. 0 : FALSE
    BY <2>1
  <2> QED
    BY <1>2, <2>2, <2>3
<1>3. CASE n # 0
  <2> DEFINE g == CHOOSE g : Joins(g, s, n)
  <2>1. Joins(g, s, n)
    BY <1>1, JoiningExists
  <2>2. FlattenSeq(s) = g[n]
    BY <1>3 DEF FlattenSeq, Joins
  <2> HIDE DEF g
  <2>3. \A i \in 1 .. n : g[i] = IF i = 1 THEN s[i] ELSE g[i - 1] \o s[i]
    BY <2>1 DEF Joins
  <2> DEFINE j == [i \in 0 .. n |-> IF i = 0 THEN <<>> ELSE g[i]]
  <2>4. j[0] = <<>> /\ j[n] = g[n]
    BY <1>1, <1>3
  <2>5. ASSUME NEW i \in 1 .. n
        PROVE  j[i] = j[i - 1] \o s[i]
    <3>1. j[i] = g[i] /\ s[i] \in Seq(S)
      BY <1>1
    <3>2. CASE i = 1
      <4>1. j[i - 1] = <<>> /\ <<>> \o s[i] = s[i]
        BY <1>1, <3>1, <3>2, ConcatEmptySeq
      <4> QED
        BY <2>3, <3>1, <3>2, <4>1
    <3>3. CASE i # 1
      <4>1. j[i - 1] = g[i - 1]
        BY <1>1, <3>3
      <4> QED
        BY <2>3, <3>1, <3>3, <4>1
    <3> QED
      BY <3>2, <3>3
  <2>6. DOMAIN j = 0 .. n /\ j = [i \in 0 .. n |-> j[i]]
    OBVIOUS
  <2> HIDE DEF j
  <2>7. \A i \in 0 .. n : j[i] \in Seq(S)
    <3> DEFINE Bad == {m \in Nat : m <= n /\ j[m] \notin Seq(S)}
    <3> SUFFICES ASSUME Bad # {}
                 PROVE  FALSE
      BY <1>1
    <3>1. PICK m \in Bad : \A y \in Bad : ~(y < m)
      <4>1. Bad \subseteq Nat
        OBVIOUS
      <4> HIDE DEF Bad
      <4> QED
        BY <4>1, LeastNatural
    <3>2. m \in Nat /\ m <= n /\ j[m] \notin Seq(S)
      OBVIOUS
    <3>3. m # 0
      BY <2>4, <3>2, EmptySeq
    <3>4. j[m - 1] \in Seq(S) /\ m \in 1 .. n
      <4>1. m - 1 \in Nat /\ m - 1 <= n /\ m - 1 < m
        BY <1>1, <3>2, <3>3
      <4> QED
        BY <1>1, <3>1, <3>2, <3>3, <4>1
    <3>5. j[m] = j[m - 1] \o s[m] /\ s[m] \in Seq(S)
      BY <1>1, <2>5, <3>4
    <3>6. j[m] \in Seq(S)
      BY <3>4, <3>5, ConcatProperties
    <3> QED
      BY <3>2, <3>6
  <2> QED
    BY <2>2, <2>4, <2>5, <2>6, <2>7
<1> QED
  BY <1>2, <1>3

\* What sequences of elements join to is one.
LEMMA FlattenType ==
  ASSUME NEW S, NEW s \in Seq(Seq(S))
  PROVE  FlattenSeq(s) \in Seq(S)
<1>1. PICK j \in [0 .. Len(s) -> Seq(S)] : FlattenSeq(s) = j[Len(s)]
  BY FlattenSteps
<1>2. Len(s) \in 0 .. Len(s)
  OBVIOUS
<1> QED
  BY <1>1, <1>2

\* What WriteAll makes of the chunks: each step appends the next one.
LEMMA WriteSteps ==
  ASSUME NEW S, NEW chunks \in Seq(S), NEW writer
  PROVE  \E w :
           /\ w[0] = writer
           /\ \A i \in 1 .. Len(chunks) : w[i] = AppendChunk(w[i - 1], chunks[i])
           /\ WriteAll(writer, chunks) = w[Len(chunks)]
<1> DEFINE n == Len(chunks)
           g == CHOOSE g : Writes(g, writer, chunks, n)
<1>1. n \in Nat
  OBVIOUS
<1>2. Writes(g, writer, chunks, n)
  BY <1>1, WritingExists
<1>3. WriteAll(writer, chunks) = g[n]
  BY DEF WriteAll, Writes
<1> HIDE DEF g
<1>4. \A i \in 0 .. n : g[i] = IF i = 0 THEN writer ELSE AppendChunk(g[i - 1], chunks[i])
  BY <1>2 DEF Writes
<1>5. g[0] = writer /\ \A i \in 1 .. n : g[i] = AppendChunk(g[i - 1], chunks[i])
  BY <1>1, <1>4
<1> QED
  BY <1>3, <1>5

\* Memory that was filled with bytes from its beginning.
Filled(memory, bytes) ==
  [i \in DOMAIN memory |-> IF i \in DOMAIN bytes THEN bytes[i] ELSE memory[i]]

\* Putting more bytes behind those that fill a memory fills it with all of them.
LEMMA PutContinues ==
  ASSUME NEW S, NEW T, NEW memory \in Seq(T), NEW a \in Seq(S), NEW b \in Seq(S)
  PROVE  Put(Filled(memory, a), Len(a), b) = Filled(memory, a \o b)
<1> DEFINE n == Len(a)
           m == Len(b)
           c == a \o b
<1>1. /\ n \in Nat /\ m \in Nat /\ DOMAIN a = 1 .. n /\ DOMAIN b = 1 .. m
      /\ DOMAIN memory = 1 .. Len(memory) /\ Len(memory) \in Nat
      /\ DOMAIN c = 1 .. n + m
      /\ \A i \in 1 .. n + m : c[i] = IF i <= n THEN a[i] ELSE b[i - n]
  BY ConcatProperties
<1> HIDE DEF n, m, c
<1>2. ASSUME NEW i \in 1 .. Len(memory)
      PROVE  (IF i - n \in DOMAIN b THEN b[i - n] ELSE Filled(memory, a)[i])
               = IF i \in DOMAIN c THEN c[i] ELSE memory[i]
  <2>1. Filled(memory, a)[i] = IF i \in DOMAIN a THEN a[i] ELSE memory[i]
    BY <1>1 DEF Filled
  <2>2. CASE i <= n
    <3>1. i \in 1 .. n /\ i \in 1 .. n + m /\ i - n \notin 1 .. m
      BY <1>1, <2>2
    <3> QED
      BY <1>1, <2>1, <2>2, <3>1
  <2>3. CASE i > n /\ i <= n + m
    <3>1. i \in 1 .. n + m /\ i - n \in 1 .. m /\ ~(i <= n)
      BY <1>1, <2>3
    <3> QED
      BY <1>1, <3>1
  <2>4. CASE i > n + m
    <3>1. i \notin 1 .. n + m /\ i - n \notin 1 .. m /\ i \notin 1 .. n
      BY <1>1, <2>4
    <3> QED
      BY <1>1, <2>1, <3>1
  <2> QED
    BY <1>1, <2>2, <2>3, <2>4
<1>3. DOMAIN Filled(memory, a) = 1 .. Len(memory)
  BY <1>1 DEF Filled
<1>4. Put(Filled(memory, a), n, b)
        = [i \in 1 .. Len(memory) |-> IF i - n \in DOMAIN b THEN b[i - n] ELSE Filled(memory, a)[i]]
  BY <1>3 DEF Put
<1>5. Filled(memory, c) = [i \in 1 .. Len(memory) |-> IF i \in DOMAIN c THEN c[i] ELSE memory[i]]
  BY <1>1 DEF Filled
<1>6. Put(Filled(memory, a), n, b) = Filled(memory, c)
  BY <1>2, <1>4, <1>5
<1> QED
  BY <1>6 DEF n, c

\* A memory filled with as many bytes as it has at most is those and what was behind them.
LEMMA FilledIs ==
  ASSUME NEW S, NEW memory \in Seq(S), NEW bytes \in Seq(S), Len(bytes) <= Len(memory)
  PROVE  Filled(memory, bytes) = bytes \o SubSeq(memory, Len(bytes) + 1, Len(memory))
<1> DEFINE n == Len(bytes)
           l == Len(memory)
           rest == SubSeq(memory, n + 1, l)
<1>1. /\ n \in Nat /\ l \in Nat /\ n <= l /\ DOMAIN bytes = 1 .. n /\ DOMAIN memory = 1 .. l
  OBVIOUS
<1>2. /\ rest \in Seq(S) /\ Len(rest) = l - n
      /\ \A i \in 1 .. l - n : rest[i] = memory[n + i]
  <2>1. \A i \in n + 1 .. l : memory[i] \in S
    BY <1>1, ElementOfSeq
  <2>2. rest \in Seq(S) /\ Len(rest) = IF n + 1 <= l THEN l - (n + 1) + 1 ELSE 0
    BY <1>1, SubSeqProperties
  <2>3. \A i \in 1 .. l - n : rest[i] = memory[n + 1 + i - 1]
    BY <1>1, <2>2, SubSeqProperties
  <2> HIDE DEF rest, n, l
  <2>4. Len(rest) = l - n
    BY <1>1, <2>2
  <2>5. ASSUME NEW i \in 1 .. l - n
        PROVE  rest[i] = memory[n + i]
    <3>1. n + 1 + i - 1 = n + i
      BY <1>1
    <3> QED
      BY <2>3, <3>1
  <2> QED
    BY <2>2, <2>4, <2>5
<1> HIDE DEF rest, n, l
<1>3. /\ Len(bytes \o rest) = n + (l - n) /\ bytes \o rest \in Seq(S)
      /\ \A i \in 1 .. n + (l - n) : (bytes \o rest)[i] = IF i <= n THEN bytes[i] ELSE rest[i - n]
  <2>1. Len(bytes) = n /\ Len(rest) = l - n
    BY <1>2 DEF n
  <2>2. /\ Len(bytes \o rest) = Len(bytes) + Len(rest) /\ bytes \o rest \in Seq(S)
        /\ \A i \in 1 .. Len(bytes) + Len(rest) :
             (bytes \o rest)[i] = IF i <= Len(bytes) THEN bytes[i] ELSE rest[i - Len(bytes)]
    BY <1>2, ConcatProperties
  <2> QED
    BY <2>1, <2>2
<1>4. n + (l - n) = l
  BY <1>1
<1>5. ASSUME NEW i \in 1 .. l
      PROVE  (IF i \in DOMAIN bytes THEN bytes[i] ELSE memory[i]) = (bytes \o rest)[i]
  <2>0. (bytes \o rest)[i] = IF i <= n THEN bytes[i] ELSE rest[i - n]
    BY <1>3, <1>4
  <2>1. CASE i <= n
    <3>1. i \in 1 .. n
      BY <1>1, <2>1
    <3> QED
      BY <1>1, <2>0, <2>1, <3>1
  <2>2. CASE i > n
    <3>1. i - n \in 1 .. l - n /\ n + (i - n) = i /\ i \notin 1 .. n /\ ~(i <= n)
      BY <1>1, <2>2
    <3>2. rest[i - n] = memory[i]
      BY <1>2, <3>1
    <3> QED
      BY <1>1, <2>0, <3>1, <3>2
  <2>3. i <= n \/ i > n
    BY <1>1
  <2> QED
    BY <2>1, <2>2, <2>3, Zenon
<1>6. bytes \o rest = [i \in 1 .. l |-> (bytes \o rest)[i]]
  <2> DEFINE c == bytes \o rest
  <2>1. Len(c) = l /\ c \in Seq(S)
    BY <1>3, <1>4
  <2> HIDE DEF c
  <2>2. c = [i \in 1 .. l |-> c[i]]
    BY <2>1
  <2> QED
    BY <2>2 DEF c
<1>7. Filled(memory, bytes) = [i \in 1 .. l |-> IF i \in DOMAIN bytes THEN bytes[i] ELSE memory[i]]
  BY <1>1 DEF Filled
<1>8. Filled(memory, bytes) = bytes \o rest
  BY <1>5, <1>6, <1>7
<1> QED
  BY <1>8 DEF rest, n, l

\* As long as it all fits, or into a null output, which is counted only, writing chunks fills
\* the memory with what they join to.
LEMMA WritingFills ==
  ASSUME NEW S, NEW T, NEW memory \in Seq(T), NEW capacity \in Nat, NEW chunks \in Seq(Seq(S)),
         NEW content, content = FlattenSeq(chunks),
         memory = <<>> \/ Len(content) <= capacity
  PROVE  WriteAll(NewWriter(memory, capacity), chunks)
           = [good |-> TRUE, output |-> Filled(memory, content), capacity |-> capacity,
              size |-> Len(content)]
<1> DEFINE n == Len(chunks)
           After(bytes) == [good |-> TRUE, output |-> Filled(memory, bytes),
                            capacity |-> capacity, size |-> Len(bytes)]
<1>1. n \in Nat /\ \A i \in 1 .. n : chunks[i] \in Seq(S)
  BY ElementOfSeq
<1>2. PICK j \in [0 .. n -> Seq(S)] :
        /\ j[0] = <<>>
        /\ \A i \in 1 .. n : j[i] = j[i - 1] \o chunks[i]
        /\ content = j[n]
  BY FlattenSteps
<1>3. PICK w :
        /\ w[0] = NewWriter(memory, capacity)
        /\ \A i \in 1 .. n : w[i] = AppendChunk(w[i - 1], chunks[i])
        /\ WriteAll(NewWriter(memory, capacity), chunks) = w[n]
  BY WriteSteps
<1>4. w[0] = After(j[0])
  <2>1. Filled(memory, <<>>) = memory
    <3>1. memory = [i \in DOMAIN memory |-> memory[i]] /\ DOMAIN <<>> = {}
      OBVIOUS
    <3> QED
      BY <3>1 DEF Filled
  <2> QED
    BY <1>2, <1>3, <2>1 DEF NewWriter
<1> HIDE DEF n
<1>5. ASSUME NEW i \in Nat, i <= n, memory = <<>> \/ Len(j[i]) <= capacity,
             w[i] # After(j[i])
      PROVE  FALSE
  <2> DEFINE Bad == {k \in Nat : /\ k <= n /\ (memory = <<>> \/ Len(j[k]) <= capacity)
                                 /\ w[k] # After(j[k])}
  <2>1. PICK m \in Bad : \A y \in Bad : ~(y < m)
    <3>1. Bad \subseteq Nat /\ Bad # {}
      BY <1>5
    <3> HIDE DEF Bad
    <3> QED
      BY <3>1, LeastNatural
  <2>2. /\ m \in Nat /\ m <= n /\ w[m] # After(j[m])
        /\ memory = <<>> \/ Len(j[m]) <= capacity
    OBVIOUS
  <2>3. m # 0
    BY <1>4, <2>2
  <2>4. m - 1 \in Nat /\ m - 1 <= n /\ m - 1 < m /\ m \in 1 .. n /\ m - 1 \in 0 .. n
    BY <1>1, <2>2, <2>3
  <2> DEFINE a == j[m - 1]
             b == chunks[m]
  <2>5. a \in Seq(S) /\ b \in Seq(S) /\ j[m] = a \o b
    BY <1>1, <1>2, <2>4
  <2> HIDE DEF a, b
  <2>6. Len(j[m]) = Len(a) + Len(b) /\ Len(a) \in Nat /\ Len(b) \in Nat
    BY <2>5, ConcatProperties
  <2>7. memory = <<>> \/ Len(a) <= capacity
    BY <2>2, <2>6
  <2>8. w[m - 1] = After(a)
    BY <2>1, <2>4, <2>7 DEF a
  <2>9. w[m] = AppendChunk(After(a), b)
    BY <1>3, <2>4, <2>8 DEF b
  <2>10. Put(Filled(memory, a), Len(a), b) = Filled(memory, j[m])
    BY <2>5, PutContinues
  <2>11. memory = <<>> => Filled(memory, a) = <<>>
    BY DEF Filled
  <2>12. ~(After(a).output # NoOutput /\ After(a).size + Len(b) > After(a).capacity)
    BY <2>2, <2>6, <2>11 DEF NoOutput
  <2>13. w[m] = [After(a) EXCEPT !.output = Put(@, After(a).size, b),
                                 !.size = @ + Len(b)]
    BY <2>9, <2>12 DEF AppendChunk
  <2>14. w[m] = After(j[m])
    BY <2>6, <2>10, <2>13
  <2> QED
    BY <2>2, <2>14
<1>6. w[n] = After(j[n])
  <2>1. n \in Nat /\ n <= n
    BY <1>1
  <2>2. memory = <<>> \/ Len(j[n]) <= capacity
    BY <1>2
  <2> HIDE DEF After
  <2> QED
    BY <1>5, <2>1, <2>2, Zenon
<1> QED
  BY <1>2, <1>3, <1>6 DEF n

\* What an encoder owes its caller, of result r about content.
Respects(r, content, memory, capacity) ==
  IF r.status = "Encoded"
  THEN /\ r.required = Len(content) /\ r.required <= capacity
       /\ r.memory = content \o SubSeq(memory, Len(content) + 1, Len(memory))
  ELSE /\ r.memory = memory
       /\ r.status = "InsufficientCapacity" => r.required = Len(content)

\* What encoding does to memory of a caller, whose buffer is no larger than it.
LEMMA EncodedRespectsMemory ==
  ASSUME NEW S, NEW memory \in Seq(S), NEW chunks \in Seq(Seq(S)), NEW terminator \in Seq(S),
         NEW capacity \in Nat, capacity <= Len(memory), NEW isNull \in BOOLEAN,
         NEW content, content = FlattenSeq(chunks) \o terminator
  PROVE  Respects(Encoded(TRUE, chunks, terminator, memory, capacity, isNull),
                  content, memory, capacity)
<1> DEFINE body == FlattenSeq(chunks)
           sizing == WriteAll(NewWriter(NoOutput, 0), chunks)
           writer == WriteAll(NewWriter(memory, capacity), chunks)
           size == Len(body)
           last == Len(terminator)
           r == Encoded(TRUE, chunks, terminator, memory, capacity, isNull)
<1>1. body \in Seq(S)
  BY FlattenType
<1>2. size \in Nat /\ last \in Nat /\ Len(content) = size + last /\ content \in Seq(S)
  BY <1>1, ConcatProperties
<1>3. sizing.size = size
  <2>1. <<>> \in Seq(S) /\ 0 \in Nat
    BY EmptySeq
  <2>2. sizing = [good |-> TRUE, output |-> Filled(<<>>, body), capacity |-> 0, size |-> size]
    BY <2>1, WritingFills, ZenonT(40) DEF NoOutput
  <2> HIDE DEF body, sizing, size
  <2> QED
    BY <2>2
<1>4. size <= capacity => /\ writer.good /\ writer.size = size
                          /\ writer.output = Filled(memory, body)
  <2> SUFFICES ASSUME size <= capacity
               PROVE  writer.good /\ writer.size = size /\ writer.output = Filled(memory, body)
    OBVIOUS
  <2>1. writer = [good |-> TRUE, output |-> Filled(memory, body), capacity |-> capacity,
                  size |-> size]
    BY WritingFills
  <2> HIDE DEF body, writer, size
  <2> QED
    BY <2>1
<1>5. r = LET result(status, amount, output) ==
                [status |-> status, required |-> amount, memory |-> output]
          IN  IF ~(sizing.size + last <= capacity)
              THEN result("InsufficientCapacity", sizing.size + last, memory)
              ELSE IF isNull THEN result("InvalidInput", sizing.size + last, memory)
              ELSE IF ~writer.good \/ writer.size # sizing.size
              THEN result("InvalidInput", sizing.size + last, writer.output)
              ELSE result("Encoded", sizing.size + last,
                          Put(writer.output, writer.size, terminator))
  BY DEF Encoded, Fits
<1>6. Put(Filled(memory, body), size, terminator) = Filled(memory, content)
  BY <1>1, PutContinues
<1>7. Len(content) <= Len(memory) =>
        Filled(memory, content) = content \o SubSeq(memory, Len(content) + 1, Len(memory))
  BY <1>2, FilledIs
<1>8. Len(memory) \in Nat
  OBVIOUS
<1> HIDE DEF body, sizing, writer, size, last, r
<1>9. CASE ~(size + last <= capacity)
  <2> DEFINE x == [status |-> "InsufficientCapacity", required |-> size + last, memory |-> memory]
  <2>1. r = x
    BY <1>3, <1>5, <1>9
  <2>2. Respects(x, content, memory, capacity)
    BY <1>2 DEF Respects
  <2> QED
    BY <2>1, <2>2 DEF r
<1>10. CASE size + last <= capacity /\ isNull
  <2> DEFINE x == [status |-> "InvalidInput", required |-> size + last, memory |-> memory]
  <2>1. r = x
    BY <1>3, <1>5, <1>10
  <2>2. Respects(x, content, memory, capacity)
    BY DEF Respects
  <2> QED
    BY <2>1, <2>2 DEF r
<1>11. CASE size + last <= capacity /\ ~isNull
  <2> DEFINE m == content \o SubSeq(memory, Len(content) + 1, Len(memory))
             x == [status |-> "Encoded", required |-> size + last, memory |-> m]
  <2>1. size <= capacity /\ Len(content) <= Len(memory)
    BY <1>2, <1>8, <1>11
  <2>2. writer.good /\ writer.size = sizing.size /\ writer.size = size
        /\ writer.output = Filled(memory, body)
    BY <1>3, <1>4, <2>1
  <2>3. Put(writer.output, writer.size, terminator) = m
    BY <1>6, <1>7, <2>1, <2>2
  <2> HIDE DEF m
  <2>4. r = x
    BY <1>3, <1>5, <1>11, <2>2, <2>3
  <2>5. Respects(x, content, memory, capacity)
    BY <1>2, <1>11 DEF Respects, m
  <2> QED
    BY <2>4, <2>5 DEF r
<1> QED
  BY <1>9, <1>10, <1>11

LEMMA SequenceIn ==
  ASSUME NEW S, NEW T, S \subseteq T, NEW s \in Seq(S)
  PROVE  s \in Seq(T)
OBVIOUS

(***************************************************************************)
(* The scan of a text and Unicode.                                         *)
(***************************************************************************)

\* What the scan takes for one character.
ScannedAs(bytes, lead, n) ==
  \/ n = 1 /\ lead <= 127
  \/ /\ lead \in 194 .. 244 /\ n = ContinuationCount(lead) + 1
     /\ bytes[2] \in SecondMin(lead) .. SecondMax(lead)
     /\ \A part \in 2 .. ContinuationCount(lead) : bytes[1 + part] \in 128 .. 191

IsScanned(bytes) == ScannedAs(bytes, bytes[1], Len(bytes))

\* Six bits of a code point go into each byte behind the first, and come out of it again.
LEMMA SixBits ==
  ASSUME NEW y \in Nat, NEW x \in 0 .. 63
  PROVE  /\ (64 * y + x) % 64 = x
         /\ (64 * y + x) \div 64 = y
OBVIOUS

LEMMA BackTogether ==
  ASSUME NEW c \in Nat
  PROVE  /\ c = 64 * (c \div 64) + (c % 64)
         /\ c % 64 \in 0 .. 63
         /\ c \div 64 \in Nat
OBVIOUS

LEMMA TuplesAre ==
  ASSUME NEW S, NEW s \in Seq(S)
  PROVE  /\ Len(s) = 1 => s = <<s[1]>> /\ s[1] \in S
         /\ Len(s) = 2 => s = <<s[1], s[2]>> /\ s[1] \in S /\ s[2] \in S
         /\ Len(s) = 3 => s = <<s[1], s[2], s[3]>> /\ s[1] \in S /\ s[2] \in S /\ s[3] \in S
         /\ Len(s) = 4 => /\ s = <<s[1], s[2], s[3], s[4]>>
                          /\ s[1] \in S /\ s[2] \in S /\ s[3] \in S /\ s[4] \in S
<1>1. s \in [1 .. Len(s) -> S]
  OBVIOUS
<1>2. ASSUME Len(s) = 1
      PROVE  s = <<s[1]>> /\ s[1] \in S
  BY <1>1, <1>2
<1>3. ASSUME Len(s) = 2
      PROVE  s = <<s[1], s[2]>> /\ s[1] \in S /\ s[2] \in S
  BY <1>1, <1>3
<1>4. ASSUME Len(s) = 3
      PROVE  s = <<s[1], s[2], s[3]>> /\ s[1] \in S /\ s[2] \in S /\ s[3] \in S
  BY <1>1, <1>4
<1>5. ASSUME Len(s) = 4
      PROVE  /\ s = <<s[1], s[2], s[3], s[4]>>
             /\ s[1] \in S /\ s[2] \in S /\ s[3] \in S /\ s[4] \in S
  BY <1>1, <1>5
<1> QED
  BY <1>2, <1>3, <1>4, <1>5

LEMMA Utf8Is ==
  ASSUME NEW c \in Nat
  PROVE  /\ c < 128 => Utf8(c) = <<c>>
         /\ c >= 128 /\ c < 2048 => Utf8(c) = <<192 + (c \div 64), 128 + (c % 64)>>
         /\ c >= 2048 /\ c < 65536 =>
              Utf8(c) = <<224 + (c \div 4096), 128 + ((c \div 64) % 64), 128 + (c % 64)>>
         /\ c >= 65536 =>
              Utf8(c) = <<240 + (c \div 262144), 128 + ((c \div 4096) % 64),
                          128 + ((c \div 64) % 64), 128 + (c % 64)>>
BY SMT DEF Utf8

LEMMA CodePointOfOne ==
  ASSUME NEW a \in Nat
  PROVE  CodePoint(<<a>>) = a % 128
<1>1. Len(<<a>>) = 1
  OBVIOUS
<1> QED
  BY <1>1, SMT DEF CodePoint

LEMMA CodePointOfTwo ==
  ASSUME NEW a \in Nat, NEW b \in Nat
  PROVE  CodePoint(<<a, b>>) = 64 * (a % 32) + (b % 64)
<1>1. Len(<<a, b>>) = 2
  OBVIOUS
<1> QED
  BY <1>1, SMT DEF CodePoint

LEMMA CodePointOfThree ==
  ASSUME NEW a \in Nat, NEW b \in Nat, NEW d \in Nat
  PROVE  CodePoint(<<a, b, d>>) = 4096 * (a % 16) + 64 * (b % 64) + (d % 64)
<1>1. Len(<<a, b, d>>) = 3
  OBVIOUS
<1> QED
  BY <1>1, SMT DEF CodePoint

LEMMA CodePointOfFour ==
  ASSUME NEW a \in Nat, NEW b \in Nat, NEW d \in Nat, NEW e \in Nat
  PROVE  CodePoint(<<a, b, d, e>>) = 262144 * (a % 8) + 4096 * (b % 64) + 64 * (d % 64) + (e % 64)
<1>1. Len(<<a, b, d, e>>) = 4
  OBVIOUS
<1> QED
  BY <1>1, SMT DEF CodePoint

LEMMA ScalarValueIs ==
  ASSUME NEW c \in Nat
  PROVE  IsScalarValue(c) <=> c <= 1114111 /\ (c < 55296 \/ c > 57343)
BY SMT DEF IsScalarValue

LEMMA ScalarIs ==
  ASSUME NEW bytes, NEW c, CodePoint(bytes) = c
  PROVE  IsScalar(bytes) <=> IsScalarValue(c) /\ Utf8(c) = bytes
BY DEF IsScalar

LEMMA ScalarOfOne ==
  ASSUME NEW a \in 0 .. 255
  PROVE  IsScalar(<<a>>) <=> a <= 127
<1> DEFINE c == a % 128
<1>0. a \in Nat
  OBVIOUS
<1>1. CodePoint(<<a>>) = c
  BY <1>0, CodePointOfOne, SMT
<1>2. c \in 0 .. 127 /\ (c = a <=> a <= 127)
  BY SMT
<1> HIDE DEF c
<1>3. IsScalarValue(c)
  BY <1>2, ScalarValueIs, SMT
<1>4. Utf8(c) = <<c>>
  BY <1>2, Utf8Is, SMT
<1>5. IsScalar(<<a>>) <=> IsScalarValue(c) /\ Utf8(c) = <<a>>
  BY <1>1, ScalarIs
<1>6. <<c>> = <<a>> <=> c = a
  OBVIOUS
<1> QED
  BY <1>2, <1>3, <1>4, <1>5, <1>6

LEMMA LongerThanOne ==
  ASSUME NEW c \in Nat, NEW bytes, bytes = Utf8(c)
  PROVE  /\ Len(bytes) = 2 => c >= 128 /\ c < 2048
         /\ Len(bytes) = 3 => c >= 2048 /\ c < 65536
         /\ Len(bytes) = 4 => c >= 65536
<1>1. c < 128 => Len(bytes) = 1
  BY Utf8Is, SMT
<1>2. c >= 128 /\ c < 2048 => Len(bytes) = 2
  BY Utf8Is, SMT
<1>3. c >= 2048 /\ c < 65536 => Len(bytes) = 3
  BY Utf8Is, SMT
<1>4. c >= 65536 => Len(bytes) = 4
  BY Utf8Is, SMT
<1> QED
  BY <1>1, <1>2, <1>3, <1>4, SMT

LEMMA ScalarOfTwo ==
  ASSUME NEW a \in 0 .. 255, NEW b \in 0 .. 255, NEW bytes, bytes = <<a, b>>
  PROVE  IsScalar(bytes) <=> a >= 194 /\ a <= 223 /\ b \in 128 .. 191
<1> DEFINE c == 64 * (a % 32) + (b % 64)
<1>0. a \in Nat /\ b \in Nat
  OBVIOUS
<1>1. c \in Nat
  BY <1>0, SMT
<1>9. CodePoint(<<a, b>>) = c
  BY <1>0, CodePointOfTwo, SMT
<1>2. a \in 194 .. 223 /\ b \in 128 .. 191 =>
        /\ c \div 64 = a - 192 /\ c % 64 = b - 128 /\ c >= 128 /\ c < 2048
  <2> SUFFICES ASSUME a \in 194 .. 223, b \in 128 .. 191
               PROVE  c \div 64 = a - 192 /\ c % 64 = b - 128 /\ c >= 128 /\ c < 2048
    BY SMT
  <2>1. a % 32 = a - 192 /\ b % 64 = b - 128
    BY SMT
  <2> QED
    BY <2>1, SMT
<1> HIDE DEF c
<1>3. ASSUME a \in 194 .. 223, b \in 128 .. 191
      PROVE  IsScalar(<<a, b>>)
  <2>1. c \in Nat /\ c \div 64 = a - 192 /\ c % 64 = b - 128 /\ c >= 128 /\ c < 2048
    BY <1>1, <1>2, <1>3, SMT
  <2>2. Utf8(c) = <<a, b>>
    BY <2>1, Utf8Is, SMT
  <2>3. IsScalarValue(c)
    BY <2>1, ScalarValueIs, SMT
  <2> QED
    BY <1>9, <2>2, <2>3, ScalarIs
<1>4. ASSUME IsScalar(<<a, b>>)
      PROVE  a \in 194 .. 223 /\ b \in 128 .. 191
  <2>1. <<a, b>> = Utf8(c) /\ Len(<<a, b>>) = 2
    BY <1>9, <1>4, ScalarIs
  <2>2. c >= 128 /\ c < 2048
    BY <1>1, <2>1, LongerThanOne, SMT
  <2>3. a = 192 + (c \div 64) /\ b = 128 + (c % 64)
    BY <1>1, <2>1, <2>2, Utf8Is, SMT
  <2> QED
    BY <1>1, <2>2, <2>3, SMT
<1>5. IsScalar(<<a, b>>) <=> a \in 194 .. 223 /\ b \in 128 .. 191
  BY <1>3, <1>4, SMT
<1>6. a \in 194 .. 223 <=> a >= 194 /\ a <= 223
  BY SMT
<1> QED
  BY <1>5, <1>6

LEMMA ScalarOfThree ==
  ASSUME NEW a \in 0 .. 255, NEW b \in 0 .. 255, NEW d \in 0 .. 255
  PROVE  IsScalar(<<a, b, d>>)
           <=> /\ a \in 224 .. 239 /\ b \in 128 .. 191 /\ d \in 128 .. 191
               /\ a = 224 => b >= 160
               /\ a = 237 => b <= 159
<1> DEFINE c == 4096 * (a % 16) + 64 * (b % 64) + (d % 64)
           Good == /\ a \in 224 .. 239 /\ b \in 128 .. 191 /\ d \in 128 .. 191
                   /\ a = 224 => b >= 160
                   /\ a = 237 => b <= 159
<1>0. a \in Nat /\ b \in Nat /\ d \in Nat
  OBVIOUS
<1>1. c \in Nat
  BY <1>0, SMT
<1>9. CodePoint(<<a, b, d>>) = c
  BY <1>0, CodePointOfThree, SMT
<1>2. Good => /\ c \div 4096 = a - 224 /\ (c \div 64) % 64 = b - 128 /\ c % 64 = d - 128
              /\ c >= 2048 /\ c < 65536 /\ (c < 55296 \/ c > 57343)
  <2> SUFFICES ASSUME Good
               PROVE  /\ c \div 4096 = a - 224 /\ (c \div 64) % 64 = b - 128 /\ c % 64 = d - 128
                      /\ c >= 2048 /\ c < 65536 /\ (c < 55296 \/ c > 57343)
    BY SMT
  <2>1. a % 16 = a - 224 /\ b % 64 = b - 128 /\ d % 64 = d - 128
    BY SMT
  <2> QED
    BY <2>1, SMT
<1> HIDE DEF c
<1>3. ASSUME Good
      PROVE  IsScalar(<<a, b, d>>)
  <2>0. /\ c >= 2048 /\ c < 65536 /\ (c < 55296 \/ c > 57343)
        /\ a = 224 + (c \div 4096) /\ b = 128 + ((c \div 64) % 64) /\ d = 128 + (c % 64)
    BY <1>1, <1>2, <1>3, SMT
  <2>4. c >= 2048 /\ c < 65536
    BY <2>0
  <2>3. Utf8(c) = <<224 + (c \div 4096), 128 + ((c \div 64) % 64), 128 + (c % 64)>>
    BY <1>1, <2>4, Utf8Is, SMT
  <2>1. Utf8(c) = <<a, b, d>>
    BY <2>0, <2>3, SMT
  <2>2. IsScalarValue(c)
    BY <1>1, <2>0, ScalarValueIs, SMT
  <2> QED
    BY <1>9, <2>1, <2>2, ScalarIs
<1>4. ASSUME IsScalar(<<a, b, d>>)
      PROVE  Good
  <2>1. <<a, b, d>> = Utf8(c) /\ Len(<<a, b, d>>) = 3 /\ IsScalarValue(c)
    BY <1>9, <1>4, ScalarIs
  <2>2. c >= 2048 /\ c < 65536 /\ (c < 55296 \/ c > 57343)
    BY <1>1, <2>1, LongerThanOne, ScalarValueIs, SMT
  <2>3. a = 224 + (c \div 4096) /\ b = 128 + ((c \div 64) % 64) /\ d = 128 + (c % 64)
    BY <1>1, <2>1, <2>2, Utf8Is, SMT
  <2> QED
    BY <1>1, <2>2, <2>3, SMT
<1> QED
  BY <1>3, <1>4, SMT

LEMMA ScalarOfFour ==
  ASSUME NEW a \in 0 .. 255, NEW b \in 0 .. 255, NEW d \in 0 .. 255, NEW e \in 0 .. 255
  PROVE  IsScalar(<<a, b, d, e>>)
           <=> /\ a \in 240 .. 244 /\ b \in 128 .. 191 /\ d \in 128 .. 191 /\ e \in 128 .. 191
               /\ a = 240 => b >= 144
               /\ a = 244 => b <= 143
<1> DEFINE c == 262144 * (a % 8) + 4096 * (b % 64) + 64 * (d % 64) + (e % 64)
           Good == /\ a \in 240 .. 244 /\ b \in 128 .. 191 /\ d \in 128 .. 191 /\ e \in 128 .. 191
                   /\ a = 240 => b >= 144
                   /\ a = 244 => b <= 143
<1>0. a \in Nat /\ b \in Nat /\ d \in Nat /\ e \in Nat
  OBVIOUS
<1>1. c \in Nat
  BY <1>0, SMT
<1>9. CodePoint(<<a, b, d, e>>) = c
  BY <1>0, CodePointOfFour, SMTT(40)
<1>2. Good => /\ c \div 262144 = a - 240 /\ (c \div 4096) % 64 = b - 128
              /\ (c \div 64) % 64 = d - 128 /\ c % 64 = e - 128
              /\ c >= 65536 /\ c <= 1114111
  <2> SUFFICES ASSUME Good
               PROVE  /\ c \div 262144 = a - 240 /\ (c \div 4096) % 64 = b - 128
                      /\ (c \div 64) % 64 = d - 128 /\ c % 64 = e - 128
                      /\ c >= 65536 /\ c <= 1114111
    BY SMT
  <2> DEFINE p == a - 240
             q == b - 128
             r == d - 128
             t == e - 128
  <2>1. a % 8 = p /\ b % 64 = q /\ d % 64 = r /\ e % 64 = t
    BY SMT
  <2>2. p \in Nat /\ q \in 0 .. 63 /\ r \in 0 .. 63 /\ t \in 0 .. 63
    BY SMT
  <2>3. p <= 4 /\ (p = 0 => q >= 16) /\ (p = 4 => q <= 15)
    BY SMT
  <2>4. c = 64 * (64 * (64 * p + q) + r) + t
    BY <2>1, <2>2, SMT
  <2> HIDE DEF c, p, q, r, t
  <2>5. c \div 64 = 64 * (64 * p + q) + r /\ c % 64 = t
    BY <2>2, <2>4, SMT
  <2>6. (c \div 64) % 64 = r /\ c \div 4096 = 64 * p + q
    BY <2>2, <2>4, <2>5, SMT
  <2>7. (c \div 4096) % 64 = q /\ c \div 262144 = p
    BY <2>2, <2>4, <2>6, SMT
  <2>8. c >= 65536 /\ c <= 1114111
    BY <2>2, <2>3, <2>4, SMT
  <2> QED
    BY <2>5, <2>6, <2>7, <2>8, SMT DEF p, q, r, t
<1> HIDE DEF c
<1>3. ASSUME Good
      PROVE  IsScalar(<<a, b, d, e>>)
  <2>0. /\ c >= 65536 /\ c <= 1114111
        /\ a = 240 + (c \div 262144) /\ b = 128 + ((c \div 4096) % 64)
        /\ d = 128 + ((c \div 64) % 64) /\ e = 128 + (c % 64)
    BY <1>1, <1>2, <1>3, SMT
  <2>4. c >= 65536
    BY <2>0
  <2>3. Utf8(c) = <<240 + (c \div 262144), 128 + ((c \div 4096) % 64),
                    128 + ((c \div 64) % 64), 128 + (c % 64)>>
    BY <1>1, <2>4, Utf8Is, SMT
  <2>1. Utf8(c) = <<a, b, d, e>>
    BY <2>0, <2>3, SMT
  <2>2. IsScalarValue(c)
    BY <1>1, <2>0, ScalarValueIs, SMT
  <2> QED
    BY <1>9, <2>1, <2>2, ScalarIs
<1>4. ASSUME IsScalar(<<a, b, d, e>>)
      PROVE  Good
  <2>1. <<a, b, d, e>> = Utf8(c) /\ Len(<<a, b, d, e>>) = 4 /\ IsScalarValue(c)
    BY <1>9, <1>4, ScalarIs
  <2>2. c >= 65536 /\ c <= 1114111
    BY <1>1, <2>1, LongerThanOne, ScalarValueIs, SMT
  <2>3. /\ a = 240 + (c \div 262144) /\ b = 128 + ((c \div 4096) % 64)
        /\ d = 128 + ((c \div 64) % 64) /\ e = 128 + (c % 64)
    BY <1>1, <2>1, <2>2, Utf8Is, SMT
  <2> QED
    BY <1>1, <2>2, <2>3, SMT
<1> QED
  BY <1>3, <1>4, SMT

LEMMA LeadIs ==
  ASSUME NEW a \in 0 .. 255
  PROVE  /\ a \in 194 .. 223 =>
              ContinuationCount(a) = 1 /\ SecondMin(a) = 128 /\ SecondMax(a) = 191
         /\ a \in 224 .. 239 =>
              /\ ContinuationCount(a) = 2
              /\ SecondMin(a) = (IF a = 224 THEN 160 ELSE 128)
              /\ SecondMax(a) = (IF a = 237 THEN 159 ELSE 191)
         /\ a \in 240 .. 244 =>
              /\ ContinuationCount(a) = 3
              /\ SecondMin(a) = (IF a = 240 THEN 144 ELSE 128)
              /\ SecondMax(a) = (IF a = 244 THEN 143 ELSE 191)
BY SMT DEF ContinuationCount, SecondMin, SecondMax

\* What the scan takes for one character, by its length.
LEMMA ScannedIs ==
  ASSUME NEW bytes, bytes[1] \in 0 .. 255
  PROVE  /\ Len(bytes) = 1 => (IsScanned(bytes) <=> bytes[1] <= 127)
         /\ Len(bytes) = 2 =>
              (IsScanned(bytes)
                 <=> /\ bytes[1] \in 194 .. 223
                     /\ bytes[2] \in SecondMin(bytes[1]) .. SecondMax(bytes[1]))
         /\ Len(bytes) = 3 =>
              (IsScanned(bytes)
                 <=> /\ bytes[1] \in 224 .. 239
                     /\ bytes[2] \in SecondMin(bytes[1]) .. SecondMax(bytes[1])
                     /\ bytes[3] \in 128 .. 191)
         /\ Len(bytes) = 4 =>
              (IsScanned(bytes)
                 <=> /\ bytes[1] \in 240 .. 244
                     /\ bytes[2] \in SecondMin(bytes[1]) .. SecondMax(bytes[1])
                     /\ bytes[3] \in 128 .. 191 /\ bytes[4] \in 128 .. 191)
<1> DEFINE a == bytes[1]
           count == ContinuationCount(a)
           Second == bytes[2] \in SecondMin(a) .. SecondMax(a)
           Third == bytes[3] \in 128 .. 191
           Fourth == bytes[4] \in 128 .. 191
           Rest == \A part \in 2 .. count : bytes[1 + part] \in 128 .. 191
           length == Len(bytes)
<1>1. /\ a \in 194 .. 223 => count = 1
      /\ a \in 224 .. 239 => count = 2
      /\ a \in 240 .. 244 => count = 3
  BY LeadIs DEF count
<1>0. a \in 0 .. 255
  OBVIOUS
<1>2. IsScanned(bytes)
        <=> \/ length = 1 /\ a <= 127
            \/ a \in 194 .. 244 /\ length = count + 1 /\ Second /\ Rest
  BY Zenon DEF IsScanned, ScannedAs
<1>3. /\ count = 1 => Rest
      /\ count = 2 => (Rest <=> Third)
      /\ count = 3 => (Rest <=> Third /\ Fourth)
  <2> HIDE DEF count
  <2>1. \A n : n \in 2 .. 1 <=> FALSE
    BY SMT
  <2>2. \A n : n \in 2 .. 2 <=> n = 2
    BY SMT
  <2>3. \A n : n \in 2 .. 3 <=> n = 2 \/ n = 3
    BY SMT
  <2>4. 1 + 2 = 3 /\ 1 + 3 = 4
    BY SMT
  <2>5. CASE count = 1
    BY <2>5, SMT
  <2>6. CASE count = 2
    BY <2>2, <2>4, <2>6, SMT
  <2>7. CASE count = 3
    BY <2>3, <2>4, <2>7, SMT
  <2> QED
    BY <2>5, <2>6, <2>7, SMT
<1> HIDE DEF a, count, Second, Third, Fourth, Rest, length
<1>4. length = 1 => (IsScanned(bytes) <=> a <= 127)
  BY <1>0, <1>1, <1>2, SMT
<1>5. length = 2 => (IsScanned(bytes) <=> a \in 194 .. 223 /\ Second)
  BY <1>0, <1>1, <1>2, <1>3, SMT
<1>6. length = 3 => (IsScanned(bytes) <=> a \in 224 .. 239 /\ Second /\ Third)
  BY <1>0, <1>1, <1>2, <1>3, SMT
<1>7. length = 4 => (IsScanned(bytes) <=> a \in 240 .. 244 /\ Second /\ Third /\ Fourth)
  BY <1>0, <1>1, <1>2, <1>3, SMT
<1> QED
  BY <1>4, <1>5, <1>6, <1>7, ZenonT(60) DEF a, Second, Third, Fourth, length

LEMMA OneScanned ==
  ASSUME NEW a \in 0 .. 255
  PROVE  IsScanned(<<a>>) <=> IsScalar(<<a>>)
<1>1. Len(<<a>>) = 1 /\ <<a>>[1] = a
  OBVIOUS
<1> DEFINE bytes == <<a>>
<1> HIDE DEF bytes
<1>2. Len(bytes) = 1 /\ bytes[1] = a
  BY <1>1 DEF bytes
<1>7. bytes[1] \in 0 .. 255
  BY <1>2
<1>8. IsScanned(bytes)
        <=> bytes[1] <= 127
  BY <1>2, <1>7, ScannedIs, SMT
<1>3. IsScanned(bytes)
        <=> a <= 127
  BY <1>2, <1>8, Zenon
<1>9. IsScalar(<<a>>)
        <=> a <= 127
  BY ScalarOfOne
<1>6. IsScalar(bytes)
        <=> a <= 127
  BY <1>9, Zenon DEF bytes
<1> QED
  BY <1>3, <1>6, Zenon DEF bytes

LEMMA TwoScanned ==
  ASSUME NEW a \in 0 .. 255, NEW b \in 0 .. 255
  PROVE  IsScanned(<<a, b>>) <=> IsScalar(<<a, b>>)
<1>1. Len(<<a, b>>) = 2 /\ <<a, b>>[1] = a /\ <<a, b>>[2] = b
  OBVIOUS
<1> DEFINE bytes == <<a, b>>
<1> HIDE DEF bytes
<1>2. Len(bytes) = 2 /\ bytes[1] = a /\ bytes[2] = b
  BY <1>1 DEF bytes
<1>7. bytes[1] \in 0 .. 255
  BY <1>2
<1>8. IsScanned(bytes)
        <=> /\ bytes[1] \in 194 .. 223
                     /\ bytes[2] \in SecondMin(bytes[1]) .. SecondMax(bytes[1])
  BY <1>2, <1>7, ScannedIs, SMT
<1>3. IsScanned(bytes)
        <=> a \in 194 .. 223 /\ b \in SecondMin(a) .. SecondMax(a)
  BY <1>2, <1>8, Zenon
<1>4. a \in 194 .. 223 =>
        SecondMin(a) = 128 /\ SecondMax(a) = 191
  BY SMT DEF SecondMin, SecondMax
<1>5. a \in 194 .. 223 =>
        (b \in SecondMin(a) .. SecondMax(a) <=> b \in 128 .. 191)
  BY <1>4, SMT
<1>6. IsScalar(bytes) <=> a >= 194 /\ a <= 223 /\ b \in 128 .. 191
  BY ScalarOfTwo, ZenonT(40) DEF bytes
<1>9. a \in 194 .. 223 <=> a >= 194 /\ a <= 223
  BY SMT
<1> QED
  BY <1>3, <1>5, <1>6, <1>9, Zenon DEF bytes

LEMMA ThreeScanned ==
  ASSUME NEW a \in 0 .. 255, NEW b \in 0 .. 255, NEW d \in 0 .. 255
  PROVE  IsScanned(<<a, b, d>>) <=> IsScalar(<<a, b, d>>)
<1>1. Len(<<a, b, d>>) = 3 /\ <<a, b, d>>[1] = a /\ <<a, b, d>>[2] = b /\ <<a, b, d>>[3] = d
  OBVIOUS
<1> DEFINE bytes == <<a, b, d>>
<1> HIDE DEF bytes
<1>2. Len(bytes) = 3 /\ bytes[1] = a /\ bytes[2] = b /\ bytes[3] = d
  BY <1>1 DEF bytes
<1>7. bytes[1] \in 0 .. 255
  BY <1>2
<1>8. IsScanned(bytes)
        <=> /\ bytes[1] \in 224 .. 239
                     /\ bytes[2] \in SecondMin(bytes[1]) .. SecondMax(bytes[1])
            /\ bytes[3] \in 128 .. 191
  BY <1>2, <1>7, ScannedIs, SMT
<1>3. IsScanned(bytes)
        <=> /\ a \in 224 .. 239 /\ b \in SecondMin(a) .. SecondMax(a)
            /\ d \in 128 .. 191
  BY <1>2, <1>8, Zenon
<1>4. a \in 224 .. 239 =>
        /\ SecondMin(a) = (IF a = 224 THEN 160 ELSE 128)
        /\ SecondMax(a) = (IF a = 237 THEN 159 ELSE 191)
  BY SMT DEF SecondMin, SecondMax
<1>5. a \in 224 .. 239 =>
        (b \in SecondMin(a) .. SecondMax(a)
            <=> b \in 128 .. 191 /\ (a = 224 => b >= 160) /\ (a = 237 => b <= 159))
  BY <1>4, SMT
<1>9. IsScalar(<<a, b, d>>)
        <=> /\ a \in 224 .. 239 /\ b \in 128 .. 191 /\ d \in 128 .. 191
            /\ a = 224 => b >= 160
            /\ a = 237 => b <= 159
  BY ScalarOfThree
<1>6. IsScalar(bytes)
        <=> /\ a \in 224 .. 239 /\ b \in 128 .. 191 /\ d \in 128 .. 191
            /\ a = 224 => b >= 160
            /\ a = 237 => b <= 159
  BY <1>9, Zenon DEF bytes
<1> QED
  BY <1>3, <1>5, <1>6, Zenon DEF bytes

LEMMA FourScanned ==
  ASSUME NEW a \in 0 .. 255, NEW b \in 0 .. 255, NEW d \in 0 .. 255, NEW e \in 0 .. 255
  PROVE  IsScanned(<<a, b, d, e>>) <=> IsScalar(<<a, b, d, e>>)
<1>1. /\ Len(<<a, b, d, e>>) = 4
      /\ <<a, b, d, e>>[1] = a /\ <<a, b, d, e>>[2] = b
      /\ <<a, b, d, e>>[3] = d /\ <<a, b, d, e>>[4] = e
  OBVIOUS
<1> DEFINE bytes == <<a, b, d, e>>
<1> HIDE DEF bytes
<1>2. Len(bytes) = 4 /\ bytes[1] = a /\ bytes[2] = b /\ bytes[3] = d /\ bytes[4] = e
  BY <1>1 DEF bytes
<1>7. bytes[1] \in 0 .. 255
  BY <1>2
<1>8. IsScanned(bytes)
        <=> /\ bytes[1] \in 240 .. 244
                     /\ bytes[2] \in SecondMin(bytes[1]) .. SecondMax(bytes[1])
            /\ bytes[3] \in 128 .. 191 /\ bytes[4] \in 128 .. 191
  BY <1>2, <1>7, ScannedIs, SMT
<1>3. IsScanned(bytes)
        <=> /\ a \in 240 .. 244 /\ b \in SecondMin(a) .. SecondMax(a)
            /\ d \in 128 .. 191 /\ e \in 128 .. 191
  BY <1>2, <1>8, Zenon
<1>4. a \in 240 .. 244 =>
        /\ SecondMin(a) = (IF a = 240 THEN 144 ELSE 128)
        /\ SecondMax(a) = (IF a = 244 THEN 143 ELSE 191)
  BY SMT DEF SecondMin, SecondMax
<1>5. a \in 240 .. 244 =>
        (b \in SecondMin(a) .. SecondMax(a)
            <=> b \in 128 .. 191 /\ (a = 240 => b >= 144) /\ (a = 244 => b <= 143))
  BY <1>4, SMT
<1>9. IsScalar(<<a, b, d, e>>)
        <=> /\ a \in 240 .. 244 /\ b \in 128 .. 191 /\ d \in 128 .. 191 /\ e \in 128 .. 191
            /\ a = 240 => b >= 144
            /\ a = 244 => b <= 143
  BY ScalarOfFour
<1>6. IsScalar(bytes)
        <=> /\ a \in 240 .. 244 /\ b \in 128 .. 191 /\ d \in 128 .. 191 /\ e \in 128 .. 191
            /\ a = 240 => b >= 144
            /\ a = 244 => b <= 143
  BY <1>9, Zenon DEF bytes
<1> QED
  BY <1>3, <1>5, <1>6, Zenon DEF bytes

\* One character of the scan is one scalar value.
LEMMA ScannedIsScalar ==
  ASSUME NEW bytes \in Seq(0 .. 255), Len(bytes) \in 1 .. 4
  PROVE  IsScanned(bytes) <=> IsScalar(bytes)
<1>1. Len(bytes) = 1 \/ Len(bytes) = 2 \/ Len(bytes) = 3 \/ Len(bytes) = 4
  OBVIOUS
<1>2. CASE Len(bytes) = 1
  <2>1. bytes = <<bytes[1]>>
    BY <1>2, TuplesAre, Zenon
  <2>2. bytes[1] \in 0 .. 255
    BY <1>2, TuplesAre, Zenon
  <2>3. IsScanned(<<bytes[1]>>) <=> IsScalar(<<bytes[1]>>)
    BY <2>2, OneScanned, Zenon
  <2> QED
    BY <2>1, <2>3, Zenon
<1>3. CASE Len(bytes) = 2
  <2>1. bytes = <<bytes[1], bytes[2]>>
    BY <1>3, TuplesAre, Zenon
  <2>2. bytes[1] \in 0 .. 255 /\ bytes[2] \in 0 .. 255
    BY <1>3, TuplesAre, Zenon
  <2>3. IsScanned(<<bytes[1], bytes[2]>>) <=> IsScalar(<<bytes[1], bytes[2]>>)
    BY <2>2, TwoScanned, Zenon
  <2> QED
    BY <2>1, <2>3, Zenon
<1>4. CASE Len(bytes) = 3
  <2>1. bytes = <<bytes[1], bytes[2], bytes[3]>>
    BY <1>4, TuplesAre, Zenon
  <2>2. bytes[1] \in 0 .. 255 /\ bytes[2] \in 0 .. 255 /\ bytes[3] \in 0 .. 255
    BY <1>4, TuplesAre, Zenon
  <2>3. IsScanned(<<bytes[1], bytes[2], bytes[3]>>) <=> IsScalar(<<bytes[1], bytes[2], bytes[3]>>)
    BY <2>2, ThreeScanned, Zenon
  <2> QED
    BY <2>1, <2>3, Zenon
<1>5. CASE Len(bytes) = 4
  <2>1. bytes = <<bytes[1], bytes[2], bytes[3], bytes[4]>>
    BY <1>5, TuplesAre, Zenon
  <2>2. /\ bytes[1] \in 0 .. 255 /\ bytes[2] \in 0 .. 255
        /\ bytes[3] \in 0 .. 255 /\ bytes[4] \in 0 .. 255
    BY <1>5, TuplesAre, Zenon
  <2>3. IsScanned(<<bytes[1], bytes[2], bytes[3], bytes[4]>>)
          <=> IsScalar(<<bytes[1], bytes[2], bytes[3], bytes[4]>>)
    BY <2>2, FourScanned, Zenon
  <2> QED
    BY <2>1, <2>3, Zenon
<1> QED
  BY <1>1, <1>2, <1>3, <1>4, <1>5

\* What the scan says of the rest of a text, from what f says of shorter ones.
ScanStep(f, value, index) ==
  \/ index > Len(value)
  \/ value[index] <= 127 /\ f[index + 1]
  \/ /\ value[index] \in 194 .. 244
     /\ LET count == ContinuationCount(value[index]) IN
        /\ SequenceFits(index, count, Len(value))
        /\ value[index + 1] \in SecondMin(value[index]) .. SecondMax(value[index])
        /\ \A part \in 2 .. count : value[index + part] \in 128 .. 191
        /\ f[index + count + 1]

Scans(f, value, from) == f = [index \in from .. Len(value) + 1 |-> ScanStep(f, value, index)]

LEMMA CountIs == \A lead : ContinuationCount(lead) \in 1 .. 3
BY DEF ContinuationCount

\* The step only looks behind its place.
LEMMA StepLooksAhead ==
  ASSUME NEW value \in Seq(0 .. 255), NEW index \in 1 .. Len(value) + 1, NEW f, NEW g,
         \A i \in index + 1 .. Len(value) + 1 : f[i] = g[i]
  PROVE  ScanStep(f, value, index) = ScanStep(g, value, index)
<1> DEFINE l == Len(value)
           count == ContinuationCount(value[index])
<1>1. l \in Nat /\ index \in Nat /\ count \in 1 .. 3
  BY CountIs
<1> HIDE DEF l, count
<1>2. ~(index > l) => f[index + 1] = g[index + 1]
  <2>1. ~(index > l) => index + 1 \in index + 1 .. l + 1
    BY <1>1
  <2> QED
    BY <2>1 DEF l
<1>3. SequenceFits(index, count, l) => f[index + count + 1] = g[index + count + 1]
  <2>1. SequenceFits(index, count, l) => index + count + 1 \in index + 1 .. l + 1
    BY <1>1 DEF SequenceFits
  <2> QED
    BY <2>1 DEF l
<1> QED
  BY <1>2, <1>3, Zenon DEF ScanStep, l, count

\* The recursive function of the scan exists for a text of any length: it is built from the
\* end, and the least length for which it could not be has a shorter one that can.
LEMMA ScanExists ==
  ASSUME NEW value \in Seq(0 .. 255), NEW from \in 1 .. Len(value) + 1
  PROVE  \E f : Scans(f, value, from)
<1> DEFINE l == Len(value)
           Bad == {k \in Nat : k <= l /\ ~ \E f : Scans(f, value, l + 1 - k)}
<1>0. l \in Nat
  OBVIOUS
<1>1. ASSUME Bad # {}
      PROVE  FALSE
  <2>1. PICK m \in Bad : \A y \in Bad : ~(y < m)
    <3>1. Bad \subseteq Nat
      OBVIOUS
    <3> HIDE DEF Bad
    <3> QED
      BY <1>1, <3>1, LeastNatural
  <2>2. m \in Nat /\ m <= l /\ ~ \E f : Scans(f, value, l + 1 - m)
    OBVIOUS
  <2>3. CASE m = 0
    <3> DEFINE f == [index \in l + 1 .. l + 1 |-> TRUE]
    <3>1. \A index \in l + 1 .. l + 1 : ScanStep(f, value, index) = TRUE
      BY <1>0 DEF ScanStep
    <3>2. l + 1 - m = l + 1
      BY <1>0, <2>3
    <3>3. Scans(f, value, l + 1)
      BY <3>1 DEF Scans
    <3> QED
      BY <2>2, <3>2, <3>3
  <2>4. CASE m # 0
    <3> DEFINE n == l + 1 - m
    <3>1. /\ m - 1 \in Nat /\ m - 1 <= l /\ m - 1 < m
          /\ l + 1 - (m - 1) = n + 1 /\ n \in 1 .. l /\ n \in Nat
      BY <1>0, <2>2, <2>4
    <3>2. PICK f : Scans(f, value, n + 1)
      BY <2>1, <3>1
    <3> DEFINE first == ScanStep(f, value, n)
               g == [index \in n .. l + 1 |-> IF index = n THEN first ELSE f[index]]
    <3>3. \A i \in n + 1 .. l + 1 : f[i] = ScanStep(f, value, i)
      BY <3>2 DEF Scans
    <3> DEFINE x == first
    <3>4. \A i \in n .. l + 1 : g[i] = IF i = n THEN x ELSE f[i]
      OBVIOUS
    <3>5. g = [i \in n .. l + 1 |-> g[i]]
      OBVIOUS
    <3> HIDE DEF x, g, n, l
    <3>6. \A i \in n + 1 .. l + 1 : g[i] = f[i] /\ i \in n .. l + 1
      BY <1>0, <3>1, <3>4
    <3>7. ASSUME NEW i \in n .. l + 1
          PROVE  g[i] = ScanStep(g, value, i)
      <4>1. \A j \in i + 1 .. l + 1 : f[j] = g[j]
        BY <1>0, <3>1, <3>6
      <4>2. i \in 1 .. Len(value) + 1
        BY <1>0, <3>1 DEF l
      <4>3. ScanStep(f, value, i) = ScanStep(g, value, i)
        BY <4>1, <4>2, StepLooksAhead DEF l
      <4>4. CASE i = n
        BY <3>4, <4>3, <4>4 DEF x
      <4>5. CASE i # n
        <5>1. i \in n + 1 .. l + 1
          BY <1>0, <3>1, <4>5
        <5> QED
          BY <3>3, <3>6, <4>3, <5>1
      <4> QED
        BY <4>4, <4>5
    <3>8. Scans(g, value, n)
      BY <3>5, <3>7 DEF Scans, l
    <3> QED
      BY <2>2, <3>8 DEF n
  <2> QED
    BY <2>3, <2>4
<1>2. l + 1 - from \in Nat /\ l + 1 - from <= l /\ l + 1 - (l + 1 - from) = from
  BY <1>0
<1> QED
  BY <1>1, <1>2

LEMMA ScanIs ==
  ASSUME NEW value \in Seq(0 .. 255)
  PROVE  \E f : /\ IsWellFormedUtf8(value) = f[1]
                /\ \A index \in 1 .. Len(value) + 1 : f[index] = ScanStep(f, value, index)
<1> DEFINE f == CHOOSE f : Scans(f, value, 1)
<1>1. 1 \in 1 .. Len(value) + 1
  OBVIOUS
<1>2. Scans(f, value, 1)
  BY <1>1, ScanExists
<1>3. IsWellFormedUtf8(value) = f[1]
  BY DEF IsWellFormedUtf8, Scans, ScanStep
<1> HIDE DEF f
<1>4. \A index \in 1 .. Len(value) + 1 : f[index] = ScanStep(f, value, index)
  BY <1>2 DEF Scans
<1> QED
  BY <1>3, <1>4

\* The bytes of a text that a character takes.
Piece(text, from, n) == SubSeq(text, from, from + n - 1)

LEMMA PieceIs ==
  ASSUME NEW S, NEW text \in Seq(S), NEW from \in 1 .. Len(text), NEW n \in 1 .. 4,
         from + n <= Len(text) + 1
  PROVE  /\ Piece(text, from, n) \in Seq(S)
         /\ Len(Piece(text, from, n)) = n
         /\ \A i \in 1 .. n : Piece(text, from, n)[i] = text[from + i - 1]
<1> DEFINE to == from + n - 1
<1>1. /\ to \in from - 1 .. Len(text)
      /\ to - from + 1 = n /\ from <= to /\ from \in Int /\ to \in Int
  OBVIOUS
<1> HIDE DEF to
<1>2. \A i \in from .. to : text[i] \in S
  BY <1>1, ElementOfSeq
<1>3. /\ SubSeq(text, from, to) \in Seq(S)
      /\ Len(SubSeq(text, from, to)) = IF from <= to THEN to - from + 1 ELSE 0
      /\ \A i \in 1 .. to - from + 1 : SubSeq(text, from, to)[i] = text[from + i - 1]
  BY <1>1, <1>2, SubSeqProperties
<1> QED
  BY <1>1, <1>3 DEF Piece, to

\* What the scan takes at a place, and that the rest is scanned.
Takes(f, text, from, n) ==
  from + n <= Len(text) + 1 /\ IsScalar(Piece(text, from, n)) /\ f[from + n]

LEMMA PieceIsScanned ==
  ASSUME NEW text \in Seq(0 .. 255), NEW from \in 1 .. Len(text), NEW n \in 1 .. 4,
         from + n <= Len(text) + 1
  PROVE  IsScalar(Piece(text, from, n))
           <=> \/ n = 1 /\ text[from] <= 127
               \/ /\ text[from] \in 194 .. 244
                  /\ n = ContinuationCount(text[from]) + 1
                  /\ text[from + 1] \in SecondMin(text[from]) .. SecondMax(text[from])
                  /\ \A part \in 2 .. ContinuationCount(text[from]) :
                       text[from + part] \in 128 .. 191
<1> DEFINE piece == Piece(text, from, n)
           count == ContinuationCount(text[from])
           Rest == \A part \in 2 .. count : text[from + part] \in 128 .. 191
<1>1. piece \in Seq(0 .. 255) /\ Len(piece) = n
  BY PieceIs, ZenonT(40)
<1>2. \A i \in 1 .. n : piece[i] = text[from + i - 1]
  BY PieceIs
<1> HIDE DEF piece
<1>3. piece[1] = text[from]
  BY <1>2
<1>4. n > 1 => piece[2] = text[from + 1]
  BY <1>2
<1>5. count \in 1 .. 3
  BY CountIs
<1>6. n = count + 1 =>
        ((\A part \in 2 .. count : piece[1 + part] \in 128 .. 191) <=> Rest)
  <2> HIDE DEF count
  <2>1. ASSUME n = count + 1, NEW part \in 2 .. count
        PROVE  piece[1 + part] = text[from + part]
    <3>1. 1 + part \in 1 .. n /\ from + (1 + part) - 1 = from + part
      BY <1>5, <2>1
    <3> QED
      BY <1>2, <3>1
  <2> QED
    BY <2>1
<1> HIDE DEF Rest
<1>7. IsScalar(piece) <=> IsScanned(piece)
  BY <1>1, ScannedIsScalar
<1>8. IsScanned(piece)
        <=> \/ n = 1 /\ text[from] <= 127
            \/ /\ text[from] \in 194 .. 244 /\ n = count + 1
               /\ piece[2] \in SecondMin(text[from]) .. SecondMax(text[from])
               /\ \A part \in 2 .. count : piece[1 + part] \in 128 .. 191
  <2> DEFINE lead == text[from]
  <2>1. piece[1] = lead /\ Len(piece) = n
    BY <1>1, <1>3
  <2> HIDE DEF lead, count
  <2>2. IsScanned(piece) = ScannedAs(piece, lead, n)
    BY <2>1 DEF IsScanned
  <2> QED
    BY <2>2 DEF ScannedAs, lead, count
<1> DEFINE Seconds(v) == v \in SecondMin(text[from]) .. SecondMax(text[from])
           Lead == text[from] \in 194 .. 244
           Rests == \A part \in 2 .. count : piece[1 + part] \in 128 .. 191
<1>9. n = count + 1 => (Seconds(piece[2]) <=> Seconds(text[from + 1]))
  <2>1. n = count + 1 => n > 1
    BY <1>5
  <2> QED
    BY <1>4, <2>1
<1> DEFINE One == n = 1 /\ text[from] <= 127
           Length == n = count + 1
<1>10. /\ IsScanned(piece) <=> One \/ (Lead /\ Length /\ Seconds(piece[2]) /\ Rests)
  BY <1>8
<1>11. /\ Length => (Rests <=> Rest)
       /\ Length => (Seconds(piece[2]) <=> Seconds(text[from + 1]))
  BY <1>6, <1>9
<1>12. IsScalar(piece) <=> One \/ (Lead /\ Length /\ Seconds(text[from + 1]) /\ Rest)
  <2> HIDE DEF One, Length, Lead, Seconds, Rests
  <2> QED
    BY <1>7, <1>10, <1>11
<1> QED
  BY <1>12 DEF piece, Rest

LEMMA StepTakes ==
  ASSUME NEW text \in Seq(0 .. 255), NEW from \in 1 .. Len(text), NEW f
  PROVE  ScanStep(f, text, from) <=> \E n \in 1 .. 4 : Takes(f, text, from, n)
<1> DEFINE lead == text[from]
           count == ContinuationCount(lead)
           l == Len(text)
           Second == text[from + 1] \in SecondMin(lead) .. SecondMax(lead)
           Rest == \A part \in 2 .. count : text[from + part] \in 128 .. 191
           Lead == lead \in 194 .. 244
           Low == lead <= 127
<1>1. count \in 1 .. 3 /\ l \in Nat /\ from \in 1 .. l
  BY CountIs
<1>2. \A n \in 1 .. 4 : from + n <= l + 1 =>
        (IsScalar(Piece(text, from, n))
            <=> (n = 1 /\ Low) \/ (Lead /\ n = count + 1 /\ Second /\ Rest))
  BY PieceIsScanned
<1>3. ScanStep(f, text, from)
        <=> \/ from > l
            \/ Low /\ f[from + 1]
            \/ Lead /\ from + count <= l /\ Second /\ Rest /\ f[from + count + 1]
  BY Zenon DEF ScanStep, SequenceFits
<1> HIDE DEF lead, count, l, Second, Rest, Lead, Low
<1>4. ASSUME ScanStep(f, text, from)
      PROVE  \E n \in 1 .. 4 : Takes(f, text, from, n)
  <2>1. CASE Low /\ f[from + 1]
    <3>1. 1 \in 1 .. 4 /\ from + 1 <= l + 1
      BY <1>1
    <3>2. Takes(f, text, from, 1)
      BY <1>2, <2>1, <3>1 DEF Takes, l
    <3> QED
      BY <3>1, <3>2
  <2>2. CASE Lead /\ from + count <= l /\ Second /\ Rest /\ f[from + count + 1]
    <3> DEFINE n == count + 1
    <3>1. n \in 1 .. 4 /\ from + n <= l + 1 /\ from + n = from + count + 1
      BY <1>1, <2>2
    <3>2. Takes(f, text, from, n)
      <4>1. IsScalar(Piece(text, from, n))
        BY <1>2, <2>2, <3>1
      <4>2. f[from + n]
        BY <2>2, <3>1
      <4> HIDE DEF n
      <4> QED
        BY <3>1, <4>1, <4>2 DEF Takes, l
    <3> HIDE DEF n
    <3> QED
      BY <3>1, <3>2
  <2>3. ~(from > l)
    BY <1>1
  <2> QED
    BY <1>3, <1>4, <2>1, <2>2, <2>3
<1>5. ASSUME NEW n \in 1 .. 4, Takes(f, text, from, n)
      PROVE  ScanStep(f, text, from)
  <2>1. from + n <= l + 1 /\ IsScalar(Piece(text, from, n)) /\ f[from + n]
    BY <1>5 DEF Takes, l
  <2>2. (n = 1 /\ Low) \/ (Lead /\ n = count + 1 /\ Second /\ Rest)
    BY <1>2, <2>1
  <2>3. CASE n = 1 /\ Low
    BY <1>3, <2>1, <2>3
  <2>4. CASE Lead /\ n = count + 1 /\ Second /\ Rest
    <3>1. from + count <= l /\ from + n = from + count + 1
      BY <1>1, <2>1, <2>4
    <3> QED
      BY <1>3, <2>1, <2>4, <3>1
  <2> QED
    BY <2>2, <2>3, <2>4
<1> QED
  BY <1>4, <1>5

\* The scan (isWellFormedUtf8) accepts the texts that can be cut into the shortest encodings of
\* Unicode scalar values, and no others: its tables of boundaries are right and it never stops
\* in the wrong place, for texts of any length.
THEOREM WellFormedIsUnicode ==
  ASSUME NEW text \in Seq(0 .. 255)
  PROVE  IsWellFormedUtf8(text) <=> IsUnicode(text)
<1> DEFINE l == Len(text)
<1>0. l \in Nat
  OBVIOUS
<1>1. PICK f : /\ IsWellFormedUtf8(text) = f[1]
               /\ \A index \in 1 .. l + 1 : f[index] = ScanStep(f, text, index)
  BY ScanIs
<1>2. \A from \in 1 .. l : f[from] <=> \E n \in 1 .. 4 : Takes(f, text, from, n)
  <2> SUFFICES ASSUME NEW from \in 1 .. l
               PROVE  f[from] <=> \E n \in 1 .. 4 : Takes(f, text, from, n)
    OBVIOUS
  <2>1. from \in 1 .. l + 1
    BY <1>0
  <2>2. f[from] = ScanStep(f, text, from)
    BY <1>1, <2>1
  <2> QED
    BY <2>2, StepTakes
<1>3. f[l + 1]
  <2>1. l + 1 \in 1 .. l + 1 /\ l + 1 > l
    BY <1>0
  <2>2. f[l + 1] = ScanStep(f, text, l + 1)
    BY <1>1, <2>1
  <2> QED
    BY <2>1, <2>2 DEF ScanStep
<1>4. ASSUME f[1]
      PROVE  IsUnicode(text)
  <2> DEFINE cuts == {i \in 1 .. l + 1 : f[i]}
  <2>1. cuts \in SUBSET (1 .. l + 1) /\ 1 \in cuts
    BY <1>0, <1>4
  <2>2. ASSUME NEW from \in cuts \ {l + 1}
        PROVE  \E n \in 1 .. 4 :
                 from + n \in cuts /\ IsScalar(SubSeq(text, from, from + n - 1))
    <3>1. from \in 1 .. l /\ f[from]
      BY <1>0, <2>2
    <3>2. PICK n \in 1 .. 4 : Takes(f, text, from, n)
      BY <1>2, <3>1
    <3>3. from + n \in 1 .. l + 1
      BY <1>0, <3>1, <3>2 DEF Takes
    <3>4. from + n \in cuts /\ IsScalar(SubSeq(text, from, from + n - 1))
      BY <3>2, <3>3 DEF Takes, Piece
    <3> QED
      BY <3>4
  <2> HIDE DEF cuts
  <2> QED
    BY <2>1, <2>2 DEF IsUnicode
<1>5. ASSUME IsUnicode(text), ~f[1]
      PROVE  FALSE
  <2>1. PICK cuts \in SUBSET (1 .. l + 1) :
          /\ 1 \in cuts
          /\ \A from \in cuts \ {l + 1} : \E n \in 1 .. 4 :
               from + n \in cuts /\ IsScalar(SubSeq(text, from, from + n - 1))
    BY <1>5 DEF IsUnicode
  <2> DEFINE Bad == {k \in Nat : k <= l /\ l + 1 - k \in cuts /\ ~f[l + 1 - k]}
  <2>2. l \in Bad
    <3>1. l + 1 - l = 1
      BY <1>0
    <3> QED
      BY <1>0, <1>5, <2>1, <3>1
  <2>3. PICK m \in Bad : \A y \in Bad : ~(y < m)
    <3>1. Bad \subseteq Nat
      OBVIOUS
    <3> HIDE DEF Bad
    <3> QED
      BY <2>2, <3>1, LeastNatural
  <2> DEFINE from == l + 1 - m
  <2>4. m \in Nat /\ m <= l /\ from \in cuts /\ ~f[from]
    OBVIOUS
  <2>5. m # 0
    <3>1. m = 0 => from = l + 1
      BY <1>0
    <3> HIDE DEF from
    <3> QED
      BY <1>3, <2>4, <3>1
  <2>6. from \in 1 .. l
    BY <1>0, <2>4, <2>5
  <2>7. PICK n \in 1 .. 4 : from + n \in cuts /\ IsScalar(SubSeq(text, from, from + n - 1))
    <3>1. from \in cuts \ {l + 1}
      BY <1>0, <2>4, <2>6
    <3> HIDE DEF from
    <3> QED
      BY <2>1, <3>1
  <2>8. from + n \in 1 .. l + 1
    BY <2>1, <2>7
  <2>9. f[from + n]
    <3>1. m - n \in Nat /\ m - n <= l /\ m - n < m /\ l + 1 - (m - n) = from + n
      BY <1>0, <2>4, <2>8
    <3>2. m - n \notin Bad
      BY <2>3, <3>1
    <3> HIDE DEF from
    <3> QED
      BY <2>7, <3>1, <3>2
  <2> HIDE DEF from
  <2>10. Takes(f, text, from, n)
    <3>1. from + n <= l + 1
      BY <1>0, <2>8
    <3> QED
      BY <2>7, <2>9, <3>1 DEF Takes, Piece
  <2> QED
    BY <1>2, <2>4, <2>6, <2>10
<1> QED
  BY <1>1, <1>4, <1>5

(***************************************************************************)
(* Sequences that are put together and taken apart.                        *)
(***************************************************************************)
LEMMA SliceIs ==
  ASSUME NEW S, NEW s \in Seq(S), NEW m \in 1 .. Len(s) + 1, NEW n \in m - 1 .. Len(s)
  PROVE  /\ SubSeq(s, m, n) \in Seq(S)
         /\ Len(SubSeq(s, m, n)) = n - m + 1
         /\ \A i \in 1 .. n - m + 1 : SubSeq(s, m, n)[i] = s[m + i - 1]
<1>1. m \in Int /\ n \in Int /\ n - m + 1 = IF m <= n THEN n - m + 1 ELSE 0
  OBVIOUS
<1>2. \A i \in m .. n : s[i] \in S
  BY <1>1, ElementOfSeq
<1> QED
  BY <1>1, <1>2, SubSeqProperties

LEMMA SliceOfLeft ==
  ASSUME NEW S, NEW s \in Seq(S), NEW t \in Seq(S),
         NEW m \in 1 .. Len(s) + 1, NEW n \in m - 1 .. Len(s)
  PROVE  SubSeq(s \o t, m, n) = SubSeq(s, m, n)
<1> DEFINE st == s \o t
           x == SubSeq(st, m, n)
           y == SubSeq(s, m, n)
<1>1. /\ st \in Seq(S) /\ Len(st) = Len(s) + Len(t)
      /\ \A i \in 1 .. Len(s) + Len(t) : st[i] = IF i <= Len(s) THEN s[i] ELSE t[i - Len(s)]
  BY ConcatProperties
<1>0. Len(s) \in Nat /\ Len(t) \in Nat /\ m \in Nat /\ n \in Nat
  OBVIOUS
<1> HIDE DEF st
<1>2. m \in 1 .. Len(st) + 1 /\ n \in m - 1 .. Len(st)
  BY <1>0, <1>1
<1>3. /\ x \in Seq(S) /\ Len(x) = n - m + 1
      /\ \A i \in 1 .. n - m + 1 : x[i] = st[m + i - 1]
  BY <1>1, <1>2, SliceIs
<1>4. /\ y \in Seq(S) /\ Len(y) = n - m + 1
      /\ \A i \in 1 .. n - m + 1 : y[i] = s[m + i - 1]
  BY SliceIs
<1>5. \A i \in 1 .. n - m + 1 : st[m + i - 1] = s[m + i - 1]
  <2>1. \A i \in 1 .. n - m + 1 : m + i - 1 \in 1 .. Len(s) + Len(t) /\ m + i - 1 <= Len(s)
    BY <1>0
  <2> QED
    BY <1>1, <2>1
<1> HIDE DEF x, y
<1>6. x = y
  BY <1>3, <1>4, <1>5, SeqEqual
<1> QED
  BY <1>6 DEF x, y, st

LEMMA SliceOfRight ==
  ASSUME NEW S, NEW s \in Seq(S), NEW t \in Seq(S)
  PROVE  SubSeq(s \o t, Len(s) + 1, Len(s) + Len(t)) = t
<1> DEFINE st == s \o t
           m == Len(s) + 1
           n == Len(s) + Len(t)
           x == SubSeq(st, m, n)
<1>1. /\ st \in Seq(S) /\ Len(st) = Len(s) + Len(t)
      /\ \A i \in 1 .. Len(s) + Len(t) : st[i] = IF i <= Len(s) THEN s[i] ELSE t[i - Len(s)]
  BY ConcatProperties
<1>0. Len(s) \in Nat /\ Len(t) \in Nat
  OBVIOUS
<1> HIDE DEF st
<1>2. m \in 1 .. Len(st) + 1 /\ n \in m - 1 .. Len(st) /\ n - m + 1 = Len(t)
  BY <1>0, <1>1
<1> HIDE DEF m, n
<1>3. /\ x \in Seq(S) /\ Len(x) = Len(t)
      /\ \A i \in 1 .. Len(t) : x[i] = st[m + i - 1]
  BY <1>1, <1>2, SliceIs
<1>4. \A i \in 1 .. Len(t) : st[m + i - 1] = t[i]
  <2> SUFFICES ASSUME NEW i \in 1 .. Len(t)
               PROVE  st[m + i - 1] = t[i]
    OBVIOUS
  <2> DEFINE k == m + i - 1
  <2>1. k \in 1 .. Len(s) + Len(t) /\ ~(k <= Len(s)) /\ k - Len(s) = i
    BY <1>0 DEF m
  <2> HIDE DEF k
  <2>2. st[k] = t[i]
    BY <1>1, <2>1
  <2> QED
    BY <2>2 DEF k
<1> HIDE DEF x
<1>5. x = t
  BY <1>3, <1>4, SeqEqual
<1> QED
  BY <1>5 DEF x, st, m, n

\* Reversing twice gives the sequence back.
LEMMA ReverseIs ==
  ASSUME NEW S, NEW s \in Seq(S)
  PROVE  /\ Reverse(s) \in Seq(S)
         /\ Len(Reverse(s)) = Len(s)
         /\ Reverse(Reverse(s)) = s
<1> DEFINE l == Len(s)
           r == Reverse(s)
<1>0. l \in Nat
  OBVIOUS
<1>1. r = [i \in 1 .. l |-> s[(l - i) + 1]]
  BY DEF Reverse
<1>2. \A i \in 1 .. l : s[(l - i) + 1] \in S
  <2>1. \A i \in 1 .. l : (l - i) + 1 \in 1 .. l
    BY <1>0
  <2> QED
    BY <2>1, ElementOfSeq
<1> HIDE DEF r
<1>3. r \in [1 .. l -> S]
  BY <1>1, <1>2
<1>4. r \in Seq(S) /\ Len(r) = l
  BY <1>0, <1>3
<1> DEFINE b == Reverse(r)
<1>5. b = [i \in 1 .. l |-> r[(l - i) + 1]]
  BY <1>4 DEF Reverse
<1>6. \A i \in 1 .. l : r[(l - i) + 1] = s[i]
  <2>1. \A i \in 1 .. l : (l - i) + 1 \in 1 .. l /\ (l - ((l - i) + 1)) + 1 = i
    BY <1>0
  <2> QED
    BY <1>1, <2>1
<1>7. \A i \in 1 .. l : s[i] \in S
  BY ElementOfSeq
<1> HIDE DEF b
<1>8. b \in [1 .. l -> S] /\ \A i \in 1 .. l : b[i] = s[i]
  BY <1>5, <1>6, <1>7
<1>9. b \in Seq(S) /\ Len(b) = l
  BY <1>0, <1>8
<1>10. b = s
  BY <1>8, <1>9, SeqEqual
<1> QED
  BY <1>4, <1>10 DEF r, b

\* Where a sequence holds a piece.
IsAt(piece, from, s) ==
  from + Len(piece) <= Len(s) /\ SubSeq(s, from + 1, from + Len(piece)) = piece

LEMMA WholeAt ==
  ASSUME NEW S, NEW s \in Seq(S), NEW t \in Seq(S)
  PROVE  s = t <=> Len(s) = Len(t) /\ IsAt(t, 0, s)
<1>1. SubSeq(s, 1, Len(s)) = s
  BY SubSeqFull
<1>2. Len(s) \in Nat /\ Len(t) \in Nat
  OBVIOUS
<1>3. ASSUME s = t
      PROVE  Len(s) = Len(t) /\ IsAt(t, 0, s)
  <2>1. 0 + Len(t) = Len(s) /\ 0 + 1 = 1
    BY <1>2, <1>3
  <2> QED
    BY <1>1, <1>2, <1>3, <2>1 DEF IsAt
<1>4. ASSUME Len(s) = Len(t), IsAt(t, 0, s)
      PROVE  s = t
  <2>1. 0 + Len(t) = Len(s) /\ 0 + 1 = 1
    BY <1>2, <1>4
  <2> QED
    BY <1>1, <1>4, <2>1 DEF IsAt
<1> QED
  BY <1>3, <1>4

LEMMA JoinedAt ==
  ASSUME NEW S, NEW p \in Seq(S), NEW t \in Seq(S), NEW r \in Seq(S)
  PROVE  IsAt(p \o t, 0, r) <=> IsAt(p, 0, r) /\ IsAt(t, Len(p), r)
<1> DEFINE k == Len(p)
           n == Len(p) + Len(t)
           x == SubSeq(r, 1, k)
           y == SubSeq(r, k + 1, n)
<1>0. k \in Nat /\ Len(t) \in Nat /\ n \in Nat /\ k <= n /\ Len(r) \in Nat
  OBVIOUS
<1>1. p \o t \in Seq(S) /\ Len(p \o t) = n
  BY ConcatProperties
<1> HIDE DEF k, n
<1>2. /\ IsAt(p \o t, 0, r) <=> n <= Len(r) /\ SubSeq(r, 1, n) = p \o t
      /\ IsAt(p, 0, r) <=> k <= Len(r) /\ x = p
      /\ IsAt(t, k, r) <=> n <= Len(r) /\ y = t
  <2>1. 0 + n = n /\ 0 + 1 = 1 /\ 0 + k = k /\ k + Len(t) = n
    BY <1>0 DEF k, n
  <2>2. Len(p) = k
    BY DEF k
  <2> QED
    BY <1>1, <2>1, <2>2 DEF IsAt
<1>3. ASSUME n <= Len(r)
      PROVE  SubSeq(r, 1, n) = p \o t <=> x = p /\ y = t
  <2>1. /\ 1 \in 1 .. Len(r) + 1 /\ k \in 1 - 1 .. Len(r) /\ n \in k .. Len(r)
        /\ k + 1 \in 1 .. Len(r) + 1 /\ n \in (k + 1) - 1 .. Len(r)
        /\ k - 1 + 1 = k /\ n - (k + 1) + 1 = Len(t)
    BY <1>0, <1>3 DEF k, n
  <2>2. x \o y = SubSeq(r, 1, n)
    BY <2>1, ConcatAdjacentSubSeq
  <2>3. x \in Seq(S) /\ Len(x) = k /\ y \in Seq(S) /\ Len(y) = Len(t)
    BY <2>1, SliceIs
  <2> HIDE DEF x, y
  <2>4. ASSUME x \o y = p \o t
        PROVE  x = p /\ y = t
    <3>1. 1 \in 1 .. k + 1 /\ k \in 1 - 1 .. k
      BY <1>0
    <3>2. SubSeq(x \o y, 1, k) = SubSeq(x, 1, k) /\ SubSeq(x, 1, k) = x
      BY <2>3, <3>1, SliceOfLeft, SubSeqFull
    <3>3. SubSeq(p \o t, 1, k) = SubSeq(p, 1, k) /\ SubSeq(p, 1, k) = p
      BY <3>1, SliceOfLeft, SubSeqFull DEF k
    <3>4. SubSeq(x \o y, k + 1, n) = y /\ SubSeq(p \o t, k + 1, n) = t
      <4>1. SubSeq(x \o y, Len(x) + 1, Len(x) + Len(y)) = y
        BY <2>3, SliceOfRight
      <4>2. SubSeq(p \o t, Len(p) + 1, Len(p) + Len(t)) = t
        BY SliceOfRight
      <4>3. Len(x) = Len(p) /\ Len(y) = Len(t)
        BY <2>3 DEF k
      <4> QED
        BY <4>1, <4>2, <4>3 DEF k, n
    <3> QED
      BY <2>4, <3>2, <3>3, <3>4
  <2> QED
    BY <2>2, <2>4
<1> QED
  BY <1>0, <1>2, <1>3, SMTT(40) DEF k

\* The parts of a record, five of them of lengths that are fixed.
AreParts(p, S) ==
  /\ \A n \in 1 .. 8 : p[n] \in Seq(S)
  /\ Len(p[1]) = 4 /\ Len(p[2]) = 3 /\ Len(p[3]) = 5 /\ Len(p[4]) = 8 /\ Len(p[5]) = 3

Joined(p) == p[1] \o p[2] \o p[3] \o p[4] \o p[5] \o p[6] \o p[7] \o p[8]

LengthOf(p) == 23 + Len(p[6]) + Len(p[7]) + Len(p[8])

AreIn(r, p) ==
  /\ Len(r) = LengthOf(p)
  /\ IsAt(p[1], 0, r) /\ IsAt(p[2], 4, r) /\ IsAt(p[3], 7, r) /\ IsAt(p[4], 12, r)
  /\ IsAt(p[5], 20, r) /\ IsAt(p[6], 23, r) /\ IsAt(p[7], 23 + Len(p[6]), r)
  /\ IsAt(p[8], 23 + Len(p[6]) + Len(p[7]), r)

\* A record is its eight parts, each at its place: nothing else has all of them there.
LEMMA EightParts ==
  ASSUME NEW S, NEW p, AreParts(p, S), NEW r \in Seq(S)
  PROVE  /\ Joined(p) \in Seq(S)
         /\ Len(Joined(p)) = LengthOf(p)
         /\ r = Joined(p) <=> AreIn(r, p)
<1> DEFINE a == p[1]
           b == p[2]
           c == p[3]
           d == p[4]
           e == p[5]
           f == p[6]
           g == p[7]
           h == p[8]
           i == Len(f)
           j == Len(g)
           k == Len(h)
<1>1. /\ a \in Seq(S) /\ b \in Seq(S) /\ c \in Seq(S) /\ d \in Seq(S)
      /\ e \in Seq(S) /\ f \in Seq(S) /\ g \in Seq(S) /\ h \in Seq(S)
      /\ i \in Nat /\ j \in Nat /\ k \in Nat
      /\ Len(a) = 4 /\ Len(b) = 3 /\ Len(c) = 5 /\ Len(d) = 8 /\ Len(e) = 3
      /\ Len(f) = i /\ Len(g) = j /\ Len(h) = k
  BY SMTT(40) DEF AreParts
<1> HIDE DEF a, b, c, d, e, f, g, h, i, j, k
<1> DEFINE q2 == a \o b
           q3 == q2 \o c
           q4 == q3 \o d
           q5 == q4 \o e
           q6 == q5 \o f
           q7 == q6 \o g
           q8 == q7 \o h
<1>2. /\ q2 \in Seq(S) /\ Len(q2) = 7
      /\ IsAt(q2, 0, r) <=> IsAt(a, 0, r) /\ IsAt(b, 4, r)
  <2>1. q2 \in Seq(S) /\ Len(q2) = Len(a) + Len(b)
    BY <1>1, ConcatProperties
  <2>2. IsAt(q2, 0, r) <=> IsAt(a, 0, r) /\ IsAt(b, Len(a), r)
    BY <1>1, JoinedAt
  <2> HIDE DEF q2
  <2> QED
    BY <1>1, <2>1, <2>2
<1> HIDE DEF q2
<1>3. /\ q3 \in Seq(S) /\ Len(q3) = 12
      /\ IsAt(q3, 0, r) <=> IsAt(q2, 0, r) /\ IsAt(c, 7, r)
  <2>1. q3 \in Seq(S) /\ Len(q3) = Len(q2) + Len(c)
    BY <1>1, <1>2, ConcatProperties
  <2>2. IsAt(q3, 0, r) <=> IsAt(q2, 0, r) /\ IsAt(c, Len(q2), r)
    BY <1>1, <1>2, JoinedAt
  <2> HIDE DEF q3
  <2> QED
    BY <1>1, <1>2, <2>1, <2>2
<1> HIDE DEF q3
<1>4. /\ q4 \in Seq(S) /\ Len(q4) = 20
      /\ IsAt(q4, 0, r) <=> IsAt(q3, 0, r) /\ IsAt(d, 12, r)
  <2>1. q4 \in Seq(S) /\ Len(q4) = Len(q3) + Len(d)
    BY <1>1, <1>3, ConcatProperties
  <2>2. IsAt(q4, 0, r) <=> IsAt(q3, 0, r) /\ IsAt(d, Len(q3), r)
    BY <1>1, <1>3, JoinedAt
  <2> HIDE DEF q4
  <2> QED
    BY <1>1, <1>3, <2>1, <2>2
<1> HIDE DEF q4
<1>5. /\ q5 \in Seq(S) /\ Len(q5) = 23
      /\ IsAt(q5, 0, r) <=> IsAt(q4, 0, r) /\ IsAt(e, 20, r)
  <2>1. q5 \in Seq(S) /\ Len(q5) = Len(q4) + Len(e)
    BY <1>1, <1>4, ConcatProperties
  <2>2. IsAt(q5, 0, r) <=> IsAt(q4, 0, r) /\ IsAt(e, Len(q4), r)
    BY <1>1, <1>4, JoinedAt
  <2> HIDE DEF q5
  <2> QED
    BY <1>1, <1>4, <2>1, <2>2
<1> HIDE DEF q5
<1>6. /\ q6 \in Seq(S) /\ Len(q6) = 23 + i
      /\ IsAt(q6, 0, r) <=> IsAt(q5, 0, r) /\ IsAt(f, 23, r)
  <2>1. q6 \in Seq(S) /\ Len(q6) = Len(q5) + Len(f)
    BY <1>1, <1>5, ConcatProperties
  <2>2. IsAt(q6, 0, r) <=> IsAt(q5, 0, r) /\ IsAt(f, Len(q5), r)
    BY <1>1, <1>5, JoinedAt
  <2> HIDE DEF q6
  <2> QED
    BY <1>1, <1>5, <2>1, <2>2
<1> HIDE DEF q6
<1>7. /\ q7 \in Seq(S) /\ Len(q7) = 23 + i + j
      /\ IsAt(q7, 0, r) <=> IsAt(q6, 0, r) /\ IsAt(g, 23 + i, r)
  <2>1. q7 \in Seq(S) /\ Len(q7) = Len(q6) + Len(g)
    BY <1>1, <1>6, ConcatProperties
  <2>2. IsAt(q7, 0, r) <=> IsAt(q6, 0, r) /\ IsAt(g, Len(q6), r)
    BY <1>1, <1>6, JoinedAt
  <2> HIDE DEF q7
  <2> QED
    BY <1>1, <1>6, <2>1, <2>2
<1> HIDE DEF q7
<1>8. /\ q8 \in Seq(S) /\ Len(q8) = 23 + i + j + k
      /\ IsAt(q8, 0, r) <=> IsAt(q7, 0, r) /\ IsAt(h, 23 + i + j, r)
  <2>1. q8 \in Seq(S) /\ Len(q8) = Len(q7) + Len(h)
    BY <1>1, <1>7, ConcatProperties
  <2>2. IsAt(q8, 0, r) <=> IsAt(q7, 0, r) /\ IsAt(h, Len(q7), r)
    BY <1>1, <1>7, JoinedAt
  <2> HIDE DEF q8
  <2> QED
    BY <1>1, <1>7, <2>1, <2>2
<1> HIDE DEF q8
<1>9. r = q8 <=> Len(r) = Len(q8) /\ IsAt(q8, 0, r)
  BY <1>8, WholeAt
<1>10. q8 = a \o b \o c \o d \o e \o f \o g \o h
  BY DEF q2, q3, q4, q5, q6, q7, q8
<1>11. q8 = Joined(p)
  BY <1>10 DEF Joined, a, b, c, d, e, f, g, h
<1>12. LengthOf(p) = 23 + i + j + k
  BY DEF LengthOf, i, j, k, f, g, h
<1>13. AreIn(r, p)
         <=> /\ Len(r) = 23 + i + j + k
             /\ IsAt(a, 0, r) /\ IsAt(b, 4, r) /\ IsAt(c, 7, r) /\ IsAt(d, 12, r)
             /\ IsAt(e, 20, r) /\ IsAt(f, 23, r) /\ IsAt(g, 23 + i, r)
             /\ IsAt(h, 23 + i + j, r)
  BY <1>12, Zenon DEF AreIn, a, b, c, d, e, f, g, h, i, j
<1>14. r = Joined(p) <=> AreIn(r, p)
  BY <1>2, <1>3, <1>4, <1>5, <1>6, <1>7, <1>8, <1>9, <1>11, <1>13, Zenon
<1> QED
  BY <1>8, <1>11, <1>12, <1>14

LEMMA ThreeAt ==
  ASSUME NEW S, NEW r \in Seq(S), NEW from \in Nat, from + 3 <= Len(r), NEW a, NEW b, NEW c
  PROVE  IsAt(<<a, b, c>>, from, r) <=> r[from + 1] = a /\ r[from + 2] = b /\ r[from + 3] = c
<1> DEFINE x == SubSeq(r, from + 1, from + 3)
           t == <<a, b, c>>
<1>1. /\ from + 1 \in 1 .. Len(r) + 1 /\ from + 3 \in (from + 1) - 1 .. Len(r)
      /\ from + 3 - (from + 1) + 1 = 3
  OBVIOUS
<1>2. /\ x \in Seq(S) /\ Len(x) = 3
      /\ \A i \in 1 .. 3 : x[i] = r[from + 1 + i - 1]
  BY <1>1, SliceIs
<1>3. from + 1 + 1 - 1 = from + 1 /\ from + 1 + 2 - 1 = from + 2 /\ from + 1 + 3 - 1 = from + 3
  OBVIOUS
<1> HIDE DEF x
<1>4. x[1] = r[from + 1] /\ x[2] = r[from + 2] /\ x[3] = r[from + 3]
  BY <1>2, <1>3
<1>5. x = <<x[1], x[2], x[3]>>
  BY <1>2, TuplesAre
<1>6. Len(t) = 3 /\ t[1] = a /\ t[2] = b /\ t[3] = c
  OBVIOUS
<1>7. x = t <=> x[1] = a /\ x[2] = b /\ x[3] = c
  BY <1>5, <1>6
<1> HIDE DEF t
<1>8. IsAt(t, from, r) <=> x = t
  BY <1>6 DEF IsAt, x
<1> QED
  BY <1>4, <1>7, <1>8 DEF t

LEMMA FiveAt ==
  ASSUME NEW S, NEW r \in Seq(S), NEW from \in Nat, from + 5 <= Len(r),
         NEW a, NEW b, NEW c, NEW d, NEW e
  PROVE  IsAt(<<a, b, c, d, e>>, from, r)
           <=> /\ r[from + 1] = a /\ r[from + 2] = b /\ r[from + 3] = c
               /\ r[from + 4] = d /\ r[from + 5] = e
<1> DEFINE x == SubSeq(r, from + 1, from + 5)
           t == <<a, b, c, d, e>>
<1>1. /\ from + 1 \in 1 .. Len(r) + 1 /\ from + 5 \in (from + 1) - 1 .. Len(r)
      /\ from + 5 - (from + 1) + 1 = 5
  OBVIOUS
<1>2. /\ x \in Seq(S) /\ Len(x) = 5
      /\ \A i \in 1 .. 5 : x[i] = r[from + 1 + i - 1]
  BY <1>1, SliceIs
<1>3. /\ from + 1 + 1 - 1 = from + 1 /\ from + 1 + 2 - 1 = from + 2 /\ from + 1 + 3 - 1 = from + 3
      /\ from + 1 + 4 - 1 = from + 4 /\ from + 1 + 5 - 1 = from + 5
  OBVIOUS
<1> HIDE DEF x
<1>4. /\ x[1] = r[from + 1] /\ x[2] = r[from + 2] /\ x[3] = r[from + 3]
      /\ x[4] = r[from + 4] /\ x[5] = r[from + 5]
  BY <1>2, <1>3
<1>5. x = <<x[1], x[2], x[3], x[4], x[5]>>
  <2>1. x \in [1 .. 5 -> S]
    BY <1>2
  <2> QED
    BY <1>2, <2>1
<1>6. Len(t) = 5 /\ t[1] = a /\ t[2] = b /\ t[3] = c /\ t[4] = d /\ t[5] = e
  OBVIOUS
<1>7. x = t <=> x[1] = a /\ x[2] = b /\ x[3] = c /\ x[4] = d /\ x[5] = e
  BY <1>5, <1>6
<1> HIDE DEF t
<1>8. IsAt(t, from, r) <=> x = t
  BY <1>6 DEF IsAt, x
<1> QED
  BY <1>4, <1>7, <1>8 DEF t

(***************************************************************************)
(* The record of a sample.                                                 *)
(***************************************************************************)
IsTyped(s) ==
  /\ s.signalId \in Seq(0 .. 255) /\ Len(s.signalId) <= 255
  /\ s.unit \in Seq(0 .. 255) /\ Len(s.unit) <= 255
  /\ s.value \in Seq(0 .. 255) /\ Len(s.value) <= 255
  /\ s.timestamp \in Seq(0 .. 255) /\ Len(s.timestamp) = 8
  /\ s.valueType \in VehicleValueType /\ s.availability \in VehicleAvailability
  /\ s.quality \in VehicleQuality /\ s.source \in VehicleSource

Required(s) == kHeaderSize + Len(s.signalId) + Len(s.unit) + Len(s.value)

Payload(s) == IF s.valueType = Numeric THEN Reverse(s.value) ELSE s.value

\* What the header of a record says of a sample.
HeaderIs(r, s) ==
  /\ SubSeq(r, 1, 4) = Magic
  /\ r[5] = kVersion /\ r[6] = Required(s) % 256 /\ r[7] = Required(s) \div 256
  /\ r[8] = s.valueType /\ r[9] = IF HasValue(s) THEN 1 ELSE 0
  /\ r[10] = s.availability /\ r[11] = s.quality /\ r[12] = s.source
  /\ SubSeq(r, 13, 20) = Reverse(s.timestamp)
  /\ r[21] = Len(s.signalId) /\ r[22] = Len(s.unit) /\ r[23] = Len(s.value)

FieldsAre(r, s) ==
  /\ IsAt(s.signalId, 23, r) /\ IsAt(s.unit, 23 + Len(s.signalId), r)
  /\ IsAt(Payload(s), 23 + Len(s.signalId) + Len(s.unit), r)

LEMMA MagicIs == Magic \in Seq(0 .. 255) /\ Len(Magic) = 4
BY DEF Magic

LEMMA PayloadIs ==
  ASSUME NEW s, IsTyped(s)
  PROVE  Payload(s) \in Seq(0 .. 255) /\ Len(Payload(s)) = Len(s.value)
<1>1. s.value \in Seq(0 .. 255)
  BY DEF IsTyped
<1>2. Reverse(s.value) \in Seq(0 .. 255) /\ Len(Reverse(s.value)) = Len(s.value)
  BY <1>1, ReverseIs
<1> QED
  BY <1>1, <1>2 DEF Payload

\* The two bytes of the length in the header give it back.
LEMMA RequiredIs ==
  ASSUME NEW s, IsTyped(s)
  PROVE  /\ Required(s) = 23 + Len(s.signalId) + Len(s.unit) + Len(s.value)
         /\ Required(s) \in Nat
         /\ Required(s) % 256 \in 0 .. 255 /\ Required(s) \div 256 \in 0 .. 255
         /\ (Required(s) % 256) + 256 * (Required(s) \div 256) = Required(s)
<1> DEFINE i == Len(s.signalId)
           j == Len(s.unit)
           k == Len(s.value)
           n == 23 + i + j + k
<1>1. i \in Nat /\ j \in Nat /\ k \in Nat /\ i <= 255 /\ j <= 255 /\ k <= 255
  BY DEF IsTyped
<1>2. Required(s) = n
  BY DEF Required, kHeaderSize
<1> HIDE DEF i, j, k
<1>3. n \in Nat /\ n <= 788
  BY <1>1
<1> HIDE DEF n
<1>4. n % 256 \in 0 .. 255 /\ n \div 256 \in 0 .. 255 /\ (n % 256) + 256 * (n \div 256) = n
  BY <1>3, SMT
<1> QED
  BY <1>2, <1>3, <1>4 DEF n, i, j, k

\* The record of a sample, from outside: its length, its header and its fields. Both ways,
\* so that whatever has them is the record.
LEMMA RecordIs ==
  ASSUME NEW s, IsTyped(s), NEW r \in Seq(0 .. 255)
  PROVE  /\ Bytes(s) \in Seq(0 .. 255)
         /\ Len(Bytes(s)) = Required(s)
         /\ r = Bytes(s) <=> Len(r) = Required(s) /\ HeaderIs(r, s) /\ FieldsAre(r, s)
<1> DEFINE O == 0 .. 255
           low == Required(s) % 256
           high == Required(s) \div 256
           flag == IF HasValue(s) THEN 1 ELSE 0
           a == Magic
           b == <<kVersion, low, high>>
           c == <<s.valueType, flag, s.availability, s.quality, s.source>>
           d == Reverse(s.timestamp)
           i == Len(s.signalId)
           j == Len(s.unit)
           k == Len(s.value)
           e == <<i, j, k>>
           f == s.signalId
           g == s.unit
           h == Payload(s)
<1>1. f \in Seq(O) /\ g \in Seq(O) /\ i \in Nat /\ j \in Nat /\ k \in Nat
  BY DEF IsTyped
<1>2. h \in Seq(O) /\ Len(h) = k
  BY PayloadIs
<1>3. d \in Seq(O) /\ Len(d) = 8
  <2>1. s.timestamp \in Seq(O) /\ Len(s.timestamp) = 8
    BY DEF IsTyped
  <2> QED
    BY <2>1, ReverseIs
<1>4. low \in O /\ high \in O /\ kVersion \in O
  <2>1. low \in O /\ high \in O
    BY RequiredIs, Zenon
  <2>2. kVersion \in O
    BY DEF kVersion
  <2> QED
    BY <2>1, <2>2
<1>5. i \in O /\ j \in O /\ k \in O
  <2>1. i <= 255 /\ j <= 255 /\ k <= 255
    BY DEF IsTyped
  <2> HIDE DEF i, j, k
  <2> QED
    BY <1>1, <2>1
<1>6. /\ s.valueType \in O /\ flag \in O /\ s.availability \in O /\ s.quality \in O
      /\ s.source \in O
  BY DEF IsTyped, VehicleValueType, VehicleAvailability, VehicleQuality, VehicleSource
<1>7. Bytes(s) = a \o b \o c \o d \o e \o f \o g \o h
  BY DEF Bytes, Required, Payload
<1>8. a \in Seq(O) /\ Len(a) = 4
  BY MagicIs
<1> HIDE DEF O, low, high, flag
<1>9. b \in Seq(O) /\ Len(b) = 3
  BY <1>4
<1>10. c \in Seq(O) /\ Len(c) = 5
  BY <1>6
<1>11. e \in Seq(O) /\ Len(e) = 3
  <2> HIDE DEF i, j, k
  <2> QED
    BY <1>5
<1>12. r \in Seq(O) /\ Len(f) = i /\ Len(g) = j
  BY DEF O
<1> HIDE DEF a, b, c, d, e, f, g, h
<1>13. Required(s) = 23 + i + j + k
  BY RequiredIs
<1> HIDE DEF i, j, k
<1> DEFINE p == <<a, b, c, d, e, f, g, h>>
<1>14. /\ p[1] = a /\ p[2] = b /\ p[3] = c /\ p[4] = d /\ p[5] = e /\ p[6] = f /\ p[7] = g
       /\ p[8] = h
  OBVIOUS
<1> HIDE DEF p
<1>19. AreParts(p, O)
  <2>1. \A n \in 1 .. 8 : n = 1 \/ n = 2 \/ n = 3 \/ n = 4 \/ n = 5 \/ n = 6 \/ n = 7 \/ n = 8
    OBVIOUS
  <2>2. \A n \in 1 .. 8 : p[n] \in Seq(O)
    BY <1>1, <1>2, <1>3, <1>8, <1>9, <1>10, <1>11, <1>14, <2>1
  <2> QED
    BY <1>3, <1>8, <1>9, <1>10, <1>11, <1>14, <2>2 DEF AreParts
<1> DEFINE all == Joined(p)
<1>20. all \in Seq(O) /\ Len(all) = LengthOf(p) /\ (r = all <=> AreIn(r, p))
  BY <1>12, <1>19, EightParts
<1> HIDE DEF all
<1>21. LengthOf(p) = Required(s)
  BY <1>2, <1>12, <1>13, <1>14 DEF LengthOf
<1>22. AreIn(r, p)
         <=> /\ Len(r) = Required(s)
             /\ IsAt(a, 0, r) /\ IsAt(b, 4, r) /\ IsAt(c, 7, r) /\ IsAt(d, 12, r)
             /\ IsAt(e, 20, r) /\ IsAt(f, 23, r) /\ IsAt(g, 23 + i, r)
             /\ IsAt(h, 23 + i + j, r)
  BY <1>12, <1>14, <1>21, Zenon DEF AreIn
<1>15. Bytes(s) = all
  BY <1>7, <1>14 DEF all, Joined
<1>16. ASSUME Len(r) = Required(s)
       PROVE  HeaderIs(r, s)
                <=> /\ IsAt(a, 0, r) /\ IsAt(b, 4, r) /\ IsAt(c, 7, r) /\ IsAt(d, 12, r)
                    /\ IsAt(e, 20, r)
  <2>1. Len(r) \in Nat /\ Len(r) >= 23
    BY <1>1, <1>13, <1>16
  <2>2. IsAt(a, 0, r) <=> SubSeq(r, 1, 4) = Magic
    <3>1. 0 + 4 = 4 /\ 0 + 1 = 1 /\ 4 <= Len(r)
      BY <2>1
    <3> QED
      BY <1>8, <3>1 DEF IsAt, a
  <2>3. IsAt(b, 4, r) <=> r[5] = kVersion /\ r[6] = low /\ r[7] = high
    <3>1. 4 \in Nat /\ 4 + 3 <= Len(r) /\ 4 + 1 = 5 /\ 4 + 2 = 6 /\ 4 + 3 = 7
      BY <2>1
    <3>2. IsAt(b, 4, r) <=> r[4 + 1] = kVersion /\ r[4 + 2] = low /\ r[4 + 3] = high
      BY <1>4, <1>12, <3>1, ThreeAt DEF b
    <3> QED
      BY <3>1, <3>2
  <2>4. IsAt(c, 7, r) <=> /\ r[8] = s.valueType /\ r[9] = flag /\ r[10] = s.availability
                          /\ r[11] = s.quality /\ r[12] = s.source
    <3>1. /\ 7 \in Nat /\ 7 + 5 <= Len(r) /\ 7 + 1 = 8 /\ 7 + 2 = 9 /\ 7 + 3 = 10
          /\ 7 + 4 = 11 /\ 7 + 5 = 12
      BY <2>1
    <3>2. IsAt(c, 7, r) <=> /\ r[7 + 1] = s.valueType /\ r[7 + 2] = flag
                            /\ r[7 + 3] = s.availability
                            /\ r[7 + 4] = s.quality /\ r[7 + 5] = s.source
      BY <1>6, <1>12, <3>1, FiveAt, SMTT(40) DEF c
    <3> QED
      BY <3>1, <3>2
  <2>5. IsAt(d, 12, r) <=> SubSeq(r, 13, 20) = Reverse(s.timestamp)
    <3>1. 12 + 8 = 20 /\ 12 + 1 = 13 /\ 20 <= Len(r)
      BY <2>1
    <3> QED
      BY <1>3, <3>1 DEF IsAt, d
  <2>6. IsAt(e, 20, r) <=> r[21] = i /\ r[22] = j /\ r[23] = k
    <3>1. 20 \in Nat /\ 20 + 3 <= Len(r) /\ 20 + 1 = 21 /\ 20 + 2 = 22 /\ 20 + 3 = 23
      BY <2>1
    <3>2. IsAt(e, 20, r) <=> r[20 + 1] = i /\ r[20 + 2] = j /\ r[20 + 3] = k
      BY <1>5, <1>12, <3>1, ThreeAt DEF e
    <3> QED
      BY <3>1, <3>2
  <2>7. HeaderIs(r, s)
          <=> /\ SubSeq(r, 1, 4) = Magic
              /\ r[5] = kVersion /\ r[6] = low /\ r[7] = high
              /\ r[8] = s.valueType /\ r[9] = flag /\ r[10] = s.availability
              /\ r[11] = s.quality /\ r[12] = s.source
              /\ SubSeq(r, 13, 20) = Reverse(s.timestamp)
              /\ r[21] = i /\ r[22] = j /\ r[23] = k
    BY Zenon DEF HeaderIs, low, high, flag, i, j, k
  <2> QED
    BY <2>2, <2>3, <2>4, <2>5, <2>6, <2>7, Zenon
<1>17. FieldsAre(r, s)
         <=> IsAt(f, 23, r) /\ IsAt(g, 23 + i, r) /\ IsAt(h, 23 + i + j, r)
  BY DEF FieldsAre, f, g, h, i, j
<1>18. r = all <=> Len(r) = Required(s) /\ HeaderIs(r, s) /\ FieldsAre(r, s)
  BY <1>16, <1>17, <1>20, <1>22, Zenon
<1> QED
  BY <1>15, <1>18, <1>20, <1>21 DEF O

LEMMA EightBytesAre ==
  ASSUME NEW bytes \in EightBytes
  PROVE  bytes \in Seq(0 .. 255) /\ Len(bytes) = 8
<1> DEFINE O == 0 .. 255
           n == 8
<1>1. n \in Nat /\ bytes \in [1 .. n -> O]
  BY DEF EightBytes
<1> HIDE DEF O, n
<1>2. bytes \in Seq(O) /\ Len(bytes) = n
  BY <1>1
<1> QED
  BY <1>2 DEF O, n

LEMMA OneByte ==
  ASSUME NEW S, NEW v \in S
  PROVE  <<v>> \in Seq(S) /\ Len(<<v>>) = 1 /\ <<v>>[1] = v
OBVIOUS

LEMMA Constructed ==
  ASSUME NEW signalId, NEW unit, NEW source, NEW quality, NEW availability, NEW timestamp,
         NEW type, NEW value,
         NEW s \in Construct(signalId, unit, source, quality, availability, timestamp, type, value)
  PROVE  /\ Assigns(signalId, kMaxSignalIdLength) /\ Assigns(unit, kMaxUnitLength)
         /\ s = [signalId |-> signalId, unit |-> unit, valueType |-> type, value |-> value,
                 source |-> source, quality |-> quality, availability |-> availability,
                 timestamp |-> timestamp]
         /\ s.signalId = signalId /\ s.unit = unit /\ s.valueType = type /\ s.value = value
         /\ s.source = source /\ s.quality = quality /\ s.availability = availability
         /\ s.timestamp = timestamp
         /\ Construct(signalId, unit, source, quality, availability, timestamp, type, value) = {s}
BY DEF Construct

\* What a factory says of the sample it makes.
MadeFrom(s, type, signalId, value, unit, source, quality, timestamp) ==
  /\ s.signalId = signalId /\ s.unit = unit /\ s.valueType = type /\ s.value = value
  /\ s.source = source /\ s.quality = quality /\ s.timestamp = timestamp
  /\ Assigns(signalId, kMaxSignalIdLength) /\ Assigns(unit, kMaxUnitLength)
  /\ type = Text => Assigns(value, kMaxTextLength)

\* The samples a factory makes are those that say what they were made from.
LEMMA ValueMade ==
  ASSUME NEW signalId, NEW unit, NEW source, NEW quality, NEW timestamp, NEW type, NEW value,
         NEW s \in TryValue(type, signalId, value, unit, source, quality, timestamp)
  PROVE  /\ MadeFrom(s, type, signalId, value, unit, source, quality, timestamp)
         /\ s.availability = Available
         /\ TryValue(type, signalId, value, unit, source, quality, timestamp) = {s}
<1>1. /\ ~(type = Text /\ ~Assigns(value, kMaxTextLength))
      /\ TryValue(type, signalId, value, unit, source, quality, timestamp)
           = Construct(signalId, unit, source, quality, Available, timestamp, type, value)
  BY DEF TryValue
<1>2. s \in Construct(signalId, unit, source, quality, Available, timestamp, type, value)
  BY <1>1
<1> QED
  BY <1>1, <1>2, Constructed DEF MadeFrom

LEMMA StatusMade ==
  ASSUME NEW signalId, NEW unit, NEW source, NEW quality, NEW timestamp, NEW availability,
         NEW s \in TryStatus(signalId, availability, unit, source, quality, timestamp)
  PROVE  /\ MadeFrom(s, None, signalId, <<>>, unit, source, quality, timestamp)
         /\ s.availability = availability /\ availability # Available
         /\ TryStatus(signalId, availability, unit, source, quality, timestamp) = {s}
<1>1. /\ availability # Available
      /\ TryStatus(signalId, availability, unit, source, quality, timestamp)
           = Construct(signalId, unit, source, quality, availability, timestamp, None, <<>>)
  BY DEF TryStatus
<1>2. s \in Construct(signalId, unit, source, quality, availability, timestamp, None, <<>>)
  BY <1>1
<1>3. None # Text
  BY DEF None, Text
<1> QED
  BY <1>1, <1>2, <1>3, Constructed DEF MadeFrom

LEMMA AssignsIs ==
  ASSUME NEW text \in Seq(0 .. 255), NEW capacity \in 0 .. 255
  PROVE  Assigns(text, capacity) <=> Len(text) <= capacity /\ IsUnicode(text)
BY WellFormedIsUnicode DEF Assigns

LEMMA CapacityIs ==
  /\ kMaxSignalIdLength \in 0 .. 255 /\ kMaxUnitLength \in 0 .. 255 /\ kMaxTextLength \in 0 .. 255
BY LengthsFitOneByte

LEMMA CharactersAre ==
  ASSUME NEW text
  PROVE  text \in Characters <=> text \in Seq(0 .. 255) /\ ~Contains(text, 0)
<1>1. ASSUME text \in Characters
      PROVE  text \in Seq(0 .. 255) /\ ~Contains(text, 0)
  <2>1. text \in Seq(1 .. 255) /\ 1 .. 255 \subseteq 0 .. 255
    BY <1>1 DEF Characters
  <2>2. \A i \in 1 .. Len(text) : text[i] \in 1 .. 255
    BY <2>1, ElementOfSeq
  <2>3. text \in Seq(0 .. 255)
    BY <2>1, SeqMonotonic
  <2>4. \A i \in 1 .. Len(text) : text[i] # 0
    <3>1. \A v \in 1 .. 255 : v # 0
      BY SMT
    <3> QED
      BY <2>2, <3>1, Zenon
  <2> QED
    BY <2>3, <2>4, Zenon DEF Contains
<1>2. ASSUME text \in Seq(0 .. 255), ~Contains(text, 0)
      PROVE  text \in Characters
  <2>1. \A i \in 1 .. Len(text) : text[i] \in 0 .. 255
    BY <1>2, ElementOfSeq
  <2>2. \A i \in 1 .. Len(text) : text[i] # 0
    BY <1>2, Zenon DEF Contains
  <2>3. \A i \in 1 .. Len(text) : text[i] \in 1 .. 255
    <3>1. \A v \in 0 .. 255 : v # 0 => v \in 1 .. 255
      BY SMT
    <3> QED
      BY <2>1, <2>2, <3>1, Zenon
  <2>4. Len(text) \in Nat /\ text \in [1 .. Len(text) -> 0 .. 255]
    BY <1>2, LenProperties, Zenon
  <2>5. text \in [1 .. Len(text) -> 1 .. 255]
    BY <2>3, <2>4, Zenon
  <2>6. text \in Seq(1 .. 255)
    <3> DEFINE C == 1 .. 255
               n == Len(text)
    <3>1. n \in Nat /\ text \in [1 .. n -> C]
      BY <2>4, <2>5
    <3> HIDE DEF C, n
    <3>2. text \in Seq(C)
      BY <3>1
    <3> QED
      BY <3>2 DEF C
  <2> QED
    BY <2>6 DEF Characters
<1> QED
  BY <1>1, <1>2

\* What the logger exports keeps within the sizes of a record.
LEMMA MadeIs ==
  ASSUME NEW s, IsMade(s)
  PROVE  /\ IsTyped(s)
         /\ MadeFrom(s, s.valueType, s.signalId, s.value, s.unit, s.source, s.quality,
                        s.timestamp)
         /\ s.valueType = None => s.availability # Available /\ s.value = <<>>
         /\ s.valueType # None => s.availability = Available
<1>1. /\ s.valueType = None => 
           /\ MadeFrom(s, s.valueType, s.signalId, s.value, s.unit, s.source, s.quality,
                        s.timestamp)
           /\ s.availability # Available /\ s.value = <<>>
  <2> SUFFICES ASSUME s.valueType = None
               PROVE  /\ MadeFrom(s, s.valueType, s.signalId, s.value, s.unit, s.source, s.quality,
                                  s.timestamp)
                      /\ s.availability # Available /\ s.value = <<>>
    OBVIOUS
  <2>1. s \in TryStatus(s.signalId, s.availability, s.unit, s.source, s.quality, s.timestamp)
    BY DEF IsMade
  <2>2. MadeFrom(s, None, s.signalId, <<>>, s.unit, s.source, s.quality, s.timestamp)
    BY <2>1, StatusMade
  <2>3. s.availability # Available
    BY <2>1, StatusMade
  <2>4. s.value = <<>>
    BY <2>2 DEF MadeFrom
  <2> QED
    BY <2>2, <2>3, <2>4
<1>2. s.valueType # None =>
           /\ MadeFrom(s, s.valueType, s.signalId, s.value, s.unit, s.source, s.quality,
                        s.timestamp)
           /\ s.availability = Available
  <2> SUFFICES ASSUME s.valueType # None
               PROVE  /\ MadeFrom(s, s.valueType, s.signalId, s.value, s.unit, s.source, s.quality,
                                  s.timestamp)
                      /\ s.availability = Available
    OBVIOUS
  <2>1. s \in TryValue(s.valueType, s.signalId, s.value, s.unit, s.source, s.quality, s.timestamp)
    BY DEF IsMade
  <2> QED
    BY <2>1, ValueMade
<1>3. MadeFrom(s, s.valueType, s.signalId, s.value, s.unit, s.source, s.quality, s.timestamp)
  BY <1>1, <1>2
<1>4. /\ s.signalId \in Seq(0 .. 255) /\ s.unit \in Seq(0 .. 255)
      /\ s.valueType = Text => s.value \in Seq(0 .. 255)
  <2>1. s.valueType = Text => s.value \in Characters
    BY DEF IsMade, ValueOf, None, Numeric, Boolean, Text
  <2> QED
    BY <2>1, CharactersAre DEF IsMade
<1>5. Len(s.signalId) <= kMaxSignalIdLength /\ Len(s.unit) <= kMaxUnitLength
  BY <1>3 DEF MadeFrom, Assigns
<1>6. Len(s.signalId) <= 255 /\ Len(s.unit) <= 255
  <2>1. Len(s.signalId) \in Nat /\ Len(s.unit) \in Nat
    BY <1>4
  <2> QED
    BY <1>5, <2>1, CapacityIs
<1>7. s.value \in Seq(0 .. 255) /\ Len(s.value) <= 255
  <2>1. s.valueType \in {None, Numeric, Boolean, Text} /\ s.value \in ValueOf(s.valueType)
    BY DEF IsMade, VehicleValueType, None, Numeric, Boolean, Text
  <2>2. CASE s.valueType = None
    <3>1. s.value = <<>>
      BY <1>1, <2>2
    <3> QED
      BY <3>1
  <2>3. CASE s.valueType = Numeric
    <3>1. s.value \in EightBytes
      BY <2>1, <2>3 DEF ValueOf, None, Numeric, Boolean, Text
    <3>2. 8 \in Nat /\ 8 <= 255
      OBVIOUS
    <3>3. s.value \in Seq(0 .. 255) /\ Len(s.value) = 8
      BY <3>1, EightBytesAre
    <3> QED
      BY <3>2, <3>3, Zenon
  <2>4. CASE s.valueType = Boolean
    <3>1. s.value = <<0>> \/ s.value = <<1>>
      BY <2>1, <2>4 DEF ValueOf, None, Numeric, Boolean, Text
    <3>2. 0 \in 0 .. 255 /\ 1 \in 0 .. 255 /\ 1 <= 255
      OBVIOUS
    <3> QED
      BY <3>1, <3>2, OneByte, Zenon
  <2>5. CASE s.valueType = Text
    <3>1. Len(s.value) <= kMaxTextLength
      BY <1>3, <2>5 DEF MadeFrom, Assigns
    <3>2. s.value \in Seq(0 .. 255) /\ Len(s.value) \in Nat
      BY <1>4, <2>5
    <3> QED
      BY <3>1, <3>2, CapacityIs
  <2> QED
    BY <2>1, <2>2, <2>3, <2>4, <2>5
<1>8. s.timestamp \in Seq(0 .. 255) /\ Len(s.timestamp) = 8
  <2>1. s.timestamp \in EightBytes
    BY DEF IsMade
  <2> QED
    BY <2>1, EightBytesAre
<1>9. /\ s.valueType \in VehicleValueType /\ s.availability \in VehicleAvailability
      /\ s.quality \in VehicleQuality /\ s.source \in VehicleSource
  BY DEF IsMade
<1>10. IsTyped(s)
  BY <1>4, <1>6, <1>7, <1>8, <1>9 DEF IsTyped
<1> QED
  BY <1>1, <1>2, <1>3, <1>10

(***************************************************************************)
(* What decode takes from a record.                                        *)
(***************************************************************************)
SignalIdOf(r)  == SubSeq(r, 23 + 1, 23 + r[21])
UnitOf(r)      == SubSeq(r, 23 + r[21] + 1, 23 + r[21] + r[22])
PayloadOf(r)   == SubSeq(r, 23 + r[21] + r[22] + 1, 23 + r[21] + r[22] + r[23])
TimestampOf(r) == Reverse(SubSeq(r, 12 + 1, 12 + 8))
ValueIn(r)     == IF r[8] = Numeric THEN Reverse(PayloadOf(r)) ELSE PayloadOf(r)

IsRefused(r) ==
  Contains(SignalIdOf(r), 0) \/ Contains(UnitOf(r), 0) \/ ~IsPayload(r[8], PayloadOf(r))

MadeOf(r) ==
  IF r[8] = None
  THEN TryStatus(SignalIdOf(r), r[10], UnitOf(r), r[12], r[11], TimestampOf(r))
  ELSE TryValue(r[8], SignalIdOf(r), ValueIn(r), UnitOf(r), r[12], r[11], TimestampOf(r))

LEMMA CandidateIs ==
  ASSUME NEW r
  PROVE  Candidate(r) = IF IsRefused(r) THEN {} ELSE MadeOf(r)
BY DEF Candidate, IsRefused, MadeOf, SignalIdOf, UnitOf, PayloadOf, TimestampOf, ValueIn,
       kHeaderSize

LEMMA FieldsAreTyped ==
  ASSUME NEW r \in Seq(0 .. 255), IsFramed(r), FieldsAreInRange(r)
  PROVE  /\ SignalIdOf(r) \in Seq(0 .. 255) /\ Len(SignalIdOf(r)) = r[21]
         /\ UnitOf(r) \in Seq(0 .. 255) /\ Len(UnitOf(r)) = r[22]
         /\ PayloadOf(r) \in Seq(0 .. 255) /\ Len(PayloadOf(r)) = r[23]
         /\ TimestampOf(r) \in Seq(0 .. 255) /\ Len(TimestampOf(r)) = 8
         /\ Reverse(TimestampOf(r)) = SubSeq(r, 13, 20)
         /\ r[21] \in 0 .. 255 /\ r[22] \in 0 .. 255 /\ r[23] \in 0 .. 255
         /\ 23 + r[21] + r[22] + r[23] = Len(r)
<1> DEFINE i == r[21]
           j == r[22]
           k == r[23]
           l == Len(r)
           O == 0 .. 255
<1>1. r \in Seq(O) /\ l \in Nat /\ l >= 23 /\ 23 + i + j + k = l
  <2>1. l >= 23
    BY DEF IsFramed, kHeaderSize
  <2>2. 23 + i + j + k = l
    BY DEF FieldsAreInRange, kHeaderSize
  <2>3. l \in Nat
    OBVIOUS
  <2> QED
    BY <2>1, <2>2, <2>3
<1>2. i \in O /\ j \in O /\ k \in O
  <2>1. 21 \in 1 .. l /\ 22 \in 1 .. l /\ 23 \in 1 .. l
    BY <1>1
  <2> QED
    BY <1>1, <2>1, ElementOfSeq
<1> HIDE DEF i, j, k, l
<1>3. i \in Nat /\ j \in Nat /\ k \in Nat
  BY <1>2
<1> HIDE DEF O
<1>4. /\ 23 + 1 \in 1 .. l + 1 /\ 23 + i \in (23 + 1) - 1 .. l /\ (23 + i) - (23 + 1) + 1 = i
      /\ 23 + i + 1 \in 1 .. l + 1 /\ 23 + i + j \in (23 + i + 1) - 1 .. l
      /\ (23 + i + j) - (23 + i + 1) + 1 = j
      /\ 23 + i + j + 1 \in 1 .. l + 1 /\ 23 + i + j + k \in (23 + i + j + 1) - 1 .. l
      /\ (23 + i + j + k) - (23 + i + j + 1) + 1 = k
      /\ 12 + 1 \in 1 .. l + 1 /\ 12 + 8 \in (12 + 1) - 1 .. l /\ (12 + 8) - (12 + 1) + 1 = 8
  BY <1>1, <1>3
<1>5. SubSeq(r, 23 + 1, 23 + i) \in Seq(O) /\ Len(SubSeq(r, 23 + 1, 23 + i)) = i
  <2> DEFINE m == 23 + 1
             e == 23 + i
  <2>1. r \in Seq(O) /\ m \in 1 .. Len(r) + 1 /\ e \in m - 1 .. Len(r) /\ e - m + 1 = i
    BY <1>1, <1>4 DEF l
  <2> HIDE DEF m, e
  <2>2. SubSeq(r, m, e) \in Seq(O) /\ Len(SubSeq(r, m, e)) = i
    BY <2>1, SliceIs
  <2> QED
    BY <2>2 DEF m, e
<1>6. /\ SubSeq(r, 23 + i + 1, 23 + i + j) \in Seq(O)
      /\ Len(SubSeq(r, 23 + i + 1, 23 + i + j)) = j
  <2> DEFINE m == 23 + i + 1
             e == 23 + i + j
  <2>1. r \in Seq(O) /\ m \in 1 .. Len(r) + 1 /\ e \in m - 1 .. Len(r) /\ e - m + 1 = j
    BY <1>1, <1>4 DEF l
  <2> HIDE DEF m, e
  <2>2. SubSeq(r, m, e) \in Seq(O) /\ Len(SubSeq(r, m, e)) = j
    BY <2>1, SliceIs
  <2> QED
    BY <2>2 DEF m, e
<1>7. /\ SubSeq(r, 23 + i + j + 1, 23 + i + j + k) \in Seq(O)
      /\ Len(SubSeq(r, 23 + i + j + 1, 23 + i + j + k)) = k
  <2> DEFINE m == 23 + i + j + 1
             e == 23 + i + j + k
  <2>1. r \in Seq(O) /\ m \in 1 .. Len(r) + 1 /\ e \in m - 1 .. Len(r) /\ e - m + 1 = k
    BY <1>1, <1>4 DEF l
  <2> HIDE DEF m, e
  <2>2. SubSeq(r, m, e) \in Seq(O) /\ Len(SubSeq(r, m, e)) = k
    BY <2>1, SliceIs
  <2> QED
    BY <2>2 DEF m, e
<1> DEFINE x == SubSeq(r, 12 + 1, 12 + 8)
<1>8. x \in Seq(O) /\ Len(x) = 8
  <2> DEFINE m == 12 + 1
             e == 12 + 8
  <2>1. r \in Seq(O) /\ m \in 1 .. Len(r) + 1 /\ e \in m - 1 .. Len(r) /\ e - m + 1 = 8
    BY <1>1, <1>4 DEF l
  <2> HIDE DEF m, e
  <2>2. SubSeq(r, m, e) \in Seq(O) /\ Len(SubSeq(r, m, e)) = 8
    BY <2>1, SliceIs
  <2> QED
    BY <2>2 DEF m, e, x
<1>9. x = SubSeq(r, 13, 20)
  OBVIOUS
<1> HIDE DEF x
<1>10. /\ Reverse(x) \in Seq(O) /\ Len(Reverse(x)) = 8
       /\ Reverse(Reverse(x)) = SubSeq(r, 13, 20)
  BY <1>8, <1>9, ReverseIs
<1> QED
  BY <1>1, <1>2, <1>5, <1>6, <1>7, <1>10
  DEF SignalIdOf, UnitOf, PayloadOf, TimestampOf, i, j, k, l, O, x

\* The bytes of a record that is framed say its length.
LEMMA FrameIs ==
  ASSUME NEW r \in Seq(0 .. 255), IsFramed(r)
  PROVE  /\ SubSeq(r, 1, 4) = Magic /\ Len(r) \in Nat /\ Len(r) >= 23
         /\ r[6] = Len(r) % 256 /\ r[7] = Len(r) \div 256
<1> DEFINE O == 0 .. 255
           l == Len(r)
           low == r[6]
           high == r[7]
<1>1. SubSeq(r, 1, 4) = Magic /\ l >= 23 /\ low + 256 * high = l
  BY DEF IsFramed, kHeaderSize
<1>2. r \in Seq(O) /\ l \in Nat
  OBVIOUS
<1> HIDE DEF O
<1>3. low \in O /\ high \in O
  <2>1. 6 \in 1 .. l /\ 7 \in 1 .. l
    BY <1>1, <1>2
  <2> QED
    BY <1>2, <2>1, ElementOfSeq
<1> HIDE DEF l, low, high
<1>4. low = l % 256 /\ high = l \div 256
  <2>1. low \in Nat /\ high \in Nat /\ low < 256
    BY <1>3 DEF O
  <2> QED
    BY <1>1, <1>2, <2>1, SMT
<1> QED
  BY <1>1, <1>2, <1>4 DEF l, low, high

LEMMA FieldsTaken ==
  ASSUME NEW r \in Seq(0 .. 255), IsFramed(r), FieldsAreInRange(r), NEW s, IsTyped(s),
         r[21] = Len(s.signalId), r[22] = Len(s.unit), r[23] = Len(s.value)
  PROVE  FieldsAre(r, s) <=> /\ SignalIdOf(r) = s.signalId /\ UnitOf(r) = s.unit
                             /\ PayloadOf(r) = Payload(s)
<1> DEFINE i == Len(s.signalId)
           j == Len(s.unit)
           k == Len(s.value)
           h == Payload(s)
<1>1. i \in Nat /\ j \in Nat /\ k \in Nat /\ Len(h) = k
  BY PayloadIs DEF IsTyped
<1>2. 23 + i + j + k = Len(r)
  BY FieldsAreTyped, ZenonT(40)
<1>3. /\ SignalIdOf(r) = SubSeq(r, 23 + 1, 23 + i)
      /\ UnitOf(r) = SubSeq(r, 23 + i + 1, 23 + i + j)
      /\ PayloadOf(r) = SubSeq(r, 23 + i + j + 1, 23 + i + j + k)
  BY DEF SignalIdOf, UnitOf, PayloadOf
<1> DEFINE l == Len(r)
           f == s.signalId
           g == s.unit
<1>4. Len(f) = i /\ Len(g) = j
  OBVIOUS
<1>5. FieldsAre(r, s) <=> IsAt(f, 23, r) /\ IsAt(g, 23 + i, r) /\ IsAt(h, 23 + i + j, r)
  BY DEF FieldsAre
<1> HIDE DEF i, j, k, h, f, g
<1>6. 23 + i <= l /\ 23 + i + j <= l /\ 23 + i + j + k <= l
  BY <1>1, <1>2
<1>7. /\ IsAt(f, 23, r) <=> SubSeq(r, 23 + 1, 23 + i) = f
      /\ IsAt(g, 23 + i, r) <=> SubSeq(r, 23 + i + 1, 23 + i + j) = g
      /\ IsAt(h, 23 + i + j, r) <=> SubSeq(r, 23 + i + j + 1, 23 + i + j + k) = h
  BY <1>1, <1>4, <1>6 DEF IsAt
<1> QED
  BY <1>3, <1>5, <1>7, Zenon DEF f, g, h

\* What decode makes of a record is the sample that record was written from.
LEMMA DecodedIs ==
  ASSUME NEW r \in Seq(0 .. 255), IsFramed(r), r[5] = kVersion, NEW s \in Decoded(r)
  PROVE  /\ IsTyped(s) /\ r = Bytes(s) /\ IsValidSample(s)
         /\ \A text \in Texts(s) : IsUnicode(text)
<1>1. FieldsAreInRange(r) /\ s \in Candidate(r) /\ Agrees(r, s)
  BY DEF Decoded
<1>2. ~IsRefused(r) /\ s \in MadeOf(r)
  BY <1>1, CandidateIs
<1>3. MadeFrom(s, r[8], SignalIdOf(r), s.value, UnitOf(r), r[12], r[11], TimestampOf(r))
  <2>1. CASE r[8] = None
    <3>1. s \in TryStatus(SignalIdOf(r), r[10], UnitOf(r), r[12], r[11], TimestampOf(r))
      BY <1>2, <2>1 DEF MadeOf
    <3>2. MadeFrom(s, None, SignalIdOf(r), <<>>, UnitOf(r), r[12], r[11], TimestampOf(r))
      BY <3>1, StatusMade
    <3> QED
      BY <2>1, <3>2 DEF MadeFrom
  <2>2. CASE r[8] # None
    <3>1. s \in TryValue(r[8], SignalIdOf(r), ValueIn(r), UnitOf(r), r[12], r[11], TimestampOf(r))
      BY <1>2, <2>2 DEF MadeOf
    <3>2. MadeFrom(s, r[8], SignalIdOf(r), ValueIn(r), UnitOf(r), r[12], r[11], TimestampOf(r))
      BY <3>1, ValueMade
    <3> QED
      BY <3>2 DEF MadeFrom
  <2> QED
    BY <2>1, <2>2
<1>4. /\ r[8] = None => s.value = <<>> /\ s.availability # Available
      /\ r[8] # None => s.value = ValueIn(r) /\ s.availability = Available
  <2>1. CASE r[8] = None
    <3>1. s \in TryStatus(SignalIdOf(r), r[10], UnitOf(r), r[12], r[11], TimestampOf(r))
      BY <1>2, <2>1 DEF MadeOf
    <3>2. /\ MadeFrom(s, None, SignalIdOf(r), <<>>, UnitOf(r), r[12], r[11], TimestampOf(r))
          /\ s.availability # Available
      BY <3>1, StatusMade
    <3> QED
      BY <2>1, <3>2 DEF MadeFrom
  <2>2. CASE r[8] # None
    <3>1. s \in TryValue(r[8], SignalIdOf(r), ValueIn(r), UnitOf(r), r[12], r[11], TimestampOf(r))
      BY <1>2, <2>2 DEF MadeOf
    <3>2. /\ MadeFrom(s, r[8], SignalIdOf(r), ValueIn(r), UnitOf(r), r[12], r[11], TimestampOf(r))
          /\ s.availability = Available
      BY <3>1, ValueMade
    <3> QED
      BY <2>2, <3>2 DEF MadeFrom
  <2> QED
    BY <2>1, <2>2
<1>5. /\ s.signalId = SignalIdOf(r) /\ s.unit = UnitOf(r) /\ s.valueType = r[8]
      /\ s.source = r[12] /\ s.quality = r[11] /\ s.timestamp = TimestampOf(r)
      /\ Assigns(s.signalId, kMaxSignalIdLength) /\ Assigns(s.unit, kMaxUnitLength)
      /\ s.valueType = Text => Assigns(s.value, kMaxTextLength)
  BY <1>3 DEF MadeFrom
<1>6. s.availability = r[10] /\ r[9] = IF HasValue(s) THEN 1 ELSE 0
  <2>1. r[9] = 0 \/ r[9] = 1
    BY <1>1 DEF FieldsAreInRange
  <2>2. s.availability = r[10] /\ HasValue(s) = (r[9] = 1)
    BY <1>1 DEF Agrees
  <2> QED
    BY <2>1, <2>2
<1>7. /\ SignalIdOf(r) \in Seq(0 .. 255) /\ Len(SignalIdOf(r)) = r[21]
      /\ UnitOf(r) \in Seq(0 .. 255) /\ Len(UnitOf(r)) = r[22]
      /\ PayloadOf(r) \in Seq(0 .. 255) /\ Len(PayloadOf(r)) = r[23]
      /\ TimestampOf(r) \in Seq(0 .. 255) /\ Len(TimestampOf(r)) = 8
      /\ Reverse(TimestampOf(r)) = SubSeq(r, 13, 20)
      /\ r[21] \in 0 .. 255 /\ r[22] \in 0 .. 255 /\ r[23] \in 0 .. 255
      /\ 23 + r[21] + r[22] + r[23] = Len(r)
  BY <1>1, FieldsAreTyped
<1>8. IsPayload(r[8], PayloadOf(r))
  BY <1>2 DEF IsRefused
<1>9. Reverse(PayloadOf(r)) \in Seq(0 .. 255) /\ Len(Reverse(PayloadOf(r))) = r[23]
      /\ Reverse(Reverse(PayloadOf(r))) = PayloadOf(r)
  BY <1>7, ReverseIs
<1>10. r[8] = None => PayloadOf(r) = <<>>
  BY <1>8 DEF IsPayload, None, Numeric, Boolean, Text
<1>11. s.value \in Seq(0 .. 255) /\ Len(s.value) = r[23] /\ Payload(s) = PayloadOf(r)
  <2>1. CASE r[8] = None
    <3>1. s.value = PayloadOf(r)
      BY <1>4, <1>10, <2>1
    <3>2. Payload(s) = s.value
      BY <1>5, <2>1 DEF Payload, None, Numeric
    <3> QED
      BY <1>7, <3>1, <3>2
  <2>2. CASE r[8] = Numeric
    <3>1. s.value = Reverse(PayloadOf(r))
      BY <1>4, <2>2 DEF ValueIn, None, Numeric
    <3>2. Payload(s) = Reverse(s.value)
      BY <1>5, <2>2 DEF Payload
    <3> QED
      BY <1>9, <3>1, <3>2
  <2>3. CASE r[8] # None /\ r[8] # Numeric
    <3>1. s.value = PayloadOf(r)
      BY <1>4, <2>3 DEF ValueIn
    <3>2. Payload(s) = s.value
      BY <1>5, <2>3 DEF Payload
    <3> QED
      BY <1>7, <3>1, <3>2
  <2> QED
    BY <2>1, <2>2, <2>3
<1>12. /\ r[8] \in VehicleValueType /\ r[10] \in VehicleAvailability
       /\ r[11] \in VehicleQuality /\ r[12] \in VehicleSource
  BY <1>1 DEF FieldsAreInRange
<1>13. r[21] <= 255 /\ r[22] <= 255 /\ r[23] <= 255
  <2>1. \A v \in 0 .. 255 : v <= 255
    BY SMT
  <2> QED
    BY <1>7, <2>1, Zenon
<1>14. IsTyped(s)
  BY <1>5, <1>6, <1>7, <1>11, <1>12, <1>13 DEF IsTyped
<1>15. /\ r[21] = Len(s.signalId) /\ r[22] = Len(s.unit) /\ r[23] = Len(s.value)
       /\ Len(r) = Required(s)
  <2>1. r[21] = Len(s.signalId) /\ r[22] = Len(s.unit) /\ r[23] = Len(s.value)
    BY <1>5, <1>7, <1>11
  <2>2. Required(s) = 23 + Len(s.signalId) + Len(s.unit) + Len(s.value)
    BY <1>14, RequiredIs
  <2> QED
    BY <1>7, <2>1, <2>2
<1>16. HeaderIs(r, s)
  <2>1. /\ SubSeq(r, 1, 4) = Magic
        /\ r[6] = Required(s) % 256 /\ r[7] = Required(s) \div 256
    BY <1>15, FrameIs, SMTT(40)
  <2> QED
    BY <1>5, <1>6, <1>7, <1>15, <2>1 DEF HeaderIs
<1>17. FieldsAre(r, s)
  BY <1>1, <1>5, <1>11, <1>14, <1>15, FieldsTaken
<1>18. r = Bytes(s)
  BY <1>14, <1>15, <1>16, <1>17, RecordIs
<1>19. IsValidSample(s)
  <2>1. s.valueType = Numeric => IsFinite(s.value)
    <3> SUFFICES ASSUME r[8] = Numeric
                 PROVE  IsFinite(s.value)
      BY <1>5
    <3>1. Numeric # None /\ Numeric # Boolean /\ Numeric # Text
      BY DEF None, Numeric, Boolean, Text
    <3>2. IsPayload(Numeric, PayloadOf(r))
      BY <1>8
    <3>3. IsFinite(Reverse(PayloadOf(r)))
      BY <3>1, <3>2, Zenon DEF IsPayload
    <3>4. s.value = Reverse(PayloadOf(r))
      BY <1>4, <3>1 DEF ValueIn
    <3> QED
      BY <3>3, <3>4
  <2> QED
    BY <1>4, <1>5, <2>1 DEF IsValidSample
<1>20. ASSUME NEW text \in Texts(s)
       PROVE  IsUnicode(text)
  <2>1. /\ IsUnicode(s.signalId) /\ IsUnicode(s.unit)
        /\ s.valueType = Text => IsUnicode(s.value)
    BY <1>5, <1>7, <1>11, AssignsIs, CapacityIs, ZenonT(40)
  <2> QED
    BY <2>1 DEF Texts
<1> QED
  BY <1>14, <1>18, <1>19, <1>20

\* A record as it was written is read, as the sample it was written from.
LEMMA RecordReads ==
  ASSUME NEW s, IsMade(s), IsValidSample(s), NEW r, r = Bytes(s)
  PROVE  IsFramed(r) /\ r[5] = kVersion /\ Decoded(r) = {s}
<1> DEFINE i == Len(s.signalId)
           j == Len(s.unit)
           k == Len(s.value)
<1>1. /\ IsTyped(s)
      /\ MadeFrom(s, s.valueType, s.signalId, s.value, s.unit, s.source, s.quality,
                        s.timestamp)
      /\ s.valueType = None => s.availability # Available /\ s.value = <<>>
      /\ s.valueType # None => s.availability = Available
  BY MadeIs
<1>2. /\ s.signalId \in Seq(0 .. 255) /\ s.unit \in Seq(0 .. 255) /\ s.value \in Seq(0 .. 255)
      /\ s.timestamp \in Seq(0 .. 255)
  BY <1>1 DEF IsTyped
<1>3. r \in Seq(0 .. 255) /\ Len(r) = Required(s) /\ HeaderIs(r, s) /\ FieldsAre(r, s)
  <2>1. <<>> \in Seq(0 .. 255)
    BY EmptySeq
  <2>2. r \in Seq(0 .. 255)
    BY <1>1, <2>1, RecordIs
  <2> QED
    BY <1>1, <2>2, RecordIs
<1>4. i \in Nat /\ j \in Nat /\ k \in Nat
  BY <1>2
<1>5. /\ Required(s) = 23 + i + j + k
      /\ (Required(s) % 256) + 256 * (Required(s) \div 256) = Required(s)
  BY <1>1, RequiredIs
<1>6. /\ SubSeq(r, 1, 4) = Magic
      /\ r[5] = kVersion /\ r[6] = Required(s) % 256 /\ r[7] = Required(s) \div 256
      /\ r[8] = s.valueType /\ r[9] = IF HasValue(s) THEN 1 ELSE 0
      /\ r[10] = s.availability /\ r[11] = s.quality /\ r[12] = s.source
      /\ SubSeq(r, 13, 20) = Reverse(s.timestamp)
      /\ r[21] = i /\ r[22] = j /\ r[23] = k
  BY <1>3 DEF HeaderIs
<1>7. IsFramed(r)
  <2>1. Len(r) >= 23
    <3> HIDE DEF i, j, k
    <3> QED
      BY <1>3, <1>4, <1>5
  <2>2. r[6] + 256 * r[7] = Len(r)
    BY <1>3, <1>5, <1>6
  <2> QED
    BY <1>6, <2>1, <2>2 DEF IsFramed, kHeaderSize
<1>8. FieldsAreInRange(r)
  <2>1. i <= kMaxSignalIdLength /\ j <= kMaxUnitLength
    BY <1>1 DEF MadeFrom, Assigns
  <2>2. r[9] \in 0 .. 1
    BY <1>6
  <2>3. /\ r[8] \in VehicleValueType /\ r[10] \in VehicleAvailability
        /\ r[11] \in VehicleQuality /\ r[12] \in VehicleSource
    BY <1>1, <1>6 DEF IsTyped
  <2>4. kHeaderSize + r[21] + r[22] + r[23] = Len(r)
    BY <1>3, <1>5, <1>6 DEF kHeaderSize
  <2> QED
    BY <1>6, <2>1, <2>2, <2>3, <2>4 DEF FieldsAreInRange
<1>9. /\ SignalIdOf(r) = s.signalId /\ UnitOf(r) = s.unit /\ PayloadOf(r) = Payload(s)
  BY <1>1, <1>3, <1>6, <1>7, <1>8, FieldsTaken
<1>10. TimestampOf(r) = s.timestamp
  <2>1. 12 + 1 = 13 /\ 12 + 8 = 20
    OBVIOUS
  <2>2. TimestampOf(r) = Reverse(Reverse(s.timestamp))
    BY <1>6, <2>1 DEF TimestampOf
  <2> QED
    BY <1>2, <2>2, ReverseIs
<1>11. Reverse(Reverse(s.value)) = s.value
  BY <1>2, ReverseIs
<1>12. s.valueType \in {None, Numeric, Boolean, Text} /\ s.value \in ValueOf(s.valueType)
  BY DEF IsMade, VehicleValueType, None, Numeric, Boolean, Text
<1>13. /\ None # Numeric /\ None # Boolean /\ None # Text
       /\ Numeric # Boolean /\ Numeric # Text /\ Boolean # Text
  BY DEF None, Numeric, Boolean, Text
<1>14. IsPayload(s.valueType, Payload(s))
  <2>1. CASE s.valueType = None
    <3>1. Payload(s) = <<>>
      BY <1>1, <1>13, <2>1 DEF Payload
    <3>2. IsPayload(None, <<>>)
      BY <1>13, Zenon DEF IsPayload
    <3> QED
      BY <2>1, <3>1, <3>2
  <2>2. CASE s.valueType = Numeric
    <3>1. Payload(s) = Reverse(s.value)
      BY <2>2 DEF Payload
    <3>2. s.value \in EightBytes
      BY <1>12, <1>13, <2>2, Zenon DEF ValueOf
    <3>3. Len(Reverse(s.value)) = 8
      BY <1>2, <3>2, EightBytesAre, ReverseIs
    <3>4. IsFinite(Reverse(Reverse(s.value)))
      BY <1>11, <2>2 DEF IsValidSample
    <3>5. IsPayload(Numeric, Reverse(s.value))
      BY <1>13, <3>3, <3>4, Zenon DEF IsPayload
    <3> QED
      BY <2>2, <3>1, <3>5
  <2>3. CASE s.valueType = Boolean
    <3>1. Payload(s) = s.value
      BY <1>13, <2>3 DEF Payload
    <3>2. s.value \in {<<0>>, <<1>>}
      BY <1>12, <1>13, <2>3, Zenon DEF ValueOf
    <3>3. Len(s.value) = 1 /\ s.value[1] <= 1
      BY <3>2
    <3>4. IsPayload(Boolean, s.value)
      BY <1>13, <3>3, Zenon DEF IsPayload
    <3> QED
      BY <2>3, <3>1, <3>4
  <2>4. CASE s.valueType = Text
    <3>1. Payload(s) = s.value
      BY <1>13, <2>4 DEF Payload
    <3>2. s.value \in Characters
      BY <1>12, <1>13, <2>4, Zenon DEF ValueOf
    <3>3. Len(s.value) <= kMaxTextLength /\ ~Contains(s.value, 0)
      BY <1>1, <2>4, <3>2, CharactersAre DEF MadeFrom, Assigns
    <3>4. IsPayload(Text, s.value)
      BY <1>13, <3>3, Zenon DEF IsPayload
    <3> QED
      BY <2>4, <3>1, <3>4
  <2> QED
    BY <1>12, <2>1, <2>2, <2>3, <2>4
<1>15. ~IsRefused(r)
  <2>1. ~Contains(s.signalId, 0) /\ ~Contains(s.unit, 0)
    BY CharactersAre DEF IsMade
  <2> QED
    BY <1>6, <1>9, <1>14, <2>1 DEF IsRefused
<1>16. MadeOf(r) = {s}
  <2>1. CASE s.valueType = None
    <3>1. s \in TryStatus(s.signalId, s.availability, s.unit, s.source, s.quality, s.timestamp)
      BY <2>1 DEF IsMade
    <3>2. TryStatus(s.signalId, s.availability, s.unit, s.source, s.quality, s.timestamp) = {s}
      BY <3>1, StatusMade
    <3> QED
      BY <1>6, <1>9, <1>10, <2>1, <3>2 DEF MadeOf
  <2>2. CASE s.valueType # None
    <3>1. s \in TryValue(s.valueType, s.signalId, s.value, s.unit, s.source, s.quality,
                         s.timestamp)
      BY <2>2 DEF IsMade
    <3>2. TryValue(s.valueType, s.signalId, s.value, s.unit, s.source, s.quality, s.timestamp)
            = {s}
      BY <3>1, ValueMade
    <3>3. ValueIn(r) = s.value
      BY <1>6, <1>9, <1>11 DEF ValueIn, Payload
    <3> QED
      BY <1>6, <1>9, <1>10, <2>2, <3>2, <3>3 DEF MadeOf
  <2> QED
    BY <2>1, <2>2
<1>17. Agrees(r, s)
  <2>1. HasValue(s) \in BOOLEAN
    BY DEF HasValue
  <2> QED
    BY <1>6, <2>1 DEF Agrees
<1>18. Decoded(r) = {s}
  <2>1. Candidate(r) = {s}
    BY <1>15, <1>16, CandidateIs
  <2> QED
    BY <1>8, <1>17, <2>1 DEF Decoded
<1> QED
  BY <1>6, <1>7, <1>18

(***************************************************************************)
(* Damage.                                                                 *)
(***************************************************************************)
\* A burst changes bytes, never the length.
LEMMA OverwrittenIs ==
  ASSUME NEW S, NEW t \in Seq(S), NEW b \in Seq(S), NEW from \in Nat
  PROVE  /\ Overwritten(t, from, b) \in Seq(S)
         /\ Len(Overwritten(t, from, b)) = Len(t)
         /\ \A n \in 1 .. Len(t) :
              Overwritten(t, from, b)[n]
                = IF n - from \in 1 .. Len(b) THEN b[n - from] ELSE t[n]
<1> DEFINE l == Len(t)
           o == Overwritten(t, from, b)
<1>1. l \in Nat /\ DOMAIN t = 1 .. l /\ DOMAIN b = 1 .. Len(b)
  BY LenProperties
<1>2. o = [n \in 1 .. l |-> IF n - from \in 1 .. Len(b) THEN b[n - from] ELSE t[n]]
  BY <1>1 DEF Overwritten
<1> HIDE DEF o
<1>3. \A n \in 1 .. l : (IF n - from \in 1 .. Len(b) THEN b[n - from] ELSE t[n]) \in S
  BY ElementOfSeq
<1>4. o \in [1 .. l -> S]
  BY <1>2, <1>3
<1>5. o \in Seq(S) /\ Len(o) = l
  BY <1>1, <1>4
<1>6. \A n \in 1 .. l : o[n] = IF n - from \in 1 .. Len(b) THEN b[n - from] ELSE t[n]
  BY <1>2
<1> QED
  BY <1>5, <1>6 DEF o

\* What lies before or behind the burst stays.
LEMMA OutsideStays ==
  ASSUME NEW S, NEW t \in Seq(S), NEW b \in Seq(S), NEW from \in Nat,
         NEW m \in 1 .. Len(t) + 1, NEW n \in m - 1 .. Len(t), n <= from \/ m > from + Len(b)
  PROVE  SubSeq(Overwritten(t, from, b), m, n) = SubSeq(t, m, n)
<1> DEFINE o == Overwritten(t, from, b)
           x == SubSeq(o, m, n)
           y == SubSeq(t, m, n)
<1>1. /\ o \in Seq(S) /\ Len(o) = Len(t)
      /\ \A p \in 1 .. Len(t) : o[p] = IF p - from \in 1 .. Len(b) THEN b[p - from] ELSE t[p]
  BY OverwrittenIs
<1> HIDE DEF o
<1>2. /\ x \in Seq(S) /\ Len(x) = n - m + 1
      /\ \A p \in 1 .. n - m + 1 : x[p] = o[m + p - 1]
  BY <1>1, SliceIs
<1>3. /\ y \in Seq(S) /\ Len(y) = n - m + 1
      /\ \A p \in 1 .. n - m + 1 : y[p] = t[m + p - 1]
  BY SliceIs
<1>4. Len(t) \in Nat /\ Len(b) \in Nat /\ m \in Nat /\ n \in Nat
  OBVIOUS
<1>5. ASSUME NEW p \in 1 .. n - m + 1
      PROVE  o[m + p - 1] = t[m + p - 1]
  <2> DEFINE q == m + p - 1
  <2>1. q \in 1 .. Len(t) /\ q - from \notin 1 .. Len(b)
    BY <1>4
  <2> HIDE DEF q
  <2>2. o[q] = t[q]
    BY <1>1, <2>1
  <2> QED
    BY <2>2 DEF q
<1> HIDE DEF x, y
<1>6. x = y
  BY <1>2, <1>3, <1>5, SeqEqual
<1> QED
  BY <1>6 DEF x, y, o

\* A burst within a piece overwrites the piece.
LEMMA InsideOverwritten ==
  ASSUME NEW S, NEW t \in Seq(S), NEW b \in Seq(S), NEW from \in Nat, NEW at \in Nat,
         NEW length \in Nat, at + length <= Len(t)
  PROVE  SubSeq(Overwritten(t, at + from, b), at + 1, at + length)
           = Overwritten(SubSeq(t, at + 1, at + length), from, b)
<1> DEFINE o == Overwritten(t, at + from, b)
           m == at + 1
           n == at + length
           piece == SubSeq(t, m, n)
           x == SubSeq(o, m, n)
           y == Overwritten(piece, from, b)
<1>0. /\ Len(t) \in Nat /\ Len(b) \in Nat /\ at + from \in Nat
      /\ m \in 1 .. Len(t) + 1 /\ n \in m - 1 .. Len(t) /\ n - m + 1 = length
  OBVIOUS
<1>1. /\ o \in Seq(S) /\ Len(o) = Len(t)
      /\ \A p \in 1 .. Len(t) :
           o[p] = IF p - (at + from) \in 1 .. Len(b) THEN b[p - (at + from)] ELSE t[p]
  BY <1>0, OverwrittenIs
<1> HIDE DEF o
<1>2. /\ x \in Seq(S) /\ Len(x) = length
      /\ \A p \in 1 .. length : x[p] = o[m + p - 1]
  <2> HIDE DEF m, n
  <2> QED
    BY <1>0, <1>1, SliceIs
<1>3. /\ piece \in Seq(S) /\ Len(piece) = length
      /\ \A p \in 1 .. length : piece[p] = t[m + p - 1]
  <2> HIDE DEF m, n
  <2> QED
    BY <1>0, SliceIs
<1> HIDE DEF piece
<1>4. /\ y \in Seq(S) /\ Len(y) = length
      /\ \A p \in 1 .. length : y[p] = IF p - from \in 1 .. Len(b) THEN b[p - from] ELSE piece[p]
  <2>1. /\ y \in Seq(S) /\ Len(y) = Len(piece)
        /\ \A p \in 1 .. Len(piece) :
             y[p] = IF p - from \in 1 .. Len(b) THEN b[p - from] ELSE piece[p]
    <3>1. piece \in Seq(S)
      BY <1>3
    <3> QED
      BY <3>1, OverwrittenIs
  <2> HIDE DEF y
  <2> QED
    BY <1>3, <2>1
<1> HIDE DEF x, y
<1>5. ASSUME NEW p \in 1 .. length
      PROVE  x[p] = y[p]
  <2> DEFINE q == m + p - 1
  <2>1. q \in 1 .. Len(t) /\ q - (at + from) = p - from
    BY <1>0
  <2>2. x[p] = o[q] /\ piece[p] = t[q]
    BY <1>2, <1>3
  <2> HIDE DEF q, m, n
  <2>3. o[q] = IF p - from \in 1 .. Len(b) THEN b[p - from] ELSE t[q]
    BY <1>1, <2>1
  <2>4. y[p] = IF p - from \in 1 .. Len(b) THEN b[p - from] ELSE piece[p]
    BY <1>4
  <2> QED
    BY <2>2, <2>3, <2>4
<1>6. x = y
  BY <1>2, <1>4, <1>5, SeqEqual
<1> QED
  BY <1>6 DEF x, y, o, m, n, piece

LEMMA MadeIsRecord ==
  ASSUME NEW s, IsMade(s)
  PROVE  s = [signalId |-> s.signalId, unit |-> s.unit, valueType |-> s.valueType,
              value |-> s.value, source |-> s.source, quality |-> s.quality,
              availability |-> s.availability, timestamp |-> s.timestamp]
<1>1. CASE s.valueType = None
  <2>1. s \in TryStatus(s.signalId, s.availability, s.unit, s.source, s.quality, s.timestamp)
    BY <1>1 DEF IsMade
  <2>2. s \in Construct(s.signalId, s.unit, s.source, s.quality, s.availability, s.timestamp,
                        None, <<>>)
    BY <2>1 DEF TryStatus
  <2>3. s = [signalId |-> s.signalId, unit |-> s.unit, valueType |-> None,
              value |-> <<>>, source |-> s.source, quality |-> s.quality,
              availability |-> s.availability, timestamp |-> s.timestamp]
    BY <2>2 DEF Construct
  <2>4. s.value = <<>>
    BY <1>1, MadeIs
  <2> QED
    BY <1>1, <2>3, <2>4
<1>2. CASE s.valueType # None
  <2>1. s \in TryValue(s.valueType, s.signalId, s.value, s.unit, s.source, s.quality, s.timestamp)
    BY <1>2 DEF IsMade
  <2>2. s \in Construct(s.signalId, s.unit, s.source, s.quality, Available, s.timestamp,
                        s.valueType, s.value)
    BY <2>1 DEF TryValue
  <2>3. s = [signalId |-> s.signalId, unit |-> s.unit, valueType |-> s.valueType,
              value |-> s.value, source |-> s.source, quality |-> s.quality,
              availability |-> Available, timestamp |-> s.timestamp]
    BY <2>2 DEF Construct
  <2>4. s.availability = Available
    BY <1>2, MadeIs
  <2> QED
    BY <2>3, <2>4
<1> QED
  BY <1>1, <1>2

\* A burst behind the header leaves it as it is.
LEMMA HeaderStays ==
  ASSUME NEW S, NEW r \in Seq(S), NEW b \in Seq(S), NEW from \in Nat, from >= 23, Len(r) >= 23
  PROVE  /\ Overwritten(r, from, b) \in Seq(S) /\ Len(Overwritten(r, from, b)) = Len(r)
         /\ \A n \in 1 .. 23 : Overwritten(r, from, b)[n] = r[n]
         /\ SubSeq(Overwritten(r, from, b), 1, 4) = SubSeq(r, 1, 4)
         /\ SubSeq(Overwritten(r, from, b), 13, 20) = SubSeq(r, 13, 20)
<1> DEFINE o == Overwritten(r, from, b)
<1>1. /\ o \in Seq(S) /\ Len(o) = Len(r)
      /\ \A n \in 1 .. Len(r) : o[n] = IF n - from \in 1 .. Len(b) THEN b[n - from] ELSE r[n]
  BY OverwrittenIs
<1>2. Len(r) \in Nat /\ Len(b) \in Nat
  OBVIOUS
<1>3. /\ 1 \in 1 .. Len(r) + 1 /\ 4 \in 1 - 1 .. Len(r) /\ 4 <= from
      /\ 13 \in 1 .. Len(r) + 1 /\ 20 \in 13 - 1 .. Len(r) /\ 20 <= from
  BY <1>2
<1>4. SubSeq(o, 1, 4) = SubSeq(r, 1, 4) /\ SubSeq(o, 13, 20) = SubSeq(r, 13, 20)
  BY <1>3, OutsideStays
<1> HIDE DEF o
<1>5. \A n \in 1 .. 23 : n \in 1 .. Len(r) /\ n - from \notin 1 .. Len(b)
  BY <1>2
<1>6. \A n \in 1 .. 23 : o[n] = r[n]
  BY <1>1, <1>5
<1> QED
  BY <1>1, <1>4, <1>6 DEF o

\* A burst within the first field overwrites that field and leaves the others.
FirstFieldOverwritten(o, r, b, from, i, j, k) ==
  /\ SubSeq(o, 23 + 1, 23 + i) = Overwritten(SubSeq(r, 23 + 1, 23 + i), from, b)
  /\ SubSeq(o, 23 + i + 1, 23 + i + j) = SubSeq(r, 23 + i + 1, 23 + i + j)
  /\ SubSeq(o, 23 + i + j + 1, 23 + i + j + k) = SubSeq(r, 23 + i + j + 1, 23 + i + j + k)

LEMMA FieldsStay ==
  ASSUME NEW S, NEW r \in Seq(S), NEW b \in Seq(S), NEW from \in Nat,
         NEW i \in Nat, NEW j \in Nat, NEW k \in Nat, Len(r) = 23 + i + j + k,
         from + Len(b) <= i
  PROVE  FirstFieldOverwritten(Overwritten(r, 23 + from, b), r, b, from, i, j, k)
<1>1. Len(b) \in Nat /\ 23 \in Nat /\ 23 + i <= Len(r) /\ 23 + from \in Nat
  OBVIOUS
<1>2. /\ 23 + i + 1 \in 1 .. Len(r) + 1 /\ 23 + i + j \in (23 + i + 1) - 1 .. Len(r)
      /\ 23 + i + 1 > 23 + from + Len(b)
      /\ 23 + i + j + 1 \in 1 .. Len(r) + 1 /\ 23 + i + j + k \in (23 + i + j + 1) - 1 .. Len(r)
      /\ 23 + i + j + 1 > 23 + from + Len(b)
  BY <1>1
<1>3. SubSeq(Overwritten(r, 23 + from, b), 23 + 1, 23 + i)
        = Overwritten(SubSeq(r, 23 + 1, 23 + i), from, b)
  BY <1>1, InsideOverwritten
<1>4. SubSeq(Overwritten(r, 23 + from, b), 23 + i + 1, 23 + i + j)
        = SubSeq(r, 23 + i + 1, 23 + i + j)
  <2> DEFINE m == 23 + i + 1
             e == 23 + i + j
             p == 23 + from
  <2>1. m \in 1 .. Len(r) + 1 /\ e \in m - 1 .. Len(r) /\ m > p + Len(b) /\ p \in Nat
    BY <1>1, <1>2
  <2> HIDE DEF m, e, p
  <2>2. SubSeq(Overwritten(r, p, b), m, e) = SubSeq(r, m, e)
    BY <2>1, OutsideStays, SMTT(40)
  <2> QED
    BY <2>2 DEF m, e, p
<1>5. SubSeq(Overwritten(r, 23 + from, b), 23 + i + j + 1, 23 + i + j + k)
        = SubSeq(r, 23 + i + j + 1, 23 + i + j + k)
  <2> DEFINE m == 23 + i + j + 1
             e == 23 + i + j + k
             p == 23 + from
  <2>1. m \in 1 .. Len(r) + 1 /\ e \in m - 1 .. Len(r) /\ m > p + Len(b) /\ p \in Nat
    BY <1>1, <1>2
  <2> HIDE DEF m, e, p
  <2>2. SubSeq(Overwritten(r, p, b), m, e) = SubSeq(r, m, e)
    BY <2>1, OutsideStays
  <2> QED
    BY <2>2 DEF m, e, p
<1> QED
  BY <1>3, <1>4, <1>5 DEF FirstFieldOverwritten

\* A burst within the signal id makes the record of another sample.
LEMMA SignalIdDamaged ==
  ASSUME NEW s, IsMade(s), IsValidSample(s), NEW burst \in Seq(0 .. 255),
         NEW from \in 0 .. Len(s.signalId) - Len(burst), NEW signalId, NEW t,
         signalId = Overwritten(s.signalId, from, burst),
         IsUnicode(signalId), ~Contains(signalId, 0),
         t = [s EXCEPT !.signalId = signalId]
  PROVE  /\ IsMade(t) /\ IsValidSample(t)
         /\ Overwritten(Bytes(s), kHeaderSize + from, burst) = Bytes(t)
<1> DEFINE O == 0 .. 255
           i == Len(s.signalId)
           j == Len(s.unit)
           k == Len(s.value)
           r == Bytes(s)
           p == 23 + from
           o == Overwritten(r, p, burst)
<1>1. /\ IsTyped(s)
      /\ MadeFrom(s, s.valueType, s.signalId, s.value, s.unit, s.source, s.quality,
                        s.timestamp)
  BY MadeIs
<1>2. /\ s.signalId \in Seq(O) /\ s.unit \in Seq(O) /\ s.value \in Seq(O)
  BY <1>1 DEF IsTyped
<1>3. /\ i \in Nat /\ j \in Nat /\ k \in Nat /\ Len(burst) \in Nat
      /\ from \in Nat /\ from + Len(burst) <= i
  <2>1. i \in Nat /\ j \in Nat /\ k \in Nat /\ Len(burst) \in Nat
    BY <1>2
  <2> HIDE DEF i, j, k
  <2>2. from \in 0 .. i - Len(burst)
    BY DEF i
  <2> QED
    BY <2>1, <2>2
<1>4. signalId \in Seq(O) /\ Len(signalId) = i
  <2>1. s.signalId \in Seq(O) /\ from \in Nat
    BY <1>2, <1>3
  <2>2. /\ Overwritten(s.signalId, from, burst) \in Seq(O)
        /\ Len(Overwritten(s.signalId, from, burst)) = i
    BY <2>1, OverwrittenIs
  <2> QED
    BY <2>2
<1>5. /\ t.signalId = signalId /\ t.unit = s.unit /\ t.value = s.value
      /\ t.timestamp = s.timestamp /\ t.valueType = s.valueType
      /\ t.availability = s.availability /\ t.quality = s.quality /\ t.source = s.source
  <2>1. \E a, b, c, d, e, f, g, h :
          s = [signalId |-> a, unit |-> b, valueType |-> c, value |-> d, source |-> e,
               quality |-> f, availability |-> g, timestamp |-> h]
    BY MadeIsRecord
  <2> QED
    BY <2>1
<1>6. IsMade(t)
  <2>1. t = [signalId |-> signalId, unit |-> s.unit, valueType |-> s.valueType,
             value |-> s.value, source |-> s.source, quality |-> s.quality,
             availability |-> s.availability, timestamp |-> s.timestamp]
    BY MadeIsRecord
  <2>2. Assigns(signalId, kMaxSignalIdLength) /\ Assigns(s.unit, kMaxUnitLength)
    <3>1. i <= kMaxSignalIdLength /\ Assigns(s.unit, kMaxUnitLength)
      BY <1>1 DEF MadeFrom, Assigns
    <3> QED
      BY <1>4, <3>1, AssignsIs, CapacityIs
  <2>3. t \in Construct(signalId, s.unit, s.source, s.quality, s.availability, s.timestamp,
                        s.valueType, s.value)
    BY <2>1, <2>2 DEF Construct
  <2>4. ASSUME s.valueType = None
        PROVE  t \in TryStatus(signalId, s.availability, s.unit, s.source, s.quality, s.timestamp)
    <3>1. s.availability # Available /\ s.value = <<>>
      BY <2>4, MadeIs
    <3> QED
      BY <2>3, <2>4, <3>1 DEF TryStatus
  <2>5. ASSUME s.valueType # None
        PROVE  t \in TryValue(s.valueType, signalId, s.value, s.unit, s.source, s.quality,
                              s.timestamp)
    <3>1. s.availability = Available
      BY <2>5, MadeIs
    <3>2. ~(s.valueType = Text /\ ~Assigns(s.value, kMaxTextLength))
      BY <1>1 DEF MadeFrom
    <3> QED
      BY <2>3, <3>1, <3>2 DEF TryValue
  <2>6. signalId \in Characters
    BY <1>4, CharactersAre
  <2> QED
    BY <1>5, <2>4, <2>5, <2>6 DEF IsMade
<1>7. IsValidSample(t)
  BY <1>5 DEF IsValidSample
<1>8. IsTyped(t)
  BY <1>6, MadeIs
<1>9. /\ r \in Seq(O) /\ Len(r) = Required(s) /\ HeaderIs(r, s) /\ FieldsAre(r, s)
  <2>1. <<>> \in Seq(O)
    BY EmptySeq
  <2>2. r \in Seq(O)
    BY <1>1, <2>1, RecordIs
  <2> QED
    BY <1>1, <2>2, RecordIs
<1>10. Len(r) = 23 + i + j + k /\ Required(t) = Required(s)
  <2>1. Required(s) = 23 + i + j + k
    BY <1>1, RequiredIs
  <2>2. Required(t) = Required(s)
    BY <1>4, <1>5 DEF Required
  <2> QED
    BY <1>9, <2>1, <2>2
<1>11. p \in Nat /\ burst \in Seq(O) /\ r \in Seq(O)
  BY <1>3, <1>9
<1>18. p >= 23 /\ Len(r) >= 23
  <2> HIDE DEF i, j, k, r
  <2> QED
    BY <1>3, <1>10
<1> HIDE DEF O, r, p
<1>12. /\ o \in Seq(O) /\ Len(o) = Len(r)
       /\ \A n \in 1 .. 23 : o[n] = r[n]
       /\ SubSeq(o, 1, 4) = SubSeq(r, 1, 4) /\ SubSeq(o, 13, 20) = SubSeq(r, 13, 20)
  <2>1. p >= 23 /\ Len(r) >= 23
    BY <1>18
  <2> QED
    BY <1>11, <2>1, HeaderStays, ZenonT(40)
<1>13. /\ SubSeq(o, 23 + 1, 23 + i) = Overwritten(SubSeq(r, 23 + 1, 23 + i), from, burst)
       /\ SubSeq(o, 23 + i + 1, 23 + i + j) = SubSeq(r, 23 + i + 1, 23 + i + j)
       /\ SubSeq(o, 23 + i + j + 1, 23 + i + j + k) = SubSeq(r, 23 + i + j + 1, 23 + i + j + k)
  <2>1. i \in Nat /\ j \in Nat /\ k \in Nat /\ from \in Nat /\ from + Len(burst) <= i
    BY <1>3
  <2>2. Len(r) = 23 + i + j + k
    BY <1>10
  <2> HIDE DEF i, j, k
  <2>3. FirstFieldOverwritten(Overwritten(r, 23 + from, burst), r, burst, from, i, j, k)
    BY <1>11, <2>1, <2>2, FieldsStay
  <2> QED
    BY <2>3 DEF FirstFieldOverwritten, p
<1> HIDE DEF o
<1>15. HeaderIs(o, t)
  <2>2. /\ o[5] = r[5] /\ o[6] = r[6] /\ o[7] = r[7] /\ o[8] = r[8] /\ o[9] = r[9]
        /\ o[10] = r[10] /\ o[11] = r[11] /\ o[12] = r[12] /\ o[21] = r[21] /\ o[22] = r[22]
        /\ o[23] = r[23]
    BY <1>12
  <2>3. HasValue(t) = HasValue(s)
    BY <1>5 DEF HasValue
  <2>4. Len(t.signalId) = Len(s.signalId)
    BY <1>4, <1>5
  <2> QED
    BY <1>5, <1>9, <1>10, <1>12, <2>2, <2>3, <2>4, ZenonT(40) DEF HeaderIs
<1>16. FieldsAre(o, t)
  <2>1. /\ IsAt(s.signalId, 23, r) /\ IsAt(s.unit, 23 + i, r)
        /\ IsAt(Payload(s), 23 + i + j, r)
    BY <1>9 DEF FieldsAre
  <2>2. Payload(t) = Payload(s) /\ Len(Payload(s)) = k
    BY <1>1, <1>5, PayloadIs DEF Payload
  <2>3. IsAt(signalId, 23, o)
    <3>1. SubSeq(r, 23 + 1, 23 + i) = s.signalId /\ 23 + i <= Len(r)
      BY <2>1 DEF IsAt
    <3>2. SubSeq(o, 23 + 1, 23 + i) = signalId
      BY <1>13, <3>1
    <3> QED
      BY <1>4, <1>12, <3>1, <3>2 DEF IsAt
  <2>4. IsAt(s.unit, 23 + i, o)
    BY <1>12, <1>13, <2>1 DEF IsAt
  <2>5. IsAt(Payload(s), 23 + i + j, o)
    BY <1>12, <1>13, <2>1, <2>2 DEF IsAt
  <2> QED
    BY <1>4, <1>5, <2>2, <2>3, <2>4, <2>5 DEF FieldsAre
<1>17. o = Bytes(t)
  BY <1>8, <1>9, <1>10, <1>12, <1>15, <1>16, RecordIs DEF O
<1> QED
  BY <1>6, <1>7, <1>17 DEF r, p, o, kHeaderSize

(* A record is bytes, and as long as it is known to say a sample it is the *)
(* very record of that sample.                                             *)
RecordSaysItsSample ==
  /\ record \in Seq(0 .. 255)
  /\ \A s \in meant : IsMade(s) /\ IsValidSample(s) /\ record = Bytes(s)

LEMMA ExportInitially == ExportInit => RecordSaysItsSample
BY EmptySeq DEF ExportInit, RecordSaysItsSample

LEMMA ExportStep ==
  ASSUME RecordSaysItsSample, [ExportNext]_exportVars
  PROVE  RecordSaysItsSample'
<1> USE DEF RecordSaysItsSample
<1>1. ASSUME NEW s \in WrittenSample, NEW capacity \in OutputCapacity,
             NEW output \in {"buffer", "null"}, Encode(s, capacity, output)
      PROVE  RecordSaysItsSample'
  <2>1. CASE UNCHANGED <<record, meant>>
    BY <2>1
  <2>2. CASE IsValidSample(s) /\ record' = Bytes(s) /\ meant' = {s}
    <3>1. IsMade(s)
      BY SamplesAreMade
    <3>2. <<>> \in Seq(0 .. 255)
      BY EmptySeq
    <3>3. Bytes(s) \in Seq(0 .. 255)
      BY <3>1, <3>2, MadeIs, RecordIs
    <3> QED
      BY <2>2, <3>1, <3>3
  <2> QED
    BY <1>1, <2>1, <2>2 DEF Encode
<1>2. ASSUME NEW output \in CallerSample, Decode(output)
      PROVE  RecordSaysItsSample'
  BY <1>2 DEF Decode
<1>3. ASSUME DamageSignalId
      PROVE  RecordSaysItsSample'
  <2> DEFINE Becomes(s, burst, from) ==
               LET signalId == Overwritten(s.signalId, from, burst) IN
               /\ record' = Overwritten(record, kHeaderSize + from, burst)
               /\ meant' = IF IsUnicode(signalId) /\ ~Contains(signalId, 0)
                           THEN {[s EXCEPT !.signalId = signalId]} ELSE {}
  <2>s. PICK s \in meant, burst \in Burst :
          \E from \in 0 .. Len(s.signalId) - Len(burst) : Becomes(s, burst, from)
    BY <1>3, Zenon DEF DamageSignalId
  <2>1. PICK from \in 0 .. Len(s.signalId) - Len(burst) : Becomes(s, burst, from)
    BY <2>s
  <2> DEFINE signalId == Overwritten(s.signalId, from, burst)
             t == [s EXCEPT !.signalId = signalId]
  <2>2. burst \in Seq(0 .. 255)
    BY BurstsAreBytes
  <2>3. record' \in Seq(0 .. 255)
    <3>1. kHeaderSize + from \in Nat
      BY DEF kHeaderSize
    <3>2. Overwritten(record, kHeaderSize + from, burst) \in Seq(0 .. 255)
      BY <2>2, <3>1, OverwrittenIs
    <3> QED
      BY <2>1, <3>2
  <2>4. CASE meant' = {}
    BY <2>3, <2>4
  <2>5. CASE IsUnicode(signalId) /\ ~Contains(signalId, 0) /\ meant' = {t}
    <3>1. IsMade(s) /\ IsValidSample(s) /\ record = Bytes(s)
      OBVIOUS
    <3>2. /\ IsMade(t) /\ IsValidSample(t)
          /\ Overwritten(Bytes(s), kHeaderSize + from, burst) = Bytes(t)
      BY <2>2, <2>5, <3>1, SignalIdDamaged
    <3>3. record' = Bytes(t)
      BY <2>1, <3>1, <3>2
    <3> QED
      BY <2>3, <2>5, <3>2, <3>3
  <2> QED
    BY <2>1, <2>4, <2>5
<1>4. ASSUME DamageElsewhere
      PROVE  RecordSaysItsSample'
  <2>b. PICK burst \in Burst : \E from \in 0 .. Len(record) - Len(burst) :
          record' = Overwritten(record, from, burst) /\ meant' = {}
    BY <1>4 DEF DamageElsewhere
  <2>1. PICK from \in 0 .. Len(record) - Len(burst) :
          record' = Overwritten(record, from, burst) /\ meant' = {}
    BY <2>b
  <2>2. burst \in Seq(0 .. 255) /\ from \in Nat
    BY BurstsAreBytes
  <2>3. Overwritten(record, from, burst) \in Seq(0 .. 255)
    BY <2>2, OverwrittenIs
  <2> QED
    BY <2>1, <2>3
<1>5. ASSUME Truncate
      PROVE  RecordSaysItsSample'
  <2>1. PICK length \in 0 .. Len(record) - 1 :
          record' = SubSeq(record, 1, length) /\ meant' = {}
    BY <1>5 DEF Truncate
  <2>2. 1 \in 1 .. Len(record) + 1 /\ length \in 1 - 1 .. Len(record)
    BY LenProperties
  <2>3. SubSeq(record, 1, length) \in Seq(0 .. 255)
    BY <2>2, SliceIs
  <2> QED
    BY <2>1, <2>3
<1>6. ASSUME Extend
      PROVE  RecordSaysItsSample'
  <2>1. PICK burst \in Burst : record' = record \o burst /\ meant' = {}
    BY <1>6 DEF Extend
  <2>2. burst \in Seq(0 .. 255)
    BY BurstsAreBytes
  <2>3. record \o burst \in Seq(0 .. 255)
    BY <2>2, ConcatProperties
  <2> QED
    BY <2>1, <2>3
<1>7. CASE UNCHANGED exportVars
  BY <1>7 DEF exportVars
<1> QED
  BY <1>1, <1>2, <1>3, <1>4, <1>5, <1>6, <1>7 DEF ExportNext, Damage

\* Whatever is exported, damaged or refused in between, the stored record is bytes, and is the
\* record of the sample it is known to mean (meant).
THEOREM RecordSaysItsSampleHolds == ExportSpec => []RecordSaysItsSample
<1>1. RecordSaysItsSample /\ [ExportNext]_exportVars => RecordSaysItsSample'
  BY ExportStep
<1> QED
  BY <1>1, ExportInitially, PTL DEF ExportSpec

\* One call of decode, on whatever the record has become.
LEMMA OnlyRecordsReadNow ==
  ASSUME RecordSaysItsSample, ExportNext, call'.op = "decode"
  PROVE  IF call'.status = "Ok"
         THEN /\ record = Bytes(call'.after) /\ IsValidSample(call'.after)
              /\ \A text \in Texts(call'.after) : IsUnicode(text)
         ELSE call'.after = call'.before
<1>1. PICK output \in CallerSample : Decode(output)
  BY DEF ExportNext, Encode, Damage
<1>2. CASE \E status \in {"InvalidArgument", "MalformedRecord", "UnsupportedVersion"} :
             Returns(status, output, output)
  BY <1>2 DEF Returns
<1>3. CASE /\ IsFramed(record) /\ record[5] = kVersion
           /\ \E s \in Decoded(record) : Returns("Ok", output, s)
  <2>1. PICK s \in Decoded(record) : Returns("Ok", output, s)
    BY <1>3
  <2>2. call'.status = "Ok" /\ call'.after = s
    BY <2>1 DEF Returns
  <2>3. record \in Seq(0 .. 255)
    BY DEF RecordSaysItsSample
  <2>4. /\ record = Bytes(s) /\ IsValidSample(s)
        /\ \A text \in Texts(s) : IsUnicode(text)
    BY <1>3, <2>3, DecodedIs
  <2> QED
    BY <2>2, <2>4
<1> QED
  BY <1>1, <1>2, <1>3 DEF Decode

\* One call of decode, on a record that is known to mean a sample.
LEMMA EveryRecordReadsNow ==
  ASSUME RecordSaysItsSample, ExportNext,
         call'.op = "decode", call'.status # "InvalidArgument"
  PROVE  \A s \in meant : call'.status = "Ok" /\ call'.after = s
<1> TAKE s \in meant
<1>1. PICK output \in CallerSample : Decode(output)
  BY DEF ExportNext, Encode, Damage
<1>2. IsMade(s) /\ IsValidSample(s) /\ record = Bytes(s)
  BY DEF RecordSaysItsSample
<1>3. IsFramed(record) /\ record[5] = kVersion /\ Decoded(record) = {s}
  BY <1>2, RecordReads
<1>4. ~Returns("InvalidArgument", output, output)
  BY DEF Returns
<1>5. Returns("Ok", output, s)
  BY <1>1, <1>3, <1>4 DEF Decode
<1> QED
  BY <1>5 DEF Returns

\* Damaged or not, a record decode accepts is exactly the one encode writes of the sample that
\* comes out, with Unicode texts; what it refuses leaves the caller's sample alone
\* (OnlyRecordsRead).
THEOREM OnlyRecordsReadHolds == ExportSpec => OnlyRecordsRead
<1> DEFINE A == call'.op = "decode" =>
                  IF call'.status = "Ok"
                  THEN /\ record = Bytes(call'.after) /\ IsValidSample(call'.after)
                       /\ \A text \in Texts(call'.after) : IsUnicode(text)
                  ELSE call'.after = call'.before
<1>1. RecordSaysItsSample /\ [ExportNext]_exportVars => [A]_exportVars
  BY OnlyRecordsReadNow
<1>2. OnlyRecordsRead <=> [][A]_exportVars
  BY DEF OnlyRecordsRead
<1> QED
  BY <1>1, <1>2, RecordSaysItsSampleHolds, PTL DEF ExportSpec

\* decode returns the very sample encode was given, and the one a record has come to mean by
\* damage within its signal id: it refuses nothing encode can write (EveryRecordReads).
THEOREM EveryRecordReadsHolds == ExportSpec => EveryRecordReads
<1> DEFINE A == call'.op = "decode" /\ call'.status # "InvalidArgument" =>
                  \A s \in meant : call'.status = "Ok" /\ call'.after = s
<1>1. RecordSaysItsSample /\ [ExportNext]_exportVars => [A]_exportVars
  BY EveryRecordReadsNow
<1>2. EveryRecordReads <=> [][A]_exportVars
  BY DEF EveryRecordReads
<1> QED
  BY <1>1, <1>2, RecordSaysItsSampleHolds, PTL DEF ExportSpec

(***************************************************************************)
(* From each number to the next.                                           *)
(***************************************************************************)

\* What holds of zero and goes on from each number to the next holds of all.
LEMMA AllNaturals ==
  ASSUME NEW P, 0 \in P, \A n \in Nat : n \in P => n + 1 \in P
  PROVE  \A n \in Nat : n \in P
<1> DEFINE T == Nat \ P
<1> SUFFICES ASSUME T # {}
             PROVE  FALSE
  OBVIOUS
<1>1. T \subseteq Nat
  OBVIOUS
<1>2. PICK m \in T : \A y \in T : ~(y < m)
  BY <1>1, LeastNatural
<1>3. m \in Nat /\ m \notin P /\ m # 0
  OBVIOUS
<1>4. m - 1 \in Nat /\ m - 1 < m
  BY <1>3
<1>5. m - 1 \in P
  BY <1>2, <1>4
<1>6. (m - 1) + 1 \in P /\ (m - 1) + 1 = m
  BY <1>3, <1>4, <1>5
<1> QED
  BY <1>3, <1>6

(***************************************************************************)
(* Joined sequences, taken apart again.                                    *)
(***************************************************************************)
LEMMA SameLengthSplits ==
  ASSUME NEW S, NEW a \in Seq(S), NEW b \in Seq(S), NEW r \in Seq(S), NEW s \in Seq(S),
         Len(a) = Len(b), a \o r = b \o s
  PROVE  a = b
<1>1. /\ \A i \in 1 .. Len(a) + Len(r) : (a \o r)[i] = IF i <= Len(a) THEN a[i] ELSE r[i - Len(a)]
      /\ \A i \in 1 .. Len(b) + Len(s) : (b \o s)[i] = IF i <= Len(b) THEN b[i] ELSE s[i - Len(b)]
      /\ Len(a) \in Nat /\ Len(r) \in Nat /\ Len(s) \in Nat
  BY ConcatProperties
<1>2. \A i \in 1 .. Len(a) : a[i] = b[i]
  <2> SUFFICES ASSUME NEW i \in 1 .. Len(a)
               PROVE  a[i] = b[i]
    OBVIOUS
  <2>1. i \in 1 .. Len(a) + Len(r) /\ i \in 1 .. Len(b) + Len(s) /\ i <= Len(a) /\ i <= Len(b)
    BY <1>1
  <2> QED
    BY <1>1, <2>1
<1> QED
  BY <1>2, SeqEqual

LEMMA CancelLeft ==
  ASSUME NEW S, NEW a \in Seq(S), NEW r \in Seq(S), NEW s \in Seq(S), a \o r = a \o s
  PROVE  r = s
BY ConcatSimplifications

LEMMA FlattenNone == FlattenSeq(<<>>) = <<>>
BY DEF FlattenSeq

LEMMA FlattenOne ==
  ASSUME NEW S, NEW x \in Seq(S)
  PROVE  FlattenSeq(<<x>>) = x
<1>1. <<x>> \in Seq(Seq(S)) /\ Len(<<x>>) = 1 /\ <<x>>[1] = x
  OBVIOUS
<1>2. PICK j \in [0 .. 1 -> Seq(S)] :
        j[0] = <<>> /\ j[1] = j[0] \o x /\ FlattenSeq(<<x>>) = j[1]
  <2>1. PICK j \in [0 .. Len(<<x>>) -> Seq(S)] :
           /\ j[0] = <<>>
           /\ \A i \in 1 .. Len(<<x>>) : j[i] = j[i - 1] \o <<x>>[i]
           /\ FlattenSeq(<<x>>) = j[Len(<<x>>)]
    BY <1>1, FlattenSteps
  <2>2. 1 \in 1 .. Len(<<x>>) /\ 1 - 1 = 0
    BY <1>1
  <2>3. j[1] = j[0] \o x
    BY <1>1, <2>1, <2>2, Zenon
  <2> QED
    BY <1>1, <2>1, <2>3
<1> QED
  BY <1>2, ConcatEmptySeq

\* The function j lists what the first i of the sequences s join to.
AreJoined(j, s, S) ==
  /\ j \in [0 .. Len(s) -> Seq(S)]
  /\ j[0] = <<>>
  /\ \A i \in 1 .. Len(s) : j[i] = j[i - 1] \o s[i]

LEMMA FlattenIs ==
  ASSUME NEW S, NEW s \in Seq(Seq(S))
  PROVE  \E j : AreJoined(j, s, S) /\ FlattenSeq(s) = j[Len(s)]
BY FlattenSteps DEF AreJoined

\* Sequences that begin alike join alike.
LEMMA JoinedAlike ==
  ASSUME NEW S, NEW s, NEW t, NEW j, NEW k, AreJoined(j, s, S), AreJoined(k, t, S),
         NEW n \in Nat, Len(s) \in Nat, Len(t) \in Nat, n <= Len(s), n <= Len(t),
         \A i \in 1 .. n : s[i] = t[i]
  PROVE  j[n] = k[n]
<1> DEFINE P == {i \in Nat : i <= n => j[i] = k[i]}
<1>1. 0 \in P
  BY DEF AreJoined
<1>2. ASSUME NEW i \in Nat, i \in P
      PROVE  i + 1 \in P
  <2> SUFFICES ASSUME i + 1 <= n
               PROVE  j[i + 1] = k[i + 1]
    OBVIOUS
  <2>1. i <= n /\ i + 1 \in 1 .. n /\ i + 1 \in 1 .. Len(s) /\ i + 1 \in 1 .. Len(t)
        /\ (i + 1) - 1 = i
    OBVIOUS
  <2>2. j[i] = k[i] /\ s[i + 1] = t[i + 1]
    BY <1>2, <2>1
  <2>3. j[i + 1] = j[i] \o s[i + 1] /\ k[i + 1] = k[i] \o t[i + 1]
    BY <2>1 DEF AreJoined
  <2> QED
    BY <2>2, <2>3
<1> HIDE DEF P
<1>3. n \in P
  BY <1>1, <1>2, AllNaturals
<1> QED
  BY <1>3 DEF P

\* The cells a publication is made of.
Cells == Seq(Nat)

LEMMA CellsJoin == \A a, b \in Cells : a \o b \in Cells
BY ConcatProperties DEF Cells

LEMMA CellsAssociate == \A a, b, c \in Cells : (a \o b) \o c = a \o (b \o c)
BY ConcatAssociative DEF Cells

LEMMA CellsCancel == \A a, r, s \in Cells : a \o r = a \o s => r = s
BY CancelLeft DEF Cells

\* What all join to begins with what the first of them join to.
LEMMA JoinedBegins ==
  ASSUME NEW s \in Seq(Cells), NEW j, AreJoined(j, s, Nat), NEW n \in 0 .. Len(s)
  PROVE  \E r \in Cells : j[Len(s)] = j[n] \o r
<1> DEFINE l == Len(s)
           P == {m \in Nat : m <= l => \E r \in Cells : j[l] = j[l - m] \o r}
<1>1. l \in Nat /\ \A i \in 0 .. l : j[i] \in Cells
  <2>1. l \in Nat
    BY LenProperties
  <2>2. j \in [0 .. l -> Cells]
    BY DEF AreJoined, Cells
  <2> QED
    BY <2>1, <2>2
<1>2. \A i \in 1 .. l : j[i] = j[i - 1] \o s[i] /\ s[i] \in Cells
  BY ElementOfSeq DEF AreJoined, Cells
<1> HIDE DEF l
<1>3. 0 \in P
  <2>1. j[l] = j[l - 0] \o <<>> /\ <<>> \in Cells
    BY <1>1, ConcatEmptySeq DEF Cells
  <2> QED
    BY <2>1
<1>4. ASSUME NEW m \in Nat, m \in P
      PROVE  m + 1 \in P
  <2> SUFFICES ASSUME m + 1 <= l
               PROVE  \E r \in Cells : j[l] = j[l - (m + 1)] \o r
    OBVIOUS
  <2>1. PICK r \in Cells : j[l] = j[l - m] \o r
    BY <1>1, <1>4
  <2> DEFINE i == l - m
  <2>2. i \in 1 .. l /\ i - 1 \in 0 .. l /\ l - (m + 1) = i - 1
    BY <1>1
  <2>3. j[i] = j[i - 1] \o s[i] /\ s[i] \in Cells /\ j[i - 1] \in Cells
    BY <1>1, <1>2, <2>2
  <2>4. j[l] = (j[i - 1] \o s[i]) \o r
    BY <2>1, <2>3
  <2> DEFINE a == j[i - 1]
             b == s[i]
  <2> HIDE DEF i
  <2>5. a \in Cells /\ b \in Cells /\ r \in Cells
    BY <2>1, <2>3
  <2> HIDE DEF a, b
  <2>6. (a \o b) \o r = a \o (b \o r)
    BY <2>5, CellsAssociate
  <2>7. b \o r \in Cells
    BY <2>5, CellsJoin
  <2> QED
    BY <2>2, <2>4, <2>6, <2>7 DEF a, b
<1> HIDE DEF P
<1>5. l - n \in Nat /\ l - n <= l /\ l - (l - n) = n
  BY <1>1 DEF l
<1>6. l - n \in P
  BY <1>3, <1>4, <1>5, AllNaturals
<1> QED
  BY <1>5, <1>6 DEF P, l

\* Joining what was joined before is joining all.
LEMMA FlattenJoins ==
  ASSUME NEW S, NEW x \in Seq(Seq(S)), NEW y \in Seq(Seq(S))
  PROVE  FlattenSeq(x \o y) = FlattenSeq(x) \o FlattenSeq(y)
<1> DEFINE z == x \o y
           m == Len(x)
           n == Len(y)
<1>1. /\ z \in Seq(Seq(S)) /\ m \in Nat /\ n \in Nat /\ Len(z) = m + n
      /\ \A i \in 1 .. m + n : z[i] = IF i <= m THEN x[i] ELSE y[i - m]
  BY ConcatProperties
<1>2. PICK j : AreJoined(j, x, S) /\ FlattenSeq(x) = j[m]
  BY FlattenIs
<1>3. PICK k : AreJoined(k, y, S) /\ FlattenSeq(y) = k[n]
  BY FlattenIs
<1> HIDE DEF z
<1>4. PICK l : AreJoined(l, z, S) /\ FlattenSeq(z) = l[m + n]
  BY <1>1, FlattenIs
<1>5. j \in [0 .. m -> Seq(S)] /\ k \in [0 .. n -> Seq(S)] /\ k[0] = <<>>
      /\ \A i \in 1 .. n : k[i] = k[i - 1] \o y[i]
  BY <1>2, <1>3 DEF AreJoined
<1>6. \A i \in 1 .. m + n : l[i] = l[i - 1] \o z[i]
  BY <1>1, <1>4 DEF AreJoined
<1>7. l[m] = j[m]
  <2>1. m <= Len(z) /\ m <= Len(x) /\ Len(z) \in Nat /\ Len(x) \in Nat
    BY <1>1
  <2>2. \A i \in 1 .. m : z[i] = x[i]
    BY <1>1
  <2>3. AreJoined(j, x, S) /\ AreJoined(l, z, S) /\ m \in Nat
    BY <1>1, <1>2, <1>4
  <2> HIDE DEF m, n
  <2> QED
    BY <2>1, <2>2, <2>3, JoinedAlike
<1>8. \A i \in 1 .. n : y[i] \in Seq(S)
  BY ElementOfSeq
<1> HIDE DEF m, n
<1>9. j[m] \in Seq(S) /\ \A i \in 0 .. n : k[i] \in Seq(S)
  BY <1>1, <1>5
<1> DEFINE Q(i) == l[m + i] = j[m] \o k[i]
           P == {i \in Nat : i <= n => Q(i)}
<1>10. Q(0)
  <2>1. j[m] \o <<>> = j[m]
    BY <1>9, ConcatEmptySeq
  <2>2. m + 0 = m
    BY <1>1
  <2> QED
    BY <1>5, <1>7, <2>1, <2>2
<1>11. ASSUME NEW i \in Nat, i + 1 <= n, Q(i)
       PROVE  Q(i + 1)
  <2>1. /\ i \in 0 .. n /\ i + 1 \in 1 .. n /\ m + (i + 1) \in 1 .. m + n
        /\ (m + (i + 1)) - 1 = m + i /\ (m + (i + 1)) - m = i + 1 /\ ~(m + (i + 1) <= m)
        /\ (i + 1) - 1 = i
    BY <1>1, <1>11
  <2>2. z[m + (i + 1)] = y[i + 1]
    BY <1>1, <2>1
  <2>3. l[m + (i + 1)] = l[m + i] \o y[i + 1]
    BY <1>6, <2>1, <2>2
  <2>4. k[i + 1] = k[i] \o y[i + 1] /\ y[i + 1] \in Seq(S) /\ k[i] \in Seq(S)
    BY <1>5, <1>8, <1>9, <2>1
  <2> DEFINE a == j[m]
             b == k[i]
             c == y[i + 1]
  <2>5. a \in Seq(S) /\ b \in Seq(S) /\ c \in Seq(S)
    BY <1>9, <2>4
  <2>6. l[m + (i + 1)] = (a \o b) \o c
    BY <1>11, <2>3
  <2>7. k[i + 1] = b \o c
    BY <2>4
  <2> HIDE DEF a, b, c
  <2>8. (a \o b) \o c = a \o (b \o c)
    BY <2>5, ConcatAssociative, SMTT(40)
  <2> QED
    BY <2>6, <2>7, <2>8 DEF a
<1> HIDE DEF Q
<1>12. n \in P
  <2>1. 0 \in P
    BY <1>10
  <2>2. ASSUME NEW i \in Nat, i \in P
        PROVE  i + 1 \in P
    BY <1>1, <1>11, <2>2
  <2> HIDE DEF P
  <2> QED
    BY <1>1, <2>1, <2>2, AllNaturals
<1>13. Q(n)
  BY <1>1, <1>12
<1> QED
  BY <1>2, <1>3, <1>4, <1>13 DEF Q, z

(***************************************************************************)
(* What the cells of one field tell, whatever follows them.                *)
(***************************************************************************)

LEMMA NoCells == <<>> \in Cells
BY DEF Cells

\* Whatever follows, the cells a and b begin the same publication only if they are the same.
Splits(a, b) == \A r, s \in Cells : a \o r = b \o s => a = b

\* And they are the same only if what they stand for is, x and y.
Tells(a, b, x, y) == a \in Cells /\ b \in Cells /\ Splits(a, b) /\ (a = b => x = y)

LEMMA TellsByLength ==
  ASSUME NEW a \in Cells, NEW b \in Cells, Len(a) = Len(b), NEW x, NEW y, a = b => x = y
  PROVE  Tells(a, b, x, y)
<1>1. Splits(a, b)
  BY SameLengthSplits DEF Splits, Cells
<1> QED
  BY <1>1 DEF Tells

LEMMA TellsSame ==
  ASSUME NEW a \in Cells, NEW x
  PROVE  Tells(a, a, x, x)
BY DEF Tells, Splits

\* The first cell of what two sequences join to is that of the first.
LEMMA FirstCell ==
  ASSUME NEW a \in Cells, NEW r \in Cells, a # <<>>
  PROVE  (a \o r)[1] = a[1]
<1>1. Len(a) \in Nat \ {0} /\ Len(r) \in Nat
  BY EmptySeq DEF Cells
<1>2. 1 \in 1 .. Len(a) + Len(r) /\ 1 <= Len(a)
  BY <1>1
<1> QED
  BY <1>2, ConcatProperties DEF Cells

LEMMA TellsByFirst ==
  ASSUME NEW a \in Cells, NEW b \in Cells, a # <<>>, b # <<>>, a[1] # b[1], NEW x, NEW y
  PROVE  Tells(a, b, x, y)
<1>1. Splits(a, b)
  BY FirstCell DEF Splits
<1> QED
  BY <1>1 DEF Tells

LEMMA TellsJoined ==
  ASSUME NEW a, NEW b, NEW c \in Cells, NEW d \in Cells, NEW x, NEW y, NEW z, NEW w,
         Tells(a, b, x, y), x = y => Tells(c, d, z, w)
  PROVE  Tells(a \o c, b \o d, <<x, z>>, <<y, w>>)
<1>1. a \in Cells /\ b \in Cells
  BY DEF Tells
<1>2. a \o c \in Cells /\ b \o d \in Cells
  BY <1>1, CellsJoin
<1>3. \A r, s \in Cells : a \o r = b \o s => a = b /\ r = s /\ x = y
  <2> SUFFICES ASSUME NEW r \in Cells, NEW s \in Cells, a \o r = b \o s
               PROVE  a = b /\ r = s /\ x = y
    OBVIOUS
  <2>1. a = b /\ x = y
    BY DEF Tells, Splits
  <2>2. r = s
    BY <1>1, <2>1, CellsCancel
  <2> QED
    BY <2>1, <2>2
<1>4. ASSUME NEW r \in Cells, NEW s \in Cells, (a \o c) \o r = (b \o d) \o s
      PROVE  a \o c = b \o d
  <2>1. c \o r \in Cells /\ d \o s \in Cells
    BY CellsJoin
  <2>2. a \o (c \o r) = b \o (d \o s)
    <3>1. (a \o c) \o r = a \o (c \o r)
      BY <1>1, CellsAssociate, SMTT(40)
    <3>2. (b \o d) \o s = b \o (d \o s)
      BY <1>1, CellsAssociate, SMTT(40)
    <3> QED
      BY <1>4, <3>1, <3>2
  <2>3. a = b /\ c \o r = d \o s /\ x = y
    BY <1>3, <2>1, <2>2
  <2>4. c = d
    BY <2>3 DEF Tells, Splits
  <2> QED
    BY <2>3, <2>4
<1>5. a \o c = b \o d => x = y /\ c = d /\ z = w
  BY <1>3 DEF Tells
<1> QED
  BY <1>2, <1>4, <1>5 DEF Tells, Splits

\* The cells u are what follows the first n members of the list c that ends with e.
GoesOn(c, j, e, n, u) ==
  /\ j[Len(c)] \o e = j[n] \o u
  /\ IF n = Len(c) THEN u = e ELSE \E r \in Cells : u = c[n + 1] \o r

LEMMA ListGoesOn ==
  ASSUME NEW c \in Seq(Cells), NEW j, AreJoined(j, c, Nat), NEW e \in Cells,
         NEW n \in 0 .. Len(c)
  PROVE  \E u \in Cells : GoesOn(c, j, e, n, u)
<1>1. /\ Len(c) \in Nat /\ \A i \in 0 .. Len(c) : j[i] \in Cells
      /\ \A i \in 1 .. Len(c) : j[i] = j[i - 1] \o c[i]
      /\ \A i \in 1 .. Len(c) : c[i] \in Cells
  <2>1. Len(c) \in Nat /\ \A i \in 1 .. Len(c) : c[i] \in Cells
    BY LenProperties, ElementOfSeq
  <2>2. j \in [0 .. Len(c) -> Cells] /\ \A i \in 1 .. Len(c) : j[i] = j[i - 1] \o c[i]
    BY DEF AreJoined, Cells
  <2> QED
    BY <2>1, <2>2
<1>2. CASE n = Len(c)
  BY <1>2 DEF GoesOn
<1>3. CASE n # Len(c)
  <2> DEFINE x == j[n]
             y == c[n + 1]
  <2>1. n + 1 \in 1 .. Len(c) /\ n + 1 \in 0 .. Len(c) /\ (n + 1) - 1 = n
    BY <1>1, <1>3
  <2>2. PICK r \in Cells : j[Len(c)] = j[n + 1] \o r
    BY <2>1, JoinedBegins
  <2>3. j[Len(c)] = (x \o y) \o r
    BY <1>1, <2>1, <2>2
  <2>a. x \in Cells /\ y \in Cells /\ r \in Cells
    BY <1>1, <2>1, <2>2
  <2> HIDE DEF x, y
  <2> DEFINE t == r \o e
  <2>4. t \in Cells /\ y \o r \in Cells /\ y \o t \in Cells
    BY <2>a, CellsJoin
  <2>5. (x \o y) \o r = x \o (y \o r)
    BY <2>a, CellsAssociate
  <2>6. (x \o (y \o r)) \o e = x \o ((y \o r) \o e)
    <3> DEFINE v == y \o r
    <3>1. v \in Cells
      BY <2>4
    <3> HIDE DEF v
    <3>2. (x \o v) \o e = x \o (v \o e)
      BY <2>a, <3>1, CellsAssociate, SMTT(40)
    <3> QED
      BY <3>2 DEF v
  <2>7. (y \o r) \o e = y \o t
    BY <2>a, CellsAssociate
  <2>8. j[Len(c)] \o e = x \o (y \o t)
    BY <2>3, <2>5, <2>6, <2>7
  <2> HIDE DEF t
  <2> QED
    BY <1>3, <2>4, <2>8 DEF x, y, GoesOn
<1> QED
  BY <1>2, <1>3

\* Lists whose members tell apart, whichever they are, and none of which begins like their end.
LEMMA ListTells ==
  ASSUME NEW c \in Seq(Cells), NEW d \in Seq(Cells), NEW z \in Nat,
         \A i \in 1 .. Len(c) : i \in 1 .. Len(d) => Splits(c[i], d[i]),
         \A i \in 1 .. Len(c) : c[i] # <<>> /\ c[i][1] # z,
         \A i \in 1 .. Len(d) : d[i] # <<>> /\ d[i][1] # z
  PROVE  Tells(FlattenSeq(c) \o <<z>>, FlattenSeq(d) \o <<z>>, c, d)
<1>1. PICK j : AreJoined(j, c, Nat) /\ FlattenSeq(c) = j[Len(c)]
  BY FlattenIs DEF Cells
<1>2. PICK k : AreJoined(k, d, Nat) /\ FlattenSeq(d) = k[Len(d)]
  BY FlattenIs DEF Cells
<1>3. /\ Len(c) \in Nat /\ \A i \in 1 .. Len(c) : c[i] \in Cells
      /\ Len(d) \in Nat /\ \A i \in 1 .. Len(d) : d[i] \in Cells
  BY LenProperties, ElementOfSeq
<1>4. \A i \in 0 .. Len(c) : j[i] \in Cells
  <2>1. j \in [0 .. Len(c) -> Cells]
    BY <1>1 DEF AreJoined, Cells
  <2> QED
    BY <2>1
<1>5. \A i \in 0 .. Len(d) : k[i] \in Cells
  <2>1. k \in [0 .. Len(d) -> Cells]
    BY <1>2 DEF AreJoined, Cells
  <2> QED
    BY <2>1
<1>6. FlattenSeq(c) \in Cells /\ FlattenSeq(d) \in Cells /\ <<z>> \in Cells
  BY <1>1, <1>2, <1>3, <1>4, <1>5 DEF Cells
<1>7. ASSUME NEW r \in Cells, NEW s \in Cells,
             (FlattenSeq(c) \o <<z>>) \o r = (FlattenSeq(d) \o <<z>>) \o s
      PROVE  c = d
  <2> DEFINE e == <<z>> \o r
             f == <<z>> \o s
  <2>1. e \in Cells /\ f \in Cells /\ e # <<>> /\ f # <<>> /\ e[1] = z /\ f[1] = z
    BY <1>6, CellsJoin, FirstCell, ConcatSimplifications DEF Cells
  <2>2. FlattenSeq(c) \o e = FlattenSeq(d) \o f
    <3>1. (FlattenSeq(c) \o <<z>>) \o r = FlattenSeq(c) \o e
      BY <1>6, CellsAssociate
    <3>2. (FlattenSeq(d) \o <<z>>) \o s = FlattenSeq(d) \o f
      BY <1>6, CellsAssociate
    <3> QED
      BY <1>7, <3>1, <3>2
  <2> HIDE DEF e, f
  <2> DEFINE Same(n) == n <= Len(c) /\ n <= Len(d) /\ \A i \in 1 .. n : c[i] = d[i]
  <2>3. ASSUME NEW n \in Nat, Same(n), c # d
        PROVE  Same(n + 1)
    <3>1. n \in 0 .. Len(c) /\ n \in 0 .. Len(d)
      BY <1>3, <2>3
    <3>2. j[n] = k[n]
      BY <1>1, <1>2, <1>3, <2>3, JoinedAlike
    <3>3. PICK u \in Cells :
            /\ FlattenSeq(c) \o e = j[n] \o u
            /\ IF n = Len(c) THEN u = e ELSE \E t \in Cells : u = c[n + 1] \o t
      <4>1. AreJoined(j, c, Nat) /\ FlattenSeq(c) = j[Len(c)]
        BY <1>1
      <4>2. e \in Cells
        BY <2>1
      <4> QED
        <5>1. \E u \in Cells : GoesOn(c, j, e, n, u)
          BY <3>1, <4>1, <4>2, ListGoesOn
        <5> QED
          BY <4>1, <5>1, Zenon DEF GoesOn
    <3>4. PICK v \in Cells :
            /\ FlattenSeq(d) \o f = k[n] \o v
            /\ IF n = Len(d) THEN v = f ELSE \E t \in Cells : v = d[n + 1] \o t
      <4>1. AreJoined(k, d, Nat) /\ FlattenSeq(d) = k[Len(d)]
        BY <1>2
      <4>2. f \in Cells
        BY <2>1
      <4> QED
        <5>1. \E w \in Cells : GoesOn(d, k, f, n, w)
          BY <3>1, <4>1, <4>2, ListGoesOn
        <5> QED
          BY <4>1, <5>1, Zenon DEF GoesOn
    <3>5. u = v
      <4>1. j[n] \o u = j[n] \o v /\ j[n] \in Cells
        BY <1>4, <2>2, <3>1, <3>2, <3>3, <3>4
      <4> HIDE DEF e, f
      <4> QED
        BY <4>1, CellsCancel
    <3>6. n # Len(c) => n + 1 \in 1 .. Len(c) /\ u[1] # z
      <4> SUFFICES ASSUME n # Len(c)
                   PROVE  n + 1 \in 1 .. Len(c) /\ u[1] # z
        OBVIOUS
      <4>1. n + 1 \in 1 .. Len(c)
        BY <1>3, <3>1
      <4>2. PICK t \in Cells : u = c[n + 1] \o t
        BY <3>3
      <4>3. c[n + 1] \in Cells /\ c[n + 1] # <<>> /\ c[n + 1][1] # z
        BY <1>3, <4>1
      <4> QED
        BY <4>1, <4>2, <4>3, FirstCell
    <3>7. n # Len(d) => n + 1 \in 1 .. Len(d) /\ v[1] # z
      <4> SUFFICES ASSUME n # Len(d)
                   PROVE  n + 1 \in 1 .. Len(d) /\ v[1] # z
        OBVIOUS
      <4>1. n + 1 \in 1 .. Len(d)
        BY <1>3, <3>1
      <4>2. PICK t \in Cells : v = d[n + 1] \o t
        BY <3>4
      <4>3. d[n + 1] \in Cells /\ d[n + 1] # <<>> /\ d[n + 1][1] # z
        BY <1>3, <4>1
      <4> QED
        BY <4>1, <4>2, <4>3, FirstCell
    <3>8. n # Len(c) /\ n # Len(d)
      <4>1. n = Len(c) <=> n = Len(d)
        BY <2>1, <3>3, <3>4, <3>5, <3>6, <3>7
      <4>2. ~(n = Len(c) /\ n = Len(d))
        <5> SUFFICES ASSUME n = Len(c), n = Len(d)
                     PROVE  FALSE
          OBVIOUS
        <5>1. Len(c) = Len(d) /\ \A i \in 1 .. Len(c) : c[i] = d[i]
          BY <2>3
        <5>2. c = d
          BY <5>1, SeqEqual
        <5> QED
          BY <2>3, <5>2
      <4> QED
        BY <4>1, <4>2
    <3>9. c[n + 1] = d[n + 1]
      <4>1. PICK t \in Cells : u = c[n + 1] \o t
        BY <3>3, <3>8
      <4>2. PICK w \in Cells : v = d[n + 1] \o w
        BY <3>4, <3>8
      <4>3. Splits(c[n + 1], d[n + 1])
        BY <3>6, <3>7, <3>8
      <4> QED
        BY <3>5, <4>1, <4>2, <4>3 DEF Splits
    <3>10. \A i \in 1 .. n + 1 : i \in 1 .. n \/ i = n + 1
      OBVIOUS
    <3>11. n + 1 <= Len(c) /\ n + 1 <= Len(d)
      BY <3>6, <3>7, <3>8
    <3> QED
      BY <2>3, <3>9, <3>10, <3>11
  <2> DEFINE P == {n \in Nat : Same(n)}
  <2> SUFFICES ASSUME c # d
               PROVE  FALSE
    OBVIOUS
  <2>4. 0 \in P
    BY <1>3
  <2>5. Len(c) + 1 \notin P /\ Len(c) + 1 \in Nat
    BY <1>3
  <2> HIDE DEF Same
  <2>6. \A n \in Nat : n \in P => n + 1 \in P
    BY <2>3
  <2> HIDE DEF P
  <2> QED
    BY <2>4, <2>5, <2>6, AllNaturals
<1>8. FlattenSeq(c) \o <<z>> \in Cells /\ FlattenSeq(d) \o <<z>> \in Cells
  BY <1>6, CellsJoin
<1>9. FlattenSeq(c) \o <<z>> = FlattenSeq(d) \o <<z>> => c = d
  <2>1. <<>> \in Cells
    BY DEF Cells
  <2> QED
    BY <1>7, <2>1
<1> QED
  BY <1>7, <1>8, <1>9 DEF Tells, Splits

LEMMA TellsAlso ==
  ASSUME NEW a, NEW b, NEW x, NEW y, NEW z, NEW w, Tells(a, b, x, y), x = y => z = w
  PROVE  Tells(a, b, z, w)
BY DEF Tells

\* The chunks are made of the cells.
Makes(chunks, cells) == chunks \in Seq(Cells) /\ cells \in Cells /\ FlattenSeq(chunks) = cells

LEMMA MakesNone == Makes(<<>>, <<>>)
BY FlattenNone DEF Makes, Cells

LEMMA MakesOne ==
  ASSUME NEW a \in Cells
  PROVE  Makes(<<a>>, a)
<1>1. FlattenSeq(<<a>>) = a
  BY FlattenOne DEF Cells
<1>2. <<a>> \in Seq(Cells)
  OBVIOUS
<1> QED
  BY <1>1, <1>2 DEF Makes

LEMMA MakesJoined ==
  ASSUME NEW c, NEW d, NEW a, NEW b, Makes(c, a), Makes(d, b)
  PROVE  Makes(c \o d, a \o b)
<1>1. c \in Seq(Cells) /\ d \in Seq(Cells) /\ a \in Cells /\ b \in Cells
      /\ FlattenSeq(c) = a /\ FlattenSeq(d) = b
  BY DEF Makes
<1>2. FlattenSeq(c \o d) = FlattenSeq(c) \o FlattenSeq(d)
  BY <1>1, FlattenJoins DEF Cells
<1>3. c \o d \in Seq(Cells)
  BY <1>1, ConcatProperties
<1>4. a \o b \in Cells
  BY <1>1, CellsJoin
<1> QED
  BY <1>1, <1>2, <1>3, <1>4 DEF Makes

LEMMA MakesAll ==
  ASSUME NEW c \in Seq(Cells)
  PROVE  Makes(c, FlattenSeq(c))
<1>1. FlattenSeq(c) \in Cells
  BY FlattenType DEF Cells
<1> QED
  BY <1>1 DEF Makes

(***************************************************************************)
(* A quoted text.                                                          *)
(***************************************************************************)
LEMMA CellIs ==
  \A n \in Nat : <<n>> \in Cells /\ <<n>> # <<>> /\ <<n>>[1] = n /\ Len(<<n>>) = 1
BY DEF Cells

LEMMA MarksAre == Quote = 34 /\ Backslash = 92 /\ Quote \in Nat /\ Backslash \in Nat
BY DEF Quote, Backslash

LEMMA LetterIs ==
  /\ DOMAIN Letter = {8, 9, 10, 12, 13}
  /\ Letter[8] = 98 /\ Letter[12] = 102 /\ Letter[10] = 110 /\ Letter[13] = 114 /\ Letter[9] = 116
BY DEF Letter

LEMMA HexDigitIs ==
  ASSUME NEW m \in 0 .. 15, NEW n \in 0 .. 15
  PROVE  /\ HexDigit(m) \in Nat
         /\ HexDigit(m) = HexDigit(n) => m = n
BY DEF HexDigit

\* What follows the backslash of a character that is escaped.
AfterBackslash(c) ==
  IF c \in {34, 92} THEN <<c>>
  ELSE IF c \in DOMAIN Letter THEN <<Letter[c]>>
  ELSE <<117, 48, 48, HexDigit(c \div 16), HexDigit(c % 16)>>

IsEscaped(c) == c = 34 \/ c = 92 \/ c < 32

LEMMA CellBeforeOne == \A a, b : <<a>> \o <<b>> = <<a, b>>
<1> SUFFICES ASSUME NEW a, NEW b
             PROVE  <<a>> \o <<b>> = <<a, b>>
  OBVIOUS
<1> DEFINE S == {a, b}
           l == <<a>>
           r == <<b>>
<1>1. l \in Seq(S) /\ r \in Seq(S) /\ <<a, b>> \in Seq(S)
      /\ Len(l) = 1 /\ Len(r) = 1 /\ Len(<<a, b>>) = 2
      /\ l[1] = a /\ r[1] = b /\ <<a, b>>[1] = a /\ <<a, b>>[2] = b
  OBVIOUS
<1> HIDE DEF S, l, r
<1>2. l \o r \in Seq(S) /\ Len(l \o r) = 2
      /\ \A i \in 1 .. 2 : (l \o r)[i] = IF i <= 1 THEN l[i] ELSE r[i - 1]
  BY <1>1, ConcatProperties
<1>3. \A i \in 1 .. 2 : (l \o r)[i] = <<a, b>>[i]
  BY <1>1, <1>2
<1> QED
  BY <1>1, <1>2, <1>3, SeqEqual DEF l, r

LEMMA CellBeforeFive ==
  \A a, b, c, d, e, f : <<a>> \o <<b, c, d, e, f>> = <<a, b, c, d, e, f>>
<1> SUFFICES ASSUME NEW a, NEW b, NEW c, NEW d, NEW e, NEW f
             PROVE  <<a>> \o <<b, c, d, e, f>> = <<a, b, c, d, e, f>>
  OBVIOUS
<1> DEFINE S == {a, b, c, d, e, f}
           l == <<a>>
           r == <<b, c, d, e, f>>
           t == <<a, b, c, d, e, f>>
<1>1. l \in Seq(S) /\ r \in Seq(S) /\ t \in Seq(S)
      /\ Len(l) = 1 /\ Len(r) = 5 /\ Len(t) = 6
  OBVIOUS
<1>2. l[1] = t[1] /\ r[1] = t[2] /\ r[2] = t[3] /\ r[3] = t[4] /\ r[4] = t[5] /\ r[5] = t[6]
  OBVIOUS
<1> HIDE DEF S, l, r, t
<1>3. l \o r \in Seq(S) /\ Len(l \o r) = 6
      /\ \A i \in 1 .. 6 : (l \o r)[i] = IF i <= 1 THEN l[i] ELSE r[i - 1]
  <2>1. Len(l) + Len(r) = 6
    BY <1>1
  <2>2. l \o r \in Seq(S) /\ Len(l \o r) = Len(l) + Len(r)
        /\ \A i \in 1 .. Len(l) + Len(r) : (l \o r)[i] = IF i <= Len(l) THEN l[i] ELSE r[i - Len(l)]
    <3>1. l \in Seq(S) /\ r \in Seq(S)
      BY <1>1
    <3> QED
      BY <3>1, ConcatProperties
  <2> QED
    BY <1>1, <2>1, <2>2
<1>4. \A i \in 1 .. 6 : (l \o r)[i] = t[i]
  BY <1>2, <1>3
<1> QED
  BY <1>1, <1>3, <1>4, SeqEqual DEF l, r, t

LEMMA EscapedIs ==
  ASSUME NEW c \in 0 .. 255
  PROVE  /\ IsEscaped(c) => Escaped(c) = <<Backslash>> \o AfterBackslash(c)
         /\ ~IsEscaped(c) => Escaped(c) = <<c>>
<1>1. CASE c \in {34, 92}
  <2>1. Escaped(c) = <<92, c>> /\ AfterBackslash(c) = <<c>>
    BY <1>1 DEF Escaped, AfterBackslash, Quote, Backslash
  <2>2. <<92>> \o <<c>> = <<92, c>>
    BY CellBeforeOne
  <2> QED
    BY <1>1, <2>1, <2>2 DEF IsEscaped, Backslash
<1>2. CASE c \notin {34, 92} /\ c \in DOMAIN Letter
  <2>1. c < 32
    BY <1>2, LetterIs
  <2>2. Escaped(c) = <<92, Letter[c]>> /\ AfterBackslash(c) = <<Letter[c]>>
    BY <1>2 DEF Escaped, AfterBackslash, Quote, Backslash
  <2>3. <<92>> \o <<Letter[c]>> = <<92, Letter[c]>>
    BY CellBeforeOne
  <2> QED
    BY <2>1, <2>2, <2>3 DEF IsEscaped, Backslash
<1>3. CASE c \notin {34, 92} /\ c \notin DOMAIN Letter /\ c < 32
  <2> DEFINE h == HexDigit(c \div 16)
             l == HexDigit(c % 16)
  <2>1. Escaped(c) = <<92, 117, 48, 48, h, l>> /\ AfterBackslash(c) = <<117, 48, 48, h, l>>
    BY <1>3 DEF Escaped, AfterBackslash, Quote, Backslash
  <2> HIDE DEF h, l
  <2>2. <<92>> \o <<117, 48, 48, h, l>> = <<92, 117, 48, 48, h, l>>
    BY CellBeforeFive
  <2> QED
    BY <1>3, <2>1, <2>2 DEF IsEscaped, Backslash
<1>4. CASE c \notin {34, 92} /\ c \notin DOMAIN Letter /\ ~(c < 32)
  BY <1>4 DEF Escaped, IsEscaped, Quote, Backslash
<1> QED
  BY <1>1, <1>2, <1>3, <1>4

LEMMA AfterBackslashIs ==
  ASSUME NEW c \in 0 .. 255, IsEscaped(c)
  PROVE  LET b == AfterBackslash(c) IN
         \/ c \in {34, 92} /\ b = <<c>>
         \/ c \in {8, 9, 10, 12, 13} /\ b = <<Letter[c]>>
         \/ /\ c \in 0 .. 31 /\ c \notin {8, 9, 10, 12, 13}
            /\ b = <<117, 48, 48, HexDigit(c \div 16), HexDigit(c % 16)>>
BY LetterIs DEF IsEscaped, AfterBackslash, Quote, Backslash

LEMMA HexSplits ==
  ASSUME NEW c \in 0 .. 31, NEW d \in 0 .. 31
  PROVE  LET b(x) == <<117, 48, 48, HexDigit(x \div 16), HexDigit(x % 16)>> IN
         b(c) \in Cells /\ b(d) \in Cells /\ Tells(b(c), b(d), c, d)
<1> DEFINE b(x) == <<117, 48, 48, HexDigit(x \div 16), HexDigit(x % 16)>>
<1>1. /\ c \div 16 \in 0 .. 15 /\ c % 16 \in 0 .. 15 /\ d \div 16 \in 0 .. 15 /\ d % 16 \in 0 .. 15
      /\ (c \div 16 = d \div 16 /\ c % 16 = d % 16 => c = d)
  OBVIOUS
<1>2. /\ HexDigit(c \div 16) \in Nat /\ HexDigit(c % 16) \in Nat
      /\ HexDigit(d \div 16) \in Nat /\ HexDigit(d % 16) \in Nat
      /\ HexDigit(c \div 16) = HexDigit(d \div 16) => c \div 16 = d \div 16
      /\ HexDigit(c % 16) = HexDigit(d % 16) => c % 16 = d % 16
  BY <1>1, HexDigitIs
<1>3. b(c) \in Cells /\ b(d) \in Cells /\ Len(b(c)) = 5 /\ Len(b(d)) = 5
  BY <1>2 DEF Cells
<1>4. b(c) = b(d) => c = d
  BY <1>1, <1>2
<1> HIDE DEF b
<1>5. Tells(b(c), b(d), c, d)
  BY <1>3, <1>4, TellsByLength
<1> QED
  BY <1>3, <1>5 DEF b

LEMMA AfterBackslashTells ==
  ASSUME NEW c \in 0 .. 255, NEW d \in 0 .. 255, IsEscaped(c), IsEscaped(d)
  PROVE  Tells(AfterBackslash(c), AfterBackslash(d), c, d)
<1> DEFINE IsHex(x) == x \in 0 .. 31 /\ x \notin {8, 9, 10, 12, 13}
           b(x) == <<117, 48, 48, HexDigit(x \div 16), HexDigit(x % 16)>>
           OneOf(x) == IF x \in {34, 92} THEN x ELSE Letter[x]
<1>1. ASSUME NEW x \in 0 .. 255, IsEscaped(x)
      PROVE  \/ IsHex(x) /\ AfterBackslash(x) = b(x)
             \/ /\ x \in {34, 92, 8, 9, 10, 12, 13} /\ AfterBackslash(x) = <<OneOf(x)>>
                /\ OneOf(x) \in Nat /\ OneOf(x) # 117
  BY <1>1, AfterBackslashIs, LetterIs
<1>2. \A x, y \in {34, 92, 8, 9, 10, 12, 13} : OneOf(x) = OneOf(y) => x = y
  BY LetterIs
<1>3. ASSUME NEW x \in 0 .. 31
      PROVE  b(x) \in Cells /\ b(x) # <<>> /\ b(x)[1] = 117
  <2>1. b(x) \in Cells
    BY HexSplits
  <2> DEFINE h == HexDigit(x \div 16)
             l == HexDigit(x % 16)
  <2> HIDE DEF h, l
  <2>2. <<117, 48, 48, h, l>> # <<>> /\ <<117, 48, 48, h, l>>[1] = 117
    OBVIOUS
  <2> QED
    BY <2>1, <2>2 DEF h, l
<1>4. \A n \in Nat : <<n>> \in Cells /\ <<n>> # <<>> /\ <<n>>[1] = n /\ Len(<<n>>) = 1
  BY CellIs
<1> HIDE DEF OneOf, b
<1>5. CASE IsHex(c) /\ AfterBackslash(c) = b(c) /\ IsHex(d) /\ AfterBackslash(d) = b(d)
  BY <1>5, HexSplits DEF b
<1>6. CASE IsHex(c) /\ AfterBackslash(c) = b(c)
           /\ AfterBackslash(d) = <<OneOf(d)>> /\ OneOf(d) \in Nat /\ OneOf(d) # 117
  <2>1. /\ b(c) \in Cells /\ b(c) # <<>> /\ b(c)[1] = 117
        /\ <<OneOf(d)>> \in Cells /\ <<OneOf(d)>> # <<>> /\ <<OneOf(d)>>[1] # 117
    BY <1>3, <1>4, <1>6
  <2> DEFINE p == b(c)
             q == <<OneOf(d)>>
  <2>2. p \in Cells /\ p # <<>> /\ q \in Cells /\ q # <<>> /\ p[1] # q[1]
    BY <2>1
  <2> HIDE DEF p, q
  <2>3. Tells(p, q, c, d)
    BY <2>2, TellsByFirst
  <2> QED
    BY <1>6, <2>3 DEF p, q
<1>7. CASE IsHex(d) /\ AfterBackslash(d) = b(d)
           /\ AfterBackslash(c) = <<OneOf(c)>> /\ OneOf(c) \in Nat /\ OneOf(c) # 117
  <2>1. /\ b(d) \in Cells /\ b(d) # <<>> /\ b(d)[1] = 117
        /\ <<OneOf(c)>> \in Cells /\ <<OneOf(c)>> # <<>> /\ <<OneOf(c)>>[1] # 117
    BY <1>3, <1>4, <1>7
  <2> DEFINE p == <<OneOf(c)>>
             q == b(d)
  <2>2. p \in Cells /\ p # <<>> /\ q \in Cells /\ q # <<>> /\ p[1] # q[1]
    BY <2>1
  <2> HIDE DEF p, q
  <2>3. Tells(p, q, c, d)
    BY <2>2, TellsByFirst
  <2> QED
    BY <1>7, <2>3 DEF p, q
<1>8. CASE /\ c \in {34, 92, 8, 9, 10, 12, 13} /\ AfterBackslash(c) = <<OneOf(c)>> /\ OneOf(c) \in Nat
           /\ d \in {34, 92, 8, 9, 10, 12, 13} /\ AfterBackslash(d) = <<OneOf(d)>> /\ OneOf(d) \in Nat
  <2>1. /\ <<OneOf(c)>> \in Cells /\ Len(<<OneOf(c)>>) = 1
        /\ <<OneOf(d)>> \in Cells /\ Len(<<OneOf(d)>>) = 1
        /\ <<OneOf(c)>> = <<OneOf(d)>> => c = d
    BY <1>2, <1>4, <1>8
  <2> QED
    BY <1>8, <2>1, TellsByLength
<1> HIDE DEF IsHex
<1> QED
  BY <1>1, <1>5, <1>6, <1>7, <1>8

LEMMA EscapedBegins ==
  ASSUME NEW c \in 0 .. 255
  PROVE  /\ Escaped(c) \in Cells /\ Escaped(c) # <<>>
         /\ IsEscaped(c) => Escaped(c)[1] = Backslash
         /\ ~IsEscaped(c) => Escaped(c)[1] = c
<1>1. CASE IsEscaped(c)
  <2> DEFINE l == <<Backslash>>
             r == AfterBackslash(c)
  <2>1. Escaped(c) = l \o r
    BY <1>1, EscapedIs
  <2>2. r \in Cells
    BY <1>1, AfterBackslashTells DEF Tells
  <2>3. l \in Cells /\ l # <<>> /\ l[1] = Backslash
    BY MarksAre, CellIs
  <2> HIDE DEF l, r
  <2>4. l \o r \in Cells /\ (l \o r)[1] = Backslash
    BY <2>2, <2>3, CellsJoin, FirstCell
  <2>5. l \o r # <<>>
    BY <2>2, <2>3, ConcatSimplifications DEF Cells
  <2> QED
    BY <1>1, <2>1, <2>4, <2>5
<1>2. CASE ~IsEscaped(c)
  <2>1. Escaped(c) = <<c>>
    BY <1>2, EscapedIs, Zenon
  <2>2. c \in Nat
    OBVIOUS
  <2> QED
    BY <1>2, <2>1, <2>2, CellIs
<1> QED
  BY <1>1, <1>2

LEMMA EscapedIsNoQuote ==
  ASSUME NEW c \in 0 .. 255
  PROVE  Escaped(c) \in Cells /\ Escaped(c) # <<>> /\ Escaped(c)[1] # Quote
<1>1. Escaped(c) \in Cells /\ Escaped(c) # <<>>
  BY EscapedBegins
<1>2. CASE IsEscaped(c)
  <2>1. Escaped(c)[1] = Backslash
    BY <1>2, EscapedBegins, Zenon
  <2> QED
    BY <1>1, <2>1, MarksAre
<1>3. CASE ~IsEscaped(c)
  <2>1. Escaped(c)[1] = c
    BY <1>3, EscapedBegins
  <2>2. c # Quote
    BY <1>3, MarksAre DEF IsEscaped
  <2> QED
    BY <1>1, <2>1, <2>2
<1> QED
  BY <1>2, <1>3

LEMMA EscapedTells ==
  ASSUME NEW c \in 0 .. 255, NEW d \in 0 .. 255
  PROVE  Tells(Escaped(c), Escaped(d), c, d)
<1>1. CASE IsEscaped(c) /\ IsEscaped(d)
  <2> DEFINE l == <<Backslash>>
             x == AfterBackslash(c)
             y == AfterBackslash(d)
  <2>1. Tells(l, l, 0, 0)
    BY MarksAre, CellIs, TellsSame
  <2>2. Tells(x, y, c, d)
    BY <1>1, AfterBackslashTells
  <2>3. x \in Cells /\ y \in Cells
    BY <2>2 DEF Tells
  <2>4. Escaped(c) = l \o x /\ Escaped(d) = l \o y
    BY <1>1, EscapedIs
  <2> HIDE DEF l, x, y
  <2>5. Tells(l \o x, l \o y, <<0, c>>, <<0, d>>)
    BY <2>1, <2>2, <2>3, TellsJoined
  <2>6. <<0, c>> = <<0, d>> => c = d
    OBVIOUS
  <2>7. Tells(l \o x, l \o y, c, d)
    BY <2>5, <2>6, TellsAlso
  <2> QED
    BY <2>4, <2>7
<1>2. CASE ~(IsEscaped(c) <=> IsEscaped(d))
  <2>1. Escaped(c)[1] # Escaped(d)[1]
    BY <1>2, EscapedBegins, MarksAre DEF IsEscaped
  <2>2. Escaped(c) \in Cells /\ Escaped(c) # <<>> /\ Escaped(d) \in Cells /\ Escaped(d) # <<>>
    BY EscapedBegins
  <2> QED
    BY <2>1, <2>2, TellsByFirst
<1>3. CASE ~IsEscaped(c) /\ ~IsEscaped(d)
  <2>1. /\ <<c>> \in Cells /\ <<d>> \in Cells /\ Len(<<c>>) = Len(<<d>>)
        /\ <<c>> = <<d>> => c = d
    BY CellIs
  <2>2. Tells(<<c>>, <<d>>, c, d)
    BY <2>1, TellsByLength
  <2>3. Escaped(c) = <<c>> /\ Escaped(d) = <<d>>
    BY <1>3, EscapedIs
  <2> QED
    BY <2>2, <2>3
<1> QED
  BY <1>1, <1>2, <1>3

LEMMA OctetsAre ==
  /\ \A x \in Octets : /\ Len(x) \in Nat /\ DOMAIN x = 1 .. Len(x)
                       /\ \A i \in 1 .. Len(x) : x[i] \in 0 .. 255
  /\ \A x, y \in Octets : Len(x) = Len(y) /\ (\A i \in 1 .. Len(x) : x[i] = y[i]) => x = y
<1> DEFINE O == 0 .. 255
<1>1. ASSUME NEW x \in Seq(O)
      PROVE  /\ Len(x) \in Nat /\ DOMAIN x = 1 .. Len(x)
             /\ \A i \in 1 .. Len(x) : x[i] \in O
  <2> HIDE DEF O
  <2> QED
    BY LenProperties, ElementOfSeq
<1>2. ASSUME NEW x \in Seq(O), NEW y \in Seq(O),
             Len(x) = Len(y), \A i \in 1 .. Len(x) : x[i] = y[i]
      PROVE  x = y
  <2> HIDE DEF O
  <2> QED
    BY <1>2, SeqEqual
<1>3. Octets = Seq(O)
  BY DEF Octets
<1> HIDE DEF O
<1>4. \A x \in Octets : \A i \in 1 .. Len(x) : x[i] \in O
  BY <1>1, <1>3
<1> QED
  BY <1>1, <1>2, <1>3, <1>4 DEF O

\* The characters of a text, each as it is written.
Written(text) == [i \in DOMAIN text |-> Escaped(text[i])]

LEMMA WrittenIs ==
  ASSUME NEW text \in Octets
  PROVE  /\ Written(text) \in Seq(Cells) /\ Len(Written(text)) = Len(text)
         /\ \A i \in 1 .. Len(text) : Written(text)[i] = Escaped(text[i]) /\ text[i] \in 0 .. 255
<1>1. Len(text) \in Nat /\ DOMAIN text = 1 .. Len(text)
      /\ \A i \in 1 .. Len(text) : text[i] \in 0 .. 255
  BY OctetsAre
<1>2. \A i \in 1 .. Len(text) : Escaped(text[i]) \in Cells
  BY <1>1, EscapedIsNoQuote
<1>3. Written(text) = [i \in 1 .. Len(text) |-> Escaped(text[i])]
  BY <1>1 DEF Written
<1> DEFINE n == Len(text)
<1> HIDE DEF n
<1>4. Written(text) \in [1 .. n -> Cells] /\ n \in Nat
  BY <1>1, <1>2, <1>3 DEF n
<1>5. Written(text) \in Seq(Cells) /\ Len(Written(text)) = n
  BY <1>4, SeqDef
<1> QED
  BY <1>1, <1>3, <1>5 DEF n

LEMMA QuotedMakes ==
  ASSUME NEW text \in Octets
  PROVE  Makes(Quoted(text), <<Quote>> \o (FlattenSeq(Written(text)) \o <<Quote>>))
<1>1. <<Quote>> \in Cells
  BY MarksAre, CellIs
<1>2. Makes(<< <<Quote>> >>, <<Quote>>)
  BY <1>1, MakesOne
<1>3. Makes(Written(text), FlattenSeq(Written(text)))
  BY WrittenIs, MakesAll
<1> DEFINE c == << <<Quote>> >>
           w == Written(text)
<1>4. c \in Seq(Cells) /\ w \in Seq(Cells)
  BY <1>2, WrittenIs DEF Makes
<1> HIDE DEF c, w
<1>5. (c \o w) \o c = c \o (w \o c)
  BY <1>4, ConcatAssociative
<1>6. Quoted(text) = c \o (w \o c)
  BY <1>5 DEF Quoted, Written, c, w
<1> QED
  BY <1>2, <1>3, <1>6, MakesJoined DEF c, w

LEMMA QuotedTells ==
  ASSUME NEW t \in Octets, NEW u \in Octets
  PROVE  Tells(FlattenSeq(Quoted(t)), FlattenSeq(Quoted(u)), t, u)
<1> DEFINE c == Written(t)
           d == Written(u)
           x == FlattenSeq(c) \o <<Quote>>
           y == FlattenSeq(d) \o <<Quote>>
<1>1. FlattenSeq(Quoted(t)) = <<Quote>> \o x /\ FlattenSeq(Quoted(u)) = <<Quote>> \o y
  BY QuotedMakes DEF Makes
<1>2. /\ c \in Seq(Cells) /\ Len(c) = Len(t)
      /\ \A i \in 1 .. Len(t) : c[i] = Escaped(t[i]) /\ t[i] \in 0 .. 255
  BY WrittenIs
<1>3. /\ d \in Seq(Cells) /\ Len(d) = Len(u)
      /\ \A i \in 1 .. Len(u) : d[i] = Escaped(u[i]) /\ u[i] \in 0 .. 255
  BY WrittenIs
<1> HIDE DEF c, d
<1>4. \A i \in 1 .. Len(c) : c[i] # <<>> /\ c[i][1] # Quote
  BY <1>2, EscapedIsNoQuote
<1>5. \A i \in 1 .. Len(d) : d[i] # <<>> /\ d[i][1] # Quote
  BY <1>3, EscapedIsNoQuote
<1>6. \A i \in 1 .. Len(c) : i \in 1 .. Len(d) => Tells(c[i], d[i], t[i], u[i])
  BY <1>2, <1>3, EscapedTells
<1>7. \A i \in 1 .. Len(c) : i \in 1 .. Len(d) => Splits(c[i], d[i])
  BY <1>6 DEF Tells
<1>8. Tells(x, y, c, d)
  <2>1. Quote \in Nat
    BY DEF Quote
  <2> QED
    BY <1>2, <1>3, <1>4, <1>5, <1>7, <2>1, ListTells
<1>9. c = d => t = u
  <2> SUFFICES ASSUME c = d
               PROVE  t = u
    OBVIOUS
  <2>1. Len(t) = Len(u)
    BY <1>2, <1>3
  <2>2. \A i \in 1 .. Len(t) : t[i] = u[i]
    BY <1>2, <1>3, <1>6, <2>1 DEF Tells
  <2> QED
    BY <2>1, <2>2, OctetsAre
<1>10. Tells(<<Quote>>, <<Quote>>, 0, 0)
  BY MarksAre, CellIs, TellsSame
<1>11. x \in Cells /\ y \in Cells
  BY <1>8 DEF Tells
<1> HIDE DEF x, y
<1>12. Tells(<<Quote>> \o x, <<Quote>> \o y, <<0, c>>, <<0, d>>)
  BY <1>8, <1>10, <1>11, TellsJoined
<1>13. <<0, c>> = <<0, d>> => t = u
  BY <1>9
<1> QED
  BY <1>1, <1>12, <1>13, TellsAlso

(***************************************************************************)
(* The same of the chunks an encoder writes.                               *)
(***************************************************************************)

Chunked == Seq(Cells)

\* The publications that consist of the chunks c and d tell x and y apart.
Tell(c, d, x, y) ==
  c \in Chunked /\ d \in Chunked /\ Tells(FlattenSeq(c), FlattenSeq(d), x, y)

LEMMA ChunkedIs ==
  /\ <<>> \in Chunked
  /\ \A a \in Cells : <<a>> \in Chunked /\ FlattenSeq(<<a>>) = a
  /\ \A c \in Chunked : FlattenSeq(c) \in Cells
<1>1. ASSUME NEW a \in Cells
      PROVE  <<a>> \in Chunked /\ FlattenSeq(<<a>>) = a
  BY MakesOne DEF Makes, Chunked
<1>2. ASSUME NEW c \in Chunked
      PROVE  FlattenSeq(c) \in Cells
  BY MakesAll DEF Makes, Chunked
<1>3. <<>> \in Chunked
  BY DEF Chunked
<1> QED
  BY <1>1, <1>2, <1>3

LEMMA ChunkedJoin ==
  \A c, d \in Chunked : c \o d \in Chunked /\ FlattenSeq(c \o d) = FlattenSeq(c) \o FlattenSeq(d)
BY MakesAll, MakesJoined DEF Makes, Chunked

LEMMA ChunkedAssociate == \A c, d, e \in Chunked : (c \o d) \o e = c \o (d \o e)
BY ConcatAssociative DEF Chunked

LEMMA TellSame ==
  ASSUME NEW c \in Chunked, NEW x
  PROVE  Tell(c, c, x, x)
BY ChunkedIs, TellsSame DEF Tell

LEMMA TellAlso ==
  ASSUME NEW c, NEW d, NEW x, NEW y, NEW z, NEW w, Tell(c, d, x, y), x = y => z = w
  PROVE  Tell(c, d, z, w)
BY TellsAlso DEF Tell

LEMMA TellJoined ==
  ASSUME NEW c, NEW d, NEW e \in Chunked, NEW f \in Chunked, NEW x, NEW y, NEW z, NEW w,
         Tell(c, d, x, y), x = y => Tell(e, f, z, w)
  PROVE  Tell(c \o e, d \o f, <<x, z>>, <<y, w>>)
<1>1. c \in Chunked /\ d \in Chunked
  BY DEF Tell
<1>2. Tells(FlattenSeq(c), FlattenSeq(d), x, y)
  BY DEF Tell
<1>3. x = y => Tells(FlattenSeq(e), FlattenSeq(f), z, w)
  BY DEF Tell
<1>4. FlattenSeq(e) \in Cells /\ FlattenSeq(f) \in Cells
  BY ChunkedIs
<1>5. Tells(FlattenSeq(c) \o FlattenSeq(e), FlattenSeq(d) \o FlattenSeq(f), <<x, z>>, <<y, w>>)
  BY <1>2, <1>3, <1>4, TellsJoined
<1>6. /\ c \o e \in Chunked /\ FlattenSeq(c \o e) = FlattenSeq(c) \o FlattenSeq(e)
      /\ d \o f \in Chunked /\ FlattenSeq(d \o f) = FlattenSeq(d) \o FlattenSeq(f)
  BY <1>1, ChunkedJoin
<1> QED
  BY <1>5, <1>6 DEF Tell

\* What both go on with tells nothing.
LEMMA TellThen ==
  ASSUME NEW c, NEW d, NEW e \in Chunked, NEW x, NEW y, Tell(c, d, x, y)
  PROVE  Tell(c \o e, d \o e, x, y)
<1>1. Tell(e, e, 0, 0)
  BY TellSame
<1>2. Tell(c \o e, d \o e, <<x, 0>>, <<y, 0>>)
  BY <1>1, TellJoined
<1>3. <<x, 0>> = <<y, 0>> => x = y
  OBVIOUS
<1> QED
  BY <1>2, <1>3, TellAlso

\* What one of two begins with tells them apart if the other begins with something else.
LEMMA TellByFirst ==
  ASSUME NEW m \in Nat, NEW n \in Nat, m # n, NEW c \in Chunked, NEW d \in Chunked, NEW x, NEW y
  PROVE  Tell(<< <<m>> >> \o c, << <<n>> >> \o d, x, y)
<1>1. <<m>> \in Cells /\ <<n>> \in Cells /\ <<m>> # <<>> /\ <<n>> # <<>> /\ <<m>>[1] # <<n>>[1]
  BY CellIs
<1>2. Tells(<<m>>, <<n>>, 0, 1)
  BY <1>1, TellsByFirst
<1>3. << <<m>> >> \in Chunked /\ << <<n>> >> \in Chunked
      /\ FlattenSeq(<< <<m>> >>) = <<m>> /\ FlattenSeq(<< <<n>> >>) = <<n>>
  BY <1>1, ChunkedIs
<1>4. Tell(<< <<m>> >>, << <<n>> >>, 0, 1)
  BY <1>2, <1>3 DEF Tell
<1>5. Tell(<< <<m>> >> \o c, << <<n>> >> \o d, <<0, 0>>, <<1, 0>>)
  BY <1>4, TellJoined
<1>6. <<0, 0>> = <<1, 0>> => x = y
  OBVIOUS
<1> QED
  BY <1>5, <1>6, TellAlso

\* A chunk of as many cells.
LEMMA TellByLength ==
  ASSUME NEW a \in Cells, NEW b \in Cells, Len(a) = Len(b), NEW x, NEW y, a = b => x = y
  PROVE  Tell(<<a>>, <<b>>, x, y)
<1>1. Tells(a, b, x, y)
  BY TellsByLength
<1> QED
  BY <1>1, ChunkedIs DEF Tell

(***************************************************************************)
(* The pieces a response is made of.                                       *)
(***************************************************************************)
PieceCell(piece) == 1000 + CHOOSE i \in DOMAIN Pieces : Pieces[i] = piece

FixedPiece == {Pieces[i] : i \in DOMAIN Pieces}

LEMMA FixedPieceIs ==
  ASSUME NEW piece \in FixedPiece
  PROVE  \E i \in DOMAIN Pieces : PieceCell(piece) = 1000 + i /\ Pieces[i] = piece
<1> DEFINE i == CHOOSE i \in DOMAIN Pieces : Pieces[i] = piece
<1>1. i \in DOMAIN Pieces /\ Pieces[i] = piece
  BY DEF FixedPiece
<1>2. PieceCell(piece) = 1000 + i
  BY DEF PieceCell
<1> HIDE DEF i
<1> QED
  BY <1>1, <1>2

LEMMA PieceCellIs == \A piece \in FixedPiece : PieceCell(piece) \in Nat /\ PieceCell(piece) > 1000
<1> SUFFICES ASSUME NEW piece \in FixedPiece
             PROVE  PieceCell(piece) \in Nat /\ PieceCell(piece) > 1000
  OBVIOUS
<1>1. PICK i \in DOMAIN Pieces : PieceCell(piece) = 1000 + i
  BY FixedPieceIs
<1>2. DOMAIN Pieces = 1 .. 22
  BY DEF Pieces
<1>3. i \in 1 .. 22
  BY <1>1, <1>2
<1> QED
  BY <1>1, <1>3

LEMMA PieceIsCell == \A piece \in FixedPiece : PieceCell(piece) \in Nat
BY PieceCellIs

LEMMA LiteralIs ==
  \A piece \in FixedPiece : Literal(piece) \in Chunked /\ Literal(piece) = << <<PieceCell(piece)>> >>
<1> SUFFICES ASSUME NEW piece \in FixedPiece
             PROVE  /\ Literal(piece) \in Chunked
                    /\ Literal(piece) = << <<PieceCell(piece)>> >>
  OBVIOUS
<1>1. Literal(piece) = << <<PieceCell(piece)>> >>
  BY DEF Literal, PieceCell
<1>2. PieceCell(piece) \in Nat
  BY PieceCellIs
<1>3. << <<PieceCell(piece)>> >> \in Chunked
  BY <1>2, CellIs, ChunkedIs
<1> QED
  BY <1>1, <1>3

LEMMA PiecesDiffer ==
  ASSUME NEW p \in FixedPiece, NEW q \in FixedPiece, p # q
  PROVE  PieceCell(p) # PieceCell(q)
<1>1. PICK i \in DOMAIN Pieces : PieceCell(p) = 1000 + i /\ Pieces[i] = p
  BY FixedPieceIs
<1>2. PICK j \in DOMAIN Pieces : PieceCell(q) = 1000 + j /\ Pieces[j] = q
  BY FixedPieceIs
<1>3. \A k \in DOMAIN Pieces : k \in Nat
  BY DEF Pieces
<1>4. i # j
  BY <1>1, <1>2
<1>5. i \in Nat /\ j \in Nat
  BY <1>1, <1>2, <1>3
<1> QED
  BY <1>1, <1>2, <1>4, <1>5

LEMMA PiecesAre ==
  /\ "{profileSelection:" \in FixedPiece /\ ",activeProfileId:" \in FixedPiece /\ ",capabilities:" \in FixedPiece
  /\ "null" \in FixedPiece /\ "[" \in FixedPiece /\ "," \in FixedPiece /\ "]" \in FixedPiece
  /\ "{signalId:" \in FixedPiece /\ ",valueType:" \in FixedPiece /\ ",unit:" \in FixedPiece /\ ",support:" \in FixedPiece
  /\ "}" \in FixedPiece /\ ",samples:[" \in FixedPiece /\ ",value:" \in FixedPiece /\ "true" \in FixedPiece
  /\ "false" \in FixedPiece /\ ",source:" \in FixedPiece /\ ",quality:" \in FixedPiece /\ ",availability:" \in FixedPiece
  /\ ",timestampMs:'" \in FixedPiece /\ "'}" \in FixedPiece /\ "]}" \in FixedPiece
<1>1. \A i \in 1 .. 22 : i \in DOMAIN Pieces
  BY DEF Pieces
<1>2. /\ Pieces[1] = "{profileSelection:" /\ Pieces[2] = ",activeProfileId:"
      /\ Pieces[3] = ",capabilities:" /\ Pieces[4] = "null" /\ Pieces[5] = "[" /\ Pieces[6] = ","
      /\ Pieces[7] = "]" /\ Pieces[8] = "{signalId:" /\ Pieces[9] = ",valueType:"
      /\ Pieces[10] = ",unit:" /\ Pieces[11] = ",support:" /\ Pieces[12] = "}"
      /\ Pieces[13] = ",samples:[" /\ Pieces[14] = ",value:" /\ Pieces[15] = "true"
      /\ Pieces[16] = "false" /\ Pieces[17] = ",source:" /\ Pieces[18] = ",quality:"
      /\ Pieces[19] = ",availability:" /\ Pieces[20] = ",timestampMs:'" /\ Pieces[21] = "'}"
      /\ Pieces[22] = "]}"
  BY DEF Pieces
<1>3. \A i \in 1 .. 22 : Pieces[i] \in FixedPiece
  BY <1>1 DEF FixedPiece
<1>4. /\ Pieces[1] \in FixedPiece /\ Pieces[2] \in FixedPiece /\ Pieces[3] \in FixedPiece /\ Pieces[4] \in FixedPiece
      /\ Pieces[5] \in FixedPiece /\ Pieces[6] \in FixedPiece /\ Pieces[7] \in FixedPiece /\ Pieces[8] \in FixedPiece
      /\ Pieces[9] \in FixedPiece /\ Pieces[10] \in FixedPiece /\ Pieces[11] \in FixedPiece
      /\ Pieces[12] \in FixedPiece /\ Pieces[13] \in FixedPiece /\ Pieces[14] \in FixedPiece
      /\ Pieces[15] \in FixedPiece /\ Pieces[16] \in FixedPiece /\ Pieces[17] \in FixedPiece
      /\ Pieces[18] \in FixedPiece /\ Pieces[19] \in FixedPiece /\ Pieces[20] \in FixedPiece
      /\ Pieces[21] \in FixedPiece /\ Pieces[22] \in FixedPiece
  BY <1>3
<1> HIDE DEF Pieces
<1> QED
  BY <1>2, <1>4, Zenon

LEMMA ThreeJoined == \A a, b, c : (<<a>> \o <<b>>) \o <<c>> = <<a, b, c>>
<1> SUFFICES ASSUME NEW a, NEW b, NEW c
             PROVE  (<<a>> \o <<b>>) \o <<c>> = <<a, b, c>>
  OBVIOUS
<1> DEFINE S == {a, b, c}
           l == <<a, b>>
           r == <<c>>
           t == <<a, b, c>>
<1>1. l \in Seq(S) /\ r \in Seq(S) /\ t \in Seq(S) /\ Len(l) = 2 /\ Len(r) = 1 /\ Len(t) = 3
  OBVIOUS
<1>2. l[1] = t[1] /\ l[2] = t[2] /\ r[1] = t[3]
  OBVIOUS
<1>3. <<a>> \o <<b>> = l
  BY CellBeforeOne
<1> HIDE DEF S, l, r, t
<1>4. l \o r \in Seq(S) /\ Len(l \o r) = Len(l) + Len(r)
      /\ \A i \in 1 .. Len(l) + Len(r) : (l \o r)[i] = IF i <= Len(l) THEN l[i] ELSE r[i - Len(l)]
  <2>1. l \in Seq(S) /\ r \in Seq(S)
    BY <1>1
  <2> QED
    BY <2>1, ConcatProperties
<1>5. \A i \in 1 .. 3 : (l \o r)[i] = t[i]
  BY <1>1, <1>2, <1>4
<1>6. l \o r = t
  <2>1. Len(l \o r) = Len(t) /\ Len(t) = 3
    BY <1>1, <1>4
  <2> QED
    BY <1>1, <1>4, <1>5, <2>1, SeqEqual
<1> QED
  BY <1>3, <1>6 DEF r, t

LEMMA NameTells ==
  ASSUME NEW m \in Nat, NEW n \in Nat
  PROVE  Tell(Name(m), Name(n), m, n)
<1> DEFINE q == << <<Quote>> >>
           a == <<NameCell(m)>>
           b == <<NameCell(n)>>
<1>1. /\ NameCell(m) \in Nat /\ NameCell(n) \in Nat /\ (NameCell(m) = NameCell(n) => m = n)
  BY DEF NameCell
<1>2. a \in Cells /\ b \in Cells /\ Len(a) = Len(b) /\ (a = b => m = n)
  BY <1>1, CellIs
<1>3. q \in Chunked
  BY MarksAre, CellIs, ChunkedIs
<1>4. Name(m) = (q \o <<a>>) \o q /\ Name(n) = (q \o <<b>>) \o q
  BY ThreeJoined DEF Name
<1> HIDE DEF a, b, q
<1>5. Tell(<<a>>, <<b>>, m, n)
  BY <1>2, TellByLength
<1>6. Tell(q, q, 0, 0)
  BY <1>3, TellSame
<1>7. <<a>> \in Chunked /\ <<b>> \in Chunked
  BY <1>5 DEF Tell
<1>8. Tell(q \o <<a>>, q \o <<b>>, <<0, m>>, <<0, n>>)
  BY <1>5, <1>6, <1>7, TellJoined
<1>9. Tell((q \o <<a>>) \o q, (q \o <<b>>) \o q, <<0, m>>, <<0, n>>)
  BY <1>3, <1>8, TellThen
<1>10. <<0, m>> = <<0, n>> => m = n
  OBVIOUS
<1> QED
  BY <1>4, <1>9, <1>10, TellAlso

LEMMA QuotedTell ==
  ASSUME NEW t \in Octets, NEW u \in Octets
  PROVE  Tell(Quoted(t), Quoted(u), t, u)
<1>1. Quoted(t) \in Chunked /\ Quoted(u) \in Chunked
  BY QuotedMakes DEF Makes, Chunked
<1> QED
  BY <1>1, QuotedTells DEF Tell

DigitCells(bytes) == [i \in DOMAIN bytes |-> DigitCell(bytes[i])]

LEMMA DigitCellsAre ==
  ASSUME NEW x \in Octets
  PROVE  /\ DigitCells(x) \in Cells /\ Len(DigitCells(x)) = Len(x)
         /\ \A i \in 1 .. Len(x) : DigitCells(x)[i] = 300 + x[i] /\ x[i] \in 0 .. 255
<1>1. Len(x) \in Nat /\ DOMAIN x = 1 .. Len(x) /\ \A i \in 1 .. Len(x) : x[i] \in 0 .. 255
  BY OctetsAre
<1>2. DigitCells(x) = [i \in 1 .. Len(x) |-> 300 + x[i]]
  BY <1>1 DEF DigitCell, DigitCells
<1> DEFINE n == Len(x)
<1>a. \A i \in 1 .. Len(x) : 300 + x[i] \in Nat
  <2> SUFFICES ASSUME NEW i \in 1 .. Len(x)
               PROVE  300 + x[i] \in Nat
    OBVIOUS
  <2> DEFINE y == x[i]
  <2>1. y \in 0 .. 255
    BY <1>1
  <2> HIDE DEF y
  <2>2. 300 + y \in Nat
    BY <2>1
  <2> QED
    BY <2>2 DEF y
<1>3. DigitCells(x) \in [1 .. n -> Nat] /\ n \in Nat
  BY <1>1, <1>2, <1>a
<1> HIDE DEF n
<1>4. DigitCells(x) \in Cells /\ Len(DigitCells(x)) = n
  BY <1>3, SeqDef DEF Cells
<1> QED
  BY <1>1, <1>2, <1>4 DEF n

LEMMA DigitsTell ==
  ASSUME NEW a \in Octets, NEW b \in Octets, Len(a) = Len(b)
  PROVE  Tell(Digits(a), Digits(b), a, b)
<1> DEFINE cells(x) == DigitCells(x)
<1>1. ASSUME NEW x \in Octets
      PROVE  /\ cells(x) \in Cells /\ Len(cells(x)) = Len(x)
             /\ \A i \in 1 .. Len(x) : cells(x)[i] = 300 + x[i] /\ x[i] \in 0 .. 255
  BY DigitCellsAre
<1>2. Digits(a) = <<cells(a)>> /\ Digits(b) = <<cells(b)>>
  BY DEF Digits, DigitCells
<1>3. cells(a) \in Cells /\ cells(b) \in Cells /\ Len(cells(a)) = Len(cells(b))
  BY <1>1
<1>4. ASSUME cells(a) = cells(b)
      PROVE  a = b
  <2>1. \A i \in 1 .. Len(a) : 300 + a[i] = 300 + b[i] /\ a[i] \in 0 .. 255 /\ b[i] \in 0 .. 255
    <3> HIDE DEF cells
    <3>1. \A i \in 1 .. Len(a) : cells(a)[i] = 300 + a[i] /\ a[i] \in 0 .. 255
      BY <1>1
    <3>2. \A i \in 1 .. Len(a) : cells(b)[i] = 300 + b[i] /\ b[i] \in 0 .. 255
      BY <1>1
    <3> QED
      BY <1>4, <3>1, <3>2
  <2>2. \A i \in 1 .. Len(a) : a[i] = b[i]
    <3> SUFFICES ASSUME NEW i \in 1 .. Len(a)
                 PROVE  a[i] = b[i]
      OBVIOUS
    <3> DEFINE x == a[i]
               y == b[i]
    <3>1. 300 + x = 300 + y /\ x \in 0 .. 255 /\ y \in 0 .. 255
      BY <2>1
    <3> HIDE DEF x, y
    <3>2. x = y
      BY <3>1
    <3> QED
      BY <3>2 DEF x, y
  <2> QED
    BY <2>2, OctetsAre
<1> HIDE DEF cells
<1>5. Tell(<<cells(a)>>, <<cells(b)>>, a, b)
  BY <1>3, <1>4, TellByLength
<1> QED
  BY <1>2, <1>5

(***************************************************************************)
(* The object of a capability and that of a sample.                        *)
(***************************************************************************)
\* The inputs as the assumption types them.
LEMMA CapabilityIs ==
  ASSUME NEW c \in AnyCapability
  PROVE  /\ c.identity \in Octets /\ c.unit \in Octets
         /\ Len(c.identity) \in 0 .. 255 /\ Len(c.unit) \in 0 .. 255
         /\ c.expectedValueType \in 0 .. 3 /\ c.support \in 0 .. 3
         /\ c = [identity |-> c.identity, expectedValueType |-> c.expectedValueType,
                 unit |-> c.unit, support |-> c.support]
<1>1. c.identity \in BoundedText(kMaxSignalIdLength) /\ c.unit \in BoundedText(kMaxUnitLength)
      /\ c.expectedValueType \in VehicleValueType /\ c.support \in 0 .. 3
  BY DEF AnyCapability
<1>2. c = [identity |-> c.identity, expectedValueType |-> c.expectedValueType,
           unit |-> c.unit, support |-> c.support]
  BY DEF AnyCapability
<1>3. ASSUME NEW n \in 0 .. 255, NEW t \in BoundedText(n)
      PROVE  t \in Octets /\ Len(t) \in 0 .. 255
  <2>1. t \in Seq(1 .. 255) /\ Len(t) <= n
    BY DEF BoundedText, Assigns, Characters
  <2>2. 1 .. 255 \subseteq 0 .. 255
    OBVIOUS
  <2>3. t \in Octets
    BY <2>1, <2>2, SequenceIn DEF Octets
  <2> DEFINE l == Len(t)
  <2>4. l \in Nat /\ l <= n
    BY <2>1, <2>3, OctetsAre
  <2> HIDE DEF l
  <2>5. l \in 0 .. 255
    BY <2>4
  <2> QED
    BY <2>3, <2>5 DEF l
<1>4. kMaxSignalIdLength \in 0 .. 255 /\ kMaxUnitLength \in 0 .. 255
  BY LengthsFitOneByte
<1>5. /\ c.identity \in Octets /\ c.unit \in Octets
      /\ Len(c.identity) \in 0 .. 255 /\ Len(c.unit) \in 0 .. 255
  BY <1>1, <1>3, <1>4
<1> QED
  BY <1>1, <1>2, <1>5 DEF VehicleValueType

LEMMA CapabilityObjectTells ==
  ASSUME NEW c \in AnyCapability, NEW d \in AnyCapability
  PROVE  Tell(CapabilityObject(c), CapabilityObject(d), c, d)
<1> DEFINE p1 == Literal("{signalId:")
           p2 == Literal(",valueType:")
           p3 == Literal(",unit:")
           p4 == Literal(",support:")
           p5 == Literal("}")
           a1 == Quoted(c.identity)
           b1 == Quoted(d.identity)
           a2 == Name(c.expectedValueType)
           b2 == Name(d.expectedValueType)
           a3 == Quoted(c.unit)
           b3 == Quoted(d.unit)
           a4 == Name(c.support)
           b4 == Name(d.support)
           v1 == <<0, c.identity>>
           w1 == <<0, d.identity>>
           v2 == <<v1, c.expectedValueType>>
           w2 == <<w1, d.expectedValueType>>
           v3 == <<v2, c.unit>>
           w3 == <<w2, d.unit>>
           v4 == <<v3, c.support>>
           w4 == <<w3, d.support>>
<1>1. p1 \in Chunked /\ p2 \in Chunked /\ p3 \in Chunked /\ p4 \in Chunked /\ p5 \in Chunked
  <2>1. /\ "{signalId:" \in FixedPiece /\ ",valueType:" \in FixedPiece /\ ",unit:" \in FixedPiece
        /\ ",support:" \in FixedPiece /\ "}" \in FixedPiece
    BY PiecesAre
  <2> QED
    BY <2>1, LiteralIs, Zenon
<1>2. /\ Tell(a1, b1, c.identity, d.identity)
      /\ Tell(a3, b3, c.unit, d.unit)
  BY CapabilityIs, QuotedTell
<1>3. /\ Tell(a2, b2, c.expectedValueType, d.expectedValueType)
      /\ Tell(a4, b4, c.support, d.support)
  <2>1. /\ c.expectedValueType \in Nat /\ d.expectedValueType \in Nat
        /\ c.support \in Nat /\ d.support \in Nat
    <3>1. \A i \in 0 .. 3 : i \in Nat
      OBVIOUS
    <3>2. /\ c.expectedValueType \in 0 .. 3 /\ d.expectedValueType \in 0 .. 3
          /\ c.support \in 0 .. 3 /\ d.support \in 0 .. 3
      BY CapabilityIs, Zenon
    <3> QED
      BY <3>1, <3>2, Zenon
  <2> QED
    BY <2>1, NameTells
<1>4. /\ a1 \in Chunked /\ b1 \in Chunked /\ a2 \in Chunked /\ b2 \in Chunked
      /\ a3 \in Chunked /\ b3 \in Chunked /\ a4 \in Chunked /\ b4 \in Chunked
  BY <1>2, <1>3 DEF Tell
<1>5. v4 = w4 => c.identity = d.identity /\ c.expectedValueType = d.expectedValueType
                 /\ c.unit = d.unit /\ c.support = d.support
  OBVIOUS
<1>6. v4 = w4 => c = d
  BY <1>5, CapabilityIs
<1>7. /\ CapabilityObject(c) = p1 \o a1 \o p2 \o a2 \o p3 \o a3 \o p4 \o a4 \o p5
      /\ CapabilityObject(d) = p1 \o b1 \o p2 \o b2 \o p3 \o b3 \o p4 \o b4 \o p5
  BY DEF CapabilityObject
<1> HIDE DEF p1, p2, p3, p4, p5, a1, b1, a2, b2, a3, b3, a4, b4
<1>8. Tell(p1, p1, 0, 0)
  BY <1>1, TellSame
<1>9. Tell(p1 \o a1, p1 \o b1, v1, w1)
  BY <1>2, <1>4, <1>8, TellJoined
<1> HIDE DEF v1, w1
<1>10. Tell(p1 \o a1 \o p2, p1 \o b1 \o p2, v1, w1)
  BY <1>1, <1>9, TellThen
<1>11. Tell(p1 \o a1 \o p2 \o a2, p1 \o b1 \o p2 \o b2, v2, w2)
  BY <1>3, <1>4, <1>10, TellJoined
<1> HIDE DEF v2, w2
<1>12. Tell(p1 \o a1 \o p2 \o a2 \o p3, p1 \o b1 \o p2 \o b2 \o p3, v2, w2)
  BY <1>1, <1>11, TellThen
<1>13. Tell(p1 \o a1 \o p2 \o a2 \o p3 \o a3, p1 \o b1 \o p2 \o b2 \o p3 \o b3, v3, w3)
  BY <1>2, <1>4, <1>12, TellJoined
<1> HIDE DEF v3, w3
<1>14. Tell(p1 \o a1 \o p2 \o a2 \o p3 \o a3 \o p4, p1 \o b1 \o p2 \o b2 \o p3 \o b3 \o p4, v3, w3)
  BY <1>1, <1>13, TellThen
<1>15. Tell(p1 \o a1 \o p2 \o a2 \o p3 \o a3 \o p4 \o a4,
            p1 \o b1 \o p2 \o b2 \o p3 \o b3 \o p4 \o b4, v4, w4)
  BY <1>3, <1>4, <1>14, TellJoined
<1> HIDE DEF v4, w4
<1>16. Tell(p1 \o a1 \o p2 \o a2 \o p3 \o a3 \o p4 \o a4 \o p5,
            p1 \o b1 \o p2 \o b2 \o p3 \o b3 \o p4 \o b4 \o p5, v4, w4)
  BY <1>1, <1>15, TellThen
<1> QED
  BY <1>6, <1>7, <1>16, TellAlso

\* After a fixed piece, a field.
LEMMA TellField ==
  ASSUME NEW c, NEW d, NEW p \in FixedPiece, NEW e, NEW f, NEW x, NEW y, NEW z, NEW w,
         Tell(c, d, x, y), Tell(e, f, z, w)
  PROVE  Tell(c \o Literal(p) \o e, d \o Literal(p) \o f, <<x, z>>, <<y, w>>)
<1>1. Literal(p) \in Chunked
  BY LiteralIs, Zenon
<1>2. e \in Chunked /\ f \in Chunked
  BY DEF Tell
<1> DEFINE l == Literal(p)
<1> HIDE DEF l
<1>3. Tell(c \o l, d \o l, x, y)
  BY <1>1, TellThen DEF l
<1>4. Tell((c \o l) \o e, (d \o l) \o f, <<x, z>>, <<y, w>>)
  BY <1>2, <1>3, TellJoined
<1> QED
  BY <1>4 DEF l

LEMMA LiteralTells ==
  ASSUME NEW p \in FixedPiece, NEW q \in FixedPiece
  PROVE  Tell(Literal(p), Literal(q), p, q)
<1> DEFINE a == <<PieceCell(p)>>
           b == <<PieceCell(q)>>
<1>1. Literal(p) = <<a>> /\ Literal(q) = <<b>>
  BY LiteralIs, Zenon
<1>2. PieceCell(p) \in Nat /\ PieceCell(q) \in Nat /\ (PieceCell(p) = PieceCell(q) => p = q)
  BY PieceCellIs, PiecesDiffer
<1>3. a \in Cells /\ b \in Cells /\ Len(a) = Len(b) /\ (a = b => p = q)
  BY <1>2, CellIs
<1> HIDE DEF a, b
<1>4. Tell(<<a>>, <<b>>, p, q)
  BY <1>3, TellByLength
<1> QED
  BY <1>1, <1>4

\* What is there or not, before a piece that does not begin like it.
LEMMA OptionalTells ==
  ASSUME NEW p \in FixedPiece, NEW q \in FixedPiece, p # q, NEW P \in BOOLEAN, NEW Q \in BOOLEAN,
         NEW c, NEW d, P => c \in Chunked, Q => d \in Chunked, NEW x, NEW y, NEW o,
         P /\ Q => Tell(c, d, x, y)
  PROVE  Tell((IF P THEN Literal(p) \o c ELSE <<>>) \o Literal(q),
              (IF Q THEN Literal(p) \o d ELSE <<>>) \o Literal(q),
              IF P THEN x ELSE o, IF Q THEN y ELSE o)
<1> DEFINE l == Literal(p)
           m == Literal(q)
<1>1. l \in Chunked /\ m \in Chunked
  BY LiteralIs, Zenon
<1>2. l = << <<PieceCell(p)>> >> /\ m = << <<PieceCell(q)>> >>
  BY LiteralIs, Zenon
<1>3. PieceCell(p) \in Nat /\ PieceCell(q) \in Nat /\ PieceCell(p) # PieceCell(q)
  BY PieceCellIs, PiecesDiffer
<1>4. Tell(l, l, 0, 0)
  BY <1>1, TellSame
<1> HIDE DEF l, m
<1>5. <<>> \o m = m /\ m \o <<>> = m /\ <<>> \in Chunked
  BY <1>1, ChunkedIs, ConcatEmptySeq DEF Chunked
<1>6. CASE P /\ Q
  <2>1. Tell(c, d, x, y) /\ c \in Chunked /\ d \in Chunked
    BY <1>6
  <2>2. Tell(l \o c, l \o d, <<0, x>>, <<0, y>>)
    BY <1>4, <2>1, TellJoined
  <2>3. <<0, x>> = <<0, y>> => x = y
    OBVIOUS
  <2>4. Tell(l \o c, l \o d, x, y)
    BY <2>2, <2>3, TellAlso
  <2>5. Tell((l \o c) \o m, (l \o d) \o m, x, y)
    BY <1>1, <2>4, TellThen
  <2> QED
    BY <1>6, <2>5 DEF l, m
<1>7. CASE P /\ ~Q
  <2>1. c \in Chunked
    BY <1>7
  <2>2. (l \o c) \o m = l \o (c \o m) /\ c \o m \in Chunked
    BY <1>1, <2>1, ChunkedAssociate, ChunkedJoin
  <2>3. Tell(l \o (c \o m), m \o <<>>, x, o)
    BY <1>2, <1>3, <1>5, <2>2, TellByFirst
  <2>4. Tell((l \o c) \o m, <<>> \o m, x, o)
    BY <1>5, <2>2, <2>3
  <2> QED
    BY <1>7, <2>4 DEF l, m
<1>8. CASE ~P /\ Q
  <2>1. d \in Chunked
    BY <1>8
  <2>2. (l \o d) \o m = l \o (d \o m) /\ d \o m \in Chunked
    BY <1>1, <2>1, ChunkedAssociate, ChunkedJoin
  <2>3. Tell(m \o <<>>, l \o (d \o m), o, y)
    BY <1>2, <1>3, <1>5, <2>2, TellByFirst
  <2>4. Tell(<<>> \o m, (l \o d) \o m, o, y)
    BY <1>5, <2>2, <2>3
  <2> QED
    BY <1>8, <2>4 DEF l, m
<1>9. CASE ~P /\ ~Q
  <2>1. Tell(<<>> \o m, <<>> \o m, o, o)
    BY <1>1, <1>5, TellSame
  <2> QED
    BY <1>9, <2>1 DEF l, m
<1> QED
  BY <1>6, <1>7, <1>8, <1>9

LEMMA SampleIs ==
  ASSUME NEW s \in AnySample
  PROVE  /\ s.signalId \in Octets /\ s.unit \in Octets /\ s.value \in Octets
         /\ Len(s.signalId) \in 0 .. 255 /\ Len(s.unit) \in 0 .. 255 /\ Len(s.value) \in 0 .. 255
         /\ s.timestamp \in Octets /\ Len(s.timestamp) = 8
         /\ s.valueType \in 0 .. 3
         /\ s.source \in 0 .. 4 /\ s.quality \in 0 .. 2 /\ s.availability \in 0 .. 4
         /\ s.valueType = Numeric => Len(s.value) = 8
         /\ s.valueType = Boolean => s.value \in {<<0>>, <<1>>}
<1>1. IsMade(s)
  BY DEF AnySample
<1>2. IsTyped(s)
  BY <1>1, MadeIs
<1>3. s.value \in ValueOf(s.valueType)
  BY <1>1 DEF IsMade
<1>4. s.valueType = Numeric => s.value \in EightBytes
  BY <1>3 DEF ValueOf, None, Numeric, Boolean, Text
<1>5. s.valueType = Boolean => s.value \in {<<0>>, <<1>>}
  BY <1>3 DEF ValueOf, None, Numeric, Boolean, Text
<1>6. s.valueType = Numeric => Len(s.value) = 8
  BY <1>4, EightBytesAre
<1>7. /\ s.signalId \in Octets /\ s.unit \in Octets /\ s.value \in Octets /\ s.timestamp \in Octets
      /\ Len(s.signalId) <= 255 /\ Len(s.unit) <= 255 /\ Len(s.value) <= 255
      /\ Len(s.timestamp) = 8
  BY <1>2 DEF IsTyped, Octets
<1>8. Len(s.signalId) \in 0 .. 255 /\ Len(s.unit) \in 0 .. 255 /\ Len(s.value) \in 0 .. 255
  <2> DEFINE a == Len(s.signalId)
             b == Len(s.unit)
             c == Len(s.value)
  <2>1. a \in Nat /\ b \in Nat /\ c \in Nat
    BY <1>7, OctetsAre
  <2>2. a <= 255 /\ b <= 255 /\ c <= 255
    BY <1>7
  <2> HIDE DEF a, b, c
  <2>3. a \in 0 .. 255 /\ b \in 0 .. 255 /\ c \in 0 .. 255
    BY <2>1, <2>2
  <2> QED
    BY <2>3 DEF a, b, c
<1>9. /\ s.valueType \in 0 .. 3
      /\ s.source \in 0 .. 4 /\ s.quality \in 0 .. 2 /\ s.availability \in 0 .. 4
  BY <1>2 DEF IsTyped, VehicleValueType, VehicleSource, VehicleQuality, VehicleAvailability
<1> QED
  BY <1>5, <1>6, <1>7, <1>8, <1>9

LEMMA JsonValueTells ==
  ASSUME NEW s \in AnySample, NEW t \in AnySample, HasValue(s), HasValue(t),
         s.valueType = t.valueType
  PROVE  Tell(JsonValue(s), JsonValue(t), s.value, t.value)
<1>1. s.valueType \in 0 .. 3 /\ s.valueType # None
  BY SampleIs DEF HasValue
<1>2. s.value \in Octets /\ t.value \in Octets
  BY SampleIs
<1>3. CASE s.valueType = Numeric
  <2>1. Len(s.value) = Len(t.value)
    BY <1>3, SampleIs
  <2>2. JsonValue(s) = Digits(s.value) /\ JsonValue(t) = Digits(t.value)
    BY <1>3 DEF JsonValue, Numeric, Boolean, Text
  <2> QED
    BY <1>2, <2>1, <2>2, DigitsTell
<1>4. CASE s.valueType = Boolean
  <2> DEFINE p == IF s.value = <<1>> THEN "true" ELSE "false"
             q == IF t.value = <<1>> THEN "true" ELSE "false"
  <2>1. s.value \in {<<0>>, <<1>>} /\ t.value \in {<<0>>, <<1>>}
    BY <1>4, SampleIs
  <2>2. JsonValue(s) = Literal(p) /\ JsonValue(t) = Literal(q)
    BY <1>4 DEF JsonValue, Numeric, Boolean, Text
  <2>3. p \in FixedPiece /\ q \in FixedPiece
    BY PiecesAre
  <2>4. p = q => s.value = t.value
    BY <2>1
  <2> HIDE DEF p, q
  <2>5. Tell(Literal(p), Literal(q), p, q)
    BY <2>3, LiteralTells
  <2> QED
    BY <2>2, <2>4, <2>5, TellAlso
<1>5. CASE s.valueType = Text
  <2>1. JsonValue(s) = Quoted(s.value) /\ JsonValue(t) = Quoted(t.value)
    BY <1>5 DEF JsonValue, Numeric, Boolean, Text
  <2> QED
    BY <1>2, <2>1, QuotedTell
<1> QED
  BY <1>1, <1>3, <1>4, <1>5 DEF None, Numeric, Boolean, Text

\* What the object of a sample shows of its value.
ValueShown(s) == Name(s.valueType) \o Literal(",value:") \o JsonValue(s)

LEMMA ValueShownTells ==
  ASSUME NEW s \in AnySample, NEW t \in AnySample, HasValue(s), HasValue(t)
  PROVE  Tell(ValueShown(s), ValueShown(t), <<s.valueType, s.value>>, <<t.valueType, t.value>>)
<1>1. s.valueType \in Nat /\ t.valueType \in Nat
  <2>1. s.valueType \in 0 .. 3 /\ t.valueType \in 0 .. 3
    BY SampleIs, Zenon
  <2>2. \A i \in 0 .. 3 : i \in Nat
    OBVIOUS
  <2> QED
    BY <2>1, <2>2, Zenon
<1>2. Tell(Name(s.valueType), Name(t.valueType), s.valueType, t.valueType)
  BY <1>1, NameTells
<1> DEFINE l == Literal(",value:")
<1>3. l \in Chunked
  BY PiecesAre, LiteralIs, Zenon
<1>4. JsonValue(s) \in Chunked /\ JsonValue(t) \in Chunked
  BY JsonValueTells DEF Tell
<1>5. s.valueType = t.valueType => Tell(JsonValue(s), JsonValue(t), s.value, t.value)
  BY JsonValueTells
<1> HIDE DEF l
<1>6. Tell(Name(s.valueType) \o l, Name(t.valueType) \o l, s.valueType, t.valueType)
  BY <1>2, <1>3, TellThen
<1> QED
  BY <1>4, <1>5, <1>6, TellJoined DEF ValueShown, l

\* What there is to see of the value of a sample.
ValueSeen(s) == IF HasValue(s) THEN <<s.valueType, s.value>> ELSE <<>>

LEMMA OptionalValueTells ==
  ASSUME NEW s \in AnySample, NEW t \in AnySample
  PROVE  LET shown(u) == IF HasValue(u) THEN Literal(",valueType:") \o ValueShown(u) ELSE <<>>
         IN  Tell(shown(s) \o Literal(",source:"), shown(t) \o Literal(",source:"),
                  ValueSeen(s), ValueSeen(t))
<1>1. HasValue(s) \in BOOLEAN /\ HasValue(t) \in BOOLEAN
  BY DEF HasValue
<1>2. /\ HasValue(s) => ValueShown(s) \in Chunked
      /\ HasValue(t) => ValueShown(t) \in Chunked
  BY ValueShownTells DEF Tell
<1>3. HasValue(s) /\ HasValue(t) =>
        Tell(ValueShown(s), ValueShown(t), <<s.valueType, s.value>>, <<t.valueType, t.value>>)
  BY ValueShownTells
<1>4. ",valueType:" \in FixedPiece /\ ",source:" \in FixedPiece /\ ",valueType:" # ",source:"
  BY PiecesAre
<1> DEFINE P == HasValue(s)
           Q == HasValue(t)
           c == ValueShown(s)
           d == ValueShown(t)
           x == <<s.valueType, s.value>>
           y == <<t.valueType, t.value>>
<1>5. /\ P \in BOOLEAN /\ Q \in BOOLEAN /\ (P => c \in Chunked) /\ (Q => d \in Chunked)
      /\ (P /\ Q => Tell(c, d, x, y))
  BY <1>1, <1>2, <1>3
<1> HIDE DEF P, Q, c, d, x, y
<1>6. Tell((IF P THEN Literal(",valueType:") \o c ELSE <<>>) \o Literal(",source:"),
           (IF Q THEN Literal(",valueType:") \o d ELSE <<>>) \o Literal(",source:"),
           IF P THEN x ELSE <<>>, IF Q THEN y ELSE <<>>)
  BY <1>4, <1>5, OptionalTells
<1> QED
  BY <1>6 DEF P, Q, c, d, x, y, ValueSeen

LEMMA SampleObjectTells ==
  ASSUME NEW s \in AnySample, NEW t \in AnySample
  PROVE  Tell(SampleObject(s), SampleObject(t), SampleView(s), SampleView(t))
<1> DEFINE ps == Literal("{signalId:") \o Quoted(s.signalId) \o Literal(",unit:") \o Quoted(s.unit)
           pt == Literal("{signalId:") \o Quoted(t.signalId) \o Literal(",unit:") \o Quoted(t.unit)
           vs == IF HasValue(s) THEN Literal(",valueType:") \o ValueShown(s) ELSE <<>>
           vt == IF HasValue(t) THEN Literal(",valueType:") \o ValueShown(t) ELSE <<>>
           m == Literal(",source:")
           as == Name(s.source)
           at == Name(t.source)
           bs == Name(s.quality)
           bt == Name(t.quality)
           cs == Name(s.availability)
           ct == Name(t.availability)
           ds == Digits(s.timestamp)
           dt == Digits(t.timestamp)
           v1 == <<0, s.signalId>>
           w1 == <<0, t.signalId>>
           v2 == <<v1, s.unit>>
           w2 == <<w1, t.unit>>
           v3 == <<v2, ValueSeen(s)>>
           w3 == <<w2, ValueSeen(t)>>
           v4 == <<v3, s.source>>
           w4 == <<w3, t.source>>
           v5 == <<v4, s.quality>>
           w5 == <<w4, t.quality>>
           v6 == <<v5, s.availability>>
           w6 == <<w5, t.availability>>
           v7 == <<v6, s.timestamp>>
           w7 == <<w6, t.timestamp>>
<1>1. /\ "{signalId:" \in FixedPiece /\ ",unit:" \in FixedPiece /\ ",source:" \in FixedPiece
      /\ ",quality:" \in FixedPiece /\ ",availability:" \in FixedPiece
      /\ ",timestampMs:'" \in FixedPiece /\ "'}" \in FixedPiece /\ ",valueType:" \in FixedPiece
      /\ ",value:" \in FixedPiece
  BY PiecesAre
<1>2. /\ Tell(Quoted(s.signalId), Quoted(t.signalId), s.signalId, t.signalId)
      /\ Tell(Quoted(s.unit), Quoted(t.unit), s.unit, t.unit)
  BY SampleIs, QuotedTell
<1>3. /\ s.source \in Nat /\ t.source \in Nat /\ s.quality \in Nat /\ t.quality \in Nat
      /\ s.availability \in Nat /\ t.availability \in Nat
  <2>1. /\ s.source \in 0 .. 4 /\ t.source \in 0 .. 4 /\ s.quality \in 0 .. 2 /\ t.quality \in 0 .. 2
        /\ s.availability \in 0 .. 4 /\ t.availability \in 0 .. 4
    BY SampleIs, Zenon
  <2>2. (\A i \in 0 .. 4 : i \in Nat) /\ (\A i \in 0 .. 2 : i \in Nat)
    OBVIOUS
  <2> QED
    BY <2>1, <2>2, Zenon
<1>4. /\ Tell(as, at, s.source, t.source) /\ Tell(bs, bt, s.quality, t.quality)
      /\ Tell(cs, ct, s.availability, t.availability)
  BY <1>3, NameTells
<1>5. Tell(ds, dt, s.timestamp, t.timestamp)
  BY SampleIs, DigitsTell
<1>6. Tell(vs \o m, vt \o m, ValueSeen(s), ValueSeen(t))
  BY OptionalValueTells
<1>7. Literal("{signalId:") \in Chunked /\ m \in Chunked /\ Literal("'}") \in Chunked
  BY <1>1, LiteralIs, Zenon
<1>8. Tell(ps, pt, v2, w2)
  <2>1. Tell(Literal("{signalId:"), Literal("{signalId:"), 0, 0)
    BY <1>7, TellSame
  <2>2. Quoted(s.signalId) \in Chunked /\ Quoted(t.signalId) \in Chunked
    BY <1>2 DEF Tell
  <2>3. Tell(Literal("{signalId:") \o Quoted(s.signalId), Literal("{signalId:") \o Quoted(t.signalId),
             v1, w1)
    BY <1>2, <2>1, <2>2, TellJoined
  <2> HIDE DEF v1, w1
  <2> QED
    BY <1>1, <1>2, <2>3, TellField
<1>9. ps \in Chunked /\ pt \in Chunked
  BY <1>8 DEF Tell
<1>10. ASSUME NEW u \in AnySample
       PROVE  (IF HasValue(u) THEN Literal(",valueType:") \o ValueShown(u) ELSE <<>>) \in Chunked
  <2>1. CASE HasValue(u)
    <3>1. ValueShown(u) \in Chunked /\ Literal(",valueType:") \in Chunked
      BY <1>1, <2>1, ValueShownTells, LiteralIs, Zenon DEF Tell
    <3>2. Literal(",valueType:") \o ValueShown(u) \in Chunked
      BY <3>1, ChunkedJoin
    <3> QED
      BY <2>1, <3>2
  <2>2. CASE ~HasValue(u)
    BY <2>2, ChunkedIs
  <2> QED
    BY <2>1, <2>2
<1>11. vs \in Chunked /\ vt \in Chunked
  BY <1>10
<1>12. ASSUME NEW u \in AnySample
       PROVE  SampleObject(u)
                = ((Literal("{signalId:") \o Quoted(u.signalId) \o Literal(",unit:") \o Quoted(u.unit))
                     \o (IF HasValue(u) THEN Literal(",valueType:") \o ValueShown(u) ELSE <<>>))
                    \o Literal(",source:") \o Name(u.source)
                    \o Literal(",quality:") \o Name(u.quality)
                    \o Literal(",availability:") \o Name(u.availability)
                    \o Literal(",timestampMs:'") \o Digits(u.timestamp) \o Literal("'}")
  <2> DEFINE l == Literal(",valueType:")
             n == Name(u.valueType)
             k == Literal(",value:")
             j == JsonValue(u)
  <2>1. HasValue(u) => ((l \o n) \o k) \o j = l \o ((n \o k) \o j)
    <3> SUFFICES ASSUME HasValue(u)
                 PROVE  ((l \o n) \o k) \o j = l \o ((n \o k) \o j)
      OBVIOUS
    <3>1. l \in Chunked /\ k \in Chunked
      BY <1>1, LiteralIs, Zenon
    <3>2. j \in Chunked
      BY JsonValueTells DEF Tell
    <3>3. n \in Chunked
      <4>1. u.valueType \in 0 .. 3 /\ \A i \in 0 .. 3 : i \in Nat
        BY SampleIs
      <4>2. u.valueType \in Nat
        BY <4>1, Zenon
      <4> QED
        BY <4>2, NameTells DEF Tell
    <3> HIDE DEF l, k, j, n
    <3>4. n \o k \in Chunked
      BY <3>1, <3>3, ChunkedJoin
    <3>5. (l \o n) \o k = l \o (n \o k)
      BY <3>1, <3>3, ChunkedAssociate
    <3> DEFINE h == n \o k
    <3> HIDE DEF h
    <3>6. (l \o h) \o j = l \o (h \o j)
      BY <3>1, <3>2, <3>4, ChunkedAssociate DEF h
    <3> QED
      BY <3>5, <3>6 DEF h
  <2> QED
    BY <2>1 DEF SampleObject, ValueShown
<1>13. v7 = w7 => SampleView(s) = SampleView(t)
  <2>1. v7 = w7 => /\ s.signalId = t.signalId /\ s.unit = t.unit /\ ValueSeen(s) = ValueSeen(t)
                   /\ s.source = t.source /\ s.quality = t.quality
                   /\ s.availability = t.availability /\ s.timestamp = t.timestamp
    OBVIOUS
  <2>2. /\ SampleView(s) = << s.signalId, s.unit, ValueSeen(s), s.source, s.quality,
                              s.availability, s.timestamp >>
        /\ SampleView(t) = << t.signalId, t.unit, ValueSeen(t), t.source, t.quality,
                              t.availability, t.timestamp >>
    BY DEF SampleView, ValueSeen
  <2> QED
    BY <2>1, <2>2
<1>14. SampleObject(s) = ((ps \o vs) \o m) \o as \o Literal(",quality:") \o bs
                     \o Literal(",availability:") \o cs
                     \o Literal(",timestampMs:'") \o ds \o Literal("'}")
  BY <1>12
<1>15. SampleObject(t) = ((pt \o vt) \o m) \o at \o Literal(",quality:") \o bt
                     \o Literal(",availability:") \o ct
                     \o Literal(",timestampMs:'") \o dt \o Literal("'}")
  BY <1>12
<1> HIDE DEF ps, pt, vs, vt, m, as, at, bs, bt, cs, ct, ds, dt
<1>16. (ps \o vs) \o m = ps \o (vs \o m) /\ (pt \o vt) \o m = pt \o (vt \o m)
  <2>1. ps \in Chunked /\ vs \in Chunked /\ pt \in Chunked /\ vt \in Chunked /\ m \in Chunked
    BY <1>7, <1>9, <1>11
  <2>2. (ps \o vs) \o m = ps \o (vs \o m)
    BY <2>1, ChunkedAssociate, ZenonT(40)
  <2>3. (pt \o vt) \o m = pt \o (vt \o m)
    BY <2>1, ChunkedAssociate, ZenonT(40)
  <2> QED
    BY <2>2, <2>3
<1>17. vs \o m \in Chunked /\ vt \o m \in Chunked /\ as \in Chunked /\ at \in Chunked
  BY <1>4, <1>6 DEF Tell
<1> DEFINE us == (ps \o vs) \o m
           ut == (pt \o vt) \o m
<1>18. Tell(us, ut, v3, w3)
  <2> HIDE DEF v2, w2
  <2>1. Tell(ps \o (vs \o m), pt \o (vt \o m), v3, w3)
    BY <1>6, <1>8, <1>17, TellJoined
  <2> QED
    BY <1>16, <2>1
<1> HIDE DEF us, ut, v3, w3
<1>19. Tell(us \o as, ut \o at, v4, w4)
  BY <1>4, <1>17, <1>18, TellJoined
<1> HIDE DEF v4, w4
<1>20. Tell(us \o as \o Literal(",quality:") \o bs, ut \o at \o Literal(",quality:") \o bt, v5, w5)
  BY <1>1, <1>4, <1>19, TellField
<1> HIDE DEF v5, w5
<1>21. Tell(us \o as \o Literal(",quality:") \o bs \o Literal(",availability:") \o cs,
            ut \o at \o Literal(",quality:") \o bt \o Literal(",availability:") \o ct, v6, w6)
  BY <1>1, <1>4, <1>20, TellField
<1> HIDE DEF v6, w6
<1>22. Tell(us \o as \o Literal(",quality:") \o bs \o Literal(",availability:") \o cs
               \o Literal(",timestampMs:'") \o ds,
            ut \o at \o Literal(",quality:") \o bt \o Literal(",availability:") \o ct
               \o Literal(",timestampMs:'") \o dt, v7, w7)
  BY <1>1, <1>5, <1>21, TellField
<1> HIDE DEF v7, w7
<1>23. Tell(us \o as \o Literal(",quality:") \o bs \o Literal(",availability:") \o cs
               \o Literal(",timestampMs:'") \o ds \o Literal("'}"),
            ut \o at \o Literal(",quality:") \o bt \o Literal(",availability:") \o ct
               \o Literal(",timestampMs:'") \o dt \o Literal("'}"), v7, w7)
  BY <1>7, <1>22, TellThen
<1>24. Tell(SampleObject(s), SampleObject(t), v7, w7)
  BY <1>14, <1>15, <1>23 DEF us, ut
<1> QED
  BY <1>13, <1>24, TellAlso

(***************************************************************************)
(* Lists of objects.                                                       *)
(***************************************************************************)

\* Joining lists of chunks and then the chunks is joining what each list joins to.
LEMMA FlattenTwice ==
  ASSUME NEW xs \in Seq(Chunked), NEW ws \in Seq(Cells), Len(ws) = Len(xs),
         \A i \in 1 .. Len(xs) : ws[i] = FlattenSeq(xs[i])
  PROVE  FlattenSeq(xs) \in Chunked /\ FlattenSeq(FlattenSeq(xs)) = FlattenSeq(ws)
<1>1. PICK j : AreJoined(j, xs, Cells) /\ FlattenSeq(xs) = j[Len(xs)]
  BY FlattenIs DEF Chunked
<1>2. PICK k : AreJoined(k, ws, Nat) /\ FlattenSeq(ws) = k[Len(ws)]
  BY FlattenIs DEF Cells
<1> DEFINE l == Len(xs)
<1>3. l \in Nat /\ \A i \in 1 .. l : xs[i] \in Chunked
  BY LenProperties, ElementOfSeq
<1>4. /\ j[0] = <<>> /\ \A i \in 0 .. l : j[i] \in Chunked
      /\ \A i \in 1 .. l : j[i] = j[i - 1] \o xs[i]
  <2>1. j \in [0 .. l -> Chunked] /\ j[0] = <<>> /\ \A i \in 1 .. l : j[i] = j[i - 1] \o xs[i]
    BY <1>1 DEF AreJoined, Chunked
  <2> QED
    BY <2>1
<1>5. k[0] = <<>> /\ \A i \in 1 .. l : k[i] = k[i - 1] \o ws[i]
  BY <1>2 DEF AreJoined
<1>6. \A i \in 1 .. l : ws[i] = FlattenSeq(xs[i])
  OBVIOUS
<1>7. FlattenSeq(xs) = j[l] /\ FlattenSeq(ws) = k[l]
  BY <1>1, <1>2
<1> HIDE DEF l
<1> DEFINE Q(i) == FlattenSeq(j[i]) = k[i]
           P == {i \in Nat : i <= l => Q(i)}
<1>8. Q(0)
  BY <1>4, <1>5, FlattenNone
<1>9. ASSUME NEW i \in Nat, i + 1 <= l, Q(i)
      PROVE  Q(i + 1)
  <2>1. i \in 0 .. l /\ i + 1 \in 1 .. l /\ (i + 1) - 1 = i
    BY <1>3, <1>9
  <2> DEFINE a == j[i]
             b == xs[i + 1]
  <2>2. j[i + 1] = a \o b /\ k[i + 1] = FlattenSeq(a) \o FlattenSeq(b)
    BY <1>4, <1>5, <1>6, <1>9, <2>1
  <2>3. a \in Chunked /\ b \in Chunked
    BY <1>3, <1>4, <2>1
  <2> HIDE DEF a, b
  <2>4. FlattenSeq(a \o b) = FlattenSeq(a) \o FlattenSeq(b)
    BY <2>3, ChunkedJoin
  <2> QED
    BY <2>2, <2>4
<1> HIDE DEF Q
<1>10. l \in P
  <2>1. 0 \in P
    BY <1>8
  <2>2. ASSUME NEW i \in Nat, i \in P
        PROVE  i + 1 \in P
    BY <1>3, <1>9, <2>2
  <2> HIDE DEF P
  <2> QED
    BY <1>3, <2>1, <2>2, AllNaturals
<1>11. Q(l)
  BY <1>3, <1>10
<1>12. j[l] \in Chunked
  BY <1>3, <1>4
<1> QED
  BY <1>7, <1>11, <1>12 DEF Q

\* The chunks c begin with the cell n.
Begins(c, n) == c \in Chunked /\ FlattenSeq(c) # <<>> /\ FlattenSeq(c)[1] = n

LEMMA BeginsJoined ==
  \A n : \A c, d : Begins(c, n) /\ d \in Chunked => Begins(c \o d, n)
<1> SUFFICES ASSUME NEW n, NEW c, NEW d \in Chunked, Begins(c, n)
             PROVE  Begins(c \o d, n)
  OBVIOUS
<1> DEFINE a == FlattenSeq(c)
           b == FlattenSeq(d)
<1>1. c \o d \in Chunked /\ FlattenSeq(c \o d) = a \o b
  BY ChunkedJoin DEF Begins
<1>2. a \in Cells /\ b \in Cells /\ a # <<>> /\ a[1] = n
  BY ChunkedIs DEF Begins
<1> HIDE DEF a, b
<1>3. (a \o b)[1] = n
  BY <1>2, FirstCell
<1>4. a \o b # <<>>
  BY <1>2, ConcatSimplifications DEF Cells
<1> QED
  BY <1>1, <1>3, <1>4 DEF Begins

LEMMA LiteralBegins == \A p \in FixedPiece : Begins(Literal(p), PieceCell(p))
<1> SUFFICES ASSUME NEW p \in FixedPiece
             PROVE  Begins(Literal(p), PieceCell(p))
  OBVIOUS
<1> DEFINE a == <<PieceCell(p)>>
<1>1. Literal(p) = <<a>> /\ Literal(p) \in Chunked
  BY LiteralIs, Zenon
<1>2. PieceCell(p) \in Nat
  BY PieceCellIs
<1>3. a \in Cells /\ a # <<>> /\ a[1] = PieceCell(p)
  BY <1>2, CellIs
<1> HIDE DEF a
<1>4. FlattenSeq(<<a>>) = a
  BY <1>3, ChunkedIs
<1> QED
  BY <1>1, <1>3, <1>4 DEF Begins

\* A member of a list with what separates it from those before it.
Member(objects, i) == (IF i = 1 THEN <<>> ELSE Literal(",")) \o objects[i]

\* The cells each member brings.
Words(objects) == [i \in 1 .. Len(objects) |-> FlattenSeq(Member(objects, i))]

LEMMA SeparatedIs ==
  ASSUME NEW objects \in Seq(Chunked)
  PROVE  /\ Separated(objects, Len(objects)) \in Chunked
         /\ FlattenSeq(Separated(objects, Len(objects))) = FlattenSeq(Words(objects))
         /\ Words(objects) \in Seq(Cells) /\ Len(Words(objects)) = Len(objects)
         /\ \A i \in 1 .. Len(objects) : Words(objects)[i] = FlattenSeq(Member(objects, i))
                                         /\ Member(objects, i) \in Chunked
<1> DEFINE n == Len(objects)
           xs == [i \in 1 .. n |-> Member(objects, i)]
<1>1. n \in Nat /\ \A i \in 1 .. n : objects[i] \in Chunked
  BY LenProperties, ElementOfSeq
<1>2. Literal(",") \in Chunked /\ <<>> \in Chunked
  BY PiecesAre, LiteralIs, ChunkedIs
<1>3. ASSUME NEW i \in 1 .. n
      PROVE  Member(objects, i) \in Chunked
  <2> DEFINE a == IF i = 1 THEN <<>> ELSE Literal(",")
             b == objects[i]
  <2>1. a \in Chunked /\ b \in Chunked
    BY <1>1, <1>2
  <2>2. Member(objects, i) = a \o b
    BY DEF Member
  <2> HIDE DEF a, b
  <2> QED
    BY <2>1, <2>2, ChunkedJoin
<1>4. \A i \in 1 .. n : FlattenSeq(Member(objects, i)) \in Cells
  BY <1>3, ChunkedIs
<1>5. Separated(objects, n) = FlattenSeq(xs)
  BY DEF Separated, Member
<1>6. \A i \in 1 .. n : xs[i] = Member(objects, i)
  OBVIOUS
<1> HIDE DEF n
<1>7. xs \in [1 .. n -> Chunked] /\ Words(objects) \in [1 .. n -> Cells]
      /\ \A i \in 1 .. n : Words(objects)[i] = FlattenSeq(Member(objects, i))
  BY <1>3, <1>4 DEF Words, n
<1>8. xs \in Seq(Chunked) /\ Len(xs) = n
  BY <1>1, <1>7, SeqDef
<1>9. Words(objects) \in Seq(Cells) /\ Len(Words(objects)) = n
  BY <1>1, <1>7, SeqDef
<1> HIDE DEF xs
<1>10. FlattenSeq(xs) \in Chunked /\ FlattenSeq(FlattenSeq(xs)) = FlattenSeq(Words(objects))
  <2>1. \A i \in 1 .. Len(xs) : Words(objects)[i] = FlattenSeq(xs[i])
    BY <1>6, <1>7, <1>8
  <2>2. Len(Words(objects)) = Len(xs)
    BY <1>8, <1>9
  <2> QED
    BY <1>8, <1>9, <2>1, <2>2, FlattenTwice
<1> QED
  BY <1>3, <1>5, <1>7, <1>9, <1>10 DEF n

\* Lists of objects that are ended by one and the same piece.
LEMMA SeparatedTells ==
  ASSUME NEW xs \in Seq(Chunked), NEW ys \in Seq(Chunked), NEW v, NEW w,
         \A i \in 1 .. Len(xs) : i \in 1 .. Len(ys) => Tell(xs[i], ys[i], v[i], w[i]),
         \A i \in 1 .. Len(xs) : Begins(xs[i], PieceCell("{signalId:")),
         \A i \in 1 .. Len(ys) : Begins(ys[i], PieceCell("{signalId:")),
         NEW p \in FixedPiece, p # ",", p # "{signalId:", NEW x, NEW y,
         Len(xs) = Len(ys) /\ (\A i \in 1 .. Len(xs) : v[i] = w[i]) => x = y
  PROVE  Tell(Separated(xs, Len(xs)) \o Literal(p), Separated(ys, Len(ys)) \o Literal(p), x, y)
<1> DEFINE c == Words(xs)
           d == Words(ys)
           z == PieceCell(p)
           s == Separated(xs, Len(xs))
           t == Separated(ys, Len(ys))
<1>1. /\ "," \in FixedPiece /\ "{signalId:" \in FixedPiece
  BY PiecesAre
<1>2. /\ z \in Nat /\ PieceCell(",") # z /\ PieceCell("{signalId:") # z
  <2>1. z \in Nat
    BY PieceIsCell, Zenon
  <2>2. PieceCell(",") # PieceCell(p)
    BY <1>1, PiecesDiffer
  <2>3. PieceCell("{signalId:") # PieceCell(p)
    BY <1>1, PiecesDiffer
  <2> QED
    BY <2>1, <2>2, <2>3
<1>3. /\ c \in Seq(Cells) /\ Len(c) = Len(xs) /\ s \in Chunked /\ FlattenSeq(s) = FlattenSeq(c)
      /\ \A i \in 1 .. Len(xs) : c[i] = FlattenSeq(Member(xs, i)) /\ Member(xs, i) \in Chunked
  BY SeparatedIs
<1>4. /\ d \in Seq(Cells) /\ Len(d) = Len(ys) /\ t \in Chunked /\ FlattenSeq(t) = FlattenSeq(d)
      /\ \A i \in 1 .. Len(ys) : d[i] = FlattenSeq(Member(ys, i)) /\ Member(ys, i) \in Chunked
  BY SeparatedIs
<1> HIDE DEF c, d, z, s, t
<1>5. ASSUME NEW us \in Seq(Chunked), NEW i \in 1 .. Len(us), Begins(us[i], PieceCell("{signalId:"))
      PROVE  Begins(Member(us, i), PieceCell("{signalId:")) \/ Begins(Member(us, i), PieceCell(","))
  <2>1. us[i] \in Chunked
    BY <1>5 DEF Begins
  <2>2. CASE i = 1
    <3>1. Member(us, i) = us[i]
      BY <2>1, <2>2, ConcatEmptySeq DEF Member, Chunked
    <3> QED
      BY <1>5, <3>1
  <2>3. CASE i # 1
    <3>1. Member(us, i) = Literal(",") \o us[i]
      BY <2>3 DEF Member
    <3>2. Begins(Literal(","), PieceCell(","))
      BY <1>1, LiteralBegins
    <3> QED
      BY <2>1, <3>1, <3>2, BeginsJoined
  <2> QED
    BY <2>2, <2>3
<1>6. \A i \in 1 .. Len(c) : c[i] # <<>> /\ c[i][1] # z
  <2> SUFFICES ASSUME NEW i \in 1 .. Len(xs)
               PROVE  FlattenSeq(Member(xs, i)) # <<>> /\ FlattenSeq(Member(xs, i))[1] # z
    BY <1>3
  <2>1. Begins(Member(xs, i), PieceCell("{signalId:")) \/ Begins(Member(xs, i), PieceCell(","))
    BY <1>5
  <2> QED
    BY <1>2, <2>1 DEF Begins
<1>7. \A i \in 1 .. Len(d) : d[i] # <<>> /\ d[i][1] # z
  <2> SUFFICES ASSUME NEW i \in 1 .. Len(ys)
               PROVE  FlattenSeq(Member(ys, i)) # <<>> /\ FlattenSeq(Member(ys, i))[1] # z
    BY <1>4
  <2>1. Begins(Member(ys, i), PieceCell("{signalId:")) \/ Begins(Member(ys, i), PieceCell(","))
    BY <1>5
  <2> QED
    BY <1>2, <2>1 DEF Begins
<1>8. ASSUME NEW i \in 1 .. Len(xs), i \in 1 .. Len(ys)
      PROVE  Tell(Member(xs, i), Member(ys, i), v[i], w[i])
  <2> DEFINE m == IF i = 1 THEN <<>> ELSE Literal(",")
             a == xs[i]
             b == ys[i]
  <2>1. Tell(a, b, v[i], w[i])
    BY <1>8
  <2>2. a \in Chunked /\ b \in Chunked
    BY <2>1 DEF Tell
  <2>3. m \in Chunked
    BY <1>1, LiteralIs, ChunkedIs
  <2>4. Member(xs, i) = m \o a /\ Member(ys, i) = m \o b
    BY DEF Member
  <2> HIDE DEF m, a, b
  <2>5. Tell(m, m, 0, 0)
    BY <2>3, TellSame
  <2>6. Tell(m \o a, m \o b, <<0, v[i]>>, <<0, w[i]>>)
    BY <2>1, <2>2, <2>5, TellJoined
  <2>7. <<0, v[i]>> = <<0, w[i]>> => v[i] = w[i]
    OBVIOUS
  <2>8. Tell(m \o a, m \o b, v[i], w[i])
    BY <2>6, <2>7, TellAlso
  <2> QED
    BY <2>4, <2>8
<1>9. \A i \in 1 .. Len(c) : i \in 1 .. Len(d) => Tells(c[i], d[i], v[i], w[i])
  BY <1>3, <1>4, <1>8 DEF Tell
<1>10. \A i \in 1 .. Len(c) : i \in 1 .. Len(d) => Splits(c[i], d[i])
  BY <1>9 DEF Tells
<1>11. Tells(FlattenSeq(c) \o <<z>>, FlattenSeq(d) \o <<z>>, c, d)
  BY <1>2, <1>3, <1>4, <1>6, <1>7, <1>10, ListTells
<1>12. c = d => x = y
  <2> SUFFICES ASSUME c = d
               PROVE  x = y
    OBVIOUS
  <2>1. Len(xs) = Len(ys)
    BY <1>3, <1>4
  <2>2. \A i \in 1 .. Len(xs) : v[i] = w[i]
    BY <1>3, <1>9, <2>1 DEF Tells
  <2> QED
    BY <2>1, <2>2
<1>13. Tells(FlattenSeq(c) \o <<z>>, FlattenSeq(d) \o <<z>>, x, y)
  BY <1>11, <1>12, TellsAlso
<1> DEFINE l == Literal(p)
<1>14. l \in Chunked /\ FlattenSeq(l) = <<z>>
  <2>1. l = << <<z>> >> /\ l \in Chunked
    BY LiteralIs, Zenon DEF z
  <2>2. <<z>> \in Cells
    BY <1>2, CellIs
  <2> QED
    BY <2>1, <2>2, ChunkedIs
<1> HIDE DEF l
<1>15. /\ s \o l \in Chunked /\ FlattenSeq(s \o l) = FlattenSeq(c) \o <<z>>
       /\ t \o l \in Chunked /\ FlattenSeq(t \o l) = FlattenSeq(d) \o <<z>>
  <2>1. s \in Chunked /\ t \in Chunked /\ l \in Chunked
    BY <1>3, <1>4, <1>14
  <2>2. /\ s \o l \in Chunked /\ FlattenSeq(s \o l) = FlattenSeq(s) \o FlattenSeq(l)
        /\ t \o l \in Chunked /\ FlattenSeq(t \o l) = FlattenSeq(t) \o FlattenSeq(l)
    BY <2>1, ChunkedJoin
  <2> QED
    BY <1>3, <1>4, <1>14, <2>2
<1>16. Tell(s \o l, t \o l, x, y)
  BY <1>13, <1>15 DEF Tell
<1> QED
  BY <1>16 DEF s, t, l

LEMMA NamesAreChunks == \A n \in Nat : Name(n) \in Chunked
BY NameTells DEF Tell

LEMMA QuotedAreChunked == \A text \in Octets : Quoted(text) \in Chunked
BY QuotedTell DEF Tell

LEMMA DigitsAreChunked == \A bytes \in Octets : Digits(bytes) \in Chunked
BY DigitsTell DEF Tell

LEMMA CapabilityObjectBegins ==
  \A c \in AnyCapability : Begins(CapabilityObject(c), PieceCell("{signalId:"))
<1> SUFFICES ASSUME NEW c \in AnyCapability
             PROVE  Begins(CapabilityObject(c), PieceCell("{signalId:"))
  OBVIOUS
<1> DEFINE p1 == Literal("{signalId:")
           p2 == Literal(",valueType:")
           p3 == Literal(",unit:")
           p4 == Literal(",support:")
           p5 == Literal("}")
           a1 == Quoted(c.identity)
           a2 == Name(c.expectedValueType)
           a3 == Quoted(c.unit)
           a4 == Name(c.support)
           n == PieceCell("{signalId:")
<1>1. p2 \in Chunked /\ p3 \in Chunked /\ p4 \in Chunked /\ p5 \in Chunked
  <2>1. /\ ",valueType:" \in FixedPiece /\ ",unit:" \in FixedPiece
        /\ ",support:" \in FixedPiece /\ "}" \in FixedPiece
    BY PiecesAre
  <2> QED
    BY <2>1, LiteralIs, Zenon
<1>2. Begins(p1, n)
  BY PiecesAre, LiteralBegins
<1>3. a1 \in Chunked /\ a3 \in Chunked
  BY CapabilityIs, QuotedAreChunked
<1>4. a2 \in Chunked /\ a4 \in Chunked
  <2>1. \A i \in 0 .. 3 : i \in Nat
    OBVIOUS
  <2>2. c.expectedValueType \in 0 .. 3 /\ c.support \in 0 .. 3
    BY CapabilityIs, Zenon
  <2> QED
    BY <2>1, <2>2, NamesAreChunks, Zenon
<1>5. CapabilityObject(c) = p1 \o a1 \o p2 \o a2 \o p3 \o a3 \o p4 \o a4 \o p5
  BY DEF CapabilityObject
<1> HIDE DEF p1, p2, p3, p4, p5, a1, a2, a3, a4, n
<1>6. Begins(p1 \o a1 \o p2 \o a2, n)
  BY <1>1, <1>2, <1>3, <1>4, BeginsJoined
<1>7. Begins(p1 \o a1 \o p2 \o a2 \o p3 \o a3 \o p4 \o a4 \o p5, n)
  BY <1>1, <1>3, <1>4, <1>6, BeginsJoined
<1> QED
  BY <1>5, <1>7 DEF n

LEMMA SampleObjectBegins ==
  \A s \in AnySample : Begins(SampleObject(s), PieceCell("{signalId:"))
<1> SUFFICES ASSUME NEW s \in AnySample
             PROVE  Begins(SampleObject(s), PieceCell("{signalId:"))
  OBVIOUS
<1> DEFINE p1 == Literal("{signalId:")
           p2 == Literal(",unit:")
           p3 == Literal(",source:")
           p4 == Literal(",quality:")
           p5 == Literal(",availability:")
           p6 == Literal(",timestampMs:'")
           p7 == Literal("'}")
           a1 == Quoted(s.signalId)
           a2 == Quoted(s.unit)
           a3 == IF HasValue(s)
                 THEN Literal(",valueType:") \o Name(s.valueType)
                        \o Literal(",value:") \o JsonValue(s)
                 ELSE <<>>
           a4 == Name(s.source)
           a5 == Name(s.quality)
           a6 == Name(s.availability)
           a7 == Digits(s.timestamp)
           n == PieceCell("{signalId:")
<1>1. /\ p2 \in Chunked /\ p3 \in Chunked /\ p4 \in Chunked /\ p5 \in Chunked
      /\ p6 \in Chunked /\ p7 \in Chunked
  <2>1. /\ ",unit:" \in FixedPiece /\ ",source:" \in FixedPiece /\ ",quality:" \in FixedPiece
        /\ ",availability:" \in FixedPiece /\ ",timestampMs:'" \in FixedPiece
        /\ "'}" \in FixedPiece
    BY PiecesAre
  <2> QED
    BY <2>1, LiteralIs, Zenon
<1>2. Begins(p1, n)
  BY PiecesAre, LiteralBegins
<1>3. a1 \in Chunked /\ a2 \in Chunked /\ a7 \in Chunked
  BY SampleIs, QuotedAreChunked, DigitsAreChunked
<1>4. a4 \in Chunked /\ a5 \in Chunked /\ a6 \in Chunked /\ Name(s.valueType) \in Chunked
  <2>1. /\ \A i \in 0 .. 2 : i \in Nat
        /\ \A i \in 0 .. 3 : i \in Nat
        /\ \A i \in 0 .. 4 : i \in Nat
    OBVIOUS
  <2>2. /\ s.source \in 0 .. 4 /\ s.quality \in 0 .. 2 /\ s.availability \in 0 .. 4
        /\ s.valueType \in 0 .. 3
    BY SampleIs, Zenon
  <2> QED
    BY <2>1, <2>2, NamesAreChunks, Zenon
<1>5. a3 \in Chunked
  <2>1. CASE HasValue(s)
    <3> DEFINE l == Literal(",valueType:")
               k == Literal(",value:")
               m == Name(s.valueType)
               j == JsonValue(s)
    <3>1. l \in Chunked /\ k \in Chunked
      BY PiecesAre, LiteralIs, Zenon
    <3>2. m \in Chunked /\ j \in Chunked
      BY <1>4, <2>1, JsonValueTells DEF Tell
    <3>3. a3 = ((l \o m) \o k) \o j
      BY <2>1
    <3> HIDE DEF l, k, m, j, a3
    <3> QED
      BY <3>1, <3>2, <3>3, ChunkedJoin
  <2>2. CASE ~HasValue(s)
    BY <2>2, ChunkedIs
  <2> QED
    BY <2>1, <2>2
<1>6. SampleObject(s) = p1 \o a1 \o p2 \o a2 \o a3 \o p3 \o a4 \o p4 \o a5 \o p5 \o a6 \o p6 \o a7 \o p7
  BY DEF SampleObject
<1> HIDE DEF p1, p2, p3, p4, p5, p6, p7, a1, a2, a3, a4, a5, a6, a7, n
<1>7. Begins(p1 \o a1 \o p2 \o a2 \o a3, n)
  BY <1>1, <1>2, <1>3, <1>5, BeginsJoined
<1>8. Begins(p1 \o a1 \o p2 \o a2 \o a3 \o p3 \o a4 \o p4 \o a5, n)
  BY <1>1, <1>4, <1>7, BeginsJoined
<1>9. Begins(p1 \o a1 \o p2 \o a2 \o a3 \o p3 \o a4 \o p4 \o a5 \o p5 \o a6 \o p6 \o a7 \o p7, n)
  BY <1>1, <1>3, <1>4, <1>8, BeginsJoined
<1> QED
  BY <1>6, <1>9 DEF n

\* The objects of a list.
CapabilityObjects(list) == [i \in DOMAIN list |-> CapabilityObject(list[i])]
SampleObjects(list)     == [i \in DOMAIN list |-> SampleObject(list[i])]

LEMMA ObjectsAre ==
  /\ \A list \in Seq(AnyCapability) :
       /\ CapabilityObjects(list) \in Seq(Chunked) /\ Len(CapabilityObjects(list)) = Len(list)
       /\ \A i \in 1 .. Len(list) : /\ CapabilityObjects(list)[i] = CapabilityObject(list[i])
                                    /\ list[i] \in AnyCapability
  /\ \A list \in Seq(AnySample) :
       /\ SampleObjects(list) \in Seq(Chunked) /\ Len(SampleObjects(list)) = Len(list)
       /\ \A i \in 1 .. Len(list) : /\ SampleObjects(list)[i] = SampleObject(list[i])
                                    /\ list[i] \in AnySample
<1>1. ASSUME NEW list \in Seq(AnyCapability)
      PROVE  /\ CapabilityObjects(list) \in Seq(Chunked)
             /\ Len(CapabilityObjects(list)) = Len(list)
             /\ \A i \in 1 .. Len(list) : /\ CapabilityObjects(list)[i] = CapabilityObject(list[i])
                                          /\ list[i] \in AnyCapability
  <2> DEFINE n == Len(list)
  <2>1. n \in Nat /\ DOMAIN list = 1 .. n /\ \A i \in 1 .. n : list[i] \in AnyCapability
    BY LenProperties, ElementOfSeq
  <2>2. \A i \in 1 .. n : CapabilityObject(list[i]) \in Chunked
    BY <2>1, CapabilityObjectBegins DEF Begins
  <2>3. CapabilityObjects(list) = [i \in 1 .. n |-> CapabilityObject(list[i])]
    BY <2>1 DEF CapabilityObjects
  <2> HIDE DEF n
  <2>4. CapabilityObjects(list) \in [1 .. n -> Chunked]
    BY <2>2, <2>3
  <2>5. CapabilityObjects(list) \in Seq(Chunked) /\ Len(CapabilityObjects(list)) = n
    BY <2>1, <2>4, SeqDef
  <2> QED
    BY <2>1, <2>3, <2>5 DEF n
<1>2. ASSUME NEW list \in Seq(AnySample)
      PROVE  /\ SampleObjects(list) \in Seq(Chunked)
             /\ Len(SampleObjects(list)) = Len(list)
             /\ \A i \in 1 .. Len(list) : /\ SampleObjects(list)[i] = SampleObject(list[i])
                                          /\ list[i] \in AnySample
  <2> DEFINE n == Len(list)
  <2>1. n \in Nat /\ DOMAIN list = 1 .. n /\ \A i \in 1 .. n : list[i] \in AnySample
    BY LenProperties, ElementOfSeq
  <2>2. \A i \in 1 .. n : SampleObject(list[i]) \in Chunked
    BY <2>1, SampleObjectBegins DEF Begins
  <2>3. SampleObjects(list) = [i \in 1 .. n |-> SampleObject(list[i])]
    BY <2>1 DEF SampleObjects
  <2> HIDE DEF n
  <2>4. SampleObjects(list) \in [1 .. n -> Chunked]
    BY <2>2, <2>3
  <2>5. SampleObjects(list) \in Seq(Chunked) /\ Len(SampleObjects(list)) = n
    BY <2>1, <2>4, SeqDef
  <2> QED
    BY <2>1, <2>3, <2>5 DEF n
<1> QED
  BY <1>1, <1>2

LEMMA CapabilitiesTell ==
  ASSUME NEW a \in Seq(AnyCapability), NEW b \in Seq(AnyCapability)
  PROVE  Tell(Separated(CapabilityObjects(a), Len(a)) \o Literal("]"),
              Separated(CapabilityObjects(b), Len(b)) \o Literal("]"), a, b)
<1> DEFINE xs == CapabilityObjects(a)
           ys == CapabilityObjects(b)
<1>1. /\ xs \in Seq(Chunked) /\ Len(xs) = Len(a)
      /\ \A i \in 1 .. Len(a) : xs[i] = CapabilityObject(a[i]) /\ a[i] \in AnyCapability
  BY ObjectsAre
<1>2. /\ ys \in Seq(Chunked) /\ Len(ys) = Len(b)
      /\ \A i \in 1 .. Len(b) : ys[i] = CapabilityObject(b[i]) /\ b[i] \in AnyCapability
  BY ObjectsAre
<1> HIDE DEF xs, ys
<1>3. \A i \in 1 .. Len(xs) : i \in 1 .. Len(ys) => Tell(xs[i], ys[i], a[i], b[i])
  BY <1>1, <1>2, CapabilityObjectTells
<1>4. \A i \in 1 .. Len(xs) : Begins(xs[i], PieceCell("{signalId:"))
  BY <1>1, CapabilityObjectBegins
<1>5. \A i \in 1 .. Len(ys) : Begins(ys[i], PieceCell("{signalId:"))
  BY <1>2, CapabilityObjectBegins
<1>6. Len(xs) = Len(ys) /\ (\A i \in 1 .. Len(xs) : a[i] = b[i]) => a = b
  BY <1>1, <1>2, SeqEqual
<1>7. "]" \in FixedPiece /\ "]" # "," /\ "]" # "{signalId:"
  BY PiecesAre
<1>8. Tell(Separated(xs, Len(xs)) \o Literal("]"), Separated(ys, Len(ys)) \o Literal("]"), a, b)
  <2> DEFINE p == "]"
  <2>1. p \in FixedPiece /\ p # "," /\ p # "{signalId:"
    BY <1>7
  <2> HIDE DEF p
  <2>2. Tell(Separated(xs, Len(xs)) \o Literal(p), Separated(ys, Len(ys)) \o Literal(p), a, b)
    BY <1>1, <1>2, <1>3, <1>4, <1>5, <1>6, <2>1, SeparatedTells
  <2> QED
    BY <2>2 DEF p
<1> QED
  BY <1>1, <1>2, <1>8 DEF xs, ys

Views(list) == [i \in DOMAIN list |-> SampleView(list[i])]

LEMMA SamplesTell ==
  ASSUME NEW a \in Seq(AnySample), NEW b \in Seq(AnySample)
  PROVE  Tell(Separated(SampleObjects(a), Len(a)) \o Literal("]}"),
              Separated(SampleObjects(b), Len(b)) \o Literal("]}"), Views(a), Views(b))
<1> DEFINE xs == SampleObjects(a)
           ys == SampleObjects(b)
           v == Views(a)
           w == Views(b)
<1>1. /\ xs \in Seq(Chunked) /\ Len(xs) = Len(a)
      /\ \A i \in 1 .. Len(a) : xs[i] = SampleObject(a[i]) /\ a[i] \in AnySample
  BY ObjectsAre
<1>2. /\ ys \in Seq(Chunked) /\ Len(ys) = Len(b)
      /\ \A i \in 1 .. Len(b) : ys[i] = SampleObject(b[i]) /\ b[i] \in AnySample
  BY ObjectsAre
<1>3. /\ v = [i \in 1 .. Len(a) |-> SampleView(a[i])]
      /\ w = [i \in 1 .. Len(b) |-> SampleView(b[i])]
  BY LenProperties DEF Views
<1> HIDE DEF xs, ys, v, w
<1>4. \A i \in 1 .. Len(xs) : i \in 1 .. Len(ys) => Tell(xs[i], ys[i], v[i], w[i])
  BY <1>1, <1>2, <1>3, SampleObjectTells
<1>5. \A i \in 1 .. Len(xs) : Begins(xs[i], PieceCell("{signalId:"))
  BY <1>1, SampleObjectBegins
<1>6. \A i \in 1 .. Len(ys) : Begins(ys[i], PieceCell("{signalId:"))
  BY <1>2, SampleObjectBegins
<1>7. Len(xs) = Len(ys) /\ (\A i \in 1 .. Len(xs) : v[i] = w[i]) => v = w
  BY <1>1, <1>2, <1>3
<1>8. Tell(Separated(xs, Len(xs)) \o Literal("]}"), Separated(ys, Len(ys)) \o Literal("]}"), v, w)
  <2> DEFINE p == "]}"
  <2>1. p \in FixedPiece /\ p # "," /\ p # "{signalId:"
    BY PiecesAre
  <2> HIDE DEF p
  <2>2. Tell(Separated(xs, Len(xs)) \o Literal(p), Separated(ys, Len(ys)) \o Literal(p), v, w)
    BY <1>1, <1>2, <1>4, <1>5, <1>6, <1>7, <2>1, SeparatedTells
  <2> QED
    BY <2>2 DEF p
<1> QED
  BY <1>1, <1>2, <1>8 DEF xs, ys, v, w

(***************************************************************************)
(* The whole response.                                                     *)
(***************************************************************************)

\* A response as the assumption types what it is made of, and valid.
IsPublished(input) ==
  /\ input.metadata \in AnyMetadata /\ IsConsistent(input.metadata)
  /\ input.capabilities \in Seq(AnyCapability)
  /\ input.samples \in Seq(AnySample)
  /\ Len(input.capabilities) = input.metadata.capabilityCount
  /\ Len(input.samples) = input.metadata.sampleCount

ResponseTo(input) == Response(input.metadata, input.capabilities, input.samples)

LEMMA IdentityIs ==
  ASSUME NEW m \in AnyMetadata
  PROVE  /\ m.activeIdentity \in Octets
         /\ m.activeIdentity # <<>> => Len(m.activeIdentity) = 4
         /\ m.selectionState \in 0 .. 3 /\ m.hasCapabilityRegistry \in BOOLEAN
         /\ m.capabilityCount \in Nat /\ m.sampleCount \in Nat
         /\ m = [selectionState |-> m.selectionState, activeIdentity |-> m.activeIdentity,
                 hasCapabilityRegistry |-> m.hasCapabilityRegistry,
                 capabilityCount |-> m.capabilityCount, sampleCount |-> m.sampleCount]
<1>1. m.activeIdentity = <<>> \/ m.activeIdentity \in [1 .. 4 -> 0 .. 255]
  BY DEF AnyMetadata
<1>2. ASSUME NEW id \in [1 .. 4 -> 0 .. 255]
      PROVE  id \in Octets /\ Len(id) = 4
  <2> DEFINE O == 0 .. 255
             n == 4
  <2>1. n \in Nat /\ id \in [1 .. n -> O]
    OBVIOUS
  <2> HIDE DEF O, n
  <2>2. id \in Seq(O) /\ Len(id) = n
    BY <2>1, SeqDef
  <2> QED
    BY <2>2 DEF O, n, Octets
<1>3. <<>> \in Octets
  BY DEF Octets
<1>4. m.activeIdentity \in Octets /\ (m.activeIdentity # <<>> => Len(m.activeIdentity) = 4)
  BY <1>1, <1>2, <1>3, Zenon
<1>5. /\ m.selectionState \in 0 .. 3 /\ m.hasCapabilityRegistry \in BOOLEAN
      /\ m.capabilityCount \in Nat /\ m.sampleCount \in Nat
  BY DEF AnyMetadata
<1>6. m = [selectionState |-> m.selectionState, activeIdentity |-> m.activeIdentity,
           hasCapabilityRegistry |-> m.hasCapabilityRegistry,
           capabilityCount |-> m.capabilityCount, sampleCount |-> m.sampleCount]
  BY DEF AnyMetadata
<1> QED
  BY <1>4, <1>5, <1>6

\* The capabilities as a response lists them, or that there is no registry.
CapabilityList(m, list) ==
  IF ~m.hasCapabilityRegistry THEN Literal("null")
  ELSE Literal("[") \o Separated(CapabilityObjects(list), Len(list)) \o Literal("]")

LEMMA CapabilityListTells ==
  ASSUME NEW m \in AnyMetadata, NEW n \in AnyMetadata, IsConsistent(m), IsConsistent(n),
         NEW a \in Seq(AnyCapability), NEW b \in Seq(AnyCapability),
         Len(a) = m.capabilityCount, Len(b) = n.capabilityCount
  PROVE  Tell(CapabilityList(m, a), CapabilityList(n, b),
              <<m.hasCapabilityRegistry, a>>, <<n.hasCapabilityRegistry, b>>)
<1> DEFINE P == m.hasCapabilityRegistry
           Q == n.hasCapabilityRegistry
           sa == Separated(CapabilityObjects(a), Len(a))
           sb == Separated(CapabilityObjects(b), Len(b))
           l == Literal("[")
           r == Literal("]")
           o == Literal("null")
           x == <<P, a>>
           y == <<Q, b>>
<1>1. P \in BOOLEAN /\ Q \in BOOLEAN
  BY IdentityIs
<1>2. Tell(sa \o r, sb \o r, a, b)
  BY CapabilitiesTell
<1>3. sa \in Chunked /\ sb \in Chunked /\ sa \o r \in Chunked /\ sb \o r \in Chunked
  BY <1>2, ObjectsAre, SeparatedIs DEF Tell
<1>4. /\ "[" \in FixedPiece /\ "]" \in FixedPiece /\ "null" \in FixedPiece /\ "[" # "null"
  BY PiecesAre
<1>5. /\ l \in Chunked /\ r \in Chunked /\ o \in Chunked
  BY <1>4, LiteralIs, Zenon
<1>6. l = << <<PieceCell("[")>> >> /\ o = << <<PieceCell("null")>> >>
  BY <1>4, LiteralIs, Zenon
<1>7. PieceCell("[") \in Nat /\ PieceCell("null") \in Nat /\ PieceCell("[") # PieceCell("null")
  BY <1>4, PieceCellIs, PiecesDiffer
<1>8. ~P => a = <<>>
  BY EmptySeq DEF IsConsistent
<1>9. ~Q => b = <<>>
  BY EmptySeq DEF IsConsistent
<1>10. CapabilityList(m, a) = IF ~P THEN o ELSE (l \o sa) \o r
  BY DEF CapabilityList
<1>11. CapabilityList(n, b) = IF ~Q THEN o ELSE (l \o sb) \o r
  BY DEF CapabilityList
<1>12. x = y <=> P = Q /\ a = b
  OBVIOUS
<1> HIDE DEF P, Q, sa, sb, l, r, o, x, y
<1>13. (l \o sa) \o r = l \o (sa \o r) /\ (l \o sb) \o r = l \o (sb \o r)
  <2>1. l \in Chunked /\ r \in Chunked /\ sa \in Chunked /\ sb \in Chunked
    BY <1>3, <1>5
  <2>2. (l \o sa) \o r = l \o (sa \o r)
    BY <2>1, ChunkedAssociate
  <2>3. (l \o sb) \o r = l \o (sb \o r)
    BY <2>1, ChunkedAssociate
  <2> QED
    BY <2>2, <2>3
<1>14. o \o <<>> = o /\ <<>> \in Chunked
  BY <1>5, ChunkedIs, ConcatEmptySeq DEF Chunked
<1>15. CASE P /\ Q
  <2>1. Tell(l, l, 0, 0)
    BY <1>5, TellSame
  <2>2. Tell(l \o (sa \o r), l \o (sb \o r), <<0, a>>, <<0, b>>)
    BY <1>2, <1>3, <2>1, TellJoined
  <2>3. <<0, a>> = <<0, b>> => x = y
    BY <1>1, <1>12, <1>15
  <2>4. Tell(l \o (sa \o r), l \o (sb \o r), x, y)
    BY <2>2, <2>3, TellAlso
  <2> QED
    BY <1>10, <1>11, <1>13, <1>15, <2>4 DEF P, Q, x, y
<1>16. CASE ~P /\ Q
  <2>1. Tell(o \o <<>>, l \o (sb \o r), x, y)
    BY <1>3, <1>6, <1>7, <1>14, TellByFirst
  <2> QED
    BY <1>10, <1>11, <1>13, <1>14, <1>16, <2>1 DEF P, Q, x, y
<1>17. CASE P /\ ~Q
  <2>1. Tell(l \o (sa \o r), o \o <<>>, x, y)
    BY <1>3, <1>6, <1>7, <1>14, TellByFirst
  <2> QED
    BY <1>10, <1>11, <1>13, <1>14, <1>17, <2>1 DEF P, Q, x, y
<1>18. CASE ~P /\ ~Q
  <2>1. x = y
    BY <1>1, <1>8, <1>9, <1>12, <1>18
  <2>2. Tell(o, o, x, y)
    BY <1>5, <2>1, TellSame
  <2> QED
    BY <1>10, <1>11, <1>18, <2>2 DEF P, Q, x, y
<1> QED
  BY <1>1, <1>15, <1>16, <1>17, <1>18

\* The profile selection and, behind it, the identity of the profile if one is selected.
LEMMA IdentityTells ==
  ASSUME NEW m \in AnyMetadata, NEW n \in AnyMetadata
  PROVE  LET shown(k) == IF k.activeIdentity = <<>> THEN <<>>
                         ELSE Literal(",activeProfileId:") \o Digits(k.activeIdentity)
         IN  /\ shown(m) \in Chunked /\ shown(n) \in Chunked
             /\ Tell(shown(m) \o Literal(",capabilities:"), shown(n) \o Literal(",capabilities:"),
                     m.activeIdentity, n.activeIdentity)
<1> DEFINE x == m.activeIdentity
           y == n.activeIdentity
           P == x # <<>>
           Q == y # <<>>
           c == Digits(x)
           d == Digits(y)
           l == Literal(",activeProfileId:")
<1>1. c \in Chunked /\ d \in Chunked
  BY IdentityIs, DigitsAreChunked
<1>2. P /\ Q => Tell(c, d, x, y)
  BY IdentityIs, DigitsTell
<1>3. /\ ",activeProfileId:" \in FixedPiece /\ ",capabilities:" \in FixedPiece
      /\ ",activeProfileId:" # ",capabilities:"
  BY PiecesAre
<1>4. P \in BOOLEAN /\ Q \in BOOLEAN /\ (~P => x = <<>>) /\ (~Q => y = <<>>)
  OBVIOUS
<1>5. l \in Chunked
  BY <1>3, LiteralIs, Zenon
<1>6. l \o c \in Chunked /\ l \o d \in Chunked /\ <<>> \in Chunked
  <2> HIDE DEF l, c, d
  <2> QED
    BY <1>1, <1>5, ChunkedJoin, ChunkedIs
<1> HIDE DEF c, d, P, Q
<1>7. Tell((IF P THEN Literal(",activeProfileId:") \o c ELSE <<>>) \o Literal(",capabilities:"),
           (IF Q THEN Literal(",activeProfileId:") \o d ELSE <<>>) \o Literal(",capabilities:"),
           IF P THEN x ELSE <<>>, IF Q THEN y ELSE <<>>)
  BY <1>1, <1>2, <1>3, <1>4, OptionalTells
<1>8. (IF P THEN x ELSE <<>>) = x /\ (IF Q THEN y ELSE <<>>) = y
  BY <1>4
<1>9. Tell((IF P THEN Literal(",activeProfileId:") \o c ELSE <<>>) \o Literal(",capabilities:"),
           (IF Q THEN Literal(",activeProfileId:") \o d ELSE <<>>) \o Literal(",capabilities:"),
           x, y)
  BY <1>7, <1>8
<1> QED
  BY <1>6, <1>9 DEF P, Q, c, d

LEMMA ResponseTells ==
  ASSUME NEW f, NEW g, IsPublished(f), IsPublished(g)
  PROVE  Tell(ResponseTo(f), ResponseTo(g), View("response", f), View("response", g))
<1> DEFINE m == f.metadata
           n == g.metadata
           p == Literal("{profileSelection:")
           a == Name(m.selectionState)
           b == Name(n.selectionState)
           ia == IF m.activeIdentity = <<>> THEN <<>>
                 ELSE Literal(",activeProfileId:") \o Digits(m.activeIdentity)
           ib == IF n.activeIdentity = <<>> THEN <<>>
                 ELSE Literal(",activeProfileId:") \o Digits(n.activeIdentity)
           q == Literal(",capabilities:")
           ca == CapabilityList(m, f.capabilities)
           cb == CapabilityList(n, g.capabilities)
           sa == Separated(SampleObjects(f.samples), Len(f.samples))
           sb == Separated(SampleObjects(g.samples), Len(g.samples))
           e == Literal("]}")
           v1 == <<0, m.selectionState>>
           w1 == <<0, n.selectionState>>
           v2 == <<v1, m.activeIdentity>>
           w2 == <<w1, n.activeIdentity>>
           vc == <<m.hasCapabilityRegistry, f.capabilities>>
           wc == <<n.hasCapabilityRegistry, g.capabilities>>
           v3 == <<v2, vc>>
           w3 == <<w2, wc>>
           v4 == <<v3, Views(f.samples)>>
           w4 == <<w3, Views(g.samples)>>
<1>1. /\ m \in AnyMetadata /\ n \in AnyMetadata /\ IsConsistent(m) /\ IsConsistent(n)
      /\ f.capabilities \in Seq(AnyCapability) /\ g.capabilities \in Seq(AnyCapability)
      /\ f.samples \in Seq(AnySample) /\ g.samples \in Seq(AnySample)
      /\ Len(f.capabilities) = m.capabilityCount /\ Len(f.samples) = m.sampleCount
      /\ Len(g.capabilities) = n.capabilityCount /\ Len(g.samples) = n.sampleCount
  BY DEF IsPublished
<1>2. /\ "{profileSelection:" \in FixedPiece /\ ",capabilities:" \in FixedPiece
      /\ ",samples:[" \in FixedPiece /\ "]}" \in FixedPiece
  BY PiecesAre
<1>3. p \in Chunked /\ q \in Chunked /\ Literal(",samples:[") \in Chunked /\ e \in Chunked
  BY <1>2, LiteralIs, Zenon
<1>4. Tell(a, b, m.selectionState, n.selectionState)
  <2>1. m.selectionState \in 0 .. 3 /\ n.selectionState \in 0 .. 3 /\ \A i \in 0 .. 3 : i \in Nat
    BY <1>1, IdentityIs
  <2>2. m.selectionState \in Nat /\ n.selectionState \in Nat
    BY <2>1, Zenon
  <2> QED
    BY <2>2, NameTells
<1>5. ia \in Chunked /\ ib \in Chunked /\ Tell(ia \o q, ib \o q, m.activeIdentity, n.activeIdentity)
  BY <1>1, IdentityTells
<1>6. Tell(ca, cb, vc, wc)
  BY <1>1, CapabilityListTells
<1>7. Tell(sa \o e, sb \o e, Views(f.samples), Views(g.samples))
  BY <1>1, SamplesTell
<1>8. sa \in Chunked /\ sb \in Chunked
  BY <1>1, ObjectsAre, SeparatedIs
<1>9. ASSUME NEW h, IsPublished(h)
      PROVE  ResponseTo(h)
               = Literal("{profileSelection:") \o Name(h.metadata.selectionState)
                   \o (IF h.metadata.activeIdentity = <<>> THEN <<>>
                       ELSE Literal(",activeProfileId:") \o Digits(h.metadata.activeIdentity))
                   \o Literal(",capabilities:") \o CapabilityList(h.metadata, h.capabilities)
                   \o Literal(",samples:[") \o Separated(SampleObjects(h.samples), Len(h.samples))
                   \o Literal("]}")
  <2>1. Len(h.capabilities) = h.metadata.capabilityCount /\ Len(h.samples) = h.metadata.sampleCount
    BY <1>9 DEF IsPublished
  <2> QED
    BY <2>1 DEF ResponseTo, Response, CapabilityList, CapabilityObjects, SampleObjects
<1>10. ResponseTo(f) = (((((((p \o a) \o ia) \o q) \o ca) \o Literal(",samples:[")) \o sa) \o e)
  BY <1>9
<1>11. ResponseTo(g) = (((((((p \o b) \o ib) \o q) \o cb) \o Literal(",samples:[")) \o sb) \o e)
  BY <1>9
<1>12. v4 = w4 => View("response", f) = View("response", g)
  <2>1. v4 = w4 => /\ m.selectionState = n.selectionState /\ m.activeIdentity = n.activeIdentity
                   /\ m.hasCapabilityRegistry = n.hasCapabilityRegistry
                   /\ f.capabilities = g.capabilities /\ Views(f.samples) = Views(g.samples)
    OBVIOUS
  <2>2. ASSUME NEW h
        PROVE  View("response", h)
                 = << h.metadata.selectionState, h.metadata.activeIdentity,
                      h.metadata.hasCapabilityRegistry, h.capabilities, Views(h.samples) >>
    BY DEF View, Views
  <2> QED
    BY <2>1, <2>2
<1> HIDE DEF m, n, p, a, b, ia, ib, q, ca, cb, sa, sb, e
<1>13. Tell(p \o a, p \o b, v1, w1)
  <2>1. Tell(p, p, 0, 0)
    BY <1>3, TellSame
  <2>2. a \in Chunked /\ b \in Chunked
    BY <1>4 DEF Tell
  <2> QED
    BY <1>4, <2>1, <2>2, TellJoined
<1> DEFINE ua == p \o a
           ub == p \o b
<1>14. ua \in Chunked /\ ub \in Chunked
  BY <1>13 DEF Tell
<1> HIDE DEF ua, ub, v1, w1
<1>15. (ua \o ia) \o q = ua \o (ia \o q) /\ (ub \o ib) \o q = ub \o (ib \o q)
  <2>1. ia \in Chunked /\ ib \in Chunked /\ q \in Chunked /\ ua \in Chunked /\ ub \in Chunked
    BY <1>3, <1>5, <1>14
  <2>2. (ua \o ia) \o q = ua \o (ia \o q)
    BY <2>1, ChunkedAssociate
  <2>3. (ub \o ib) \o q = ub \o (ib \o q)
    BY <2>1, ChunkedAssociate
  <2> QED
    BY <2>2, <2>3
<1>16. Tell((ua \o ia) \o q, (ub \o ib) \o q, v2, w2)
  <2>1. ia \o q \in Chunked /\ ib \o q \in Chunked
    BY <1>5 DEF Tell
  <2>2. Tell(ua, ub, v1, w1)
    BY <1>13 DEF ua, ub
  <2>3. Tell(ua \o (ia \o q), ub \o (ib \o q), v2, w2)
    BY <1>5, <2>1, <2>2, TellJoined
  <2> QED
    BY <1>15, <2>3
<1> DEFINE ra == (ua \o ia) \o q
           rb == (ub \o ib) \o q
<1> HIDE DEF ra, rb, v2, w2, vc, wc
<1>17. Tell(ra \o ca, rb \o cb, v3, w3)
  <2>1. ca \in Chunked /\ cb \in Chunked
    BY <1>6 DEF Tell
  <2>2. Tell(ra, rb, v2, w2)
    BY <1>16 DEF ra, rb
  <2> QED
    BY <1>6, <2>1, <2>2, TellJoined
<1> DEFINE l == Literal(",samples:[")
           ta == (ra \o ca) \o l
           tb == (rb \o cb) \o l
<1> HIDE DEF v3, w3
<1>18. l \in Chunked
  BY <1>3
<1> HIDE DEF l
<1>19. Tell(ta, tb, v3, w3)
  BY <1>17, <1>18, TellThen
<1>20. ta \in Chunked /\ tb \in Chunked
  BY <1>19 DEF Tell
<1> HIDE DEF ta, tb
<1>21. (ta \o sa) \o e = ta \o (sa \o e) /\ (tb \o sb) \o e = tb \o (sb \o e)
  <2>1. e \in Chunked /\ sa \in Chunked /\ sb \in Chunked /\ ta \in Chunked /\ tb \in Chunked
    BY <1>3, <1>8, <1>20
  <2>2. (ta \o sa) \o e = ta \o (sa \o e)
    BY <2>1, ChunkedAssociate
  <2>3. (tb \o sb) \o e = tb \o (sb \o e)
    BY <2>1, ChunkedAssociate
  <2> QED
    BY <2>2, <2>3
<1>22. Tell((ta \o sa) \o e, (tb \o sb) \o e, v4, w4)
  <2>1. sa \o e \in Chunked /\ sb \o e \in Chunked
    BY <1>7 DEF Tell
  <2>2. Tell(ta \o (sa \o e), tb \o (sb \o e), v4, w4)
    BY <1>7, <1>19, <2>1, TellJoined
  <2> QED
    BY <1>21, <2>2
<1> HIDE DEF v4, w4
<1>23. Tell(ResponseTo(f), ResponseTo(g), v4, w4)
  BY <1>10, <1>11, <1>22 DEF ta, tb, l, ra, rb, ua, ub
<1> QED
  BY <1>12, <1>23, TellAlso

(***************************************************************************)
(* The BLE records.                                                        *)
(***************************************************************************)

LEMMA FourJoined == \A a, b, c, d : <<a>> \o <<b>> \o <<c>> \o <<d>> = <<a, b, c, d>>
<1> SUFFICES ASSUME NEW a, NEW b, NEW c, NEW d
             PROVE  ((<<a>> \o <<b>>) \o <<c>>) \o <<d>> = <<a, b, c, d>>
  OBVIOUS
<1> DEFINE S == {a, b, c, d}
           l == <<a, b, c>>
           r == <<d>>
           t == <<a, b, c, d>>
<1>1. l \in Seq(S) /\ r \in Seq(S) /\ t \in Seq(S) /\ Len(l) = 3 /\ Len(r) = 1 /\ Len(t) = 4
  OBVIOUS
<1>2. l[1] = t[1] /\ l[2] = t[2] /\ l[3] = t[3] /\ r[1] = t[4]
  OBVIOUS
<1>3. (<<a>> \o <<b>>) \o <<c>> = l
  BY ThreeJoined
<1> HIDE DEF S, l, r, t
<1>4. l \o r \in Seq(S) /\ Len(l \o r) = Len(l) + Len(r)
      /\ \A i \in 1 .. Len(l) + Len(r) : (l \o r)[i] = IF i <= Len(l) THEN l[i] ELSE r[i - Len(l)]
  <2>1. l \in Seq(S) /\ r \in Seq(S)
    BY <1>1
  <2> QED
    BY <2>1, ConcatProperties
<1>5. \A i \in 1 .. 4 : (l \o r)[i] = t[i]
  BY <1>1, <1>2, <1>4
<1>6. l \o r = t
  <2>1. Len(l \o r) = Len(t) /\ Len(t) = 4
    BY <1>1, <1>4
  <2> QED
    BY <1>1, <1>4, <1>5, <2>1, SeqEqual
<1> QED
  BY <1>3, <1>6 DEF r, t

\* A chunk of one cell that is the number itself.
LEMMA NumberTells ==
  ASSUME NEW m \in Nat, NEW n \in Nat
  PROVE  Tell(<< <<m>> >>, << <<n>> >>, m, n)
<1> DEFINE a == <<m>>
           b == <<n>>
<1>1. a \in Cells /\ b \in Cells /\ Len(a) = Len(b) /\ (a = b => m = n)
  BY CellIs
<1> HIDE DEF a, b
<1>2. Tell(<<a>>, <<b>>, m, n)
  BY <1>1, TellByLength
<1> QED
  BY <1>2 DEF a, b

LEMMA OctetsAreCells == \A text \in Octets : text \in Cells
<1> SUFFICES ASSUME NEW text \in Octets
             PROVE  text \in Cells
  OBVIOUS
<1>1. 0 .. 255 \subseteq Nat
  OBVIOUS
<1> QED
  BY <1>1, SequenceIn DEF Octets, Cells

LEMMA StringTells ==
  ASSUME NEW t \in Octets, NEW u \in Octets
  PROVE  Tell(String(t), String(u), t, u)
<1> DEFINE m == Len(t)
           n == Len(u)
<1>1. m \in Nat /\ n \in Nat
  BY OctetsAre
<1>2. t \in Cells /\ u \in Cells
  BY OctetsAreCells
<1>3. m = n => Tell(<<t>>, <<u>>, t, u)
  BY <1>2, TellByLength
<1>4. <<t>> \in Chunked /\ <<u>> \in Chunked
  BY <1>2, ChunkedIs
<1>5. String(t) = << <<m>> >> \o <<t>> /\ String(u) = << <<n>> >> \o <<u>>
  BY CellBeforeOne DEF String
<1> HIDE DEF m, n
<1>6. Tell(<< <<m>> >>, << <<n>> >>, m, n)
  BY <1>1, NumberTells
<1>7. Tell(<< <<m>> >> \o <<t>>, << <<n>> >> \o <<u>>, <<m, t>>, <<n, u>>)
  BY <1>3, <1>4, <1>6, TellJoined
<1>8. <<m, t>> = <<n, u>> => t = u
  OBVIOUS
<1> QED
  BY <1>5, <1>7, <1>8, TellAlso

LEMMA U16Tells ==
  ASSUME NEW m \in Nat, NEW n \in Nat, m <= MaxU16, n <= MaxU16
  PROVE  Tell(<<U16(m)>>, <<U16(n)>>, m, n)
<1> DEFINE h(k) == (k \div 256) % 256
           l(k) == k % 256
           a == <<h(m), l(m)>>
           b == <<h(n), l(n)>>
<1>1. /\ h(m) \in Nat /\ l(m) \in Nat /\ h(n) \in Nat /\ l(n) \in Nat
  BY SMT
<1>2. h(m) = h(n) /\ l(m) = l(n) => m = n
  <2>1. m \div 256 \in 0 .. 255 /\ n \div 256 \in 0 .. 255
    BY SMT DEF MaxU16
  <2>2. h(m) = m \div 256 /\ h(n) = n \div 256
    BY <2>1, SMT
  <2>3. m = 256 * (m \div 256) + (m % 256) /\ n = 256 * (n \div 256) + (n % 256)
    BY SMT
  <2> QED
    BY <2>2, <2>3, SMT
<1>3. U16(m) = a /\ U16(n) = b
  BY DEF U16
<1> HIDE DEF h, l
<1>4. a \in Cells /\ b \in Cells /\ Len(a) = Len(b) /\ (a = b => m = n)
  BY <1>1, <1>2 DEF Cells
<1> HIDE DEF a, b
<1>5. Tell(<<a>>, <<b>>, m, n)
  BY <1>4, TellByLength
<1> QED
  BY <1>3, <1>5

LEMMA FlagTells ==
  ASSUME NEW P \in BOOLEAN, NEW Q \in BOOLEAN
  PROVE  Tell(<<Flag(P)>>, <<Flag(Q)>>, P, Q)
<1> DEFINE m == IF P THEN 1 ELSE 0
           n == IF Q THEN 1 ELSE 0
<1>1. m \in Nat /\ n \in Nat /\ (m = n => P = Q)
  OBVIOUS
<1>2. Flag(P) = <<m>> /\ Flag(Q) = <<n>>
  BY DEF Flag
<1> HIDE DEF m, n
<1>3. Tell(<< <<m>> >>, << <<n>> >>, P, Q)
  BY <1>1, NumberTells, TellAlso
<1> QED
  BY <1>2, <1>3

LEMMA HeaderIsChunked == \A type \in Nat : Header(type) \in Chunked
<1> SUFFICES ASSUME NEW type \in Nat
             PROVE  Header(type) \in Chunked
  OBVIOUS
<1> DEFINE a == << <<1>> >>
           b == << <<type>> >>
<1>1. a \in Chunked /\ b \in Chunked
  BY CellIs, ChunkedIs
<1>2. Header(type) = a \o b
  BY CellBeforeOne DEF Header
<1> HIDE DEF a, b
<1> QED
  BY <1>1, <1>2, ChunkedJoin

LEMMA BleCapabilityTells ==
  ASSUME NEW f, NEW g, f.value \in AnyCapability, g.value \in AnyCapability,
         f.index \in Nat, g.index \in Nat, f.index <= MaxU16, g.index <= MaxU16
  PROVE  Tell(BleCapability(f), BleCapability(g), <<f.index, f.value>>, <<g.index, g.value>>)
<1> DEFINE c == f.value
           d == g.value
           h == Header(2)
           a1 == <<U16(f.index)>>
           b1 == <<U16(g.index)>>
           a2 == String(c.identity)
           b2 == String(d.identity)
           a3 == << <<c.expectedValueType>> >>
           b3 == << <<d.expectedValueType>> >>
           a4 == String(c.unit)
           b4 == String(d.unit)
           a5 == << <<c.support>> >>
           b5 == << <<d.support>> >>
           v1 == <<0, f.index>>
           w1 == <<0, g.index>>
           v2 == <<v1, c.identity>>
           w2 == <<w1, d.identity>>
           v3 == <<v2, c.expectedValueType>>
           w3 == <<w2, d.expectedValueType>>
           v4 == <<v3, c.unit>>
           w4 == <<w3, d.unit>>
           v5 == <<v4, c.support>>
           w5 == <<w4, d.support>>
<1>1. Tell(h, h, 0, 0)
  <2>1. 2 \in Nat
    OBVIOUS
  <2> QED
    BY <2>1, HeaderIsChunked, TellSame
<1>2. Tell(a1, b1, f.index, g.index)
  BY U16Tells
<1>3. Tell(a2, b2, c.identity, d.identity) /\ Tell(a4, b4, c.unit, d.unit)
  BY CapabilityIs, StringTells
<1>4. /\ Tell(a3, b3, c.expectedValueType, d.expectedValueType)
      /\ Tell(a5, b5, c.support, d.support)
  <2>1. \A i \in 0 .. 3 : i \in Nat
    OBVIOUS
  <2>2. /\ c.expectedValueType \in 0 .. 3 /\ d.expectedValueType \in 0 .. 3
        /\ c.support \in 0 .. 3 /\ d.support \in 0 .. 3
    BY CapabilityIs, Zenon
  <2>3. /\ c.expectedValueType \in Nat /\ d.expectedValueType \in Nat
        /\ c.support \in Nat /\ d.support \in Nat
    BY <2>1, <2>2, Zenon
  <2> QED
    BY <2>3, NumberTells
<1>5. BleCapability(f) = h \o a1 \o a2 \o a3 \o a4 \o a5
      /\ BleCapability(g) = h \o b1 \o b2 \o b3 \o b4 \o b5
  BY DEF BleCapability
<1>6. v5 = w5 => <<f.index, c>> = <<g.index, d>>
  <2>1. v5 = w5 => /\ f.index = g.index /\ c.identity = d.identity /\ c.unit = d.unit
                   /\ c.expectedValueType = d.expectedValueType /\ c.support = d.support
    OBVIOUS
  <2>2. v5 = w5 => c = d
    BY <2>1, CapabilityIs
  <2> QED
    BY <2>1, <2>2
<1>7. /\ a1 \in Chunked /\ b1 \in Chunked /\ a2 \in Chunked /\ b2 \in Chunked /\ a3 \in Chunked
      /\ b3 \in Chunked /\ a4 \in Chunked /\ b4 \in Chunked /\ a5 \in Chunked /\ b5 \in Chunked
  BY <1>2, <1>3, <1>4 DEF Tell
<1> HIDE DEF h, a1, b1, a2, b2, a3, b3, a4, b4, a5, b5
<1>8. Tell(h \o a1, h \o b1, v1, w1)
  BY <1>1, <1>2, <1>7, TellJoined
<1> HIDE DEF v1, w1
<1>9. Tell(h \o a1 \o a2, h \o b1 \o b2, v2, w2)
  BY <1>3, <1>7, <1>8, TellJoined
<1> HIDE DEF v2, w2
<1>10. Tell(h \o a1 \o a2 \o a3, h \o b1 \o b2 \o b3, v3, w3)
  BY <1>4, <1>7, <1>9, TellJoined
<1> HIDE DEF v3, w3
<1>11. Tell(h \o a1 \o a2 \o a3 \o a4, h \o b1 \o b2 \o b3 \o b4, v4, w4)
  BY <1>3, <1>7, <1>10, TellJoined
<1> HIDE DEF v4, w4
<1>12. Tell(h \o a1 \o a2 \o a3 \o a4 \o a5, h \o b1 \o b2 \o b3 \o b4 \o b5, v5, w5)
  BY <1>4, <1>7, <1>11, TellJoined
<1> HIDE DEF v5, w5
<1> QED
  BY <1>5, <1>6, <1>12, TellAlso

LEMMA BleValueTells ==
  ASSUME NEW s \in AnySample, NEW t \in AnySample,
         s.valueType = t.valueType, HasValue(s) = HasValue(t)
  PROVE  Tell(BleValue(s), BleValue(t), ValueSeen(s), ValueSeen(t))
<1>1. s.value \in Octets /\ t.value \in Octets /\ s.valueType \in 0 .. 3
  BY SampleIs
<1>2. s.value \in Cells /\ t.value \in Cells
  BY <1>1, OctetsAreCells
<1>3. CASE ~HasValue(s)
  <2>1. ~HasValue(t)
    BY <1>3
  <2>2. BleValue(s) = <<>> /\ BleValue(t) = <<>> /\ ValueSeen(s) = <<>> /\ ValueSeen(t) = <<>>
    BY <1>3, <2>1 DEF BleValue, ValueSeen
  <2> QED
    BY <2>2, ChunkedIs, TellSame
<1>4. CASE HasValue(s)
  <2>1. HasValue(t)
    BY <1>4
  <2>2. s.valueType \in {Numeric, Boolean, Text}
    BY <1>1, <1>4 DEF HasValue, None, Numeric, Boolean, Text
  <2>3. ValueSeen(s) = <<s.valueType, s.value>> /\ ValueSeen(t) = <<s.valueType, t.value>>
    BY <1>4, <2>1 DEF ValueSeen
  <2>4. Tell(BleValue(s), BleValue(t), s.value, t.value)
    <3>1. CASE s.valueType = Text
      <4>1. BleValue(s) = String(s.value) /\ BleValue(t) = String(t.value)
        BY <1>4, <2>1, <3>1 DEF BleValue
      <4> QED
        BY <1>1, <4>1, StringTells
    <3>2. CASE s.valueType # Text
      <4>1. BleValue(s) = <<s.value>> /\ BleValue(t) = <<t.value>>
        BY <1>4, <2>1, <3>2 DEF BleValue
      <4>2. Len(s.value) = Len(t.value)
        <5>1. CASE s.valueType = Numeric
          BY <5>1, SampleIs
        <5>2. CASE s.valueType = Boolean
          <6>1. s.value \in {<<0>>, <<1>>} /\ t.value \in {<<0>>, <<1>>}
            BY <5>2, SampleIs
          <6> QED
            BY <6>1
        <5> QED
          BY <2>2, <3>2, <5>1, <5>2
      <4> QED
        BY <1>2, <4>1, <4>2, TellByLength
    <3> QED
      BY <3>1, <3>2
  <2>5. s.value = t.value => ValueSeen(s) = ValueSeen(t)
    BY <2>3
  <2> QED
    BY <2>4, <2>5, TellAlso
<1> QED
  BY <1>3, <1>4

LEMMA BleSampleTells ==
  ASSUME NEW f, NEW g, f.value \in AnySample, g.value \in AnySample,
         f.index \in Nat, g.index \in Nat, f.index <= MaxU16, g.index <= MaxU16
  PROVE  Tell(BleSample(f), BleSample(g), View("sample", f), View("sample", g))
<1> DEFINE s == f.value
           t == g.value
           P == HasValue(s)
           Q == HasValue(t)
           h == Header(3)
           a1 == <<U16(f.index)>>
           b1 == <<U16(g.index)>>
           a2 == String(s.signalId)
           b2 == String(t.signalId)
           a3 == << <<s.valueType>>, Flag(P) >>
           b3 == << <<t.valueType>>, Flag(Q) >>
           a4 == BleValue(s)
           b4 == BleValue(t)
           a5 == String(s.unit)
           b5 == String(t.unit)
           a6 == << <<s.source>>, <<s.quality>>, <<s.availability>>, s.timestamp >>
           b6 == << <<t.source>>, <<t.quality>>, <<t.availability>>, t.timestamp >>
           v1 == <<0, f.index>>
           w1 == <<0, g.index>>
           v2 == <<v1, s.signalId>>
           w2 == <<w1, t.signalId>>
           v3 == <<v2, <<s.valueType, P>> >>
           w3 == <<w2, <<t.valueType, Q>> >>
           v4 == <<v3, ValueSeen(s)>>
           w4 == <<w3, ValueSeen(t)>>
           v5 == <<v4, s.unit>>
           w5 == <<w4, t.unit>>
           vl == << << <<s.source, s.quality>>, s.availability>>, s.timestamp>>
           wl == << << <<t.source, t.quality>>, t.availability>>, t.timestamp>>
           v6 == <<v5, vl>>
           w6 == <<w5, wl>>
<1>1. Tell(h, h, 0, 0)
  <2>1. 3 \in Nat
    OBVIOUS
  <2> QED
    BY <2>1, HeaderIsChunked, TellSame
<1>2. Tell(a1, b1, f.index, g.index)
  BY U16Tells
<1>3. Tell(a2, b2, s.signalId, t.signalId) /\ Tell(a5, b5, s.unit, t.unit)
  BY SampleIs, StringTells
<1>4. /\ s.valueType \in Nat /\ t.valueType \in Nat /\ s.source \in Nat /\ t.source \in Nat
      /\ s.quality \in Nat /\ t.quality \in Nat /\ s.availability \in Nat /\ t.availability \in Nat
  <2>1. /\ \A i \in 0 .. 2 : i \in Nat
        /\ \A i \in 0 .. 3 : i \in Nat
        /\ \A i \in 0 .. 4 : i \in Nat
    OBVIOUS
  <2>2. /\ s.valueType \in 0 .. 3 /\ s.source \in 0 .. 4 /\ s.quality \in 0 .. 2
        /\ s.availability \in 0 .. 4
    BY SampleIs, Zenon
  <2>3. /\ t.valueType \in 0 .. 3 /\ t.source \in 0 .. 4 /\ t.quality \in 0 .. 2
        /\ t.availability \in 0 .. 4
    BY SampleIs, Zenon
  <2> QED
    BY <2>1, <2>2, <2>3, Zenon
<1>5. P \in BOOLEAN /\ Q \in BOOLEAN
  BY DEF HasValue
<1>6. Tell(a3, b3, <<s.valueType, P>>, <<t.valueType, Q>>)
  <2>1. Tell(<< <<s.valueType>> >>, << <<t.valueType>> >>, s.valueType, t.valueType)
    BY <1>4, NumberTells
  <2>2. Tell(<<Flag(P)>>, <<Flag(Q)>>, P, Q)
    BY <1>5, FlagTells
  <2>3. <<Flag(P)>> \in Chunked /\ <<Flag(Q)>> \in Chunked
    BY <2>2 DEF Tell
  <2> HIDE DEF P, Q
  <2>4. Tell(<< <<s.valueType>> >> \o <<Flag(P)>>, << <<t.valueType>> >> \o <<Flag(Q)>>,
             <<s.valueType, P>>, <<t.valueType, Q>>)
    BY <2>1, <2>2, <2>3, TellJoined
  <2> QED
    BY <2>4, CellBeforeOne
<1>7. s.valueType = t.valueType /\ P = Q => Tell(a4, b4, ValueSeen(s), ValueSeen(t))
  BY BleValueTells
<1>8. a4 \in Chunked /\ b4 \in Chunked
  BY BleValueTells DEF Tell
<1>9. Tell(a6, b6, vl, wl)
  <2> DEFINE ts == s.timestamp
             tt == t.timestamp
  <2>1. ts \in Cells /\ tt \in Cells /\ Len(ts) = Len(tt)
    BY SampleIs, OctetsAreCells
  <2>2. Tell(<<ts>>, <<tt>>, ts, tt)
    BY <2>1, TellByLength
  <2>3. /\ Tell(<< <<s.source>> >>, << <<t.source>> >>, s.source, t.source)
        /\ Tell(<< <<s.quality>> >>, << <<t.quality>> >>, s.quality, t.quality)
        /\ Tell(<< <<s.availability>> >>, << <<t.availability>> >>, s.availability, t.availability)
    BY <1>4, NumberTells
  <2>4. /\ <<ts>> \in Chunked /\ <<tt>> \in Chunked
        /\ << <<s.quality>> >> \in Chunked /\ << <<t.quality>> >> \in Chunked
        /\ << <<s.availability>> >> \in Chunked /\ << <<t.availability>> >> \in Chunked
    BY <2>2, <2>3 DEF Tell
  <2> HIDE DEF ts, tt
  <2>5. Tell(<< <<s.source>> >> \o << <<s.quality>> >>, << <<t.source>> >> \o << <<t.quality>> >>,
             <<s.source, s.quality>>, <<t.source, t.quality>>)
    BY <2>3, <2>4, TellJoined
  <2>6. Tell(<< <<s.source>> >> \o << <<s.quality>> >> \o << <<s.availability>> >>,
             << <<t.source>> >> \o << <<t.quality>> >> \o << <<t.availability>> >>,
             << <<s.source, s.quality>>, s.availability>>,
             << <<t.source, t.quality>>, t.availability>>)
    BY <2>3, <2>4, <2>5, TellJoined
  <2>7. Tell(<< <<s.source>> >> \o << <<s.quality>> >> \o << <<s.availability>> >> \o <<ts>>,
             << <<t.source>> >> \o << <<t.quality>> >> \o << <<t.availability>> >> \o <<tt>>,
             << << <<s.source, s.quality>>, s.availability>>, ts>>,
             << << <<t.source, t.quality>>, t.availability>>, tt>>)
    BY <2>2, <2>4, <2>6, TellJoined
  <2> QED
    BY <2>7, FourJoined DEF ts, tt
<1>10. BleSample(f) = h \o a1 \o a2 \o a3 \o a4 \o a5 \o a6
       /\ BleSample(g) = h \o b1 \o b2 \o b3 \o b4 \o b5 \o b6
  BY DEF BleSample
<1>11. v6 = w6 => View("sample", f) = View("sample", g)
  <2>1. v6 = w6 => /\ f.index = g.index /\ s.signalId = t.signalId /\ s.valueType = t.valueType
                   /\ ValueSeen(s) = ValueSeen(t) /\ s.unit = t.unit /\ s.source = t.source
                   /\ s.quality = t.quality /\ s.availability = t.availability
                   /\ s.timestamp = t.timestamp
    OBVIOUS
  <2>2. /\ View("sample", f) = << f.index, s.valueType,
             << s.signalId, s.unit, ValueSeen(s), s.source, s.quality, s.availability, s.timestamp >> >>
        /\ View("sample", g) = << g.index, t.valueType,
             << t.signalId, t.unit, ValueSeen(t), t.source, t.quality, t.availability, t.timestamp >> >>
    BY DEF View, SampleView, ValueSeen
  <2> QED
    BY <2>1, <2>2
<1>12. /\ a1 \in Chunked /\ b1 \in Chunked /\ a2 \in Chunked /\ b2 \in Chunked /\ a3 \in Chunked
       /\ b3 \in Chunked /\ a5 \in Chunked /\ b5 \in Chunked /\ a6 \in Chunked /\ b6 \in Chunked
  BY <1>2, <1>3, <1>6, <1>9 DEF Tell
<1>13. v3 = w3 => Tell(a4, b4, ValueSeen(s), ValueSeen(t))
  <2>1. v3 = w3 => s.valueType = t.valueType /\ P = Q
    OBVIOUS
  <2> QED
    BY <1>7, <2>1
<1> HIDE DEF h, a1, b1, a2, b2, a3, b3, a4, b4, a5, b5, a6, b6, vl, wl, P, Q
<1>14. Tell(h \o a1, h \o b1, v1, w1)
  BY <1>1, <1>2, <1>12, TellJoined
<1> HIDE DEF v1, w1
<1>15. Tell(h \o a1 \o a2, h \o b1 \o b2, v2, w2)
  BY <1>3, <1>12, <1>14, TellJoined
<1> HIDE DEF v2, w2
<1>16. Tell(h \o a1 \o a2 \o a3, h \o b1 \o b2 \o b3, v3, w3)
  BY <1>6, <1>12, <1>15, TellJoined
<1> HIDE DEF v3, w3
<1>17. Tell(h \o a1 \o a2 \o a3 \o a4, h \o b1 \o b2 \o b3 \o b4, v4, w4)
  BY <1>8, <1>13, <1>16, TellJoined
<1> HIDE DEF v4, w4
<1>18. Tell(h \o a1 \o a2 \o a3 \o a4 \o a5, h \o b1 \o b2 \o b3 \o b4 \o b5, v5, w5)
  BY <1>3, <1>12, <1>17, TellJoined
<1> HIDE DEF v5, w5
<1>19. Tell(h \o a1 \o a2 \o a3 \o a4 \o a5 \o a6, h \o b1 \o b2 \o b3 \o b4 \o b5 \o b6, v6, w6)
  BY <1>9, <1>12, <1>18, TellJoined
<1> HIDE DEF v6, w6
<1> QED
  BY <1>10, <1>11, <1>19, TellAlso

LEMMA BleSnapshotTells ==
  ASSUME NEW m \in AnyMetadata, NEW n \in AnyMetadata,
         m.capabilityCount <= MaxU16, m.sampleCount <= MaxU16,
         n.capabilityCount <= MaxU16, n.sampleCount <= MaxU16
  PROVE  Tell(BleSnapshot(m), BleSnapshot(n), m, n)
<1> DEFINE x == m.activeIdentity
           y == n.activeIdentity
           P == x # <<>>
           Q == y # <<>>
           h == Header(1)
           a1 == << <<m.selectionState>>, Flag(P) >>
           b1 == << <<n.selectionState>>, Flag(Q) >>
           a2 == IF x = <<>> THEN <<>> ELSE <<x>>
           b2 == IF y = <<>> THEN <<>> ELSE <<y>>
           a3 == << Flag(m.hasCapabilityRegistry), U16(m.capabilityCount), U16(m.sampleCount) >>
           b3 == << Flag(n.hasCapabilityRegistry), U16(n.capabilityCount), U16(n.sampleCount) >>
           v1 == <<0, <<m.selectionState, P>> >>
           w1 == <<0, <<n.selectionState, Q>> >>
           v2 == <<v1, x>>
           w2 == <<w1, y>>
           vl == << <<m.hasCapabilityRegistry, m.capabilityCount>>, m.sampleCount>>
           wl == << <<n.hasCapabilityRegistry, n.capabilityCount>>, n.sampleCount>>
           v3 == <<v2, vl>>
           w3 == <<w2, wl>>
<1>1. Tell(h, h, 0, 0)
  <2>1. 1 \in Nat
    OBVIOUS
  <2> QED
    BY <2>1, HeaderIsChunked, TellSame
<1>2. Tell(a1, b1, <<m.selectionState, P>>, <<n.selectionState, Q>>)
  <2>1. m.selectionState \in 0 .. 3 /\ n.selectionState \in 0 .. 3 /\ \A i \in 0 .. 3 : i \in Nat
    BY IdentityIs
  <2>2. m.selectionState \in Nat /\ n.selectionState \in Nat
    BY <2>1, Zenon
  <2>3. Tell(<< <<m.selectionState>> >>, << <<n.selectionState>> >>,
             m.selectionState, n.selectionState)
    BY <2>2, NumberTells
  <2>4. P \in BOOLEAN /\ Q \in BOOLEAN
    OBVIOUS
  <2> HIDE DEF P, Q
  <2>5. Tell(<<Flag(P)>>, <<Flag(Q)>>, P, Q)
    BY <2>4, FlagTells
  <2>6. <<Flag(P)>> \in Chunked /\ <<Flag(Q)>> \in Chunked
    BY <2>5 DEF Tell
  <2>7. Tell(<< <<m.selectionState>> >> \o <<Flag(P)>>, << <<n.selectionState>> >> \o <<Flag(Q)>>,
             <<m.selectionState, P>>, <<n.selectionState, Q>>)
    BY <2>3, <2>5, <2>6, TellJoined
  <2> QED
    BY <2>7, CellBeforeOne
<1>3. x \in Cells /\ y \in Cells /\ (P => Len(x) = 4) /\ (Q => Len(y) = 4)
  BY IdentityIs, OctetsAreCells
<1>4. a2 \in Chunked /\ b2 \in Chunked
  BY <1>3, ChunkedIs
<1>5. P = Q => Tell(a2, b2, x, y)
  <2>1. CASE P /\ Q
    <3>1. Tell(<<x>>, <<y>>, x, y)
      BY <1>3, <2>1, TellByLength
    <3> QED
      BY <2>1, <3>1
  <2>2. CASE ~P /\ ~Q
    <3>1. a2 = <<>> /\ b2 = <<>> /\ x = y
      BY <2>2
    <3>2. Tell(<<>>, <<>>, x, x)
      BY ChunkedIs, TellSame
    <3> QED
      BY <3>1, <3>2
  <2> QED
    BY <2>1, <2>2
<1>6. Tell(a3, b3, vl, wl)
  <2>1. /\ m.hasCapabilityRegistry \in BOOLEAN /\ n.hasCapabilityRegistry \in BOOLEAN
        /\ m.capabilityCount \in Nat /\ n.capabilityCount \in Nat
        /\ m.sampleCount \in Nat /\ n.sampleCount \in Nat
    BY IdentityIs
  <2> DEFINE fm == <<Flag(m.hasCapabilityRegistry)>>
             fn == <<Flag(n.hasCapabilityRegistry)>>
             cm == <<U16(m.capabilityCount)>>
             cn == <<U16(n.capabilityCount)>>
             sm == <<U16(m.sampleCount)>>
             sn == <<U16(n.sampleCount)>>
  <2>2. Tell(fm, fn, m.hasCapabilityRegistry, n.hasCapabilityRegistry)
    BY <2>1, FlagTells
  <2>3. Tell(cm, cn, m.capabilityCount, n.capabilityCount)
    BY <2>1, U16Tells
  <2>4. Tell(sm, sn, m.sampleCount, n.sampleCount)
    BY <2>1, U16Tells
  <2>5. cm \in Chunked /\ cn \in Chunked /\ sm \in Chunked /\ sn \in Chunked
    BY <2>3, <2>4 DEF Tell
  <2>6. (fm \o cm) \o sm = a3 /\ (fn \o cn) \o sn = b3
    BY ThreeJoined
  <2> HIDE DEF fm, fn, cm, cn, sm, sn, a3, b3
  <2>7. Tell(fm \o cm, fn \o cn, <<m.hasCapabilityRegistry, m.capabilityCount>>,
             <<n.hasCapabilityRegistry, n.capabilityCount>>)
    BY <2>2, <2>3, <2>5, TellJoined
  <2>8. Tell((fm \o cm) \o sm, (fn \o cn) \o sn, vl, wl)
    BY <2>4, <2>5, <2>7, TellJoined
  <2> QED
    BY <2>6, <2>8
<1>7. BleSnapshot(m) = h \o a1 \o a2 \o a3 /\ BleSnapshot(n) = h \o b1 \o b2 \o b3
  BY DEF BleSnapshot
<1>8. v3 = w3 => m = n
  <2>1. v3 = w3 => /\ m.selectionState = n.selectionState /\ x = y
                   /\ m.hasCapabilityRegistry = n.hasCapabilityRegistry
                   /\ m.capabilityCount = n.capabilityCount /\ m.sampleCount = n.sampleCount
    OBVIOUS
  <2> QED
    BY <2>1, IdentityIs
<1>9. v1 = w1 => P = Q
  OBVIOUS
<1>10. a1 \in Chunked /\ b1 \in Chunked /\ a3 \in Chunked /\ b3 \in Chunked
  BY <1>2, <1>6 DEF Tell
<1> HIDE DEF h, a1, b1, a2, b2, a3, b3, P, Q, x, y, vl, wl
<1>11. Tell(h \o a1, h \o b1, v1, w1)
  BY <1>1, <1>2, <1>10, TellJoined
<1>12. v1 = w1 => Tell(a2, b2, x, y)
  BY <1>5, <1>9
<1> HIDE DEF v1, w1
<1>13. Tell(h \o a1 \o a2, h \o b1 \o b2, v2, w2)
  BY <1>4, <1>11, <1>12, TellJoined
<1> HIDE DEF v2, w2
<1>14. Tell(h \o a1 \o a2 \o a3, h \o b1 \o b2 \o b3, v3, w3)
  BY <1>6, <1>10, <1>13, TellJoined
<1> HIDE DEF v3, w3
<1> QED
  BY <1>7, <1>8, <1>14, TellAlso

(***************************************************************************)
(* What is published tells what there is to see.                           *)
(***************************************************************************)

\* What there is to see of a sample decides how it is shown.
LEMMA SeenDecides ==
  ASSUME NEW s, NEW t, SampleView(s) = SampleView(t)
  PROVE  /\ s.signalId = t.signalId /\ s.unit = t.unit /\ s.source = t.source
         /\ s.quality = t.quality /\ s.availability = t.availability /\ s.timestamp = t.timestamp
         /\ HasValue(s) = HasValue(t)
         /\ HasValue(s) => s.valueType = t.valueType /\ s.value = t.value
<1>1. /\ SampleView(s) = << s.signalId, s.unit, ValueSeen(s), s.source, s.quality,
                            s.availability, s.timestamp >>
      /\ SampleView(t) = << t.signalId, t.unit, ValueSeen(t), t.source, t.quality,
                            t.availability, t.timestamp >>
  BY DEF SampleView, ValueSeen
<1>2. /\ s.signalId = t.signalId /\ s.unit = t.unit /\ s.source = t.source
      /\ s.quality = t.quality /\ s.availability = t.availability /\ s.timestamp = t.timestamp
      /\ ValueSeen(s) = ValueSeen(t)
  <2>1. << s.signalId, s.unit, ValueSeen(s), s.source, s.quality, s.availability, s.timestamp >>
          = << t.signalId, t.unit, ValueSeen(t), t.source, t.quality, t.availability, t.timestamp >>
    BY <1>1
  <2>2. \A a, b, c, d, e, f, g, h, i, j, k, l, m, n :
          <<a, b, c, d, e, f, g>> = <<h, i, j, k, l, m, n>> =>
            a = h /\ b = i /\ c = j /\ d = k /\ e = l /\ f = m /\ g = n
    OBVIOUS
  <2> QED
    BY <2>1, <2>2, Zenon
<1>3. HasValue(s) \in BOOLEAN /\ HasValue(t) \in BOOLEAN
  BY DEF HasValue
<1>4. \A a, b : <<a, b>> # <<>>
  OBVIOUS
<1>5. HasValue(s) = HasValue(t)
  <2>1. ASSUME HasValue(s), ~HasValue(t)
        PROVE  FALSE
    BY <1>2, <1>4, <2>1, Zenon DEF ValueSeen
  <2>2. ASSUME ~HasValue(s), HasValue(t)
        PROVE  FALSE
    BY <1>2, <1>4, <2>2, Zenon DEF ValueSeen
  <2> QED
    BY <1>3, <2>1, <2>2
<1>6. ASSUME HasValue(s)
      PROVE  s.valueType = t.valueType /\ s.value = t.value
  <2>1. <<s.valueType, s.value>> = <<t.valueType, t.value>>
    BY <1>2, <1>5, <1>6 DEF ValueSeen
  <2> QED
    BY <2>1
<1> QED
  BY <1>2, <1>5, <1>6

LEMMA SampleObjectShows ==
  ASSUME NEW s, NEW t, SampleView(s) = SampleView(t)
  PROVE  SampleObject(s) = SampleObject(t)
<1>1. HasValue(s) => JsonValue(s) = JsonValue(t) /\ s.valueType = t.valueType
  BY SeenDecides DEF JsonValue
<1>2. /\ s.signalId = t.signalId /\ s.unit = t.unit /\ s.source = t.source
      /\ s.quality = t.quality /\ s.availability = t.availability /\ s.timestamp = t.timestamp
      /\ HasValue(s) = HasValue(t)
  BY SeenDecides
<1> DEFINE v(u) == IF HasValue(u)
                   THEN Literal(",valueType:") \o Name(u.valueType)
                          \o Literal(",value:") \o JsonValue(u)
                   ELSE <<>>
<1>3. v(s) = v(t)
  BY <1>1, <1>2
<1>4. ASSUME NEW u
      PROVE  SampleObject(u)
               = Literal("{signalId:") \o Quoted(u.signalId) \o Literal(",unit:") \o Quoted(u.unit)
                   \o v(u)
                   \o Literal(",source:") \o Name(u.source)
                   \o Literal(",quality:") \o Name(u.quality)
                   \o Literal(",availability:") \o Name(u.availability)
                   \o Literal(",timestampMs:'") \o Digits(u.timestamp) \o Literal("'}")
  BY DEF SampleObject
<1> HIDE DEF v
<1> QED
  BY <1>2, <1>3, <1>4

LEMMA ResponseShows ==
  ASSUME NEW f, NEW g, IsPublished(f), IsPublished(g), View("response", f) = View("response", g)
  PROVE  ResponseTo(f) = ResponseTo(g)
<1> DEFINE m == f.metadata
           n == g.metadata
           a == f.samples
           b == g.samples
<1>1. ASSUME NEW h
      PROVE  View("response", h)
               = << h.metadata.selectionState, h.metadata.activeIdentity,
                    h.metadata.hasCapabilityRegistry, h.capabilities, Views(h.samples) >>
  BY DEF View, Views
<1>2. << m.selectionState, m.activeIdentity, m.hasCapabilityRegistry, f.capabilities, Views(a) >>
        = << n.selectionState, n.activeIdentity, n.hasCapabilityRegistry, g.capabilities, Views(b) >>
  BY <1>1
<1>3. /\ m.selectionState = n.selectionState /\ m.activeIdentity = n.activeIdentity
      /\ m.hasCapabilityRegistry = n.hasCapabilityRegistry
      /\ f.capabilities = g.capabilities /\ Views(a) = Views(b)
  BY <1>2
<1>4. a \in Seq(AnySample) /\ b \in Seq(AnySample)
      /\ m.capabilityCount = n.capabilityCount
      /\ Len(a) = m.sampleCount /\ Len(b) = n.sampleCount
  BY <1>3 DEF IsPublished
<1>5. DOMAIN a = DOMAIN b
  BY <1>3 DEF Views
<1>6. Len(a) = Len(b)
  <2> DEFINE x == Len(a)
             y == Len(b)
  <2>1. DOMAIN a = 1 .. x /\ DOMAIN b = 1 .. y /\ x \in Nat /\ y \in Nat
    BY <1>4, LenProperties
  <2>2. 1 .. x = 1 .. y
    BY <1>5, <2>1
  <2> HIDE DEF x, y
  <2>3. x \in 1 .. x \/ x = 0
    BY <2>1
  <2>4. y \in 1 .. y \/ y = 0
    BY <2>1
  <2>5. x <= y
    BY <2>1, <2>2, <2>3
  <2>6. y <= x
    BY <2>1, <2>2, <2>4
  <2>7. x = y
    BY <2>1, <2>5, <2>6
  <2> QED
    BY <2>7 DEF x, y
<1>7. SampleObjects(a) = SampleObjects(b)
  <2>1. ASSUME NEW i \in DOMAIN a
        PROVE  SampleObject(a[i]) = SampleObject(b[i])
    <3>1. Views(a)[i] = SampleView(a[i]) /\ Views(b)[i] = SampleView(b[i])
      BY <1>5, <2>1 DEF Views
    <3> QED
      BY <1>3, <3>1, SampleObjectShows
  <2> QED
    BY <1>5, <2>1 DEF SampleObjects
<1>8. ASSUME NEW h, IsPublished(h)
      PROVE  ResponseTo(h)
               = Literal("{profileSelection:") \o Name(h.metadata.selectionState)
                   \o (IF h.metadata.activeIdentity = <<>> THEN <<>>
                       ELSE Literal(",activeProfileId:") \o Digits(h.metadata.activeIdentity))
                   \o Literal(",capabilities:") \o CapabilityList(h.metadata, h.capabilities)
                   \o Literal(",samples:[") \o Separated(SampleObjects(h.samples), Len(h.samples))
                   \o Literal("]}")
  <2>1. Len(h.capabilities) = h.metadata.capabilityCount /\ Len(h.samples) = h.metadata.sampleCount
    BY <1>8 DEF IsPublished
  <2> QED
    BY <2>1 DEF ResponseTo, Response, CapabilityList, CapabilityObjects, SampleObjects
<1>9. CapabilityList(m, f.capabilities) = CapabilityList(n, g.capabilities)
  BY <1>3 DEF CapabilityList
<1>10. ResponseTo(f) =
         Literal("{profileSelection:") \o Name(m.selectionState)
           \o (IF m.activeIdentity = <<>> THEN <<>>
               ELSE Literal(",activeProfileId:") \o Digits(m.activeIdentity))
           \o Literal(",capabilities:") \o CapabilityList(m, f.capabilities)
           \o Literal(",samples:[") \o Separated(SampleObjects(a), Len(a)) \o Literal("]}")
  BY <1>8
<1>11. ResponseTo(g) =
         Literal("{profileSelection:") \o Name(n.selectionState)
           \o (IF n.activeIdentity = <<>> THEN <<>>
               ELSE Literal(",activeProfileId:") \o Digits(n.activeIdentity))
           \o Literal(",capabilities:") \o CapabilityList(n, g.capabilities)
           \o Literal(",samples:[") \o Separated(SampleObjects(b), Len(b)) \o Literal("]}")
  BY <1>8
<1>12. m.selectionState = n.selectionState /\ m.activeIdentity = n.activeIdentity
  BY <1>3
<1> DEFINE id(k) == IF k.activeIdentity = <<>> THEN <<>>
                    ELSE Literal(",activeProfileId:") \o Digits(k.activeIdentity)
           list(l) == Separated(SampleObjects(l), Len(l))
<1>13. Name(m.selectionState) = Name(n.selectionState) /\ id(m) = id(n) /\ list(a) = list(b)
  BY <1>6, <1>7, <1>12
<1> HIDE DEF m, n, a, b
<1>14. ResponseTo(f) =
         Literal("{profileSelection:") \o Name(m.selectionState) \o id(m)
           \o Literal(",capabilities:") \o CapabilityList(m, f.capabilities)
           \o Literal(",samples:[") \o list(a) \o Literal("]}")
  BY <1>10
<1>15. ResponseTo(g) =
         Literal("{profileSelection:") \o Name(n.selectionState) \o id(n)
           \o Literal(",capabilities:") \o CapabilityList(n, g.capabilities)
           \o Literal(",samples:[") \o list(b) \o Literal("]}")
  BY <1>11
<1> HIDE DEF id, list
<1> QED
  BY <1>9, <1>13, <1>14, <1>15

\* The validity of what is published, by its kind.
LEMMA PublishedIs ==
  ASSUME NEW kind \in Kind, NEW input \in Input[kind], IsValid(kind, input)
  PROVE  /\ kind = "snapshot" => /\ input \in AnyMetadata
                                 /\ input.capabilityCount <= MaxU16 /\ input.sampleCount <= MaxU16
                                 /\ Chunks(kind, input) = BleSnapshot(input)
         /\ kind = "capability" => /\ input \in [value : AnyCapability, index : Nat]
                                   /\ input.index <= MaxU16
                                   /\ Chunks(kind, input) = BleCapability(input)
         /\ kind = "sample" => /\ input \in [value : AnySample, index : Nat]
                               /\ input.index <= MaxU16
                               /\ Chunks(kind, input) = BleSample(input)
         /\ kind = "response" => IsPublished(input) /\ Chunks(kind, input) = ResponseTo(input)
<1>1. ASSUME kind = "snapshot"
      PROVE  /\ input \in AnyMetadata
             /\ input.capabilityCount <= MaxU16 /\ input.sampleCount <= MaxU16
             /\ Chunks(kind, input) = BleSnapshot(input)
  <2>1. input \in AnyMetadata
    BY <1>1, InputsAreTyped
  <2>2. IsValidBleSnapshot(input) /\ Chunks(kind, input) = BleSnapshot(input)
    BY <1>1 DEF IsValid, Chunks
  <2> QED
    BY <2>1, <2>2 DEF IsValidBleSnapshot
<1>2. ASSUME kind = "capability"
      PROVE  /\ input \in [value : AnyCapability, index : Nat]
             /\ input.index <= MaxU16
             /\ Chunks(kind, input) = BleCapability(input)
  <2>1. input \in [value : AnyCapability, index : Nat]
    BY <1>2, InputsAreTyped
  <2>2. IsValidBleCapability(input) /\ Chunks(kind, input) = BleCapability(input)
    BY <1>2 DEF IsValid, Chunks
  <2> QED
    BY <2>1, <2>2 DEF IsValidBleCapability
<1>3. ASSUME kind = "sample"
      PROVE  /\ input \in [value : AnySample, index : Nat]
             /\ input.index <= MaxU16
             /\ Chunks(kind, input) = BleSample(input)
  <2>1. input \in [value : AnySample, index : Nat]
    BY <1>3, InputsAreTyped
  <2>2. IsValidBleSample(input) /\ Chunks(kind, input) = BleSample(input)
    BY <1>3 DEF IsValid, Chunks
  <2> QED
    BY <2>1, <2>2 DEF IsValidBleSample
<1>4. ASSUME kind = "response"
      PROVE  IsPublished(input) /\ Chunks(kind, input) = ResponseTo(input)
  <2>1. /\ input \in [metadata : AnyMetadata, capabilities : Seq(AnyCapability),
                      samples : Seq(AnySample)]
        /\ Len(input.capabilities) = input.metadata.capabilityCount
        /\ Len(input.samples) = input.metadata.sampleCount
    BY <1>4, InputsAreTyped
  <2>2. /\ input.metadata \in AnyMetadata /\ input.capabilities \in Seq(AnyCapability)
        /\ input.samples \in Seq(AnySample)
    BY <2>1
  <2>3. IsConsistent(input.metadata)
    BY <1>4 DEF IsValid, IsValidResponse
  <2>4. Chunks(kind, input) = ResponseTo(input)
    BY <1>4 DEF Chunks, ResponseTo
  <2> QED
    BY <2>1, <2>2, <2>3, <2>4 DEF IsPublished
<1> QED
  BY <1>1, <1>2, <1>3, <1>4

LEMMA ContentTells ==
  ASSUME NEW kind \in Kind, NEW f \in Input[kind], NEW g \in Input[kind],
         IsValid(kind, f), IsValid(kind, g)
  PROVE  /\ Tell(Chunks(kind, f), Chunks(kind, g), View(kind, f), View(kind, g))
         /\ View(kind, f) = View(kind, g) => Chunks(kind, f) = Chunks(kind, g)
<1>1. CASE kind = "snapshot"
  <2>1. Tell(BleSnapshot(f), BleSnapshot(g), f, g)
    BY <1>1, PublishedIs, BleSnapshotTells
  <2>2. View(kind, f) = f /\ View(kind, g) = g
    BY <1>1 DEF View
  <2>3. Chunks(kind, f) = BleSnapshot(f) /\ Chunks(kind, g) = BleSnapshot(g)
    BY <1>1, PublishedIs
  <2> QED
    BY <2>1, <2>2, <2>3
<1>2. CASE kind = "capability"
  <2>1. /\ f \in [value : AnyCapability, index : Nat] /\ g \in [value : AnyCapability, index : Nat]
        /\ f.index <= MaxU16 /\ g.index <= MaxU16
    BY <1>2, PublishedIs
  <2>2. /\ f.value \in AnyCapability /\ g.value \in AnyCapability /\ f.index \in Nat /\ g.index \in Nat
    BY <2>1
  <2>3. Tell(BleCapability(f), BleCapability(g), <<f.index, f.value>>, <<g.index, g.value>>)
    BY <2>1, <2>2, BleCapabilityTells
  <2>4. <<f.index, f.value>> = <<g.index, g.value>> => f = g
    <3>1. f = [value |-> f.value, index |-> f.index] /\ g = [value |-> g.value, index |-> g.index]
      BY <2>1
    <3> QED
      BY <3>1
  <2>5. Tell(BleCapability(f), BleCapability(g), f, g)
    BY <2>3, <2>4, TellAlso
  <2>6. View(kind, f) = f /\ View(kind, g) = g
    BY <1>2 DEF View
  <2>7. Chunks(kind, f) = BleCapability(f) /\ Chunks(kind, g) = BleCapability(g)
    BY <1>2, PublishedIs
  <2> QED
    BY <2>5, <2>6, <2>7
<1>3. CASE kind = "sample"
  <2>1. /\ f \in [value : AnySample, index : Nat] /\ g \in [value : AnySample, index : Nat]
        /\ f.index <= MaxU16 /\ g.index <= MaxU16
    BY <1>3, PublishedIs
  <2>2. /\ f.value \in AnySample /\ g.value \in AnySample /\ f.index \in Nat /\ g.index \in Nat
    BY <2>1
  <2>3. Tell(BleSample(f), BleSample(g), View("sample", f), View("sample", g))
    BY <2>1, <2>2, BleSampleTells
  <2>4. Chunks(kind, f) = BleSample(f) /\ Chunks(kind, g) = BleSample(g)
    BY <1>3, PublishedIs
  <2>5. ASSUME View("sample", f) = View("sample", g)
        PROVE  BleSample(f) = BleSample(g)
    <3>1. f.index = g.index /\ f.value.valueType = g.value.valueType
          /\ SampleView(f.value) = SampleView(g.value)
      <4>1. ASSUME NEW h
            PROVE  View("sample", h) = << h.index, h.value.valueType, SampleView(h.value) >>
        BY DEF View
      <4>2. << f.index, f.value.valueType, SampleView(f.value) >>
              = << g.index, g.value.valueType, SampleView(g.value) >>
        BY <2>5, <4>1
      <4> QED
        BY <4>2
    <3>2. BleValue(f.value) = BleValue(g.value)
      BY <3>1, SeenDecides DEF BleValue
    <3>3. /\ f.value.signalId = g.value.signalId /\ f.value.unit = g.value.unit
          /\ f.value.source = g.value.source /\ f.value.quality = g.value.quality
          /\ f.value.availability = g.value.availability
          /\ f.value.timestamp = g.value.timestamp
          /\ HasValue(f.value) = HasValue(g.value)
      BY <3>1, SeenDecides
    <3> QED
      BY <3>1, <3>2, <3>3 DEF BleSample
  <2> QED
    BY <1>3, <2>3, <2>4, <2>5
<1>4. CASE kind = "response"
  <2>1. IsPublished(f) /\ IsPublished(g)
    BY <1>4, PublishedIs
  <2>2. Tell(ResponseTo(f), ResponseTo(g), View("response", f), View("response", g))
    BY <2>1, ResponseTells
  <2>3. Chunks(kind, f) = ResponseTo(f) /\ Chunks(kind, g) = ResponseTo(g)
    BY <1>4, PublishedIs
  <2>4. View("response", f) = View("response", g) => ResponseTo(f) = ResponseTo(g)
    BY <2>1, ResponseShows
  <2> QED
    BY <1>4, <2>2, <2>3, <2>4
<1> QED
  BY <1>1, <1>2, <1>3, <1>4 DEF Kind

(***************************************************************************)
(* The memory of the caller.                                               *)
(***************************************************************************)

LEMMA PublishingRespectsMemory ==
  ASSUME NEW kind \in Kind, NEW input \in Input[kind],
         NEW capacity \in Nat, capacity <= MemorySize, NEW isNull \in BOOLEAN,
         IsValid(kind, input)
  PROVE  Respects(Encoded(TRUE, Chunks(kind, input),
                                      Terminator(kind), Memory,
                                      capacity, isNull),
                  Content(kind, input) \o Terminator(kind),
                  Memory, capacity)
<1> DEFINE chunks == Chunks(kind, input)
           terminator == Terminator(kind)
           memory == Memory
           content == FlattenSeq(chunks) \o terminator
<1>1. chunks \in Seq(Seq(Nat))
  <2>1. chunks \in Chunked
    BY ContentTells DEF Tell
  <2> HIDE DEF chunks
  <2> QED
    BY <2>1 DEF Chunked, Cells
<1>2. memory \in Seq({Untouched}) /\ Len(memory) = MemorySize
  <2>1. memory \in [1 .. MemorySize -> {Untouched}]
    BY DEF Memory
  <2> HIDE DEF memory
  <2> QED
    BY <2>1, MemoryIsNatural, SeqDef
<1>3. terminator \in Seq({0})
  <2>1. <<0>> \in Seq({0}) /\ <<>> \in Seq({0})
    OBVIOUS
  <2> QED
    BY <2>1, Zenon DEF Terminator
<1>4. Content(kind, input) = FlattenSeq(chunks)
  BY DEF Content
<1> HIDE DEF chunks, terminator, memory
<1> DEFINE T == Nat \cup {0, Untouched}
<1>5. Nat \subseteq T /\ {0} \subseteq T /\ {Untouched} \subseteq T
  OBVIOUS
<1> HIDE DEF T
<1>6. memory \in Seq(T) /\ terminator \in Seq(T)
  BY <1>2, <1>3, <1>5, SequenceIn
<1>7. chunks \in Seq(Seq(T))
  <2>1. Seq(Nat) \subseteq Seq(T)
    BY <1>5, SequenceIn
  <2> QED
    BY <1>1, <2>1, SequenceIn
<1>8. Respects(Encoded(TRUE, chunks, terminator, memory, capacity, isNull),
               content, memory, capacity)
  BY <1>2, <1>6, <1>7, EncodedRespectsMemory
<1> QED
  BY <1>4, <1>8 DEF chunks, terminator, memory

\* The caller's memory is its own (CallerMemoryIsRespected), whatever is published in memory
\* of whatever size: an encoder that fails leaves it alone, one that succeeds fills exactly
\* what it said is required, within the buffer.
THEOREM CallerMemoryIsRespectedHolds == PublicationSpec => []CallerMemoryIsRespected
<1>1. PublicationInit => CallerMemoryIsRespected
  BY DEF PublicationInit, CallerMemoryIsRespected
<1>2. CallerMemoryIsRespected /\ [PublicationNext]_publication
        => CallerMemoryIsRespected'
  <2> SUFFICES ASSUME CallerMemoryIsRespected, [PublicationNext]_publication
               PROVE  CallerMemoryIsRespected'
    OBVIOUS
  <2>1. ASSUME NEW kind \in Kind, NEW input \in Input[kind],
               Publish(kind, input)
        PROVE  CallerMemoryIsRespected'
    <3> DEFINE valid == IsValid(kind, input)
               chunks == IF valid THEN Chunks(kind, input) ELSE <<>>
               terminator == Terminator(kind)
               content == Content(kind, input) \o terminator
               memory == Memory
               needed == WriteAll(NewWriter(NoOutput, 0),
                                              chunks).size
               Result(c, n) == Encoded(valid, chunks, terminator, memory, c, n)
    <3>1. PICK capacity \in {0} \cup ({needed + slack : slack \in Slack} \cap 0 .. MemorySize),
               isNull \in BOOLEAN :
            publication' = [kind |-> kind, input |-> input, capacity |-> capacity,
                     result |-> Result(capacity, isNull)]
      BY <2>1 DEF Publish
    <3>2. capacity \in Nat /\ capacity <= MemorySize
      BY MemoryIsNatural
    <3> DEFINE r == Result(capacity, isNull)
    <3>3. Respects(r, content, memory, capacity)
      <4>1. CASE valid
        <5>1. r = Encoded(TRUE, Chunks(kind, input), terminator,
                                      memory, capacity, isNull)
          <6>1. valid = TRUE
            BY <4>1
          <6> QED
            BY <4>1, <6>1
        <5> QED
          BY <3>2, <4>1, <5>1, PublishingRespectsMemory
      <4>2. CASE ~valid
        <5> DEFINE x == [status |-> "InvalidInput", required |-> 0, memory |-> memory]
        <5>1. r = x
          BY <4>2 DEF Encoded
        <5>2. Respects(x, content, memory, capacity)
          BY DEF Respects
        <5> QED
          BY <5>1, <5>2
      <4> QED
        BY <4>1, <4>2
    <3>4. Len(memory) = MemorySize
      BY MemoryIsNatural DEF Memory
    <3> HIDE DEF r, needed, valid, chunks, Result
    <3>5. publication'.kind = kind /\ publication'.input = input /\ publication'.capacity = capacity
          /\ publication'.result = r
      BY <3>1 DEF r
    <3> QED
      BY <3>3, <3>4, <3>5 DEF Respects, CallerMemoryIsRespected
  <2>2. CASE PassOn
    BY <2>2 DEF PassOn, CallerMemoryIsRespected
  <2>3. CASE UNCHANGED publication
    BY <2>3 DEF CallerMemoryIsRespected
  <2> QED
    BY <2>1, <2>2, <2>3 DEF PublicationNext
<1> QED
  BY <1>1, <1>2, PTL DEF PublicationSpec

(***************************************************************************)
(* The JSON reader: it reads what is joined one after the other.           *)
(***************************************************************************)

\* The function f lists the reader after each of the first n cells.
IsReading(f, reader, cells, n) ==
  f = [i \in 0 .. n |-> IF i = 0 THEN reader ELSE ReadCell(f[i - 1], cells[i])]

LEMMA ReadingExists ==
  ASSUME NEW reader, NEW cells
  PROVE  \A n \in Nat : \E f : IsReading(f, reader, cells, n)
<1> DEFINE P == {n \in Nat : \E f : IsReading(f, reader, cells, n)}
<1>1. 0 \in P
  <2> DEFINE f == [i \in 0 .. 0 |-> reader]
  <2>1. IsReading(f, reader, cells, 0)
    BY DEF IsReading
  <2> QED
    BY <2>1
<1>2. ASSUME NEW n \in Nat, n \in P
      PROVE  n + 1 \in P
  <2>1. PICK f : IsReading(f, reader, cells, n)
    BY <1>2
  <2> DEFINE last == ReadCell(f[n], cells[n + 1])
             g == [i \in 0 .. n + 1 |-> IF i = n + 1 THEN last ELSE f[i]]
             Step(h, i) == IF i = 0 THEN reader ELSE ReadCell(h[i - 1], cells[i])
  <2>2. \A i \in 0 .. n : f[i] = Step(f, i)
    BY <2>1 DEF IsReading
  <2>3. ASSUME NEW i \in 0 .. n + 1
        PROVE  g[i] = Step(g, i)
    <3> DEFINE l == last
    <3>1. g = [x \in 0 .. n + 1 |-> IF x = n + 1 THEN l ELSE f[x]]
      OBVIOUS
    <3> HIDE DEF l, g
    <3>2. CASE i = n + 1
      <4>1. g[i] = l /\ g[i - 1] = f[n] /\ i - 1 = n /\ i # 0
        BY <3>1, <3>2
      <4> QED
        BY <3>2, <4>1 DEF l
    <3>3. CASE i = 0
      <4>1. g[0] = f[0] /\ f[0] = reader
        BY <2>2, <3>1
      <4> QED
        BY <3>3, <4>1
    <3>4. CASE i # n + 1 /\ i # 0
      <4>1. i \in 0 .. n /\ i - 1 \in 0 .. n /\ g[i] = f[i] /\ g[i - 1] = f[i - 1]
        BY <3>1, <3>4
      <4> QED
        BY <2>2, <3>4, <4>1
    <3> QED
      BY <3>2, <3>3, <3>4
  <2>4. g = [i \in 0 .. n + 1 |-> g[i]]
    OBVIOUS
  <2> HIDE DEF g
  <2>5. IsReading(g, reader, cells, n + 1)
    BY <2>3, <2>4 DEF IsReading
  <2> QED
    BY <2>5
<1> HIDE DEF P
<1>3. \A n \in Nat : n \in P
  BY <1>1, <1>2, AllNaturals
<1> QED
  BY <1>3 DEF P

\* The reader after each cell, from the first on.
Readings(f, reader, cells) ==
  f[0] = reader /\ \A i \in 1 .. Len(cells) : f[i] = ReadCell(f[i - 1], cells[i])

LEMMA ReadIs ==
  ASSUME NEW reader, NEW cells \in Cells
  PROVE  \E f : Readings(f, reader, cells) /\ Read(reader, cells) = f[Len(cells)]
<1> DEFINE n == Len(cells)
           g == CHOOSE g : IsReading(g, reader, cells, n)
<1>1. n \in Nat
  BY LenProperties DEF Cells
<1>2. IsReading(g, reader, cells, n)
  BY <1>1, ReadingExists
<1>3. Read(reader, cells) = g[n]
  BY DEF Read, IsReading
<1> HIDE DEF g
<1>4. \A i \in 0 .. n : g[i] = IF i = 0 THEN reader ELSE ReadCell(g[i - 1], cells[i])
  BY <1>2 DEF IsReading
<1>5. g[0] = reader /\ \A i \in 1 .. n : g[i] = ReadCell(g[i - 1], cells[i])
  BY <1>1, <1>4
<1> QED
  BY <1>3, <1>5 DEF Readings

\* Two that read the same from the same agree.
LEMMA ReadingsAgree ==
  ASSUME NEW f, NEW g, NEW r, NEW x \in Cells, NEW y \in Cells,
         Readings(f, r, x), Readings(g, r, y), NEW n \in Nat, n <= Len(x), n <= Len(y),
         \A i \in 1 .. n : x[i] = y[i]
  PROVE  f[n] = g[n]
<1> DEFINE P == {i \in Nat : i <= n => f[i] = g[i]}
<1>1. 0 \in P
  BY DEF Readings
<1>2. ASSUME NEW i \in Nat, i \in P
      PROVE  i + 1 \in P
  <2> SUFFICES ASSUME i + 1 <= n
               PROVE  f[i + 1] = g[i + 1]
    OBVIOUS
  <2> DEFINE k == Len(x)
             m == Len(y)
  <2>1. k \in Nat /\ m \in Nat /\ n <= k /\ n <= m
    BY LenProperties DEF Cells
  <2>2. /\ \A j \in 1 .. k : f[j] = ReadCell(f[j - 1], x[j])
        /\ \A j \in 1 .. m : g[j] = ReadCell(g[j - 1], y[j])
    BY DEF Readings
  <2> HIDE DEF k, m
  <2>3. i <= n /\ i + 1 \in 1 .. n /\ i + 1 \in 1 .. k /\ i + 1 \in 1 .. m /\ (i + 1) - 1 = i
    BY <2>1
  <2>4. f[i] = g[i] /\ x[i + 1] = y[i + 1]
    BY <1>2, <2>3
  <2>5. f[i + 1] = ReadCell(f[i], x[i + 1]) /\ g[i + 1] = ReadCell(g[i], y[i + 1])
    BY <2>2, <2>3
  <2> QED
    BY <2>4, <2>5
<1> HIDE DEF P
<1>3. n \in P
  BY <1>1, <1>2, AllNaturals
<1> QED
  BY <1>3 DEF P

LEMMA ReadingIsRead ==
  ASSUME NEW f, NEW r, NEW x \in Cells, Readings(f, r, x)
  PROVE  Read(r, x) = f[Len(x)]
<1>1. PICK g : Readings(g, r, x) /\ Read(r, x) = g[Len(x)]
  BY ReadIs
<1>2. Len(x) \in Nat /\ Len(x) <= Len(x)
  BY LenProperties DEF Cells
<1>3. f[Len(x)] = g[Len(x)]
  BY <1>1, <1>2, ReadingsAgree
<1> QED
  BY <1>1, <1>3

LEMMA ReadNothing ==
  ASSUME NEW r
  PROVE  Read(r, <<>>) = r
<1>1. Readings([i \in 0 .. 0 |-> r], r, <<>>)
  BY DEF Readings
<1>2. Len(<<>>) = 0 /\ <<>> \in Cells
  BY NoCells
<1> QED
  BY <1>1, <1>2, ReadingIsRead

LEMMA ReadOne ==
  ASSUME NEW r, NEW c \in Nat
  PROVE  Read(r, <<c>>) = ReadCell(r, c)
<1>1. <<c>> \in Cells /\ Len(<<c>>) = 1 /\ <<c>>[1] = c
  BY CellIs
<1>2. PICK f : Readings(f, r, <<c>>) /\ Read(r, <<c>>) = f[Len(<<c>>)]
  BY <1>1, ReadIs
<1>3. f[0] = r /\ \A i \in 1 .. 1 : f[i] = ReadCell(f[i - 1], <<c>>[i])
  BY <1>1, <1>2 DEF Readings
<1>4. f[1] = ReadCell(f[0], <<c>>[1])
  <2>1. 1 \in 1 .. 1 /\ 1 - 1 = 0
    OBVIOUS
  <2> QED
    BY <1>3, <2>1, Zenon
<1> QED
  BY <1>1, <1>2, <1>3, <1>4

LEMMA ReadJoined ==
  ASSUME NEW r, NEW x \in Cells, NEW y \in Cells
  PROVE  Read(r, x \o y) = Read(Read(r, x), y)
<1> DEFINE z == x \o y
           m == Len(x)
           n == Len(y)
<1>1. z \in Cells
  BY CellsJoin
<1>2. /\ Len(z) = m + n /\ m \in Nat /\ n \in Nat
      /\ \A i \in 1 .. m + n : z[i] = IF i <= m THEN x[i] ELSE y[i - m]
  BY ConcatProperties DEF Cells
<1>3. PICK f : Readings(f, r, z) /\ Read(r, z) = f[Len(z)]
  BY <1>1, ReadIs
<1> HIDE DEF z
<1>4. f[0] = r /\ \A i \in 1 .. m + n : f[i] = ReadCell(f[i - 1], z[i])
  BY <1>2, <1>3 DEF Readings
<1> DEFINE g == [i \in 0 .. n |-> f[m + i]]
<1>5. Readings(f, r, x)
  <2>1. ASSUME NEW i \in 1 .. m
        PROVE  f[i] = ReadCell(f[i - 1], x[i])
    <3> HIDE DEF m, n
    <3>1. i \in 1 .. m + n /\ i <= m
      BY <1>2
    <3>2. z[i] = x[i]
      BY <1>2, <3>1
    <3> QED
      BY <1>4, <3>1, <3>2
  <2> QED
    BY <1>4, <2>1 DEF Readings
<1>6. Read(r, x) = f[m]
  BY <1>5, ReadingIsRead
<1>7. Readings(g, f[m], y)
  <2> HIDE DEF m, n
  <2>1. g[0] = f[m]
    <3>1. 0 \in 0 .. n /\ m + 0 = m
      BY <1>2
    <3> QED
      BY <3>1
  <2>2. ASSUME NEW i \in 1 .. n
        PROVE  g[i] = ReadCell(g[i - 1], y[i])
    <3>1. i \in 0 .. n /\ i - 1 \in 0 .. n /\ m + i \in 1 .. m + n /\ ~(m + i <= m)
          /\ (m + i) - m = i /\ (m + i) - 1 = m + (i - 1)
      BY <1>2
    <3>2. g[i] = f[m + i] /\ g[i - 1] = f[m + (i - 1)]
      BY <3>1
    <3>3. z[m + i] = y[i]
      BY <1>2, <3>1
    <3>4. f[m + i] = ReadCell(f[(m + i) - 1], z[m + i])
      BY <1>4, <3>1
    <3> QED
      BY <3>1, <3>2, <3>3, <3>4
  <2> QED
    BY <2>1, <2>2 DEF Readings, n
<1>8. Read(f[m], y) = g[n]
  BY <1>7, ReadingIsRead
<1>9. g[n] = f[m + n]
  <2> HIDE DEF m, n
  <2> QED
    BY <1>2
<1> QED
  BY <1>2, <1>3, <1>6, <1>8, <1>9 DEF z

\* A reader and what becomes of it.
Reader(mode, texts, text, hex) == [mode |-> mode, text |-> text, hex |-> hex, texts |-> texts]
Became(r, mode, text) == [r EXCEPT !.mode = mode, !.text = text]
WithHex(r, hex)       == [r EXCEPT !.hex = hex]
WithText(r, text)     == [r EXCEPT !.mode = "outside", !.texts = Append(@, text)]

LEMMA ReaderIs ==
  ASSUME NEW mode, NEW ts, NEW tx, NEW hx
  PROVE  LET r == Reader(mode, ts, tx, hx) IN
         r.mode = mode /\ r.texts = ts /\ r.text = tx /\ r.hex = hx
BY DEF Reader

LEMMA BecameIs ==
  ASSUME NEW mode, NEW ts, NEW tx, NEW hx, NEW m, NEW t
  PROVE  Became(Reader(mode, ts, tx, hx), m, t) = Reader(m, ts, t, hx)
<1> DEFINE r == Reader(mode, ts, tx, hx)
<1>1. Became(r, m, t) = [[r EXCEPT !.mode = m] EXCEPT !.text = t]
  BY DEF Became
<1>2. [r EXCEPT !.mode = m] = Reader(m, ts, tx, hx)
  BY DEF Reader
<1>3. [Reader(m, ts, tx, hx) EXCEPT !.text = t] = Reader(m, ts, t, hx)
  BY DEF Reader
<1> QED
  BY <1>1, <1>2, <1>3

LEMMA WithHexIs ==
  ASSUME NEW mode, NEW ts, NEW tx, NEW hx, NEW h
  PROVE  WithHex(Reader(mode, ts, tx, hx), h) = Reader(mode, ts, tx, h)
BY DEF Reader, WithHex

LEMMA WithTextIs ==
  ASSUME NEW mode, NEW ts, NEW tx, NEW hx, NEW t
  PROVE  WithText(Reader(mode, ts, tx, hx), t) = Reader("outside", Append(ts, t), tx, hx)
<1> DEFINE r == Reader(mode, ts, tx, hx)
           more == Append(ts, t)
<1>1. r.texts = ts
  BY ReaderIs
<1>2. WithText(r, t) = [[r EXCEPT !.mode = "outside"] EXCEPT !.texts = more]
  <2> HIDE DEF r
  <2> QED
    BY <1>1 DEF WithText
<1> HIDE DEF more
<1>3. [r EXCEPT !.mode = "outside"] = Reader("outside", ts, tx, hx)
  BY DEF Reader
<1>4. [Reader("outside", ts, tx, hx) EXCEPT !.texts = more] = Reader("outside", more, tx, hx)
  BY DEF Reader
<1> QED
  BY <1>2, <1>3, <1>4 DEF more

\* Outside the quotes.
LEMMA OutsideReads ==
  ASSUME NEW ts, NEW tx, NEW hx
  PROVE  /\ ReadCell(Reader("outside", ts, tx, hx), 34) = Reader("inside", ts, <<>>, hx)
         /\ \A c \in Nat : c >= 300 => ReadCell(Reader("outside", ts, tx, hx), c)
                                         = Reader("outside", ts, tx, hx)
<1> DEFINE r == Reader("outside", ts, tx, hx)
<1>1. r.mode = "outside"
  BY ReaderIs
<1>2. Became(r, "inside", <<>>) = Reader("inside", ts, <<>>, hx)
  BY BecameIs
<1> HIDE DEF r
<1>3. ASSUME NEW c
      PROVE  ReadCell(r, c) = IF c = Quote THEN Became(r, "inside", <<>>)
                              ELSE IF c >= 300 THEN r ELSE Became(r, "malformed", <<>>)
  BY <1>1 DEF ReadCell, Became
<1>4. ReadCell(r, 34) = Reader("inside", ts, <<>>, hx)
  BY <1>2, <1>3, MarksAre
<1>5. ASSUME NEW c \in Nat, c >= 300
      PROVE  ReadCell(r, c) = r
  BY <1>3, <1>5, MarksAre
<1> QED
  BY <1>4, <1>5 DEF r

\* Between the quotes.
LEMMA InsideReads ==
  ASSUME NEW ts, NEW tx, NEW hx
  PROVE  /\ ReadCell(Reader("inside", ts, tx, hx), 34) = Reader("outside", Append(ts, tx), tx, hx)
         /\ ReadCell(Reader("inside", ts, tx, hx), 92) = Reader("escape", ts, tx, hx)
         /\ \A c \in Nat : c >= 32 /\ c # 34 /\ c # 92
              => ReadCell(Reader("inside", ts, tx, hx), c) = Reader("inside", ts, Append(tx, c), hx)
<1> DEFINE r == Reader("inside", ts, tx, hx)
<1>1. r.mode = "inside" /\ r.text = tx
  BY ReaderIs
<1>2. WithText(r, tx) = Reader("outside", Append(ts, tx), tx, hx)
  BY WithTextIs
<1>3. \A m, t : Became(r, m, t) = Reader(m, ts, t, hx)
  BY BecameIs
<1> HIDE DEF r
<1>4. ASSUME NEW c
      PROVE  ReadCell(r, c) = IF c = Quote THEN WithText(r, tx)
                              ELSE IF c = Backslash THEN Became(r, "escape", tx)
                              ELSE IF c < 32 THEN Became(r, "malformed", <<>>)
                              ELSE Became(r, "inside", Append(tx, c))
  BY <1>1 DEF ReadCell, Became, WithText
<1>5. ReadCell(r, 34) = WithText(r, tx)
  BY <1>4, MarksAre
<1>6. ReadCell(r, 92) = Became(r, "escape", tx)
  BY <1>4, MarksAre
<1>7. ASSUME NEW c \in Nat, c >= 32, c # 34, c # 92
      PROVE  ReadCell(r, c) = Reader("inside", ts, Append(tx, c), hx)
  <2>1. c # Quote /\ c # Backslash /\ ~(c < 32)
    BY <1>7, MarksAre
  <2> DEFINE more == Append(tx, c)
  <2>2. ReadCell(r, c) = Became(r, "inside", more)
    BY <1>4, <2>1
  <2> HIDE DEF more
  <2>3. ReadCell(r, c) = Reader("inside", ts, more, hx)
    BY <1>3, <2>2
  <2> QED
    BY <2>3 DEF more
<1> QED
  BY <1>2, <1>3, <1>5, <1>6, <1>7 DEF r

\* Behind a backslash.
LEMMA EscapeReads ==
  ASSUME NEW ts, NEW tx, NEW hx
  PROVE  /\ ReadCell(Reader("escape", ts, tx, hx), 117) = Reader("hex", ts, tx, <<>>)
         /\ \A c \in {34, 92} : ReadCell(Reader("escape", ts, tx, hx), c)
                                  = Reader("inside", ts, Append(tx, c), hx)
         /\ \A d \in {8, 9, 10, 12, 13} :
              ReadCell(Reader("escape", ts, tx, hx), Letter[d])
                = Reader("inside", ts, Append(tx, d), hx)
<1> DEFINE r == Reader("escape", ts, tx, hx)
<1>1. r.mode = "escape" /\ r.text = tx
  BY ReaderIs
<1>2. \A m, t : Became(r, m, t) = Reader(m, ts, t, hx)
  BY BecameIs
<1>3. WithHex(Became(r, "hex", tx), <<>>) = Reader("hex", ts, tx, <<>>)
  <2>1. WithHex(Reader("hex", ts, tx, hx), <<>>) = Reader("hex", ts, tx, <<>>)
    BY WithHexIs
  <2>2. Became(r, "hex", tx) = Reader("hex", ts, tx, hx)
    BY <1>2
  <2> QED
    BY <2>1, <2>2
<1> HIDE DEF r
<1> DEFINE isLetter(c) == \E d \in DOMAIN Letter : Letter[d] = c
           letterOf(c) == CHOOSE d \in DOMAIN Letter : Letter[d] = c
<1>4. ASSUME NEW c
      PROVE  ReadCell(r, c)
               = IF c = 117 THEN WithHex(Became(r, "hex", tx), <<>>)
                 ELSE IF c \in {Quote, Backslash} THEN Became(r, "inside", Append(tx, c))
                 ELSE IF isLetter(c) THEN Became(r, "inside", Append(tx, letterOf(c)))
                 ELSE Became(r, "malformed", <<>>)
  BY <1>1 DEF ReadCell, Became, WithHex
<1>5. ReadCell(r, 117) = Reader("hex", ts, tx, <<>>)
  BY <1>3, <1>4
<1>6. ASSUME NEW c \in {34, 92}
      PROVE  ReadCell(r, c) = Reader("inside", ts, Append(tx, c), hx)
  <2>1. c # 117 /\ c \in {Quote, Backslash}
    BY MarksAre
  <2> HIDE DEF isLetter, letterOf
  <2> DEFINE more == Append(tx, c)
  <2>2. ReadCell(r, c) = Became(r, "inside", more)
    BY <1>4, <2>1
  <2> HIDE DEF more
  <2>3. ReadCell(r, c) = Reader("inside", ts, more, hx)
    BY <1>2, <2>2
  <2> QED
    BY <2>3 DEF more
<1>7. ASSUME NEW d \in {8, 9, 10, 12, 13}
      PROVE  ReadCell(r, Letter[d]) = Reader("inside", ts, Append(tx, d), hx)
  <2> DEFINE c == Letter[d]
  <2>1. c # 117 /\ c \notin {Quote, Backslash}
    BY LetterIs, MarksAre
  <2>2. d \in DOMAIN Letter
    BY LetterIs
  <2>3. \A e \in DOMAIN Letter : Letter[e] = c => e = d
    BY LetterIs
  <2>4. isLetter(c) /\ letterOf(c) = d
    <3> HIDE DEF c
    <3>1. Letter[d] = c
      BY DEF c
    <3> QED
      BY <2>2, <2>3, <3>1
  <2> HIDE DEF isLetter, letterOf, c
  <2> DEFINE more == Append(tx, d)
  <2>5. ReadCell(r, c) = Became(r, "inside", more)
    BY <1>4, <2>1, <2>4
  <2> HIDE DEF more
  <2>6. ReadCell(r, c) = Reader("inside", ts, more, hx)
    BY <1>2, <2>5
  <2> QED
    BY <2>6 DEF more, c
<1> QED
  BY <1>5, <1>6, <1>7 DEF r

\* The digits of a number.
LEMMA HexValueIs ==
  /\ \A v \in 0 .. 15 : /\ HexDigit(v) \in HexCharacter
                        /\ HexValue(HexDigit(v)) = v
  /\ 48 \in HexCharacter /\ HexValue(48) = 0
<1>1. ASSUME NEW v \in 0 .. 15
      PROVE  HexDigit(v) \in HexCharacter /\ HexValue(HexDigit(v)) = v
  <2>1. CASE v < 10
    <3>1. HexDigit(v) = 48 + v
      BY <2>1 DEF HexDigit
    <3> QED
      BY <2>1, <3>1 DEF HexValue, HexCharacter
  <2>2. CASE ~(v < 10)
    <3>1. HexDigit(v) = 87 + v
      BY <2>2 DEF HexDigit
    <3>2. 87 + v \in 97 .. 102 /\ 87 + v \notin 48 .. 57 /\ (87 + v) - 87 = v
      BY <2>2
    <3> QED
      BY <3>1, <3>2 DEF HexValue, HexCharacter
  <2> QED
    BY <2>1, <2>2
<1>2. 48 \in HexCharacter /\ HexValue(48) = 0
  BY DEF HexValue, HexCharacter
<1> QED
  BY <1>1, <1>2

\* With the character c the digits read are hex.
IsLonger(hex, digits, c) == hex = Append(digits, HexValue(c))

LEMMA HexReads ==
  ASSUME NEW ts, NEW tx, NEW hx, NEW c \in HexCharacter,
         NEW hex, IsLonger(hex, hx, c)
  PROVE  /\ Len(hex) < 4 => ReadCell(Reader("hex", ts, tx, hx), c) = Reader("hex", ts, tx, hex)
         /\ ~(Len(hex) < 4) => ReadCell(Reader("hex", ts, tx, hx), c)
                                 = Reader("inside", ts, Append(tx, HexNumber(hex)), hx)
<1> DEFINE r == Reader("hex", ts, tx, hx)
           more == Append(tx, HexNumber(hex))
<1>1. r.mode = "hex" /\ r.text = tx /\ r.hex = hx
  BY ReaderIs
<1>2. \A h : WithHex(r, h) = Reader("hex", ts, tx, h)
  BY WithHexIs
<1>3. \A t : Became(r, "inside", t) = Reader("inside", ts, t, hx)
  BY BecameIs
<1> HIDE DEF r
<1>4. ReadCell(r, c) = LET h == Append(hx, HexValue(c)) IN
                       IF c \notin HexCharacter THEN Became(r, "malformed", <<>>)
                       ELSE IF Len(h) < 4 THEN WithHex(r, h)
                       ELSE Became(r, "inside", Append(tx, HexNumber(h)))
  BY <1>1 DEF ReadCell, Became, WithHex
<1>5. ReadCell(r, c) = IF Len(hex) < 4 THEN WithHex(r, hex) ELSE Became(r, "inside", more)
  BY <1>4, Zenon DEF IsLonger
<1> HIDE DEF more
<1>6. /\ Len(hex) < 4 => ReadCell(r, c) = Reader("hex", ts, tx, hex)
      /\ ~(Len(hex) < 4) => ReadCell(r, c) = Reader("inside", ts, more, hx)
  BY <1>2, <1>3, <1>5
<1> QED
  BY <1>6 DEF r, more

LEMMA ReadTwo ==
  ASSUME NEW r, NEW a \in Nat, NEW x \in Cells
  PROVE  Read(r, <<a>> \o x) = Read(ReadCell(r, a), x)
<1>1. <<a>> \in Cells
  BY CellIs
<1>2. Read(r, <<a>> \o x) = Read(Read(r, <<a>>), x)
  BY <1>1, ReadJoined
<1>3. Read(r, <<a>>) = ReadCell(r, a)
  BY ReadOne
<1> QED
  BY <1>2, <1>3

LEMMA ReadFive ==
  ASSUME NEW x \in Cells, Len(x) = 5, NEW r
  PROVE  Read(r, x) = ReadCell(ReadCell(ReadCell(ReadCell(ReadCell(r, x[1]), x[2]), x[3]), x[4]), x[5])
<1>1. Len(x) = 5
  OBVIOUS
<1>2. PICK f : Readings(f, r, x) /\ Read(r, x) = f[Len(x)]
  BY <1>1, ReadIs
<1>3. f[0] = r /\ \A i \in 1 .. 5 : f[i] = ReadCell(f[i - 1], x[i])
  BY <1>1, <1>2 DEF Readings
<1>4. f[1] = ReadCell(f[0], x[1])
  <2>1. 1 \in 1 .. 5 /\ 1 - 1 = 0
    OBVIOUS
  <2> QED
    BY <1>3, <2>1, Zenon
<1>5. f[2] = ReadCell(f[1], x[2])
  <2>1. 2 \in 1 .. 5 /\ 2 - 1 = 1
    OBVIOUS
  <2> QED
    BY <1>3, <2>1, Zenon
<1>6. f[3] = ReadCell(f[2], x[3])
  <2>1. 3 \in 1 .. 5 /\ 3 - 1 = 2
    OBVIOUS
  <2> QED
    BY <1>3, <2>1, Zenon
<1>7. f[4] = ReadCell(f[3], x[4])
  <2>1. 4 \in 1 .. 5 /\ 4 - 1 = 3
    OBVIOUS
  <2> QED
    BY <1>3, <2>1, Zenon
<1>8. f[5] = ReadCell(f[4], x[5])
  <2>1. 5 \in 1 .. 5 /\ 5 - 1 = 4
    OBVIOUS
  <2> QED
    BY <1>3, <2>1, Zenon
<1>9. Read(r, x) = f[5]
  BY <1>1, <1>2
<1> QED
  BY <1>1, <1>3, <1>4, <1>5, <1>6, <1>7, <1>8, <1>9, Zenon

\* From the reader r on, the cells are read to the end of the text tx.
ReadsTo(r, cells, ts, tx) == \E h : Read(r, cells) = Reader("inside", ts, tx, h)

ControlDigits(a, b) == <<117, 48, 48, HexDigit(a), HexDigit(b)>>

\* The four digits of a control character.
LEMMA ControlReads ==
  ASSUME NEW a \in 0 .. 15, NEW b \in 0 .. 15, NEW ts, NEW tx, NEW hx
  PROVE  ReadsTo(Reader("escape", ts, tx, hx), ControlDigits(a, b), ts, Append(tx, 16 * a + b))
<1> DEFINE c == 16 * a + b
           A == HexDigit(a)
           B == HexDigit(b)
<1>1. 0 \in 0 .. 15 /\ a \in Nat /\ b \in Nat
  OBVIOUS
<1>2. /\ A \in HexCharacter /\ B \in HexCharacter /\ HexValue(A) = a /\ HexValue(B) = b
      /\ 48 \in HexCharacter /\ HexValue(48) = 0 /\ A \in Nat /\ B \in Nat
  BY <1>1, HexValueIs, HexDigitIs
<1> HIDE DEF A, B
<1> DEFINE h1 == <<0>>
           h2 == <<0, 0>>
           h3 == <<0, 0, a>>
           h4 == <<0, 0, a, b>>
<1>3. /\ h1 = Append(<<>>, 0) /\ h2 = Append(h1, 0) /\ h3 = Append(h2, a) /\ h4 = Append(h3, b)
      /\ Len(h1) < 4 /\ Len(h2) < 4 /\ Len(h3) < 4 /\ ~(Len(h4) < 4)
  OBVIOUS
<1>4. HexNumber(h4) = c
  <2>1. HexNumber(h4) = 4096 * 0 + 256 * 0 + 16 * a + b
    BY DEF HexNumber
  <2> QED
    BY <1>1, <2>1
<1> HIDE DEF h1, h2, h3, h4, c
<1>5. IsLonger(h1, <<>>, 48) /\ IsLonger(h2, h1, 48) /\ IsLonger(h3, h2, A) /\ IsLonger(h4, h3, B)
  BY <1>2, <1>3 DEF IsLonger
<1>6. Len(h1) < 4 /\ Len(h2) < 4 /\ Len(h3) < 4 /\ ~(Len(h4) < 4)
  BY <1>3
<1>7. ReadCell(Reader("escape", ts, tx, hx), 117) = Reader("hex", ts, tx, <<>>)
  BY EscapeReads
<1>8. ReadCell(Reader("hex", ts, tx, <<>>), 48) = Reader("hex", ts, tx, h1)
  BY <1>2, <1>5, <1>6, HexReads
<1>9. ReadCell(Reader("hex", ts, tx, h1), 48) = Reader("hex", ts, tx, h2)
  BY <1>2, <1>5, <1>6, HexReads
<1>10. ReadCell(Reader("hex", ts, tx, h2), A) = Reader("hex", ts, tx, h3)
  BY <1>2, <1>5, <1>6, HexReads
<1>11. ReadCell(Reader("hex", ts, tx, h3), B) = Reader("inside", ts, Append(tx, c), h3)
  BY <1>2, <1>4, <1>5, <1>6, HexReads
<1>12. Read(Reader("escape", ts, tx, hx), <<117, 48, 48, A, B>>)
         = Reader("inside", ts, Append(tx, c), h3)
  <2> DEFINE r == Reader("escape", ts, tx, hx)
  <2> DEFINE x == <<117, 48, 48, A, B>>
  <2>1. x \in Cells /\ Len(x) = 5
    BY <1>2 DEF Cells
  <2>2. x[1] = 117 /\ x[2] = 48 /\ x[3] = 48 /\ x[4] = A /\ x[5] = B
    OBVIOUS
  <2> HIDE DEF x
  <2>3. Read(r, x) = ReadCell(ReadCell(ReadCell(ReadCell(ReadCell(r, 117), 48), 48), A), B)
    BY <2>1, <2>2, ReadFive
  <2>4. Read(r, x) = Reader("inside", ts, Append(tx, c), h3)
    BY <1>7, <1>8, <1>9, <1>10, <1>11, <2>3
  <2> QED
    BY <2>4 DEF x
<1> QED
  BY <1>12 DEF A, B, c, ReadsTo, ControlDigits

LEMMA EscapedReads ==
  ASSUME NEW c \in 0 .. 255, NEW ts, NEW tx, NEW hx
  PROVE  ReadsTo(Reader("inside", ts, tx, hx), Escaped(c), ts, Append(tx, c))
<1> DEFINE r == Reader("inside", ts, tx, hx)
           e == Reader("escape", ts, tx, hx)
<1>1. CASE IsEscaped(c)
  <2> DEFINE b == AfterBackslash(c)
  <2>1. Escaped(c) = <<Backslash>> \o b
    BY <1>1, EscapedIs
  <2>2. ReadCell(r, Backslash) = e
    BY InsideReads, MarksAre
  <2>3. b \in Cells
    BY <1>1, AfterBackslashTells DEF Tells
  <2>4. Read(r, Escaped(c)) = Read(e, b)
    BY <2>1, <2>2, <2>3, MarksAre, ReadTwo
  <2>5. \/ c \in {34, 92} /\ b = <<c>>
        \/ c \in {8, 9, 10, 12, 13} /\ b = <<Letter[c]>>
        \/ /\ c \in 0 .. 31
           /\ b = <<117, 48, 48, HexDigit(c \div 16), HexDigit(c % 16)>>
    BY <1>1, AfterBackslashIs, Zenon
  <2> HIDE DEF b, r, e
  <2>6. CASE c \in {34, 92} /\ b = <<c>>
    <3>1. Read(e, b) = ReadCell(e, c)
      BY <2>6, ReadOne
    <3>2. ReadCell(e, c) = Reader("inside", ts, Append(tx, c), hx)
      BY <2>6, EscapeReads DEF e
    <3> QED
      BY <2>4, <3>1, <3>2, Zenon DEF r, ReadsTo
  <2>7. CASE c \in {8, 9, 10, 12, 13} /\ b = <<Letter[c]>>
    <3>1. Letter[c] \in Nat
      BY <2>7, LetterIs
    <3>2. Read(e, b) = ReadCell(e, Letter[c])
      BY <2>7, <3>1, ReadOne
    <3>3. ReadCell(e, Letter[c]) = Reader("inside", ts, Append(tx, c), hx)
      BY <2>7, EscapeReads DEF e
    <3> QED
      BY <2>4, <3>2, <3>3, Zenon DEF r, ReadsTo
  <2>8. CASE c \in 0 .. 31 /\ b = <<117, 48, 48, HexDigit(c \div 16), HexDigit(c % 16)>>
    <3> DEFINE m == c \div 16
               n == c % 16
    <3>1. m \in 0 .. 15 /\ n \in 0 .. 15 /\ 16 * m + n = c
      BY <2>8
    <3>2. b = ControlDigits(m, n)
      BY <2>8 DEF ControlDigits
    <3> HIDE DEF m, n
    <3>3. ReadsTo(e, ControlDigits(m, n), ts, Append(tx, 16 * m + n))
      BY <3>1, ControlReads DEF e
    <3>4. ReadsTo(e, b, ts, Append(tx, c))
      BY <3>1, <3>2, <3>3, Zenon
    <3> QED
      BY <2>4, <3>4, Zenon DEF r, ReadsTo
  <2> QED
    BY <2>5, <2>6, <2>7, <2>8
<1>2. CASE ~IsEscaped(c)
  <2>1. Escaped(c) = <<c>>
    BY <1>2, EscapedIs
  <2>2. c \in Nat /\ c >= 32 /\ c # 34 /\ c # 92
    BY <1>2 DEF IsEscaped
  <2>3. ReadCell(r, c) = Reader("inside", ts, Append(tx, c), hx)
    BY <2>2, InsideReads
  <2>4. Read(r, Escaped(c)) = ReadCell(r, c)
    BY <2>1, <2>2, ReadOne
  <2> QED
    BY <2>3, <2>4, Zenon DEF ReadsTo
<1> QED
  BY <1>1, <1>2

\* The first n octets of a text.
Beginning(text, n) == [i \in 1 .. n |-> text[i]]

LEMMA BeginningIs ==
  ASSUME NEW text \in Octets, NEW n \in Nat
  PROVE  /\ Beginning(text, 0) = <<>> /\ Beginning(text, Len(text)) = text
         /\ n + 1 <= Len(text) => Beginning(text, n + 1) = Append(Beginning(text, n), text[n + 1])
<1>1. Beginning(text, 0) = <<>>
  BY DEF Beginning
<1>2. Beginning(text, Len(text)) = text
  BY DEF Beginning, Octets
<1>3. ASSUME n + 1 <= Len(text)
      PROVE  Beginning(text, n + 1) = Append(Beginning(text, n), text[n + 1])
  <2> DEFINE S == 0 .. 255
             f == Beginning(text, n)
             g == Beginning(text, n + 1)
             e == text[n + 1]
  <2>1. \A i \in 1 .. n + 1 : text[i] \in S
    BY <1>3, OctetsAre
  <2> HIDE DEF S
  <2>2. f \in Seq(S) /\ Len(f) = n /\ g \in Seq(S) /\ Len(g) = n + 1 /\ e \in S
    <3>1. f \in [1 .. n -> S] /\ g \in [1 .. n + 1 -> S] /\ n + 1 \in 1 .. n + 1
      BY <2>1 DEF Beginning
    <3> HIDE DEF f, g
    <3> QED
      BY <2>1, <3>1, SeqDef
  <2>3. /\ \A i \in 1 .. n + 1 : g[i] = text[i]
        /\ \A i \in 1 .. n : f[i] = text[i]
    BY DEF Beginning
  <2> HIDE DEF f, g
  <2>4. /\ Append(f, e) \in Seq(S) /\ Len(Append(f, e)) = n + 1
        /\ \A i \in 1 .. n : Append(f, e)[i] = f[i]
        /\ Append(f, e)[n + 1] = e
    BY <2>2, AppendProperties
  <2>5. \A i \in 1 .. n + 1 : g[i] = Append(f, e)[i]
    BY <2>3, <2>4
  <2>6. g = Append(f, e)
    BY <2>2, <2>4, <2>5, SeqEqual
  <2> QED
    BY <2>6 DEF f, g
<1> QED
  BY <1>1, <1>2, <1>3

LEMMA ReadsOn ==
  ASSUME NEW r, NEW x \in Cells, NEW ts, NEW tx, NEW c \in 0 .. 255, ReadsTo(r, x, ts, tx)
  PROVE  ReadsTo(r, x \o Escaped(c), ts, Append(tx, c))
<1>1. PICK h : Read(r, x) = Reader("inside", ts, tx, h)
  BY DEF ReadsTo
<1>2. Escaped(c) \in Cells
  BY EscapedBegins
<1>3. PICK k : Read(Reader("inside", ts, tx, h), Escaped(c)) = Reader("inside", ts, Append(tx, c), k)
  <2>1. ReadsTo(Reader("inside", ts, tx, h), Escaped(c), ts, Append(tx, c))
    BY EscapedReads
  <2> QED
    BY <2>1, Zenon DEF ReadsTo
<1>4. Read(r, x \o Escaped(c)) = Reader("inside", ts, Append(tx, c), k)
  BY <1>1, <1>2, <1>3, ReadJoined
<1> QED
  BY <1>4 DEF ReadsTo

LEMMA WrittenReads ==
  ASSUME NEW text \in Octets, NEW ts, NEW hx
  PROVE  ReadsTo(Reader("inside", ts, <<>>, hx), FlattenSeq(Written(text)), ts, text)
<1> DEFINE r == Reader("inside", ts, <<>>, hx)
           w == Written(text)
           n == Len(text)
<1>1. /\ w \in Seq(Cells) /\ Len(w) = n /\ n \in Nat
      /\ \A i \in 1 .. n : w[i] = Escaped(text[i]) /\ text[i] \in 0 .. 255
  BY WrittenIs, OctetsAre
<1>2. PICK j : AreJoined(j, w, Nat) /\ FlattenSeq(w) = j[Len(w)]
  BY <1>1, FlattenIs DEF Cells
<1> DEFINE P == {i \in Nat : i <= n => j[i] \in Cells /\ ReadsTo(r, j[i], ts, Beginning(text, i))}
<1> HIDE DEF w
<1>3. 0 \in P
  <2>1. j[0] = <<>> /\ Beginning(text, 0) = <<>> /\ <<>> \in Cells
    BY <1>2, BeginningIs, NoCells DEF AreJoined
  <2>2. Read(r, <<>>) = r
    BY ReadNothing
  <2> QED
    BY <2>1, <2>2 DEF ReadsTo
<1>4. ASSUME NEW i \in Nat, i \in P
      PROVE  i + 1 \in P
  <2> SUFFICES ASSUME i + 1 <= n
               PROVE  j[i + 1] \in Cells /\ ReadsTo(r, j[i + 1], ts, Beginning(text, i + 1))
    OBVIOUS
  <2> HIDE DEF r
  <2>1. j[i] \in Cells /\ ReadsTo(r, j[i], ts, Beginning(text, i))
    BY <1>1, <1>4
  <2>2. i + 1 \in 1 .. n /\ (i + 1) - 1 = i
    BY <1>1
  <2>3. j[i + 1] = j[i] \o Escaped(text[i + 1]) /\ text[i + 1] \in 0 .. 255
    BY <1>1, <1>2, <2>2 DEF AreJoined
  <2>4. Beginning(text, i + 1) = Append(Beginning(text, i), text[i + 1])
    BY BeginningIs
  <2>5. ReadsTo(r, j[i] \o Escaped(text[i + 1]), ts, Append(Beginning(text, i), text[i + 1]))
    BY <2>1, <2>3, ReadsOn
  <2>6. j[i] \o Escaped(text[i + 1]) \in Cells
    BY <2>1, <2>3, EscapedBegins, CellsJoin
  <2> QED
    BY <2>3, <2>4, <2>5, <2>6
<1> HIDE DEF P
<1>5. n \in P
  BY <1>1, <1>3, <1>4, AllNaturals
<1>6. ReadsTo(r, j[n], ts, Beginning(text, n))
  BY <1>1, <1>5 DEF P
<1> QED
  BY <1>1, <1>2, <1>6, BeginningIs DEF w

(***************************************************************************)
(* What a reader that stands outside the quotes takes out of chunks.       *)
(***************************************************************************)
StandsOutside(r, ts) == \E tx, hx : r = Reader("outside", ts, tx, hx)

Gives(c, t) ==
  /\ c \in Chunked /\ t \in Chunked
  /\ \A r : \A ts \in Chunked :
       StandsOutside(r, ts) => StandsOutside(Read(r, FlattenSeq(c)), ts \o t)

LEMMA GivesJoined ==
  \A c, d, t, u : Gives(c, t) /\ Gives(d, u) => Gives(c \o d, t \o u)
<1> SUFFICES ASSUME NEW c, NEW d, NEW t, NEW u, Gives(c, t), Gives(d, u)
             PROVE  Gives(c \o d, t \o u)
  OBVIOUS
<1>1. c \in Chunked /\ d \in Chunked /\ t \in Chunked /\ u \in Chunked
  BY DEF Gives
<1>2. c \o d \in Chunked /\ t \o u \in Chunked /\ FlattenSeq(c \o d) = FlattenSeq(c) \o FlattenSeq(d)
  BY <1>1, ChunkedJoin
<1>3. FlattenSeq(c) \in Cells /\ FlattenSeq(d) \in Cells
  BY <1>1, ChunkedIs
<1>4. ASSUME NEW r, NEW ts \in Chunked, StandsOutside(r, ts)
      PROVE  StandsOutside(Read(r, FlattenSeq(c \o d)), ts \o (t \o u))
  <2> DEFINE q == Read(r, FlattenSeq(c))
  <2>1. StandsOutside(q, ts \o t)
    BY <1>4 DEF Gives
  <2>2. ts \o t \in Chunked
    BY <1>1, ChunkedJoin
  <2> HIDE DEF q
  <2>3. StandsOutside(Read(q, FlattenSeq(d)), (ts \o t) \o u)
    BY <2>1, <2>2 DEF Gives
  <2>4. (ts \o t) \o u = ts \o (t \o u)
    BY <1>1, ChunkedAssociate
  <2>5. Read(r, FlattenSeq(c) \o FlattenSeq(d)) = Read(q, FlattenSeq(d))
    BY <1>3, ReadJoined DEF q
  <2> QED
    BY <1>2, <2>3, <2>4, <2>5
<1> QED
  BY <1>2, <1>4 DEF Gives

LEMMA GivesNothing == Gives(<<>>, <<>>)
<1>1. <<>> \in Chunked /\ FlattenSeq(<<>>) = <<>>
  BY ChunkedIs, FlattenNone
<1>2. ASSUME NEW r, NEW ts \in Chunked, StandsOutside(r, ts)
      PROVE  StandsOutside(Read(r, <<>>), ts \o <<>>)
  <2>1. Read(r, <<>>) = r
    BY ReadNothing
  <2>2. ts \o <<>> = ts
    BY ConcatEmptySeq DEF Chunked
  <2> QED
    BY <1>2, <2>1, <2>2
<1> QED
  BY <1>1, <1>2 DEF Gives

\* Cells beyond the bytes are pieces of JSON or digits of a number: there is no text in them.
LEMMA PiecesGive ==
  ASSUME NEW x \in Cells, \A i \in 1 .. Len(x) : x[i] >= 300
  PROVE  Gives(<<x>>, <<>>)
<1> DEFINE n == Len(x)
<1>1. n \in Nat /\ \A i \in 1 .. n : x[i] \in Nat /\ x[i] >= 300
  BY ElementOfSeq, LenProperties DEF Cells
<1>2. <<x>> \in Chunked /\ FlattenSeq(<<x>>) = x /\ <<>> \in Chunked
  BY ChunkedIs
<1>3. ASSUME NEW r, NEW ts \in Chunked, StandsOutside(r, ts)
      PROVE  Read(r, x) = r
  <2>1. PICK tx, hx : r = Reader("outside", ts, tx, hx)
    BY <1>3 DEF StandsOutside
  <2>2. \A c \in Nat : c >= 300 => ReadCell(r, c) = r
    BY <2>1, OutsideReads
  <2>3. PICK f : Readings(f, r, x) /\ Read(r, x) = f[Len(x)]
    BY ReadIs
  <2> DEFINE P == {i \in Nat : i <= n => f[i] = r}
  <2>4. f[0] = r /\ \A i \in 1 .. n : f[i] = ReadCell(f[i - 1], x[i])
    BY <2>3 DEF Readings
  <2> HIDE DEF n
  <2>5. 0 \in P
    BY <2>4
  <2>6. ASSUME NEW i \in Nat, i \in P
        PROVE  i + 1 \in P
    <3> SUFFICES ASSUME i + 1 <= n
                 PROVE  f[i + 1] = r
      OBVIOUS
    <3>1. i <= n /\ i + 1 \in 1 .. n /\ (i + 1) - 1 = i
      BY <1>1
    <3>2. f[i] = r
      BY <2>6, <3>1
    <3>3. x[i + 1] \in Nat /\ x[i + 1] >= 300
      BY <1>1, <3>1
    <3>4. f[i + 1] = ReadCell(f[i], x[i + 1])
      BY <2>4, <3>1
    <3> QED
      BY <2>2, <3>2, <3>3, <3>4
  <2> HIDE DEF P
  <2>7. n \in P
    BY <1>1, <2>5, <2>6, AllNaturals
  <2>8. f[n] = r
    BY <1>1, <2>7 DEF P
  <2> QED
    BY <2>3, <2>8 DEF n
<1>4. ASSUME NEW ts \in Chunked
      PROVE  ts \o <<>> = ts
  BY ConcatEmptySeq DEF Chunked
<1> QED
  BY <1>2, <1>3, <1>4 DEF Gives

LEMMA LiteralGives == \A p \in FixedPiece : Gives(Literal(p), <<>>)
<1> SUFFICES ASSUME NEW p \in FixedPiece
             PROVE  Gives(Literal(p), <<>>)
  OBVIOUS
<1> DEFINE c == PieceCell(p)
<1>1. c \in Nat /\ c > 1000
  BY PieceCellIs
<1>2. Literal(p) = << <<c>> >>
  BY LiteralIs, Zenon
<1> HIDE DEF c
<1> DEFINE x == <<c>>
<1>3. x \in Cells /\ Len(x) = 1 /\ x[1] = c
  BY <1>1, CellIs
<1> HIDE DEF x
<1>4. \A i \in 1 .. Len(x) : x[i] >= 300
  BY <1>1, <1>3
<1>5. Gives(<<x>>, <<>>)
  BY <1>3, <1>4, PiecesGive
<1> QED
  BY <1>2, <1>5 DEF x

LEMMA DigitsGive == \A bytes \in Octets : Gives(Digits(bytes), <<>>)
<1> SUFFICES ASSUME NEW bytes \in Octets
             PROVE  Gives(Digits(bytes), <<>>)
  OBVIOUS
<1> DEFINE x == DigitCells(bytes)
<1>1. /\ x \in Cells /\ Len(x) = Len(bytes)
      /\ \A i \in 1 .. Len(bytes) : x[i] = 300 + bytes[i] /\ bytes[i] \in 0 .. 255
  BY DigitCellsAre
<1>2. Digits(bytes) = <<x>>
  BY DEF Digits, DigitCells
<1> HIDE DEF x
<1>3. \A i \in 1 .. Len(x) : x[i] >= 300
  <2> SUFFICES ASSUME NEW i \in 1 .. Len(x)
               PROVE  x[i] >= 300
    OBVIOUS
  <2> DEFINE y == bytes[i]
  <2>1. x[i] = 300 + y /\ y \in 0 .. 255
    BY <1>1
  <2> HIDE DEF y
  <2> QED
    BY <2>1
<1>4. Gives(<<x>>, <<>>)
  BY <1>1, <1>3, PiecesGive
<1> QED
  BY <1>2, <1>4

\* What stands between two quotes is one text.
LEMMA BetweenQuotes ==
  ASSUME NEW c \in Chunked, NEW x \in Cells, NEW text \in Cells,
         FlattenSeq(c) = <<Quote>> \o (x \o <<Quote>>),
         \A ts, hx : ReadsTo(Reader("inside", ts, <<>>, hx), x, ts, text)
  PROVE  Gives(c, <<text>>)
<1> DEFINE q == <<Quote>>
<1>1. q \in Cells /\ Quote \in Nat
  BY MarksAre, CellIs
<1>2. x \o q \in Cells
  BY <1>1, CellsJoin
<1>3. <<text>> \in Chunked
  BY ChunkedIs
<1>4. ASSUME NEW r, NEW ts \in Chunked, StandsOutside(r, ts)
      PROVE  StandsOutside(Read(r, FlattenSeq(c)), ts \o <<text>>)
  <2>1. PICK tx, hx : r = Reader("outside", ts, tx, hx)
    BY <1>4 DEF StandsOutside
  <2> DEFINE s == Reader("inside", ts, <<>>, hx)
  <2>2. ReadCell(r, Quote) = s
    BY <2>1, OutsideReads, MarksAre
  <2>3. PICK h : Read(s, x) = Reader("inside", ts, text, h)
    <3>1. ReadsTo(s, x, ts, text)
      OBVIOUS
    <3> HIDE DEF s
    <3> QED
      BY <3>1, Zenon DEF ReadsTo
  <2> HIDE DEF s, q
  <2>4. Read(r, q \o (x \o q)) = Read(Read(r, q), x \o q)
    BY <1>1, <1>2, ReadJoined
  <2>5. Read(r, q) = s
    BY <1>1, <2>2, ReadOne DEF q
  <2>6. Read(s, x \o q) = Read(Read(s, x), q)
    BY <1>1, ReadJoined
  <2> DEFINE e == Reader("inside", ts, text, h)
             a == Append(ts, text)
  <2>7. Read(e, q) = ReadCell(e, Quote)
    BY <1>1, ReadOne DEF q
  <2>8. ReadCell(e, Quote) = Reader("outside", a, text, h)
    BY InsideReads, MarksAre
  <2>9. a = ts \o <<text>>
    BY AppendIsConcat DEF Chunked
  <2> HIDE DEF e, a
  <2>10. FlattenSeq(c) = q \o (x \o q)
    BY DEF q
  <2>11. Read(r, FlattenSeq(c)) = Reader("outside", a, text, h)
    BY <2>3, <2>4, <2>5, <2>6, <2>7, <2>8, <2>10 DEF e
  <2> QED
    BY <2>9, <2>11 DEF StandsOutside
<1> QED
  BY <1>3, <1>4 DEF Gives

LEMMA QuotedGives == \A text \in Octets : text \in Cells /\ Gives(Quoted(text), <<text>>)
<1> SUFFICES ASSUME NEW text \in Octets
             PROVE  text \in Cells /\ Gives(Quoted(text), <<text>>)
  OBVIOUS
<1> DEFINE x == FlattenSeq(Written(text))
<1>1. Quoted(text) \in Chunked /\ FlattenSeq(Quoted(text)) = <<Quote>> \o (x \o <<Quote>>)
  BY QuotedMakes DEF Makes, Chunked
<1>2. x \in Cells
  BY WrittenIs, ChunkedIs DEF Chunked
<1>3. text \in Cells
  BY OctetsAreCells
<1>4. \A ts, hx : ReadsTo(Reader("inside", ts, <<>>, hx), x, ts, text)
  BY WrittenReads
<1> HIDE DEF x
<1> QED
  BY <1>1, <1>2, <1>3, <1>4, BetweenQuotes

LEMMA NameGives == \A code \in Nat : <<NameCell(code)>> \in Cells /\ Gives(Name(code), << <<NameCell(code)>> >>)
<1> SUFFICES ASSUME NEW code \in Nat
             PROVE  <<NameCell(code)>> \in Cells /\ Gives(Name(code), << <<NameCell(code)>> >>)
  OBVIOUS
<1> DEFINE c == NameCell(code)
           x == <<c>>
           q == <<Quote>>
<1>1. c \in Nat /\ c >= 32 /\ c # 34 /\ c # 92
  BY DEF NameCell
<1> HIDE DEF c
<1>2. x \in Cells /\ q \in Cells
  BY <1>1, CellIs, MarksAre
<1>3. Name(code) = (<<q>> \o <<x>>) \o <<q>>
  BY ThreeJoined DEF Name, c
<1>4. x = Append(<<>>, c)
  OBVIOUS
<1>5. ASSUME NEW ts, NEW hx
      PROVE  ReadsTo(Reader("inside", ts, <<>>, hx), x, ts, x)
  <2> DEFINE e == <<>>
             s == Reader("inside", ts, e, hx)
  <2>1. Read(s, x) = ReadCell(s, c)
    BY <1>1, ReadOne
  <2>2. x = Append(e, c)
    BY <1>4
  <2> HIDE DEF e, x
  <2>3. ReadCell(s, c) = Reader("inside", ts, Append(e, c), hx)
    BY <1>1, InsideReads
  <2> QED
    BY <2>1, <2>2, <2>3, Zenon DEF ReadsTo, e
<1> HIDE DEF x, q
<1>6. <<q>> \in Chunked /\ <<x>> \in Chunked /\ FlattenSeq(<<q>>) = q /\ FlattenSeq(<<x>>) = x
  BY <1>2, ChunkedIs
<1>7. <<q>> \o <<x>> \in Chunked /\ FlattenSeq(<<q>> \o <<x>>) = q \o x
  BY <1>6, ChunkedJoin
<1>8. Name(code) \in Chunked /\ FlattenSeq(Name(code)) = (q \o x) \o q
  BY <1>3, <1>6, <1>7, ChunkedJoin
<1>9. FlattenSeq(Name(code)) = q \o (x \o q)
  BY <1>2, <1>8, CellsAssociate
<1>10. Gives(Name(code), <<x>>)
  BY <1>2, <1>5, <1>8, <1>9, BetweenQuotes DEF q
<1> QED
  BY <1>2, <1>10 DEF x, c

\* A list gives what its members give.
LEMMA ListGives ==
  ASSUME NEW xs \in Seq(Chunked), NEW ts \in Seq(Chunked), Len(xs) = Len(ts),
         \A i \in 1 .. Len(xs) : Gives(xs[i], ts[i])
  PROVE  Gives(FlattenSeq(xs), FlattenSeq(ts))
<1> DEFINE l == Len(xs)
<1>1. PICK j : AreJoined(j, xs, Cells) /\ FlattenSeq(xs) = j[Len(xs)]
  BY FlattenIs DEF Chunked
<1>2. PICK k : AreJoined(k, ts, Cells) /\ FlattenSeq(ts) = k[Len(ts)]
  BY FlattenIs DEF Chunked
<1>3. l \in Nat /\ \A i \in 1 .. l : Gives(xs[i], ts[i])
  BY LenProperties
<1>4. j[0] = <<>> /\ \A i \in 1 .. l : j[i] = j[i - 1] \o xs[i]
  BY <1>1 DEF AreJoined
<1>5. k[0] = <<>> /\ \A i \in 1 .. l : k[i] = k[i - 1] \o ts[i]
  BY <1>2 DEF AreJoined
<1>6. FlattenSeq(xs) = j[l] /\ FlattenSeq(ts) = k[l]
  BY <1>1, <1>2
<1> HIDE DEF l
<1> DEFINE P == {i \in Nat : i <= l => Gives(j[i], k[i])}
<1>7. 0 \in P
  BY <1>4, <1>5, GivesNothing
<1>8. ASSUME NEW i \in Nat, i \in P
      PROVE  i + 1 \in P
  <2> SUFFICES ASSUME i + 1 <= l
               PROVE  Gives(j[i + 1], k[i + 1])
    OBVIOUS
  <2>1. i <= l /\ i + 1 \in 1 .. l /\ (i + 1) - 1 = i
    BY <1>3
  <2> DEFINE a == j[i]
             b == k[i]
             x == xs[i + 1]
             t == ts[i + 1]
  <2>2. Gives(a, b) /\ Gives(x, t)
    BY <1>3, <1>8, <2>1
  <2>3. j[i + 1] = a \o x /\ k[i + 1] = b \o t
    BY <1>4, <1>5, <2>1
  <2> HIDE DEF a, b, x, t
  <2>4. Gives(a \o x, b \o t)
    BY <2>2, GivesJoined
  <2> QED
    BY <2>3, <2>4
<1> HIDE DEF P
<1>9. l \in P
  BY <1>3, <1>7, <1>8, AllNaturals
<1>10. Gives(j[l], k[l])
  BY <1>3, <1>9 DEF P
<1> QED
  BY <1>6, <1>10

\* A fixed piece of JSON adds no text.
LEMMA GivesThen ==
  \A c, t : \A p \in FixedPiece : Gives(c, t) => Gives(c \o Literal(p), t)
<1> SUFFICES ASSUME NEW c, NEW t, NEW p \in FixedPiece, Gives(c, t)
             PROVE  Gives(c \o Literal(p), t)
  OBVIOUS
<1>1. Gives(c \o Literal(p), t \o <<>>)
  BY LiteralGives, GivesJoined, Zenon
<1>2. t \in Chunked
  BY DEF Gives
<1>3. t \o <<>> = t
  BY <1>2, ConcatEmptySeq DEF Chunked
<1> QED
  BY <1>1, <1>3

LEMMA GivesFirst ==
  \A c, t : \A p \in FixedPiece : Gives(c, t) => Gives(Literal(p) \o c, t)
<1> SUFFICES ASSUME NEW c, NEW t, NEW p \in FixedPiece, Gives(c, t)
             PROVE  Gives(Literal(p) \o c, t)
  OBVIOUS
<1>1. Gives(Literal(p) \o c, <<>> \o t)
  BY LiteralGives, GivesJoined, Zenon
<1>2. t \in Chunked
  BY DEF Gives
<1>3. <<>> \o t = t
  BY <1>2, ConcatEmptySeq DEF Chunked
<1> QED
  BY <1>1, <1>3

LEMMA FieldGives ==
  \A c, d, t, u : \A p \in FixedPiece :
    Gives(c, t) /\ Gives(d, u) => Gives(c \o Literal(p) \o d, t \o u)
BY GivesThen, GivesJoined, Zenon

\* The names of enumerators.
Named(code) == << <<NameCell(code)>> >>

LEMMA NamesGive ==
  /\ \A i \in 0 .. 4 : Gives(Name(i), Named(i))
  /\ \A i \in 0 .. 3 : Gives(Name(i), Named(i))
  /\ \A i \in 0 .. 2 : Gives(Name(i), Named(i))
<1>1. /\ \A i \in 0 .. 4 : i \in Nat
      /\ \A i \in 0 .. 3 : i \in Nat
      /\ \A i \in 0 .. 2 : i \in Nat
  OBVIOUS
<1> QED
  BY <1>1, NameGives, Zenon DEF Named

CapabilityTexts(c) ==
  << c.identity, <<NameCell(c.expectedValueType)>>, c.unit, <<NameCell(c.support)>> >>

LEMMA CapabilityGives ==
  \A c \in AnyCapability : Gives(CapabilityObject(c), CapabilityTexts(c))
<1> SUFFICES ASSUME NEW c \in AnyCapability
             PROVE  Gives(CapabilityObject(c), CapabilityTexts(c))
  OBVIOUS
<1> DEFINE a1 == Quoted(c.identity)
           a2 == Name(c.expectedValueType)
           a3 == Quoted(c.unit)
           a4 == Name(c.support)
           t1 == <<c.identity>>
           t2 == Named(c.expectedValueType)
           t3 == <<c.unit>>
           t4 == Named(c.support)
<1>1. /\ "{signalId:" \in FixedPiece /\ ",valueType:" \in FixedPiece /\ ",unit:" \in FixedPiece
      /\ ",support:" \in FixedPiece /\ "}" \in FixedPiece
  BY PiecesAre
<1>2. c.identity \in Octets /\ c.unit \in Octets /\ c.expectedValueType \in 0 .. 3
      /\ c.support \in 0 .. 3
  BY CapabilityIs
<1>3. Gives(a1, t1) /\ Gives(a3, t3)
  BY <1>2, QuotedGives, Zenon
<1>4. Gives(a2, t2) /\ Gives(a4, t4)
  BY <1>2, NamesGive, Zenon
<1>5. CapabilityObject(c)
        = Literal("{signalId:") \o a1 \o Literal(",valueType:") \o a2
            \o Literal(",unit:") \o a3 \o Literal(",support:") \o a4 \o Literal("}")
  BY DEF CapabilityObject
<1>6. CapabilityTexts(c) = t1 \o t2 \o t3 \o t4
  BY FourJoined DEF CapabilityTexts, Named
<1> HIDE DEF a1, a2, a3, a4, t1, t2, t3, t4
<1>7. Gives(Literal("{signalId:") \o a1, t1)
  BY <1>1, <1>3, GivesFirst, Zenon
<1>8. Gives(Literal("{signalId:") \o a1 \o Literal(",valueType:") \o a2, t1 \o t2)
  BY <1>1, <1>4, <1>7, FieldGives, Zenon
<1>9. Gives(Literal("{signalId:") \o a1 \o Literal(",valueType:") \o a2
              \o Literal(",unit:") \o a3, t1 \o t2 \o t3)
  BY <1>1, <1>3, <1>8, FieldGives, Zenon
<1>10. Gives(Literal("{signalId:") \o a1 \o Literal(",valueType:") \o a2
               \o Literal(",unit:") \o a3 \o Literal(",support:") \o a4, t1 \o t2 \o t3 \o t4)
  BY <1>1, <1>4, <1>9, FieldGives, Zenon
<1>11. Gives(Literal("{signalId:") \o a1 \o Literal(",valueType:") \o a2
               \o Literal(",unit:") \o a3 \o Literal(",support:") \o a4 \o Literal("}"),
             t1 \o t2 \o t3 \o t4)
  BY <1>1, <1>10, GivesThen, Zenon
<1> QED
  BY <1>5, <1>6, <1>11, Zenon

ValueTexts(s) == IF s.valueType = Text THEN <<s.value>> ELSE <<>>

LEMMA JsonValueGives ==
  ASSUME NEW s \in AnySample, HasValue(s)
  PROVE  Gives(JsonValue(s), ValueTexts(s))
<1>1. s.valueType \in 0 .. 3 /\ s.valueType # None
  BY SampleIs DEF HasValue
<1>2. s.value \in Octets
  BY SampleIs
<1>3. CASE s.valueType = Numeric
  <2>1. JsonValue(s) = Digits(s.value) /\ ValueTexts(s) = <<>>
    BY <1>3 DEF JsonValue, ValueTexts, Numeric, Boolean, Text
  <2> QED
    BY <1>2, <2>1, DigitsGive
<1>4. CASE s.valueType = Boolean
  <2> DEFINE p == IF s.value = <<1>> THEN "true" ELSE "false"
  <2>1. JsonValue(s) = Literal(p) /\ ValueTexts(s) = <<>>
    BY <1>4 DEF JsonValue, ValueTexts, Numeric, Boolean, Text
  <2>2. p \in FixedPiece
    BY PiecesAre
  <2> HIDE DEF p
  <2> QED
    BY <2>1, <2>2, LiteralGives
<1>5. CASE s.valueType = Text
  <2>1. JsonValue(s) = Quoted(s.value) /\ ValueTexts(s) = <<s.value>>
    BY <1>5 DEF JsonValue, ValueTexts, Numeric, Boolean, Text
  <2> QED
    BY <1>2, <2>1, QuotedGives
<1> QED
  BY <1>1, <1>3, <1>4, <1>5, SMTT(40) DEF None, Numeric, Boolean, Text

SampleTexts(s) ==
  <<s.signalId, s.unit>>
    \o (IF HasValue(s) THEN << <<NameCell(s.valueType)>> >> ELSE <<>>)
    \o (IF HasValue(s) /\ s.valueType = Text THEN <<s.value>> ELSE <<>>)
    \o << <<NameCell(s.source)>>, <<NameCell(s.quality)>>, <<NameCell(s.availability)>> >>

\* The value of a sample that has one, in its object.
LEMMA ValueGives ==
  ASSUME NEW s \in AnySample
  PROVE  Gives(IF HasValue(s)
               THEN Literal(",valueType:") \o Name(s.valueType)
                      \o Literal(",value:") \o JsonValue(s)
               ELSE <<>>,
               (IF HasValue(s) THEN Named(s.valueType) ELSE <<>>)
                 \o (IF HasValue(s) THEN ValueTexts(s) ELSE <<>>))
<1>1. CASE HasValue(s)
  <2>1. ",valueType:" \in FixedPiece /\ ",value:" \in FixedPiece
    BY PiecesAre
  <2>2. s.valueType \in 0 .. 3
    BY SampleIs
  <2>3. Gives(Name(s.valueType), Named(s.valueType))
    BY <2>2, NamesGive, Zenon
  <2>4. Gives(JsonValue(s), ValueTexts(s))
    BY <1>1, JsonValueGives
  <2>5. Gives(Literal(",valueType:") \o Name(s.valueType), Named(s.valueType))
    BY <2>1, <2>3, GivesFirst, Zenon
  <2>6. Gives(Literal(",valueType:") \o Name(s.valueType) \o Literal(",value:") \o JsonValue(s),
              Named(s.valueType) \o ValueTexts(s))
    BY <2>1, <2>4, <2>5, FieldGives, Zenon
  <2> QED
    BY <1>1, <2>6
<1>2. CASE ~HasValue(s)
  <2>1. Gives(<<>>, <<>> \o <<>>)
    BY GivesNothing, GivesJoined, ConcatEmptySeq, ChunkedIs DEF Chunked
  <2> QED
    BY <1>2, <2>1
<1> QED
  BY <1>1, <1>2

LEMMA SampleGives ==
  \A s \in AnySample : Gives(SampleObject(s), SampleTexts(s))
<1> SUFFICES ASSUME NEW s \in AnySample
             PROVE  Gives(SampleObject(s), SampleTexts(s))
  OBVIOUS
<1> DEFINE a1 == Quoted(s.signalId)
           a2 == Quoted(s.unit)
           v  == IF HasValue(s)
                 THEN Literal(",valueType:") \o Name(s.valueType)
                        \o Literal(",value:") \o JsonValue(s)
                 ELSE <<>>
           a3 == Name(s.source)
           a4 == Name(s.quality)
           a5 == Name(s.availability)
           a6 == Digits(s.timestamp)
           t1 == <<s.signalId>>
           t2 == <<s.unit>>
           v1 == IF HasValue(s) THEN Named(s.valueType) ELSE <<>>
           v2 == IF HasValue(s) THEN ValueTexts(s) ELSE <<>>
           t3 == Named(s.source)
           t4 == Named(s.quality)
           t5 == Named(s.availability)
<1>1. /\ "{signalId:" \in FixedPiece /\ ",unit:" \in FixedPiece /\ ",source:" \in FixedPiece
      /\ ",quality:" \in FixedPiece /\ ",availability:" \in FixedPiece
      /\ ",timestampMs:'" \in FixedPiece /\ "'}" \in FixedPiece
  BY PiecesAre
<1>2. /\ s.signalId \in Octets /\ s.unit \in Octets /\ s.timestamp \in Octets
      /\ s.source \in 0 .. 4 /\ s.quality \in 0 .. 2 /\ s.availability \in 0 .. 4
  BY SampleIs
<1>3. Gives(a1, t1) /\ Gives(a2, t2)
  BY <1>2, QuotedGives, Zenon
<1>4. Gives(a3, t3) /\ Gives(a4, t4) /\ Gives(a5, t5)
  BY <1>2, NamesGive, Zenon
<1>5. Gives(a6, <<>>)
  BY <1>2, DigitsGive, Zenon
<1>6. Gives(v, v1 \o v2)
  BY ValueGives
<1>7. SampleObject(s)
        = Literal("{signalId:") \o a1 \o Literal(",unit:") \o a2 \o v
            \o Literal(",source:") \o a3 \o Literal(",quality:") \o a4
            \o Literal(",availability:") \o a5 \o Literal(",timestampMs:'") \o a6 \o Literal("'}")
  BY DEF SampleObject
<1>8. /\ <<s.signalId, s.unit>> = t1 \o t2
      /\ << <<NameCell(s.source)>>, <<NameCell(s.quality)>>, <<NameCell(s.availability)>> >>
           = t3 \o t4 \o t5
  BY CellBeforeOne, ThreeJoined DEF Named
<1>9. v2 = IF HasValue(s) /\ s.valueType = Text THEN <<s.value>> ELSE <<>>
  BY DEF ValueTexts
<1>10. SampleTexts(s) = ((t1 \o t2) \o v1) \o v2 \o (t3 \o t4 \o t5)
  <2>1. SampleTexts(s)
          = <<s.signalId, s.unit>> \o v1 \o v2
              \o << <<NameCell(s.source)>>, <<NameCell(s.quality)>>, <<NameCell(s.availability)>> >>
    BY <1>9, Zenon DEF SampleTexts, Named
  <2> QED
    BY <1>8, <2>1, Zenon
<1>11. v1 \in Chunked /\ v2 \in Chunked
  <2>1. HasValue(s) => Named(s.valueType) \in Chunked
    <3>1. s.valueType \in 0 .. 3
      BY SampleIs
    <3> QED
      BY <3>1, NamesGive, Zenon DEF Gives
  <2>2. HasValue(s) => ValueTexts(s) \in Chunked
    BY JsonValueGives DEF Gives
  <2> QED
    BY <2>1, <2>2, ChunkedIs
<1>12. t1 \in Chunked /\ t2 \in Chunked /\ t3 \in Chunked /\ t4 \in Chunked /\ t5 \in Chunked
  <2> HIDE DEF a1, a2, a3, a4, a5, t1, t2, t3, t4, t5
  <2>1. \A c, t : Gives(c, t) => t \in Chunked
    BY Zenon DEF Gives
  <2> QED
    BY <1>3, <1>4, <2>1, Zenon
<1> HIDE DEF a1, a2, a3, a4, a5, a6, v, t1, t2, t3, t4, t5, v1, v2
<1>13. SampleTexts(s) = (t1 \o t2) \o (v1 \o v2) \o t3 \o t4 \o t5
  <2> DEFINE f == t1 \o t2
             w == v1 \o v2
             g == t3 \o t4
  <2>1. f \in Chunked /\ w \in Chunked /\ g \in Chunked
    BY <1>11, <1>12, ChunkedJoin
  <2>2. (f \o v1) \o v2 = f \o w
    <3> HIDE DEF f
    <3>1. f \in Chunked /\ v1 \in Chunked /\ v2 \in Chunked
      BY <1>11, <2>1
    <3> QED
      BY <3>1, ChunkedAssociate, Zenon
  <2> DEFINE h == f \o w
  <2>3. h \in Chunked
    BY <2>1, ChunkedJoin
  <2>4. SampleTexts(s) = h \o (g \o t5)
    BY <1>10, <2>2
  <2> HIDE DEF f, w, g, h
  <2>5. h \o (g \o t5) = (h \o g) \o t5
    <3>1. h \in Chunked /\ g \in Chunked /\ t5 \in Chunked
      BY <1>12, <2>1, <2>3
    <3> QED
      BY <3>1, ChunkedAssociate
  <2>6. h \o (t3 \o t4) = (h \o t3) \o t4
    BY <1>12, <2>3, ChunkedAssociate
  <2> QED
    BY <2>4, <2>5, <2>6, Zenon DEF f, w, g, h
<1>14. Gives(Literal("{signalId:") \o a1, t1)
  BY <1>1, <1>3, GivesFirst, Zenon
<1>15. Gives(Literal("{signalId:") \o a1 \o Literal(",unit:") \o a2, t1 \o t2)
  BY <1>1, <1>3, <1>14, FieldGives, Zenon
<1> DEFINE u == Literal("{signalId:") \o a1 \o Literal(",unit:") \o a2
           x == (t1 \o t2) \o (v1 \o v2)
<1>16. Gives(u \o v, x)
  BY <1>6, <1>15, GivesJoined, Zenon
<1>17. SampleObject(s) = u \o v \o Literal(",source:") \o a3 \o Literal(",quality:") \o a4
            \o Literal(",availability:") \o a5 \o Literal(",timestampMs:'") \o a6 \o Literal("'}")
  BY <1>7
<1> HIDE DEF u, x
<1>18. Gives(u \o v \o Literal(",source:") \o a3, x \o t3)
  BY <1>1, <1>4, <1>16, FieldGives, Zenon
<1>19. Gives(u \o v \o Literal(",source:") \o a3 \o Literal(",quality:") \o a4, x \o t3 \o t4)
  BY <1>1, <1>4, <1>18, FieldGives, Zenon
<1>20. Gives(u \o v \o Literal(",source:") \o a3 \o Literal(",quality:") \o a4
               \o Literal(",availability:") \o a5, x \o t3 \o t4 \o t5)
  BY <1>1, <1>4, <1>19, FieldGives, Zenon
<1>21. Gives(u \o v \o Literal(",source:") \o a3 \o Literal(",quality:") \o a4
               \o Literal(",availability:") \o a5 \o Literal(",timestampMs:'"), x \o t3 \o t4 \o t5)
  BY <1>1, <1>20, GivesThen, Zenon
<1> DEFINE c == u \o v \o Literal(",source:") \o a3 \o Literal(",quality:") \o a4
                  \o Literal(",availability:") \o a5 \o Literal(",timestampMs:'")
           y == x \o t3 \o t4 \o t5
<1>22. Gives(c \o a6, y)
  <2>1. Gives(c, y)
    BY <1>21
  <2> HIDE DEF c, y
  <2>2. y \in Chunked
    BY <2>1 DEF Gives
  <2>3. Gives(c \o a6, y \o <<>>)
    BY <1>5, <2>1, GivesJoined, Zenon
  <2>4. y \o <<>> = y
    BY <2>2, ConcatEmptySeq DEF Chunked
  <2> QED
    BY <2>3, <2>4
<1>23. Gives(c \o a6 \o Literal("'}"), y)
  BY <1>1, <1>22, GivesThen, Zenon
<1> QED
  BY <1>13, <1>17, <1>23, Zenon DEF x

LEMMA SeparatedGives ==
  ASSUME NEW objects \in Seq(Chunked), NEW ts \in Seq(Chunked), Len(ts) = Len(objects),
         \A i \in 1 .. Len(objects) : Gives(objects[i], ts[i])
  PROVE  Gives(Separated(objects, Len(objects)), FlattenSeq(ts))
<1> DEFINE n == Len(objects)
           xs == [i \in 1 .. n |-> Member(objects, i)]
<1>1. n \in Nat /\ \A i \in 1 .. n : Gives(objects[i], ts[i])
  BY LenProperties
<1>2. ASSUME NEW i \in 1 .. n
      PROVE  Gives(Member(objects, i), ts[i])
  <2>1. Gives(objects[i], ts[i])
    BY <1>1
  <2>2. CASE i = 1
    <3>1. objects[i] \in Chunked
      BY <2>1 DEF Gives
    <3>2. <<>> \o objects[i] = objects[i]
      BY <3>1, ConcatEmptySeq DEF Chunked
    <3>3. Member(objects, i) = objects[i]
      BY <2>2, <3>2 DEF Member
    <3> QED
      BY <2>1, <3>3
  <2>3. CASE i # 1
    <3>1. Member(objects, i) = Literal(",") \o objects[i]
      BY <2>3 DEF Member
    <3>2. "," \in FixedPiece
      BY PiecesAre
    <3>3. Gives(Literal(",") \o objects[i], ts[i])
      BY <2>1, <3>2, GivesFirst, Zenon
    <3> QED
      BY <3>1, <3>3
  <2> QED
    BY <2>2, <2>3
<1>3. Separated(objects, n) = FlattenSeq(xs)
  BY DEF Separated, Member
<1>4. xs \in Seq(Chunked) /\ Len(xs) = n /\ \A i \in 1 .. n : xs[i] = Member(objects, i)
  <2>1. \A i \in 1 .. n : Member(objects, i) \in Chunked
    BY <1>2 DEF Gives
  <2>2. xs \in [1 .. n -> Chunked] /\ \A i \in 1 .. n : xs[i] = Member(objects, i)
    BY <2>1
  <2> HIDE DEF xs, n
  <2> QED
    BY <1>1, <2>2, SeqDef
<1> HIDE DEF xs
<1>5. Gives(FlattenSeq(xs), FlattenSeq(ts))
  <2>1. \A i \in 1 .. Len(xs) : Gives(xs[i], ts[i])
    BY <1>2, <1>4
  <2>2. Len(xs) = Len(ts)
    BY <1>4
  <2> QED
    BY <1>4, <2>1, <2>2, ListGives
<1> QED
  BY <1>3, <1>5

CapabilitiesTexts(list) == [i \in DOMAIN list |-> CapabilityTexts(list[i])]
SamplesTexts(list)      == [i \in DOMAIN list |-> SampleTexts(list[i])]

LEMMA CapabilitiesGive ==
  ASSUME NEW list \in Seq(AnyCapability)
  PROVE  Gives(Separated(CapabilityObjects(list), Len(list)), FlattenSeq(CapabilitiesTexts(list)))
<1> DEFINE n == Len(list)
           objects == CapabilityObjects(list)
           ts == CapabilitiesTexts(list)
<1>1. /\ n \in Nat /\ DOMAIN list = 1 .. n /\ objects \in Seq(Chunked) /\ Len(objects) = n
      /\ \A i \in 1 .. n : objects[i] = CapabilityObject(list[i]) /\ list[i] \in AnyCapability
  BY ObjectsAre, LenProperties
<1>2. \A i \in 1 .. n : Gives(objects[i], CapabilityTexts(list[i]))
  BY <1>1, CapabilityGives
<1> HIDE DEF n, objects
<1>3. ts = [i \in 1 .. n |-> CapabilityTexts(list[i])]
  BY <1>1 DEF CapabilitiesTexts
<1>4. \A i \in 1 .. n : CapabilityTexts(list[i]) \in Chunked
  BY <1>2 DEF Gives
<1>5. ts \in [1 .. n -> Chunked] /\ \A i \in 1 .. n : ts[i] = CapabilityTexts(list[i])
  BY <1>3, <1>4
<1> HIDE DEF ts
<1>6. ts \in Seq(Chunked) /\ Len(ts) = n
  BY <1>1, <1>5, SeqDef
<1>7. \A i \in 1 .. Len(objects) : Gives(objects[i], ts[i])
  BY <1>1, <1>2, <1>5
<1>8. Gives(Separated(objects, Len(objects)), FlattenSeq(ts))
  BY <1>1, <1>6, <1>7, SeparatedGives
<1> QED
  BY <1>1, <1>8 DEF n, objects, ts

LEMMA SamplesGive ==
  ASSUME NEW list \in Seq(AnySample)
  PROVE  Gives(Separated(SampleObjects(list), Len(list)), FlattenSeq(SamplesTexts(list)))
<1> DEFINE n == Len(list)
           objects == SampleObjects(list)
           ts == SamplesTexts(list)
<1>1. /\ n \in Nat /\ DOMAIN list = 1 .. n /\ objects \in Seq(Chunked) /\ Len(objects) = n
      /\ \A i \in 1 .. n : objects[i] = SampleObject(list[i]) /\ list[i] \in AnySample
  BY ObjectsAre, LenProperties
<1>2. \A i \in 1 .. n : Gives(objects[i], SampleTexts(list[i]))
  BY <1>1, SampleGives
<1> HIDE DEF n, objects
<1>3. ts = [i \in 1 .. n |-> SampleTexts(list[i])]
  BY <1>1 DEF SamplesTexts
<1>4. \A i \in 1 .. n : SampleTexts(list[i]) \in Chunked
  BY <1>2 DEF Gives
<1>5. ts \in [1 .. n -> Chunked] /\ \A i \in 1 .. n : ts[i] = SampleTexts(list[i])
  BY <1>3, <1>4
<1> HIDE DEF ts
<1>6. ts \in Seq(Chunked) /\ Len(ts) = n
  BY <1>1, <1>5, SeqDef
<1>7. \A i \in 1 .. Len(objects) : Gives(objects[i], ts[i])
  BY <1>1, <1>2, <1>5
<1>8. Gives(Separated(objects, Len(objects)), FlattenSeq(ts))
  BY <1>1, <1>6, <1>7, SeparatedGives
<1> QED
  BY <1>1, <1>8 DEF n, objects, ts

\* The identity of the active profile is digits, and a registry that is not there has no
\* capabilities.
LEMMA IdentityGives ==
  \A m \in AnyMetadata :
    Gives(IF m.activeIdentity = <<>> THEN <<>>
          ELSE Literal(",activeProfileId:") \o Digits(m.activeIdentity), <<>>)
<1> SUFFICES ASSUME NEW m \in AnyMetadata
             PROVE  Gives(IF m.activeIdentity = <<>> THEN <<>>
                          ELSE Literal(",activeProfileId:") \o Digits(m.activeIdentity), <<>>)
  OBVIOUS
<1>1. m.activeIdentity \in Octets
  BY IdentityIs
<1>2. ",activeProfileId:" \in FixedPiece
  BY PiecesAre
<1>3. Gives(Digits(m.activeIdentity), <<>>)
  BY <1>1, DigitsGive, Zenon
<1>4. Gives(Literal(",activeProfileId:") \o Digits(m.activeIdentity), <<>>)
  BY <1>2, <1>3, GivesFirst, Zenon
<1> QED
  BY <1>4, GivesNothing

LEMMA CapabilityListGives ==
  ASSUME NEW m \in AnyMetadata, IsConsistent(m), NEW list \in Seq(AnyCapability),
         Len(list) = m.capabilityCount
  PROVE  Gives(CapabilityList(m, list), FlattenSeq(CapabilitiesTexts(list)))
<1>1. "null" \in FixedPiece /\ "[" \in FixedPiece /\ "]" \in FixedPiece
  BY PiecesAre
<1>2. CASE m.hasCapabilityRegistry
  <2> DEFINE c == Separated(CapabilityObjects(list), Len(list))
             t == FlattenSeq(CapabilitiesTexts(list))
  <2>1. Gives(c, t)
    BY CapabilitiesGive
  <2>2. CapabilityList(m, list) = Literal("[") \o c \o Literal("]")
    BY <1>2 DEF CapabilityList
  <2> HIDE DEF c, t
  <2>3. Gives(Literal("[") \o c, t)
    BY <1>1, <2>1, GivesFirst, Zenon
  <2>4. Gives(Literal("[") \o c \o Literal("]"), t)
    BY <1>1, <2>3, GivesThen, Zenon
  <2> QED
    BY <2>2, <2>4 DEF t
<1>3. CASE ~m.hasCapabilityRegistry
  <2>1. m.capabilityCount = 0
    BY <1>3 DEF IsConsistent
  <2>2. list = <<>>
    BY <2>1, EmptySeq
  <2>3. CapabilitiesTexts(list) = <<>>
    BY <2>2 DEF CapabilitiesTexts
  <2>4. FlattenSeq(CapabilitiesTexts(list)) = <<>>
    BY <2>3, FlattenNone
  <2>5. CapabilityList(m, list) = Literal("null")
    BY <1>3 DEF CapabilityList
  <2>6. Gives(Literal("null"), <<>>)
    BY <1>1, LiteralGives, Zenon
  <2> QED
    BY <2>4, <2>5, <2>6
<1> QED
  BY <1>2, <1>3

LEMMA ResponseGives ==
  ASSUME NEW f, IsPublished(f)
  PROVE  Gives(ResponseTo(f),
               Named(f.metadata.selectionState) \o FlattenSeq(CapabilitiesTexts(f.capabilities))
                 \o FlattenSeq(SamplesTexts(f.samples)))
<1> DEFINE m == f.metadata
           a == Name(m.selectionState)
           i == IF m.activeIdentity = <<>> THEN <<>>
                ELSE Literal(",activeProfileId:") \o Digits(m.activeIdentity)
           b == CapabilityList(m, f.capabilities)
           c == Separated(SampleObjects(f.samples), Len(f.samples))
           t == Named(m.selectionState)
           u == FlattenSeq(CapabilitiesTexts(f.capabilities))
           v == FlattenSeq(SamplesTexts(f.samples))
<1>1. /\ m \in AnyMetadata /\ IsConsistent(m) /\ f.capabilities \in Seq(AnyCapability)
      /\ f.samples \in Seq(AnySample) /\ Len(f.capabilities) = m.capabilityCount
      /\ Len(f.samples) = m.sampleCount
  BY DEF IsPublished
<1>2. /\ "{profileSelection:" \in FixedPiece /\ ",capabilities:" \in FixedPiece
      /\ ",samples:[" \in FixedPiece /\ "]}" \in FixedPiece
  BY PiecesAre
<1>3. Gives(a, t)
  <2>1. m.selectionState \in 0 .. 3
    BY <1>1, IdentityIs
  <2> QED
    BY <2>1, NamesGive, Zenon
<1>4. Gives(i, <<>>)
  BY <1>1, IdentityGives, Zenon
<1>5. Gives(b, u)
  BY <1>1, CapabilityListGives
<1>6. Gives(c, v)
  BY <1>1, SamplesGive
<1>7. ResponseTo(f) = Literal("{profileSelection:") \o a \o i \o Literal(",capabilities:") \o b
                        \o Literal(",samples:[") \o c \o Literal("]}")
  BY <1>1 DEF ResponseTo, Response, CapabilityList, CapabilityObjects, SampleObjects
<1> HIDE DEF m, a, i, b, c, t, u, v
<1>8. Gives(Literal("{profileSelection:") \o a, t)
  BY <1>2, <1>3, GivesFirst, Zenon
<1>9. Gives(Literal("{profileSelection:") \o a \o i, t)
  <2>1. Gives(Literal("{profileSelection:") \o a \o i, t \o <<>>)
    BY <1>4, <1>8, GivesJoined, Zenon
  <2>2. t \in Chunked
    BY <1>3 DEF Gives
  <2>3. t \o <<>> = t
    BY <2>2, ConcatEmptySeq DEF Chunked
  <2> QED
    BY <2>1, <2>3
<1>10. Gives(Literal("{profileSelection:") \o a \o i \o Literal(",capabilities:") \o b, t \o u)
  BY <1>2, <1>5, <1>9, FieldGives, Zenon
<1>11. Gives(Literal("{profileSelection:") \o a \o i \o Literal(",capabilities:") \o b
               \o Literal(",samples:[") \o c, t \o u \o v)
  BY <1>2, <1>6, <1>10, FieldGives, Zenon
<1>12. Gives(Literal("{profileSelection:") \o a \o i \o Literal(",capabilities:") \o b
               \o Literal(",samples:[") \o c \o Literal("]}"), t \o u \o v)
  BY <1>2, <1>11, GivesThen, Zenon
<1> QED
  BY <1>7, <1>12, Zenon DEF m, t, u, v

\* A JSON reader takes out of a response the very texts.
LEMMA ResponseReads ==
  ASSUME NEW f, IsPublished(f)
  PROVE  TextsRead(FlattenSeq(ResponseTo(f))) = TextsMeant(f)
<1> DEFINE t == Named(f.metadata.selectionState) \o FlattenSeq(CapabilitiesTexts(f.capabilities))
                  \o FlattenSeq(SamplesTexts(f.samples))
           x == FlattenSeq(ResponseTo(f))
           r == [mode |-> "outside", text |-> <<>>, hex |-> <<>>, texts |-> <<>>]
<1>1. TextsMeant(f) = t
  BY Zenon DEF TextsMeant, Named, CapabilitiesTexts, CapabilityTexts, SamplesTexts, SampleTexts
<1>2. Gives(ResponseTo(f), t)
  BY ResponseGives
<1>3. StandsOutside(r, <<>>) /\ <<>> \in Chunked
  <2>1. r = Reader("outside", <<>>, <<>>, <<>>)
    BY DEF Reader
  <2> HIDE DEF r
  <2> QED
    BY <2>1, ChunkedIs DEF StandsOutside
<1>4. TextsRead(x) = IF Read(r, x).mode = "outside" THEN Read(r, x).texts ELSE <<"malformed">>
  BY DEF TextsRead
<1> HIDE DEF t, r, x
<1>5. StandsOutside(Read(r, x), <<>> \o t)
  BY <1>2, <1>3 DEF Gives, x
<1>6. <<>> \o t = t
  BY <1>2, ConcatEmptySeq DEF Gives, Chunked
<1> DEFINE q == Read(r, x)
<1>7. PICK tx, hx : q = Reader("outside", t, tx, hx)
  BY <1>5, <1>6 DEF StandsOutside
<1>8. q.mode = "outside" /\ q.texts = t
  BY <1>7, ReaderIs
<1> HIDE DEF q
<1>9. TextsRead(x) = t
  BY <1>4, <1>8 DEF q
<1> QED
  BY <1>1, <1>9 DEF x

(***************************************************************************)
(* The theorem.                                                            *)
(***************************************************************************)
\* What is published is one of the inputs of its kind, and what is encoded is valid.
PublicationIsValid ==
  publication # Nothing =>
    /\ publication.kind \in Kind /\ publication.input \in Input[publication.kind]
    /\ publication.result.status = "Encoded" => IsValid(publication.kind, publication.input)

LEMMA ValidityStays == PublicationIsValid /\ [PublicationNext]_publication => PublicationIsValid'
<1> SUFFICES ASSUME PublicationIsValid, [PublicationNext]_publication
             PROVE  PublicationIsValid'
  OBVIOUS
<1>1. ASSUME NEW kind \in Kind, NEW input \in Input[kind], Publish(kind, input)
      PROVE  PublicationIsValid'
  <2> DEFINE valid == IsValid(kind, input)
             chunks == IF valid THEN Chunks(kind, input) ELSE <<>>
             Result(c, n) == Encoded(valid, chunks, Terminator(kind), Memory, c, n)
  <2>1. \E capacity, isNull :
           publication' = [kind |-> kind, input |-> input, capacity |-> capacity,
                           result |-> Result(capacity, isNull)]
    BY <1>1 DEF Publish
  <2>2. ASSUME NEW c, NEW n, Result(c, n).status = "Encoded"
        PROVE  valid
    <3> SUFFICES ASSUME ~valid
                 PROVE  FALSE
      OBVIOUS
    <3>1. Result(c, n) = [status |-> "InvalidInput", required |-> 0, memory |-> Memory]
      BY DEF Encoded
    <3> HIDE DEF Result
    <3> QED
      BY <2>2, <3>1
  <2> HIDE DEF valid, Result
  <2>3. PICK capacity, isNull :
           publication' = [kind |-> kind, input |-> input, capacity |-> capacity,
                           result |-> Result(capacity, isNull)]
    BY <2>1
  <2>4. publication'.kind = kind /\ publication'.input = input
        /\ publication'.result = Result(capacity, isNull)
    BY <2>3
  <2> QED
    BY <2>2, <2>4 DEF PublicationIsValid, valid
<1>2. CASE PassOn
  BY <1>2 DEF PassOn, PublicationIsValid
<1>3. CASE UNCHANGED publication
  BY <1>3 DEF PublicationIsValid
<1> QED
  BY <1>1, <1>2, <1>3 DEF PublicationNext

LEMMA ValidTells == PublicationIsValid => TellsExactlyTheView
<1> SUFFICES ASSUME PublicationIsValid, publication # Nothing,
                    publication.result.status = "Encoded"
             PROVE  /\ \A other \in Input[publication.kind] : IsValid(publication.kind, other) =>
                         (Content(publication.kind, other)
                              = Content(publication.kind, publication.input)
                            <=> View(publication.kind, other)
                                  = View(publication.kind, publication.input))
                    /\ publication.kind = "response" =>
                         TextsRead(Content(publication.kind, publication.input))
                           = TextsMeant(publication.input)
  BY DEF TellsExactlyTheView
<1> DEFINE kind == publication.kind
           input == publication.input
<1>1. kind \in Kind /\ input \in Input[kind] /\ IsValid(kind, input)
  BY DEF PublicationIsValid
<1> HIDE DEF kind, input
<1>2. ASSUME NEW other \in Input[kind], IsValid(kind, other)
      PROVE  Content(kind, other) = Content(kind, input) <=> View(kind, other) = View(kind, input)
  <2>1. /\ Tell(Chunks(kind, other), Chunks(kind, input), View(kind, other), View(kind, input))
        /\ View(kind, other) = View(kind, input) => Chunks(kind, other) = Chunks(kind, input)
    BY <1>1, <1>2, ContentTells
  <2>2. FlattenSeq(Chunks(kind, other)) = FlattenSeq(Chunks(kind, input))
          => View(kind, other) = View(kind, input)
    BY <2>1 DEF Tell, Tells
  <2> QED
    BY <2>1, <2>2 DEF Content
<1>3. ASSUME kind = "response"
      PROVE  TextsRead(Content(kind, input)) = TextsMeant(input)
  <2>1. IsPublished(input) /\ Chunks(kind, input) = ResponseTo(input)
    BY <1>1, <1>3, PublishedIs
  <2> QED
    BY <2>1, ResponseReads DEF Content
<1> QED
  BY <1>2, <1>3 DEF kind, input

\* A publication tells all that it is about and nothing else (TellsExactlyTheView), whatever
\* there is to publish: no two that are about something else are the same sequence of bytes,
\* and a JSON reader finds the very texts in a response, whatever characters they are made of.
THEOREM TellsExactlyTheViewHolds == PublicationSpec => []TellsExactlyTheView
<1>1. PublicationInit => PublicationIsValid
  BY DEF PublicationInit, PublicationIsValid
<1>2. PublicationIsValid /\ [PublicationNext]_publication => PublicationIsValid'
  BY ValidityStays
<1>3. PublicationIsValid => TellsExactlyTheView
  BY ValidTells
<1> QED
  BY <1>1, <1>2, <1>3, PTL DEF PublicationSpec

=============================================================================
