------------------------- MODULE VehicleDataReadModel -------------------------
(***************************************************************************)
(* The read projection over the store, the manually selected vehicle       *)
(* profile and the profile's signal registry                               *)
(* (application/vehicle_data_read_model.h, profiles/*.h). A caller brings  *)
(* buffers of its own and keeps them between snapshots, while samples      *)
(* arrive and the selection changes. A null buffer is one of capacity 0.   *)
(***************************************************************************)
EXTENDS VehicleDataStore

CONSTANTS
  ProfileIdentity,
  Admitted,          \* identities selectManually accepts
  NoIdentity,
  RegistryProfile,   \* profile the registry belongs to, NoIdentity without a registry
  Registry,          \* descriptors of the registry, in order
  BufferCapacity     \* capacities callers bring, for samples and for capabilities

ASSUME IdentitiesAreAdmitted == Admitted \subseteq ProfileIdentity /\ NoIdentity \notin ProfileIdentity
ASSUME BuffersAreNatural == BufferCapacity \subseteq Nat
ASSUME RegistryIsSequence == Registry \in Seq({Registry[i] : i \in DOMAIN Registry})

VARIABLES
  profile,   \* [state, active] of ActiveVehicleProfile
  caller,    \* the caller's sample buffer, capability buffer and metadata
  taken      \* history: store and selection at the last Complete snapshot

vars == <<samples, newest, profile, caller, taken>>

Unresolved == {"Unknown", "Ambiguous", "ManualSelectionRequired"}

NoMetadata ==
  [selectionState |-> "Unknown", activeIdentity |-> NoIdentity,
   hasCapabilityRegistry |-> FALSE, capabilityCount |-> 0, sampleCount |-> 0]

Init ==
  /\ StoreInit
  /\ profile = [state |-> "Unknown", active |-> NoIdentity]
  /\ caller = [samples |-> <<>>, capabilities |-> <<>>, metadata |-> NoMetadata]
  /\ taken = [samples |-> <<>>, profile |-> profile]

(***************************************************************************)
(* ActiveVehicleProfile                                                    *)
(***************************************************************************)
SelectManually(identity) ==
  /\ profile' = IF identity \in Admitted THEN [state |-> "Selected", active |-> identity]
                ELSE profile
  /\ UNCHANGED <<samples, newest, caller, taken>>

\* Mutant: an unresolved selection keeps its identity.
ClearKeepingIdentity(state) ==
  /\ profile' = [profile EXCEPT !.state = state]
  /\ UNCHANGED <<samples, newest, caller, taken>>

Clear(state) ==
  /\ profile' = [state |-> state, active |-> NoIdentity]
  /\ UNCHANGED <<samples, newest, caller, taken>>

(***************************************************************************)
(* snapshot                                                                *)
(***************************************************************************)
ActiveIdentity == IF profile.state = "Selected" THEN profile.active ELSE NoIdentity

\* The registry belongs to one profile: its signals are capabilities of no other.
HasCapabilityRegistry ==
  RegistryProfile # NoIdentity /\ ActiveIdentity # NoIdentity /\ ActiveIdentity = RegistryProfile

Capabilities == IF HasCapabilityRegistry THEN Registry ELSE <<>>

Metadata ==
  [selectionState |-> profile.state, activeIdentity |-> ActiveIdentity,
   hasCapabilityRegistry |-> HasCapabilityRegistry,
   capabilityCount |-> Len(Capabilities), sampleCount |-> Len(samples)]

\* A copy overwrites the front of a buffer and leaves what lies behind it.
Overwrite(buffer, content) ==
  content \o SubSeq(buffer, Len(content) + 1, Len(buffer))

CapabilitiesFit(capacity) == Len(Capabilities) <= capacity

\* Mutant: the samples are copied before the capabilities are known to fit.
SnapshotFailsAfterSamples(sampleCapacity, capabilityCapacity) ==
  /\ ~CapabilitiesFit(capabilityCapacity) \/ ~SnapshotFits(sampleCapacity)
  /\ caller' = IF SnapshotFits(sampleCapacity)
               THEN [caller EXCEPT !.samples = Overwrite(@, samples)]
               ELSE caller
  /\ UNCHANGED taken

\* The capability check comes first, so that no copy is made before both buffers fit.
SnapshotFails(sampleCapacity, capabilityCapacity) ==
  /\ ~CapabilitiesFit(capabilityCapacity) \/ ~SnapshotFits(sampleCapacity)
  /\ UNCHANGED <<caller, taken>>

SnapshotCompletes(sampleCapacity, capabilityCapacity) ==
  /\ CapabilitiesFit(capabilityCapacity) /\ SnapshotFits(sampleCapacity)
  /\ caller' = [samples      |-> Overwrite(caller.samples, samples),
                capabilities |-> Overwrite(caller.capabilities, Capabilities),
                metadata     |-> Metadata]
  /\ taken' = [samples |-> samples, profile |-> profile]

Snapshot(sampleCapacity, capabilityCapacity) ==
  /\ \/ SnapshotFails(sampleCapacity, capabilityCapacity)
     \/ SnapshotCompletes(sampleCapacity, capabilityCapacity)
  /\ UNCHANGED <<samples, newest, profile>>

Next ==
  \/ \E incoming \in Sample : Upsert(incoming) /\ UNCHANGED <<profile, caller, taken>>
  \/ \E identity \in ProfileIdentity : SelectManually(identity)
  \/ \E state \in Unresolved : Clear(state)
  \/ \E n \in BufferCapacity, m \in BufferCapacity : Snapshot(n, m)

Spec == Init /\ [][Next]_vars

(***************************************************************************)
(* Properties.                                                             *)
(***************************************************************************)
TypeOK ==
  /\ StoreTypeOK
  /\ profile \in [state : Unresolved \cup {"Selected"}, active : Admitted \cup {NoIdentity}]
  /\ profile.active # NoIdentity <=> profile.state = "Selected"

\* What a caller holds is one moment of the system: samples, capabilities and metadata of the
\* last complete snapshot, never a mixture with a failed or an earlier one, with capabilities
\* only of the profile they were registered for. So the encoders, which refuse metadata that
\* contradicts itself, refuse no snapshot.
SnapshotIsOneMoment ==
  LET m == caller.metadata IN
  /\ SubSeq(caller.samples, 1, m.sampleCount) = taken.samples
  /\ m.selectionState = taken.profile.state
  /\ m.activeIdentity = taken.profile.active
  /\ m.selectionState = "Selected" <=> m.activeIdentity # NoIdentity
  /\ m.hasCapabilityRegistry <=> m.activeIdentity = RegistryProfile /\ m.activeIdentity # NoIdentity
  /\ IF m.hasCapabilityRegistry
     THEN /\ m.capabilityCount = Len(Registry)
          /\ SubSeq(caller.capabilities, 1, m.capabilityCount) = Registry
     ELSE m.capabilityCount = 0
===============================================================================
