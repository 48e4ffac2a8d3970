------------------------------- MODULE BlePayload -------------------------------
(***************************************************************************)
(* The records of the logical BLE protocol v1                              *)
(* (application/ble_vehicle_data_payload.h) as the chunks that are         *)
(* appended. An enumerator is its code, an identity its four bytes, most   *)
(* significant first, and none the empty sequence.                         *)
(***************************************************************************)
EXTENDS VehicleData, PublicationWriter

MaxU16 == 65535

\* Most significant byte first.
U16(value) == <<(value \div 256) % 256, value % 256>>

Header(type) == << <<1>>, <<type>> >>

\* No text is longer than one byte can tell (LengthsFitOneByte).
String(text) == << <<Len(text)>>, text >>

Flag(holds) == <<IF holds THEN 1 ELSE 0>>

\* The validity checks, of which enumerators always pass theirs.
IsValidBleSnapshot(metadata) ==
  /\ IsConsistent(metadata)
  /\ metadata.capabilityCount <= MaxU16 /\ metadata.sampleCount <= MaxU16

BleSnapshot(metadata) ==
  Header(1)
    \o << <<metadata.selectionState>>, Flag(metadata.activeIdentity # <<>>) >>
    \o (IF metadata.activeIdentity = <<>> THEN <<>> ELSE <<metadata.activeIdentity>>)
    \o << Flag(metadata.hasCapabilityRegistry), U16(metadata.capabilityCount),
          U16(metadata.sampleCount) >>

IsValidBleCapability(input) == input.index <= MaxU16

BleCapability(input) ==
  LET capability == input.value IN
  Header(2)
    \o <<U16(input.index)>> \o String(capability.identity)
    \o << <<capability.expectedValueType>> >> \o String(capability.unit)
    \o << <<capability.support>> >>

IsValidBleSample(input) ==
  LET sample == input.value IN
  /\ input.index <= MaxU16
  /\ sample.availability = Available => sample.valueType # None
  /\ HasValue(sample) /\ sample.valueType = Numeric => IsFinite(sample.value)

\* Only a sample that has a value shows it.
BleValue(sample) ==
  IF ~HasValue(sample) THEN <<>>
  ELSE IF sample.valueType = Text THEN String(sample.value) ELSE <<sample.value>>

BleSample(input) ==
  LET sample == input.value IN
  Header(3)
    \o <<U16(input.index)>> \o String(sample.signalId)
    \o << <<sample.valueType>>, Flag(HasValue(sample)) >> \o BleValue(sample)
    \o String(sample.unit)
    \o << <<sample.source>>, <<sample.quality>>, <<sample.availability>>, sample.timestamp >>
================================================================================
