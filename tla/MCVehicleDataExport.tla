-------------------------- MODULE MCVehicleDataExport --------------------------
(* One sample of each kind; their texts hold characters of one to four     *)
(* bytes, at the start, inside and at the end. Damage leaves one or two    *)
(* bytes, among them both sides of every boundary of UTF-8.                *)
EXTENDS VehicleDataExport

MCTime   == <<0, 0, 0, 0, 1, 2, 3, 4>>
MCNumber == <<64, 9, 33, 251, 84, 68, 45, 24>>
MCNaN    == <<127, 248, 0, 0, 0, 0, 0, 0>>

MCSample(signalId, unit, type, value, quality, availability) ==
  [signalId |-> signalId, unit |-> unit, valueType |-> type, value |-> value,
   source |-> 1, quality |-> quality, availability |-> availability,
   timestamp |-> MCTime]

MCSamples ==
  { MCSample(<<65, 240, 144, 128, 128>>, <<194, 128>>, Numeric, MCNumber, 0, 0),
    MCSample(<<65>>, <<>>, Numeric, MCNaN, 0, 0),
    MCSample(<<244, 143, 191, 191>>, <<67>>, Boolean, <<1>>, 1, 0),
    MCSample(<<224, 160, 128>>, <<>>, Text, <<237, 159, 191>>, 2, 0),
    MCSample(<<194, 176, 65, 65>>, <<65>>, None, <<>>, 2, 3) }

MCByte ==
  {0, 1, 2, 4, 65, 127, 128, 143, 144, 159, 160, 191, 192, 193, 194, 223, 224,
   225, 236, 237, 238, 239, 240, 241, 243, 244, 245, 255}

MCSecond == {127, 128, 143, 144, 159, 160, 191, 192}

MCBurst == {<<b>> : b \in MCByte} \cup {<<b, c>> : b \in MCByte, c \in MCSecond}

MCCaller == {s \in MCSamples : s.valueType = Boolean}
================================================================================
