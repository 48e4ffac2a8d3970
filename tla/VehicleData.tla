------------------------------ MODULE VehicleData ------------------------------
(***************************************************************************)
(* Bounded text and normalized samples (core/vehicle_data.h).              *)
(*                                                                         *)
(* A text is the sequence of its bytes without the terminating NUL; a null *)
(* pointer is refused like malformed text and is not told apart from it.   *)
(* An enumerator is its number in the enum. A number of eight bytes, a     *)
(* timestamp or a binary64, is those bytes, most significant first. What a *)
(* factory makes is the set of its samples: one, or none if it fails.      *)
(***************************************************************************)
EXTENDS Naturals, Sequences

CONSTANTS
  kMaxSignalIdLength,
  kMaxUnitLength,
  kMaxTextLength

ASSUME LengthsFitOneByte ==
  {kMaxSignalIdLength, kMaxUnitLength, kMaxTextLength} \subseteq 0 .. 255

VehicleValueType == 0 .. 3
None    == 0
Numeric == 1
Boolean == 2
Text    == 3

VehicleAvailability == 0 .. 4
Available == 0

VehicleQuality == 0 .. 2
InvalidOrUnknown == 2

VehicleSource == 0 .. 4

(***************************************************************************)
(* BoundedText                                                             *)
(***************************************************************************)
\* Mutant: the last first byte of two is taken for one of three.
ContinuationCountOffByOne(lead) ==
  IF lead \in 194 .. 222 THEN 1 ELSE IF lead \in 223 .. 239 THEN 2 ELSE 3

ContinuationCount(lead) ==
  IF lead \in 194 .. 223 THEN 1 ELSE IF lead \in 224 .. 239 THEN 2 ELSE 3

SecondMin(lead) == IF lead = 224 THEN 160 ELSE IF lead = 240 THEN 144 ELSE 128

\* Mutant: the surrogates are not excluded.
SecondMaxWithSurrogates(lead) == IF lead = 244 THEN 143 ELSE 191

SecondMax(lead) == IF lead = 237 THEN 159 ELSE IF lead = 244 THEN 143 ELSE 191

SequenceFits(index, count, length) == index + count <= length

IsWellFormedUtf8(value) ==
  LET scan[index \in 1 .. Len(value) + 1] ==
        \/ index > Len(value)
        \/ value[index] <= 127 /\ scan[index + 1]
        \/ /\ value[index] \in 194 .. 244
           /\ LET count == ContinuationCount(value[index]) IN
              /\ SequenceFits(index, count, Len(value))
              /\ value[index + 1] \in SecondMin(value[index]) .. SecondMax(value[index])
              /\ \A part \in 2 .. count : value[index + part] \in 128 .. 191
              /\ scan[index + count + 1]
  IN  scan[1]

\* Whether assign takes the value over; otherwise the text is cleared.
Assigns(value, capacity) == Len(value) <= capacity /\ IsWellFormedUtf8(value)

(***************************************************************************)
(* NormalizedVehicleSample                                                 *)
(***************************************************************************)
HasValue(sample) ==
  /\ sample.availability = Available
  /\ sample.valueType # None
  /\ sample.quality # InvalidOrUnknown

Construct(signalId, unit, source, quality, availability, timestamp, type, value) ==
  IF Assigns(signalId, kMaxSignalIdLength) /\ Assigns(unit, kMaxUnitLength)
  THEN {[signalId |-> signalId, unit |-> unit, valueType |-> type, value |-> value,
         source |-> source, quality |-> quality, availability |-> availability,
         timestamp |-> timestamp]}
  ELSE {}

\* tryNumeric, tryBoolean and tryText, which makes no sample of a text it refuses.
TryValue(type, signalId, value, unit, source, quality, timestamp) ==
  IF type = Text /\ ~Assigns(value, kMaxTextLength) THEN {}
  ELSE Construct(signalId, unit, source, quality, Available, timestamp, type, value)

TryStatus(signalId, availability, unit, source, quality, timestamp) ==
  IF availability = Available THEN {}
  ELSE Construct(signalId, unit, source, quality, availability, timestamp, None, <<>>)

(***************************************************************************)
(* What there is: every text went through assign, which ends it with its   *)
(* first NUL, and every sample was made by the factories from arguments of *)
(* their types.                                                            *)
(***************************************************************************)
Characters == Seq(1 .. 255)
EightBytes == [1 .. 8 -> 0 .. 255]

BoundedText(capacity) == {text \in Characters : Assigns(text, capacity)}

ValueOf(type) ==
  CASE type = None    -> {<<>>}
    [] type = Numeric -> EightBytes
    [] type = Boolean -> {<<0>>, <<1>>}
    [] type = Text    -> Characters

IsMade(s) ==
  /\ s.signalId \in Characters /\ s.unit \in Characters /\ s.timestamp \in EightBytes
  /\ s.valueType \in VehicleValueType /\ s.value \in ValueOf(s.valueType)
  /\ s.source \in VehicleSource /\ s.quality \in VehicleQuality
  /\ s.availability \in VehicleAvailability
  /\ s \in IF s.valueType = None
           THEN TryStatus(s.signalId, s.availability, s.unit, s.source, s.quality, s.timestamp)
           ELSE TryValue(s.valueType, s.signalId, s.value, s.unit, s.source, s.quality,
                         s.timestamp)

\* A binary64 is finite unless all bits of its exponent are set.
IsFinite(bits) == ~(bits[1] % 128 = 127 /\ bits[2] >= 240)
================================================================================
