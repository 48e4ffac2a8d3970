--------------------------- MODULE VehicleDataExport ---------------------------
(***************************************************************************)
(* The logger's record of a sample (application/vehicle_data_export_record *)
(* .h): a header of 23 bytes and three fields of variable length. Records  *)
(* are kept outside the program, where bytes may change or get lost before *)
(* they are decoded.                                                       *)
(***************************************************************************)
EXTENDS VehicleData, SequencesExt

CONSTANTS
  WrittenSample,   \* samples the logger exports
  CallerSample,    \* samples a caller brings to be overwritten
  OutputCapacity,  \* capacities the logger brings
  Burst            \* neighbouring bytes that damage leaves in a record

\* What the logger exports was made by the factories.
ASSUME SamplesAreMade == \A s \in WrittenSample : IsMade(s)
ASSUME BurstsAreBytes == Burst \subseteq Seq(0 .. 255)

VARIABLES
  record,   \* the bytes last exported, or what became of them
  call,     \* the last call and what it returned
  meant     \* history: the sample the record still says, as far as known

exportVars == <<record, call, meant>>

kVersion    == 1
kHeaderSize == 23
Magic       == <<86, 68, 69, 82>>

(***************************************************************************)
(* encode                                                                  *)
(***************************************************************************)
IsValidSample(s) ==
  /\ s.valueType = None => s.availability # Available
  /\ s.valueType # None => s.availability = Available
  /\ s.valueType = Numeric => IsFinite(s.value)

Bytes(s) ==
  LET required == kHeaderSize + Len(s.signalId) + Len(s.unit) + Len(s.value) IN
  Magic
    \o <<kVersion, required % 256, required \div 256>>
    \o <<s.valueType, IF HasValue(s) THEN 1 ELSE 0, s.availability, s.quality, s.source>>
    \o Reverse(s.timestamp)
    \o <<Len(s.signalId), Len(s.unit), Len(s.value)>>
    \o s.signalId \o s.unit
    \o IF s.valueType = Numeric THEN Reverse(s.value) ELSE s.value

Encode(s, capacity, output) ==
  LET status == IF ~IsValidSample(s) THEN "InvalidSample"
                ELSE IF capacity < Len(Bytes(s)) THEN "BufferTooSmall"
                ELSE IF output = "null" THEN "InvalidArgument" ELSE "Ok"
  IN  /\ call' = [op |-> "encode", status |-> status,
                  required |-> IF IsValidSample(s) THEN Len(Bytes(s)) ELSE 0]
      /\ IF status = "Ok" THEN record' = Bytes(s) /\ meant' = {s}
         ELSE UNCHANGED <<record, meant>>

(***************************************************************************)
(* decode                                                                  *)
(***************************************************************************)
IsFramed(r) ==
  /\ Len(r) >= kHeaderSize
  /\ SubSeq(r, 1, 4) = Magic
  /\ r[6] + 256 * r[7] = Len(r)

FieldsAreInRange(r) ==
  /\ r[8] \in VehicleValueType /\ r[9] \in 0 .. 1 /\ r[10] \in VehicleAvailability
  /\ r[11] \in VehicleQuality /\ r[12] \in VehicleSource
  /\ r[21] <= kMaxSignalIdLength /\ r[22] <= kMaxUnitLength
  /\ kHeaderSize + r[21] + r[22] + r[23] = Len(r)

IsPayload(type, bytes) ==
  CASE type = Numeric -> Len(bytes) = 8 /\ IsFinite(Reverse(bytes))
    [] type = Boolean -> Len(bytes) = 1 /\ bytes[1] <= 1
    [] type = Text    -> Len(bytes) <= kMaxTextLength /\ ~Contains(bytes, 0)
    [] type = None    -> bytes = <<>>

\* The sample the fields of a record make, if they make one.
Candidate(r) ==
  LET Field(from, length) == SubSeq(r, from + 1, from + length)
      signalId  == Field(kHeaderSize, r[21])
      unit      == Field(kHeaderSize + r[21], r[22])
      payload   == Field(kHeaderSize + r[21] + r[22], r[23])
      timestamp == Reverse(Field(12, 8))
  IN  IF Contains(signalId, 0) \/ Contains(unit, 0) \/ ~IsPayload(r[8], payload) THEN {}
      ELSE IF r[8] = None
      THEN TryStatus(signalId, r[10], unit, r[12], r[11], timestamp)
      ELSE TryValue(r[8], signalId, IF r[8] = Numeric THEN Reverse(payload) ELSE payload,
                    unit, r[12], r[11], timestamp)

\* The flags of the record must be those of the sample it makes.
Agrees(r, s) == s.availability = r[10] /\ HasValue(s) = (r[9] = 1)

\* The sample a record is decoded to, if it is.
Decoded(r) ==
  IF FieldsAreInRange(r) THEN {s \in Candidate(r) : Agrees(r, s)} ELSE {}

Returns(status, before, after) ==
  call' = [op |-> "decode", status |-> status, before |-> before, after |-> after]

\* output is the caller's sample, which only success overwrites.
Decode(output) ==
  /\ \/ Returns("InvalidArgument", output, output)   \* a null input
     \/ ~IsFramed(record) /\ Returns("MalformedRecord", output, output)
     \/ /\ IsFramed(record) /\ record[5] # kVersion
        /\ Returns("UnsupportedVersion", output, output)
     \/ /\ IsFramed(record) /\ record[5] = kVersion
        /\ \/ \E s \in Decoded(record) : Returns("Ok", output, s)
           \/ Decoded(record) = {} /\ Returns("MalformedRecord", output, output)
  /\ UNCHANGED <<record, meant>>

(***************************************************************************)
(* Unicode, from its definition: a text is a sequence of scalar values,    *)
(* each in the encoding of its code point.                                 *)
(***************************************************************************)
IsScalarValue(c) == c <= 1114111 /\ ~(c >= 55296 /\ c <= 57343)

Utf8(c) ==
  IF c < 128 THEN <<c>>
  ELSE IF c < 2048 THEN <<192 + c \div 64, 128 + (c % 64)>>
  ELSE IF c < 65536
  THEN <<224 + c \div 4096, 128 + ((c \div 64) % 64), 128 + (c % 64)>>
  ELSE <<240 + c \div 262144, 128 + ((c \div 4096) % 64),
         128 + ((c \div 64) % 64), 128 + (c % 64)>>

\* The bits that bytes carry when they are read as one code point.
CodePoint(bytes) ==
  LET low(i) == bytes[i] % 64 IN
  CASE Len(bytes) = 1 -> bytes[1] % 128
    [] Len(bytes) = 2 -> 64 * (bytes[1] % 32) + low(2)
    [] Len(bytes) = 3 -> 4096 * (bytes[1] % 16) + 64 * low(2) + low(3)
    [] Len(bytes) = 4 -> 262144 * (bytes[1] % 8) + 4096 * low(2) + 64 * low(3) + low(4)

IsScalar(bytes) ==
  IsScalarValue(CodePoint(bytes)) /\ Utf8(CodePoint(bytes)) = bytes

\* A text can be cut into them: at each place but its end one leads to the next.
IsUnicode(text) ==
  \E cuts \in SUBSET (1 .. Len(text) + 1) :
    /\ 1 \in cuts
    /\ \A from \in cuts \ {Len(text) + 1} : \E n \in 1 .. 4 :
         from + n \in cuts /\ IsScalar(SubSeq(text, from, from + n - 1))

(***************************************************************************)
(* What becomes of a stored record: one burst of damage, which in the      *)
(* signal id may give the record another meaning; a lost end; more bytes.  *)
(***************************************************************************)
Overwritten(text, from, burst) ==
  [n \in DOMAIN text |->
     IF n - from \in DOMAIN burst THEN burst[n - from] ELSE text[n]]

DamageSignalId ==
  \E s \in meant, burst \in Burst : \E from \in 0 .. Len(s.signalId) - Len(burst) :
    LET signalId == Overwritten(s.signalId, from, burst) IN
    /\ record' = Overwritten(record, kHeaderSize + from, burst)
    /\ meant' = IF IsUnicode(signalId) /\ ~Contains(signalId, 0)
                THEN {[s EXCEPT !.signalId = signalId]} ELSE {}

DamageElsewhere ==
  \E s \in meant, burst \in Burst : \E from \in 0 .. Len(record) - Len(burst) :
    /\ from \notin kHeaderSize .. kHeaderSize + Len(s.signalId) - Len(burst)
    /\ record' = Overwritten(record, from, burst)
    /\ meant' = {}

Truncate ==
  /\ meant # {}
  /\ \E length \in 0 .. Len(record) - 1 : record' = SubSeq(record, 1, length)
  /\ meant' = {}

Extend ==
  /\ meant # {}
  /\ \E burst \in Burst : record' = record \o burst
  /\ meant' = {}

\* Only a record as it was written gets damaged.
Damage ==
  /\ call.op = "encode" /\ call.status = "Ok"
  /\ DamageSignalId \/ DamageElsewhere \/ Truncate \/ Extend
  /\ call' = [op |-> "damage"]

ExportInit == record = <<>> /\ call = [op |-> "none"] /\ meant = {}

ExportNext ==
  \/ \E s \in WrittenSample, capacity \in OutputCapacity, output \in {"buffer", "null"} :
       Encode(s, capacity, output)
  \/ \E output \in CallerSample : Decode(output)
  \/ Damage

ExportSpec == ExportInit /\ [][ExportNext]_exportVars

(***************************************************************************)
(* Properties                                                              *)
(***************************************************************************)
Texts(s) == {s.signalId, s.unit} \cup IF s.valueType = Text THEN {s.value} ELSE {}

(* A record as it was written is decoded to the very sample it was written *)
(* from, and so is one whose signal id has become another Unicode text:    *)
(* decode, and the factories and the UTF-8 scan under it, refuse nothing   *)
(* that encode can write.                                                  *)
EveryRecordReads ==
  [][call'.op = "decode" /\ call'.status # "InvalidArgument" =>
       \A s \in meant : call'.status = "Ok" /\ call'.after = s]_exportVars

(* Damaged or not, a record that is decoded is the record of the sample it *)
(* is decoded to, whose texts are Unicode; one that is refused leaves the  *)
(* caller's sample alone.                                                  *)
OnlyRecordsRead ==
  [][call'.op = "decode" =>
       IF call'.status = "Ok"
       THEN /\ record = Bytes(call'.after) /\ IsValidSample(call'.after)
            /\ \A text \in Texts(call'.after) : IsUnicode(text)
       ELSE call'.after = call'.before]_exportVars
================================================================================
