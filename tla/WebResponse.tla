------------------------------ MODULE WebResponse ------------------------------
(***************************************************************************)
(* The JSON response (application/web_vehicle_data_response.h) as the      *)
(* chunks that are appended. A character is its byte. Outside the quoted   *)
(* texts what matters is which piece stands where, so one number beyond    *)
(* the bytes stands for a fixed piece of JSON, for the name of an          *)
(* enumerator (different in one enumeration for each), and for as much of  *)
(* a number's digits as one of its bytes determines.                       *)
(***************************************************************************)
EXTENDS VehicleData, PublicationWriter

Pieces ==
  << "{profileSelection:", ",activeProfileId:", ",capabilities:", "null", "[", ",", "]",
     "{signalId:", ",valueType:", ",unit:", ",support:", "}", ",samples:[", ",value:",
     "true", "false", ",source:", ",quality:", ",availability:", ",timestampMs:'", "'}", "]}" >>

Literal(piece) == << <<1000 + CHOOSE i \in DOMAIN Pieces : Pieces[i] = piece>> >>

NameCell(code) == 900 + code
DigitCell(byte) == 300 + byte
Digits(bytes) == << [i \in DOMAIN bytes |-> DigitCell(bytes[i])] >>

(***************************************************************************)
(* appendQuoted                                                            *)
(***************************************************************************)
Quote == 34
Backslash == 92

\* b, f, n, r and t by the control character they stand for.
Letter ==
  [c \in {8, 9, 10, 12, 13} |->
     CASE c = 8 -> 98 [] c = 12 -> 102 [] c = 10 -> 110 [] c = 13 -> 114 [] c = 9 -> 116]

\* Its digits as characters: 0 to 9 and a to f.
HexDigit(n) == IF n < 10 THEN 48 + n ELSE 87 + n

Escaped(c) ==
  IF c \in {Quote, Backslash} THEN <<Backslash, c>>
  ELSE IF c \in DOMAIN Letter THEN <<Backslash, Letter[c]>>
  ELSE IF c < 32 THEN <<Backslash, 117, 48, 48, HexDigit(c \div 16), HexDigit(c % 16)>>
  ELSE <<c>>

\* Mutant: control characters without a letter of their own are copied.
QuotedWithControls(text) ==
  << <<Quote>> >>
    \o [i \in DOMAIN text |-> IF text[i] < 32 /\ text[i] \notin DOMAIN Letter THEN <<text[i]>>
                              ELSE Escaped(text[i])]
    \o << <<Quote>> >>

Quoted(text) == << <<Quote>> >> \o [i \in DOMAIN text |-> Escaped(text[i])] \o << <<Quote>> >>

Name(code) == << <<Quote>>, <<NameCell(code)>>, <<Quote>> >>

(***************************************************************************)
(* validateInput and writeResponse                                         *)
(***************************************************************************)
\* Enumerators always have a name, and lists are as long as the metadata counts.
IsValidResponse(metadata, samples) ==
  /\ IsConsistent(metadata)
  /\ \A i \in 1 .. metadata.sampleCount :
       HasValue(samples[i]) /\ samples[i].valueType = Numeric => IsFinite(samples[i].value)

CapabilityObject(capability) ==
  Literal("{signalId:") \o Quoted(capability.identity)
    \o Literal(",valueType:") \o Name(capability.expectedValueType)
    \o Literal(",unit:") \o Quoted(capability.unit)
    \o Literal(",support:") \o Name(capability.support) \o Literal("}")

JsonValue(sample) ==
  CASE sample.valueType = Numeric -> Digits(sample.value)
    [] sample.valueType = Boolean -> Literal(IF sample.value = <<1>> THEN "true" ELSE "false")
    [] sample.valueType = Text    -> Quoted(sample.value)

SampleObject(sample) ==
  Literal("{signalId:") \o Quoted(sample.signalId) \o Literal(",unit:") \o Quoted(sample.unit)
    \o (IF HasValue(sample)
        THEN Literal(",valueType:") \o Name(sample.valueType)
               \o Literal(",value:") \o JsonValue(sample)
        ELSE <<>>)
    \o Literal(",source:") \o Name(sample.source)
    \o Literal(",quality:") \o Name(sample.quality)
    \o Literal(",availability:") \o Name(sample.availability)
    \o Literal(",timestampMs:'") \o Digits(sample.timestamp) \o Literal("'}")

\* The objects of the first count members, separated by commas.
Separated(objects, count) ==
  FlattenSeq([i \in 1 .. count |-> (IF i = 1 THEN <<>> ELSE Literal(",")) \o objects[i]])

Response(metadata, capabilities, samples) ==
  Literal("{profileSelection:") \o Name(metadata.selectionState)
    \o (IF metadata.activeIdentity = <<>> THEN <<>>
        ELSE Literal(",activeProfileId:") \o Digits(metadata.activeIdentity))
    \o Literal(",capabilities:")
    \o (IF ~metadata.hasCapabilityRegistry THEN Literal("null")
        ELSE Literal("[")
               \o Separated([i \in DOMAIN capabilities |-> CapabilityObject(capabilities[i])],
                            metadata.capabilityCount)
               \o Literal("]"))
    \o Literal(",samples:[")
    \o Separated([i \in DOMAIN samples |-> SampleObject(samples[i])], metadata.sampleCount)
    \o Literal("]}")
================================================================================
