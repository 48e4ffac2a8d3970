------------------------ MODULE VehicleDataPublication ------------------------
(***************************************************************************)
(* The publications of what the read model hands out: BLE records, one for *)
(* the metadata and one for each capability and sample, and a response for *)
(* web clients. A caller offers the front of its memory as the buffer.     *)
(***************************************************************************)
EXTENDS BlePayload, WebResponse

CONSTANTS
  Input,        \* for each kind of publication, what callers have to publish
  MemorySize,   \* of the memory of a caller
  Slack         \* by how much its buffer is larger than needed, or smaller

Kind == {"snapshot", "capability", "sample", "response"}

Octets == Seq(0 .. 255)

AnyMetadata ==
  [selectionState : 0 .. 3, activeIdentity : {<<>>} \cup [1 .. 4 -> 0 .. 255],
   hasCapabilityRegistry : BOOLEAN, capabilityCount : Nat, sampleCount : Nat]
AnyCapability ==
  [identity : BoundedText(kMaxSignalIdLength), expectedValueType : VehicleValueType,
   unit : BoundedText(kMaxUnitLength), support : 0 .. 3]
AnySample ==
  {s \in [signalId : Octets, unit : Octets, valueType : VehicleValueType, value : Octets,
          source : VehicleSource, quality : VehicleQuality, availability : VehicleAvailability,
          timestamp : Octets] : IsMade(s)}

ASSUME InputsAreTyped ==
  /\ DOMAIN Input = Kind
  /\ Input["snapshot"] \subseteq AnyMetadata
  /\ Input["capability"] \subseteq [value : AnyCapability, index : Nat]
  /\ Input["sample"] \subseteq [value : AnySample, index : Nat]
  /\ \A input \in Input["response"] :
       /\ input \in [metadata : AnyMetadata, capabilities : Seq(AnyCapability),
                    samples : Seq(AnySample)]
       /\ Len(input.capabilities) = input.metadata.capabilityCount
       /\ Len(input.samples) = input.metadata.sampleCount
ASSUME MemoryIsNatural == MemorySize \in Nat

VARIABLE publication   \* the last publication: its kind, input and buffer, and what came of it

Untouched == 2000
Nothing == [kind |-> "none"]
Memory == [i \in 1 .. MemorySize |-> Untouched]

(***************************************************************************)
(* The publications                                                        *)
(***************************************************************************)
IsValid(kind, input) ==
  CASE kind = "snapshot"   -> IsValidBleSnapshot(input)
    [] kind = "capability" -> IsValidBleCapability(input)
    [] kind = "sample"     -> IsValidBleSample(input)
    [] kind = "response"   -> IsValidResponse(input.metadata, input.samples)

Chunks(kind, input) ==
  CASE kind = "snapshot"   -> BleSnapshot(input)
    [] kind = "capability" -> BleCapability(input)
    [] kind = "sample"     -> BleSample(input)
    [] kind = "response"   -> Response(input.metadata, input.capabilities, input.samples)

\* A response is a C string.
Terminator(kind) == IF kind = "response" THEN <<0>> ELSE <<>>

Publish(kind, input) ==
  LET chunks == IF IsValid(kind, input) THEN Chunks(kind, input) ELSE <<>>
      needed == WriteAll(NewWriter(NoOutput, 0), chunks).size
  IN  \E capacity \in {0} \cup ({needed + slack : slack \in Slack} \cap 0 .. MemorySize),
         isNull \in BOOLEAN :
        /\ publication = Nothing
        /\ publication' = [kind |-> kind, input |-> input, capacity |-> capacity,
                    result |-> Encoded(IsValid(kind, input), chunks, Terminator(kind),
                                       Memory, capacity, isNull)]

\* The caller has passed the publication on and may use its memory again.
PassOn == publication # Nothing /\ publication' = Nothing

PublicationInit == publication = Nothing

PublicationNext ==
  \/ \E kind \in Kind : \E input \in Input[kind] : Publish(kind, input)
  \/ PassOn

PublicationSpec == PublicationInit /\ [][PublicationNext]_publication

(***************************************************************************)
(* What a publication is about, as the formats are documented: a value     *)
(* only where the sample has one, and its type in a BLE record always.     *)
(***************************************************************************)
SampleView(s) ==
  << s.signalId, s.unit, IF HasValue(s) THEN <<s.valueType, s.value>> ELSE <<>>,
     s.source, s.quality, s.availability, s.timestamp >>

View(kind, input) ==
  CASE kind = "sample"   -> << input.index, input.value.valueType, SampleView(input.value) >>
    [] kind = "response" ->
         << input.metadata.selectionState, input.metadata.activeIdentity,
            input.metadata.hasCapabilityRegistry, input.capabilities,
            [i \in DOMAIN input.samples |-> SampleView(input.samples[i])] >>
    [] OTHER -> input

(***************************************************************************)
(* How a JSON reader takes the texts of a response out of it. Nothing but  *)
(* pieces of JSON stands outside the quotes and no control character       *)
(* inside; the name of an enumerator is a text too.                        *)
(***************************************************************************)
HexCharacter == (48 .. 57) \cup (97 .. 102)
HexValue(c) == IF c \in 48 .. 57 THEN c - 48 ELSE c - 87
HexNumber(hex) == 4096 * hex[1] + 256 * hex[2] + 16 * hex[3] + hex[4]

ReadCell(reader, c) ==
  LET became(mode, text) == [reader EXCEPT !.mode = mode, !.text = text]
      text == reader.text
  IN  CASE reader.mode = "outside" ->
             IF c = Quote THEN became("inside", <<>>)
             ELSE IF c >= 300 THEN reader ELSE became("malformed", <<>>)
        [] reader.mode = "inside" ->
             IF c = Quote
             THEN [reader EXCEPT !.mode = "outside", !.texts = Append(@, text)]
             ELSE IF c = Backslash THEN became("escape", text)
             ELSE IF c < 32 THEN became("malformed", <<>>) ELSE became("inside", Append(text, c))
        [] reader.mode = "escape" ->
             IF c = 117 THEN [became("hex", text) EXCEPT !.hex = <<>>]
             ELSE IF c \in {Quote, Backslash} THEN became("inside", Append(text, c))
             ELSE IF \E d \in DOMAIN Letter : Letter[d] = c
             THEN became("inside", Append(text, CHOOSE d \in DOMAIN Letter : Letter[d] = c))
             ELSE became("malformed", <<>>)
        [] reader.mode = "hex" ->
             LET hex == Append(reader.hex, HexValue(c)) IN
             IF c \notin HexCharacter THEN became("malformed", <<>>)
             ELSE IF Len(hex) < 4 THEN [reader EXCEPT !.hex = hex]
             ELSE became("inside", Append(text, HexNumber(hex)))
        [] reader.mode = "malformed" -> reader

Read(reader, cells) ==
  LET after[n \in 0 .. Len(cells)] ==
        IF n = 0 THEN reader ELSE ReadCell(after[n - 1], cells[n])
  IN  after[Len(cells)]

TextsRead(cells) ==
  LET reader == Read([mode |-> "outside", text |-> <<>>, hex |-> <<>>, texts |-> <<>>], cells)
  IN  IF reader.mode = "outside" THEN reader.texts ELSE <<"malformed">>

TextsMeant(input) ==
  LET named(code) == <<NameCell(code)>>
      ofCapability(c) ==
        <<c.identity, named(c.expectedValueType), c.unit, named(c.support)>>
      ofSample(s) ==
        <<s.signalId, s.unit>>
          \o (IF HasValue(s) THEN <<named(s.valueType)>> ELSE <<>>)
          \o (IF HasValue(s) /\ s.valueType = Text THEN <<s.value>> ELSE <<>>)
          \o <<named(s.source), named(s.quality), named(s.availability)>>
  IN  <<named(input.metadata.selectionState)>>
        \o FlattenSeq([i \in DOMAIN input.capabilities |-> ofCapability(input.capabilities[i])])
        \o FlattenSeq([i \in DOMAIN input.samples |-> ofSample(input.samples[i])])

(***************************************************************************)
(* Properties                                                              *)
(***************************************************************************)
Content(kind, input) == FlattenSeq(Chunks(kind, input))

(* A publication tells all that it is about and nothing else: two are the  *)
(* same exactly when what they are about is (a value that is not to be     *)
(* relied on never shows), and a JSON reader finds in a response the very  *)
(* texts, whatever characters they are made of.                            *)
TellsExactlyTheView ==
  publication # Nothing /\ publication.result.status = "Encoded" =>
    /\ \A other \in Input[publication.kind] : IsValid(publication.kind, other) =>
         (Content(publication.kind, other) = Content(publication.kind, publication.input)
            <=> View(publication.kind, other) = View(publication.kind, publication.input))
    /\ publication.kind = "response" =>
         TextsRead(Content(publication.kind, publication.input)) = TextsMeant(publication.input)

(* The caller's memory is its own: a publication that fails leaves all of  *)
(* it alone, also the part of the buffer it might have begun to fill, and  *)
(* one that succeeds fills exactly what it said is required, terminator    *)
(* included, and nothing beyond the buffer.                                *)
CallerMemoryIsRespected ==
  publication # Nothing =>
    LET r == publication.result
        content == Content(publication.kind, publication.input) \o Terminator(publication.kind)
    IN  IF r.status = "Encoded"
        THEN /\ r.required = Len(content) /\ r.required <= publication.capacity
             /\ r.memory = content \o SubSeq(Memory, Len(content) + 1, MemorySize)
        ELSE /\ r.memory = Memory
             /\ r.status = "InsufficientCapacity" => r.required = Len(content)
================================================================================
