----------------------- MODULE MCVehicleDataPublication -----------------------
(***************************************************************************)
(* Inputs for TLC: texts with characters to be escaped and texts that only *)
(* differ in where one ends and the next begins, values that do and do not *)
(* show, NaN, and indices and counts on both sides of what 16 bits hold.   *)
(***************************************************************************)
EXTENDS VehicleDataPublication

MCNumber == <<64, 9, 33, 251, 84, 68, 45, 24>>
MCNaN    == <<127, 248, 0, 0, 0, 0, 0, 0>>

MCSample(signalId, unit, typed, quality, availability) ==
  [signalId |-> signalId, unit |-> unit, valueType |-> typed[1], value |-> typed[2],
   source |-> 0, quality |-> quality, availability |-> availability,
   timestamp |-> <<0, 0, 0, 0, 0, 0, 3, 232>>]

MCTyped ==
  {<<Numeric, MCNumber>>, <<Numeric, [MCNumber EXCEPT ![8] = 25]>>, <<Numeric, MCNaN>>,
   <<Boolean, <<0>> >>, <<Boolean, <<1>> >>, <<Text, <<>> >>, <<Text, <<1>> >>, <<Text, <<34>> >>}

MCSamples ==
  {MCSample(id, unit, typed, quality, 0) :
     id \in {<<65>>, <<65, 1>>}, unit \in {<<>>, <<1>>}, typed \in MCTyped, quality \in {0, 2}}
  \cup {MCSample(<<65>>, <<>>, <<None, <<>> >>, 2, availability) : availability \in {1, 4}}

MCCapability(identity, unit, support) ==
  [identity |-> identity, expectedValueType |-> Numeric, unit |-> unit, support |-> support]

MCCapabilities ==
  {MCCapability(identity, unit, support) :
     identity \in {<<65>>, <<65, 66>>}, unit \in {<<66>>, <<66, 67>>}, support \in {0, 1}}

MCMetadata(identity, registry, capabilities, samples) ==
  [selectionState |-> IF identity = <<>> THEN 1 ELSE Selected, activeIdentity |-> identity,
   hasCapabilityRegistry |-> registry, capabilityCount |-> capabilities,
   sampleCount |-> samples]

MCIdentity(n) == <<0, 0>> \o U16(n)

MCCount == {0, 255, 256, 65535, 65536}

MCSnapshots ==
  {MCMetadata(identity, FALSE, 0, n) : identity \in {<<>>, MCIdentity(1), MCIdentity(256)}, n \in MCCount}
  \cup {MCMetadata(MCIdentity(1), TRUE, m, n) : m \in MCCount, n \in {0, 1}}

\* Texts with every kind of character JSON treats in its own way.
MCTexts == {<<65>>, <<34>>, <<92, 34>>, <<9, 98>>, <<31>>, <<1, 65>>, <<194, 128>>, <<127>>}

MCWebSamples ==
  {MCSample(text, <<>>, <<Text, <<34, 65>> >>, 0, 0) : text \in MCTexts}
  \cup {MCSample(<<65>>, <<8>>, typed, quality, 0) :
          typed \in {<<Numeric, MCNumber>>, <<Numeric, MCNaN>>, <<Boolean, <<1>> >>},
          quality \in {1, 2}}
  \cup {MCSample(<<65>>, <<37>>, <<None, <<>> >>, 2, 3)}

MCLists == {<<>>} \cup {<<s>> : s \in MCWebSamples} \cup {<<s, CHOOSE t \in MCWebSamples : TRUE>> : s \in MCWebSamples}

MCResponse(identity, registry, capabilities, samples) ==
  [metadata |-> MCMetadata(identity, registry, Len(capabilities), Len(samples)),
   capabilities |-> capabilities, samples |-> samples]

MCResponses ==
  {MCResponse(<<>>, FALSE, <<>>, list) : list \in MCLists}
  \cup {MCResponse(MCIdentity(1), TRUE, list, <<>>) :
          list \in {<<>>} \cup {<<c>> : c \in MCCapabilities}
                   \cup {<<c, MCCapability(<<10>>, <<12, 13>>, 3)>> : c \in MCCapabilities}}
  \cup {MCResponse(MCIdentity(2), FALSE, <<>>, list) : list \in MCLists}

MCSlack == -1 .. 2

MCInput ==
  [kind \in Kind |->
     CASE kind = "snapshot"   -> MCSnapshots
       [] kind = "capability" -> [value : MCCapabilities, index : {0, 255, 256, 65535, 65536}]
       [] kind = "sample"     -> [value : MCSamples, index : {0, 1, 65536}]
       [] kind = "response"   -> MCResponses]
================================================================================
