--------------------------- MODULE PublicationWriter ---------------------------
(***************************************************************************)
(* How a publication gets into the memory of its caller: the writers of    *)
(* application/ble_vehicle_data_payload.h and web_vehicle_data_response.h, *)
(* and the two passes both encoders make with them. A publication is a     *)
(* sequence of chunks, one per append. The caller's memory goes on behind  *)
(* the buffer it offers, so that a write beyond it would show.             *)
(***************************************************************************)
EXTENDS Naturals, SequencesExt

NoOutput == <<>>

NewWriter(output, capacity) ==
  [good |-> TRUE, output |-> output, capacity |-> capacity, size |-> 0]

Put(memory, from, bytes) ==
  [i \in DOMAIN memory |-> IF i - from \in DOMAIN bytes THEN bytes[i - from] ELSE memory[i]]

\* Appending to a null output only counts; one append that fails ends the publication.
AppendChunk(writer, bytes) ==
  IF ~writer.good \/ (writer.output # NoOutput /\ writer.size + Len(bytes) > writer.capacity)
  THEN [writer EXCEPT !.good = FALSE]
  ELSE [writer EXCEPT !.output = Put(@, writer.size, bytes), !.size = @ + Len(bytes)]

WriteAll(writer, chunks) ==
  LET after[n \in 0 .. Len(chunks)] ==
        IF n = 0 THEN writer ELSE AppendChunk(after[n - 1], chunks[n])
  IN  after[Len(chunks)]

\* Mutant: the terminator is not counted.
FitsWithoutTerminator(capacity, size, terminator) == size <= capacity

Fits(capacity, size, terminator) == size + Len(terminator) <= capacity

\* What encoding returns, and the memory it leaves.
Encoded(isValid, chunks, terminator, memory, capacity, isNull) ==
  LET sizing   == WriteAll(NewWriter(NoOutput, 0), chunks)
      writer   == WriteAll(NewWriter(memory, capacity), chunks)
      required == sizing.size + Len(terminator)
      result(status, size, output) ==
        [status |-> status, required |-> size, memory |-> output]
  IN  IF ~isValid THEN result("InvalidInput", 0, memory)
      ELSE IF ~Fits(capacity, sizing.size, terminator)
      THEN result("InsufficientCapacity", required, memory)
      ELSE IF isNull THEN result("InvalidInput", required, memory)
      ELSE IF ~writer.good \/ writer.size # sizing.size
      THEN result("InvalidInput", required, writer.output)
      ELSE result("Encoded", required, Put(writer.output, writer.size, terminator))

Selected == 3   \* of ProfileSelectionState, whose enumerators are 0 .. 3

\* What both encoders demand of a snapshot's metadata.
IsConsistent(metadata) ==
  /\ metadata.selectionState = Selected <=> metadata.activeIdentity # <<>>
  /\ ~metadata.hasCapabilityRegistry => metadata.capabilityCount = 0
================================================================================
