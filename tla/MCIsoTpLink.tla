------------------------------ MODULE MCIsoTpLink ------------------------------
(***************************************************************************)
(* An instance of IsoTpLink for TLC: messages of one frame and of four,    *)
(* with and without blocks, frames numbered modulo four, up to two lost in *)
(* a row, and time for the timeouts of both sides to pass.                 *)
(***************************************************************************)
EXTENDS IsoTpLink

MCSenderConfig ==
  [idsValid |-> TRUE, maxPayload |-> 7, flowControlTimeout |-> 3,
   consecutiveFrameTimeout |-> 3, maxWaitFrames |-> 0, rxBlockSize |-> 0, rxStMin |-> 0]

MCReceiverConfig ==
  {[MCSenderConfig EXCEPT !.rxBlockSize = n] : n \in {0, 2}}
================================================================================
