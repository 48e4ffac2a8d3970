----------------------------- MODULE MCObdService -----------------------------
(***************************************************************************)
(* An instance of ObdService for TLC: PIDs that are and are not the base   *)
(* of a block, every shape of message the handler tells apart, and VINs    *)
(* and DTC lists of two entries instead of seventeen and sixteen.          *)
(***************************************************************************)
EXTENDS ObdService

MCMessage ==
  {<<65, 12, 7>>, <<65, 12>>, <<65>>,                \* current data, too short twice
   <<65, 32, 1, 2, 3, 4>>, <<65, 32, 1>>,            \* supported PIDs, too short
   <<73, 2, 1, 87, 86>>, <<73, 2, 2, 87, 86>>,       \* a VIN, not one data item
   <<67>>, <<67, 1, 3, 0, 0>>, <<67, 1>>,            \* no DTC, one and padding, half of one
   <<67, 1, 3, 1, 4, 1, 5>>,                         \* more DTCs than there is room for
   <<127, 1, 17>>, <<>>,
   <<65, 12, 1, 2, 3, 4, 5, 6>>}                     \* one byte over capacity

MCConfig == {[responseTimeout |-> 2], [responseTimeout |-> 0]}
===============================================================================
