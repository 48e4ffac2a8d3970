----------------------------- MODULE MCUdsService -----------------------------
(***************************************************************************)
(* An instance of UdsService for TLC: two identifiers, every shape of      *)
(* message the handlers tell apart, a configuration that accepts one       *)
(* response-pending, and one that prepareRequest rejects.                  *)
(***************************************************************************)
EXTENDS UdsService

MCDids == {<<1, 1>>, <<1, 2>>}

MCMessage ==
  {<<98, 1, 1, 7>>, <<98, 1, 2, 8>>,          \* answers to the two identifiers
   <<98, 1, 1>>, <<98, 1>>,                   \* too short
   <<127, 34, 120>>, <<127, 25, 120>>,        \* response pending
   <<127, 34, 49>>, <<127, 34>>,              \* a refusal, and a truncated one
   <<89, 2, 255>>, <<89, 2, 255, 1, 2, 3, 4>>,\* no DTC, one DTC
   <<89, 2, 255, 1>>, <<89, 1>>, <<89>>,      \* malformed reports
   <<>>,
   <<98, 1, 1, 1, 2, 3, 4, 5>>}               \* one byte over capacity

\* The messages that decide whether a request goes on: an answer, one to another
\* identifier, a response-pending and one too long to receive.
MCLiveMessage ==
  {<<98, 1, 1, 7>>, <<127, 34, 120>>, <<98, 1, 1, 1, 2, 3, 4, 5>>}

MCConfig ==
  {[responseTimeout |-> 2, pendingTimeout |-> 3, maxPending |-> 1],
   [responseTimeout |-> 0, pendingTimeout |-> 1, maxPending |-> 1]}
===============================================================================
