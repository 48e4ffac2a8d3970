--------------------------- MODULE MCDiagnosticStack ---------------------------
(***************************************************************************)
(* An instance of DiagnosticStack for TLC: one identifier and a PID, an    *)
(* answer to each and to a PID nobody asked for, response-pending, and a   *)
(* message only one of the services has room for.                          *)
(***************************************************************************)
EXTENDS DiagnosticStack

MCDids == {<<1, 1>>}

MCMessage ==
  {<<98, 1, 1, 7>>, <<127, 34, 120>>,
   <<65, 32, 7>>, <<65, 13, 7>>,
   <<98, 1, 1, 1, 2, 3>>}

MCUdsConfig == {[responseTimeout |-> 1, pendingTimeout |-> 1, maxPending |-> 1]}
MCObdConfig == {[responseTimeout |-> 1]}
================================================================================
