------------------------------ MODULE MCScheduler ------------------------------
(***************************************************************************)
(* An instance of Scheduler for TLC: two job slots for three identities,   *)
(* periods of two and three, and a clock that starts anywhere and reaches  *)
(* its last value, so that missed periods and both overflows occur.        *)
(***************************************************************************)
EXTENDS Scheduler
================================================================================
