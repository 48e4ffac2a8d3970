---------------------------- MODULE MCEsp32TwaiCan ----------------------------
(***************************************************************************)
(* An instance of Esp32TwaiCan for TLC: a receive queue of two, so that a  *)
(* loss falls before, between and behind frames not yet read, a transmit   *)
(* queue of one, and any combination of failing driver calls.              *)
(***************************************************************************)
EXTENDS Esp32TwaiCan
================================================================================
