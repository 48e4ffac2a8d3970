------------------------ MODULE MCVehicleDataReadModel ------------------------
(***************************************************************************)
(* An instance of VehicleDataReadModel for TLC: three signals for a store  *)
(* of two, old, equal and newer timestamps, a registry of one of two       *)
(* admitted profiles, an identity nobody admitted and buffers that are too *)
(* small for samples, for capabilities or for both.                        *)
(***************************************************************************)
EXTENDS VehicleDataReadModel

MCRegistry == <<"engineSpeed">>
===============================================================================
