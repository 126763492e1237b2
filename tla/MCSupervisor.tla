---------------------------- MODULE MCSupervisor ----------------------------
(* A small instance of Supervisor for TLC: four process ids. *)
EXTENDS Supervisor

FourPids == 1 .. 4
=============================================================================
