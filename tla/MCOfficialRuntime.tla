-------------------------- MODULE MCOfficialRuntime --------------------------
(* An instance of OfficialRuntime for TLC: two clients, two requests, five generations, two faults. *)
EXTENDS OfficialRuntime

CONSTANTS c1, c2, r1, r2
=============================================================================
