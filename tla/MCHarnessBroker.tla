-------------------------- MODULE MCHarnessBroker --------------------------
(***************************************************************************)
(* An instance of HarnessBroker for TLC: two connections, three native     *)
(* Sessions and two identities, one of which exists from the start.        *)
(***************************************************************************)
EXTENDS HarnessBroker

CONSTANTS n1, n2
=============================================================================
