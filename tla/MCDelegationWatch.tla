-------------------------- MODULE MCDelegationWatch --------------------------
(* An instance of DelegationWatch for TLC: two calls watch one Thread for one subscriber. *)
EXTENDS DelegationWatch

CONSTANTS c1, c2, w1, n1
=============================================================================
