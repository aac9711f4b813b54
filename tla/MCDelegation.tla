---------------------------- MODULE MCDelegation ----------------------------
(* An instance of Delegation for TLC: calls of one request, and one that may *)
(* come without it.                                                          *)
EXTENDS Delegation, TLC

CONSTANTS s1, s2, s3, r1

MCAsks == s1 :> {r1} @@ s2 :> {r1} @@ s3 :> {r1, None}

Symmetry == Permutations({s1, s2})

\* The reads, statuses and restored owners of others concern the child of the call that
\* may come without the request, and none when a write has failed.
OthersWith == writing \cup overtaken \cup {t \in Start : loaded[t] = "restored"}
OneChild == OthersWith \subseteq (IF faults = 0 THEN {s3} ELSE {})
=============================================================================
