---------------------------- MODULE MCThreadTurns ----------------------------
(***************************************************************************)
(* Instances of ThreadTurns for TLC.  Steers are interchangeable, and so   *)
(* are submissions and messages that are no commands.                      *)
(***************************************************************************)
EXTENDS ThreadTurns

CONSTANTS s1, s2, m1, m2, f1, f2, none

Symmetry == Permutations({s1, s2}) \cup Permutations({f1, f2})

\* Two steers beside one other start, or two follow-ups beside two, or one of each
\* beside one other start.  Stops meet one steer, subagents meet none.
SteersOrFollowUps ==
    LET steers == {r \in Steer : steer[r].pc # "new"} IN
    \/ added = {} /\ starts <= 1 /\ ~stopping /\ ~subagents
    \/ steers = {} /\ ~stopping
    \/ Cardinality(steers) = 1 /\ Cardinality(added) <= 1 /\ starts <= 1 /\ ~subagents
=============================================================================
