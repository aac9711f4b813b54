--------------------------- MODULE DurableThreads ---------------------------
(***************************************************************************)
(* What the mapping store promises of the Threads it keeps: they change    *)
(* only by the one write in progress, and between writes a restart finds   *)
(* exactly what the store serves.                                          *)
(***************************************************************************)
EXTENDS Naturals

CONSTANTS Thread, Value, None,
          Worse(_, _)   \* Worse(w, v): w may be left of v on a damaged disk

VARIABLES
    stored,    \* what a restart would find of each Thread
    served,    \* what the running store answers; None while it is down
    writing,   \* the Threads being written
    damaged    \* how often the disk was damaged

vars == <<stored, served, writing, damaged>>

Init ==
    /\ stored = [t \in Thread |-> None]
    /\ served = None
    /\ writing = {}
    /\ damaged = 0

Open == served = None /\ served' = stored /\ UNCHANGED <<stored, writing, damaged>>

Begin(t) ==
    /\ served # None /\ writing = {}
    /\ writing' = {t}
    /\ UNCHANGED <<stored, served, damaged>>

Write(t) ==
    /\ t \in writing
    /\ \E v \in Value \cup {None} : stored' = [stored EXCEPT ![t] = v]
    /\ UNCHANGED <<served, writing, damaged>>

\* The write is over, done or failed: what is served is what is stored.
End(t) ==
    /\ t \in writing
    /\ \E v \in Value \cup {None} :
          /\ stored' = [stored EXCEPT ![t] = v]
          /\ served' = IF served = None THEN None ELSE [served EXCEPT ![t] = v]
    /\ writing' = {}
    /\ UNCHANGED damaged

\* A crash or the end of a close.
Stop == served' = None /\ writing' = {} /\ UNCHANGED <<stored, damaged>>

Damage(t) ==
    /\ served = None
    /\ damaged' = damaged + 1
    /\ \E w \in Value \cup {None} : Worse(w, stored[t]) /\ stored' = [stored EXCEPT ![t] = w]
    /\ UNCHANGED <<served, writing>>

Next == Open \/ Stop \/ \E t \in Thread : Begin(t) \/ Write(t) \/ End(t) \/ Damage(t)

Spec == Init /\ [][Next]_vars
=============================================================================
