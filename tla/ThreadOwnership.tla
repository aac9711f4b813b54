--------------------------- MODULE ThreadOwnership ---------------------------
(***************************************************************************)
(* What the lifecycle of an external Thread promises, without lanes,       *)
(* blockers, timeouts or owners.  At most one Session writes the native    *)
(* history.  A Session is published to the callers of the Thread while it  *)
(* is the writer, and only once the Session published before it is spent.  *)
(* The Thread is forgotten only when what it published is spent.           *)
(***************************************************************************)
CONSTANTS Session, None

VARIABLES writer,   \* the Session that may write, or None
          loaded,   \* the Session published to the callers, or None
          spent     \* the Sessions that were closed

vars == <<writer, loaded, spent>>

Init == writer = None /\ loaded = None /\ spent = {}

Acquire(s) ==
    /\ writer = None /\ s \notin spent
    /\ writer' = s
    /\ UNCHANGED <<loaded, spent>>

Publish ==
    /\ writer # None
    /\ loaded \in spent \cup {None}
    /\ loaded' = writer
    /\ UNCHANGED <<writer, spent>>

Spend ==
    /\ writer # None
    /\ writer' = None
    /\ spent' = spent \cup {writer}
    /\ UNCHANGED loaded

Forget ==
    /\ loaded \in spent
    /\ loaded' = None
    /\ UNCHANGED <<writer, spent>>

Next == \/ \E s \in Session : Acquire(s)
        \/ Publish \/ Spend \/ Forget

Spec == Init /\ [][Next]_vars
=============================================================================
