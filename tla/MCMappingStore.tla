--------------------------- MODULE MCMappingStore ---------------------------
(***************************************************************************)
(* An instance of MappingStore for TLC: two processes that take turns.     *)
(***************************************************************************)
EXTENDS MappingStore, TLC

CONSTANTS p1, p2, t1, t2, n1, n2

\* Every step but the restore of a backup may fail.
Unreliable == {"replace", "backup", "copying", "meta", "rm", "rmBackup", "rmMeta", "archive",
               "move", "check", "drop", "dropBackup", "dropMeta", "sweep", "undo", "putBack"}

Symmetry == Permutations({p1, p2}) \cup Permutations({t1, t2}) \cup Permutations({n1, n2})
=============================================================================
