--------------------------- MODULE MCThreadRuntime ---------------------------
(***************************************************************************)
(* Instances of ThreadRuntime for TLC: Desktop and one delegated caller.   *)
(***************************************************************************)
EXTENDS ThreadRuntime

CONSTANTS desktop, delegate

MCRequest == {desktop, delegate}
=============================================================================
