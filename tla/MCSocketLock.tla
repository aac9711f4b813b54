---------------------------- MODULE MCSocketLock ----------------------------
(* Two calls of the lock; with one attempt, so that its limit is hit.       *)
EXTENDS SocketLock

MCContender == {1, 2}
=============================================================================
