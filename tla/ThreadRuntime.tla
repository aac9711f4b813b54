---------------------------- MODULE ThreadRuntime ----------------------------
(***************************************************************************)
(* One external Thread of the Host: who owns its native Session.           *)
(* external-thread-runtime.ts keeps at most one loaded owner (an           *)
(* ExternalThread), external-thread-lifecycle.ts runs the operations on    *)
(* it one after the other in a lane, external-thread-idle-release.ts       *)
(* closes idle Sessions, and external-thread-rollback.ts replaces the      *)
(* Session outside of the lane.                                            *)
(*                                                                         *)
(* A native Session is a process that writes the history of one native     *)
(* reference.  Every await of the code is a step boundary here.  Sessions  *)
(* are numbered in the order they are made; 0 is none.                     *)
(***************************************************************************)
EXTENDS Integers, Sequences

CONSTANTS Request,       \* callers that can be inside runOperation at once
          Desktop,       \* the one of them that is Desktop's request queue
          MaxSessions,   \* bound of the model: Sessions ever opened
          MaxQueued,     \* bound of the model: operations waiting in the lane
          MaxRollbacks   \* bound of the model: rollbacks begun

ASSUME BoundAssumption ==
    MaxSessions \in Nat /\ MaxQueued \in Nat /\ MaxRollbacks \in Nat

None == 0
Session == 1 .. MaxSessions
Owner == Session                   \* an owner is named after its first Session
Ref == 1 .. MaxRollbacks + 1       \* native references: the first, one per rollback
Nobody == "nobody"                 \* an operation nobody waits for
ASSUME DesktopAssumption == Desktop \in Request
ASSUME NobodyAssumption == Nobody \notin Request

VARIABLES
    native,       \* the Sessions: unmade, open, closing, closeRejected, closed
    ref,          \* the native reference a Session writes
    output,       \* its output consumer: none, live, broken, ended
    opened,       \* Sessions made so far
    current,      \* #threads.get(id): the loaded owner
    session,      \* owner -> its Session
    ownerRef,     \* owner -> record.nativeSessionRef
    unavailable,  \* owner -> sessionUnavailable
    turn,         \* owner -> running
    outputFailed, \* owner -> activity.outputFailed
    closeFailed,  \* owner -> activity.closeFailed
    stored,       \* the native reference of the stored record, None when removed
    queue,        \* operations admitted to the lane, not started
    lane,         \* the operation in progress
    blocker,      \* #releasing.get(id): the Session whose release is unconfirmed
    idle,         \* the owner an idle release is closing
    request,      \* callers inside runOperation
    rollbacks,    \* rollbacks begun so far
    unchanged     \* callers whose record has its revision since they read it

sessionVars == <<native, ref, output, opened>>
ownerVars == <<session, ownerRef, unavailable, turn, outputFailed, closeFailed>>
rollbackVars == <<rollbacks, unchanged>>
vars == <<sessionVars, ownerVars, current, stored, queue, lane, blocker, idle,
          request, rollbackVars>>

NoOperation == [kind |-> "none", by |-> Nobody, owner |-> None, session |-> None]
FreeLane == [pc |-> "free", op |-> NoOperation, owner |-> None, fresh |-> None,
             ref |-> None, then |-> "none"]
NoRequest == [pc |-> "off", owner |-> None, fresh |-> None, rolling |-> FALSE]

\* The Thread has a stored record and no loaded owner: the Host just started.
Init ==
    /\ native = [s \in Session |-> "unmade"]
    /\ ref = [s \in Session |-> None]
    /\ output = [s \in Session |-> "none"]
    /\ opened = 0 /\ current = None
    /\ session = [o \in Owner |-> None]
    /\ ownerRef = [o \in Owner |-> None]
    /\ unavailable = [o \in Owner |-> FALSE]
    /\ turn = [o \in Owner |-> FALSE]
    /\ outputFailed = [o \in Owner |-> FALSE]
    /\ closeFailed = [o \in Owner |-> FALSE]
    /\ stored = 1
    /\ queue = <<>> /\ lane = FreeLane /\ blocker = None /\ idle = None
    /\ request = [r \in Request |-> NoRequest]
    /\ rollbacks = 0 /\ unchanged = {}

-----------------------------------------------------------------------------
(* Sessions.                                                               *)

Live(s) == native[s] \in {"open", "closing", "closeRejected"}
Drained(s) == output[s] \in {"none", "ended"}
Released(s) == native[s] = "closed" /\ Drained(s)

\* session.close(): a call in flight is shared, a rejected one is retried.
AfterClose(s) ==
    [native EXCEPT ![s] = IF @ \in {"open", "closeRejected"} THEN "closing" ELSE @]

\* adapter.open answers with a Session that writes reference n.
Open(n) ==
    /\ opened < MaxSessions
    /\ opened' = opened + 1
    /\ native' = [native EXCEPT ![opened + 1] = "open"]
    /\ ref' = [ref EXCEPT ![opened + 1] = n]
    /\ UNCHANGED output

CloseResolves(s) ==
    /\ native[s] = "closing"
    /\ native' = [native EXCEPT ![s] = "closed"]
    /\ UNCHANGED <<ref, output, opened, ownerVars, current, stored, queue, lane,
                   blocker, idle, request, rollbackVars>>

CloseRejects(s) ==
    /\ native[s] = "closing"
    /\ native' = [native EXCEPT ![s] = "closeRejected"]
    /\ UNCHANGED <<ref, output, opened, ownerVars, current, stored, queue, lane,
                   blocker, idle, request, rollbackVars>>

\* The consumer ends with the stream, or when the close it asked for after a
\* failure has settled.  The Turn ends no later than that.
OutputEnds(s) ==
    /\ \/ output[s] = "live" /\ native[s] = "closed"
       \/ output[s] = "broken" /\ native[s] \in {"closed", "closeRejected"}
    /\ output' = [output EXCEPT ![s] = "ended"]
    /\ turn' = [o \in Owner |-> turn[o] /\ session[o] # s]
    /\ UNCHANGED <<native, ref, opened, session, ownerRef, unavailable, outputFailed,
                   closeFailed, current, stored, queue, lane, blocker, idle, request,
                   rollbackVars>>

\* The consumer fails: native work is stopped before the Turn is.
OutputBreaks(o) ==
    LET s == session[o] IN
    /\ s # None /\ output[s] = "live"
    /\ output' = [output EXCEPT ![s] = "broken"]
    /\ native' = AfterClose(s)
    /\ outputFailed' = [outputFailed EXCEPT ![o] = TRUE]
    /\ UNCHANGED <<ref, opened, session, ownerRef, unavailable, turn, closeFailed,
                   current, stored, queue, lane, blocker, idle, request, rollbackVars>>

Operation(kind, by, o, s) == [kind |-> kind, by |-> by, owner |-> o, session |-> s]

\* ExternalThreadLifecycle.run: admission is synchronous.
Admit(op) == Len(queue) < MaxQueued /\ queue' = Append(queue, op)

\* session.faulted: the owner is marked and, when idle, its discard queued.
Fault(o) ==
    LET s == session[o] IN
    /\ s # None /\ output[s] = "live" /\ ~unavailable[o]
    /\ unavailable' = [unavailable EXCEPT ![o] = TRUE]
    /\ IF turn[o] THEN UNCHANGED queue ELSE Admit(Operation("discard", Nobody, o, s))
    /\ UNCHANGED <<sessionVars, session, ownerRef, turn, outputFailed,
                   closeFailed, current, stored, lane, blocker, idle, request, rollbackVars>>

\* turn.completed is projected and its identity persisted with the record.
TurnEnds(o) ==
    /\ turn[o] /\ output[session[o]] = "live"
    /\ turn' = [turn EXCEPT ![o] = FALSE]
    /\ unchanged' = {}
    /\ UNCHANGED <<sessionVars, session, ownerRef, unavailable, outputFailed,
                   closeFailed, current, stored, queue, lane, blocker, idle, request,
                   rollbacks>>

-----------------------------------------------------------------------------
(* The lane.                                                               *)

\* The operation settles: its caller holds owner o, or has an error.
Settle(o) ==
    /\ lane' = FreeLane
    /\ request' = IF lane.op.by = Nobody THEN request
                  ELSE [request EXCEPT ![lane.op.by] =
                          IF o = None THEN NoRequest
                          ELSE [@ EXCEPT !.pc = "holding", !.owner = o]]

Continue(pc) == lane' = [lane EXCEPT !.pc = pc] /\ UNCHANGED request

\* ExternalThreadLifecycle.release starts on Session s; the operation goes on
\* at "then" once the release is confirmed.
Release(s, then) ==
    /\ blocker' = s
    /\ native' = AfterClose(s)
    /\ lane' = [lane EXCEPT !.pc = "releasing", !.then = then]
    /\ UNCHANGED <<ref, output, opened, request>>

IdleForRestore(o) == ~turn[o]

\* Mutant: an unconfirmed release does not block the lane.
StartIgnoringBlocker ==
    /\ lane.pc = "free" /\ queue # <<>>
    /\ queue' = Tail(queue)
    /\ lane' = [FreeLane EXCEPT !.pc = "admitted", !.op = Head(queue)]
    /\ UNCHANGED <<sessionVars, ownerVars, current, stored, blocker, idle, request,
                   rollbackVars>>

\* The head of the lane starts; an unconfirmed release comes first.
Start ==
    /\ lane.pc = "free" /\ queue # <<>>
    /\ queue' = Tail(queue)
    /\ IF blocker = None
       THEN /\ lane' = [FreeLane EXCEPT !.pc = "admitted", !.op = Head(queue)]
            /\ UNCHANGED <<native, blocker>>
       ELSE /\ lane' = [FreeLane EXCEPT !.pc = "releasing", !.op = Head(queue),
                                        !.then = "admitted"]
            /\ native' = AfterClose(blocker)
            /\ UNCHANGED blocker
    /\ UNCHANGED <<ref, output, opened, ownerVars, current, stored, idle, request, rollbackVars>>

\* Mutant: the output is not awaited.
ReleaseNotDrained ==
    /\ lane.pc = "releasing" /\ native[blocker] = "closed"
    /\ blocker' = None
    /\ Continue(lane.then)
    /\ UNCHANGED <<sessionVars, ownerVars, current, stored, queue, idle, rollbackVars>>
\* The release is confirmed: closed and drained.
ReleaseConfirmed ==
    /\ lane.pc = "releasing" /\ Released(blocker)
    /\ blocker' = None
    /\ Continue(lane.then)
    /\ UNCHANGED <<sessionVars, ownerVars, current, stored, queue, idle, rollbackVars>>

\* Mutant: the blocker is cleared in any case; there is no timeout.
ReleaseFailsForgets ==
    /\ lane.pc = "releasing"
    /\ Settle(None)
    /\ blocker' = None
    /\ UNCHANGED <<sessionVars, ownerVars, current, stored, queue, idle, rollbackVars>>
ReleaseNeverTimesOut ==
    /\ lane.pc = "releasing" /\ native[blocker] = "closeRejected"
    /\ Settle(None)
    /\ UNCHANGED <<sessionVars, ownerVars, current, stored, queue, blocker, idle, rollbackVars>>
\* It rejects, or RELEASE_TIMEOUT_MS pass: the operation fails and the
\* blocker stays.
ReleaseFails ==
    /\ lane.pc = "releasing"
    /\ Settle(None)
    /\ UNCHANGED <<sessionVars, ownerVars, current, stored, queue, blocker, idle, rollbackVars>>

\* #withLifecycle: an idle release that owns the Session finishes first.
Ready(kind) == lane.pc = "admitted" /\ idle = None /\ lane.op.kind = kind

\* #dropIdleSession(o) up to its first await; "dropped" goes on.
Drop(o) ==
    IF current # o
    THEN /\ Continue("afterDrop")
         /\ UNCHANGED <<native, ref, output, opened, blocker, unavailable>>
    ELSE /\ unavailable' = [unavailable EXCEPT ![o] = TRUE]
         /\ blocker' = session[o]
         /\ native' = AfterClose(session[o])
         /\ lane' = [lane EXCEPT !.pc = "releasing", !.then = "dropped", !.owner = o,
                                 !.ref = ownerRef[o]]
         /\ UNCHANGED <<ref, output, opened, request>>

\* After the confirmed release: another owner may have been registered.
Dropped ==
    /\ lane.pc = "dropped"
    /\ Continue(IF current = lane.owner THEN "dropRetire" ELSE "afterDrop")
    /\ UNCHANGED <<sessionVars, ownerVars, current, stored, queue, blocker, idle, rollbackVars>>

\* #retireSubagents settled: the owner is forgotten.
DropRetired ==
    /\ lane.pc = "dropRetire"
    /\ current' = IF current = lane.owner THEN None ELSE current
    /\ Continue("afterDrop")
    /\ UNCHANGED <<sessionVars, ownerVars, stored, queue, blocker, idle, rollbackVars>>

\* Only resolve goes on after a drop: with the owner registered meanwhile, or
\* by restoring the record it had read.
AfterDrop ==
    /\ lane.pc = "afterDrop"
    /\ IF lane.op.kind # "resolve" THEN Settle(None)
       ELSE IF current # None THEN Settle(current)
       ELSE Continue("opening")
    /\ UNCHANGED <<sessionVars, ownerVars, current, stored, queue, blocker, idle, rollbackVars>>

\* resolve, after #locate: an unavailable idle owner is dropped first, a Thread
\* without owner restored, a Thread whose idle release failed refused.
Resolve ==
    LET o == current IN
    /\ Ready("resolve")
    /\ \/ /\ o = None /\ stored # None
          /\ lane' = [lane EXCEPT !.pc = "opening", !.ref = stored]
          /\ UNCHANGED <<request, sessionVars, blocker, unavailable>>
       \/ /\ IF o = None THEN stored = None ELSE closeFailed[o]
          /\ Settle(None)
          /\ UNCHANGED <<sessionVars, blocker, unavailable>>
       \/ /\ o # None /\ ~closeFailed[o] /\ unavailable[o] /\ IdleForRestore(o)
          /\ Drop(o)
       \/ /\ o # None /\ ~closeFailed[o] /\ ~(unavailable[o] /\ IdleForRestore(o))
          /\ Settle(o)
          /\ UNCHANGED <<sessionVars, blocker, unavailable>>
    /\ UNCHANGED <<session, ownerRef, turn, outputFailed, closeFailed, current,
                   stored, queue, idle, rollbackVars>>

\* Mutant: the owner is loaded before it has its Session.
RegisterWithoutSession(s, n) ==
    /\ ownerRef' = [ownerRef EXCEPT ![s] = n]
    /\ current' = s
    /\ output' = [output EXCEPT ![s] = "live"]
    /\ UNCHANGED session
\* register: a new owner of Session s is loaded, whoever was.
Register(s, n) ==
    /\ session' = [session EXCEPT ![s] = s]
    /\ ownerRef' = [ownerRef EXCEPT ![s] = n]
    /\ current' = s
    /\ output' = [output EXCEPT ![s] = "live"]

\* #restore: adapter.open of the stored reference answers.
RestoreOpens ==
    /\ lane.pc = "opening"
    /\ Open(lane.ref)
    /\ lane' = [lane EXCEPT !.pc = "reading", !.fresh = opened + 1]
    /\ UNCHANGED <<ownerVars, current, stored, queue, blocker, idle, request, rollbackVars>>
RestoreOpenFails ==
    /\ lane.pc = "opening"
    /\ Settle(None)
    /\ UNCHANGED <<sessionVars, ownerVars, current, stored, queue, blocker, idle, rollbackVars>>

\* Its history is read, aligned and persisted, and the owner registered.
RestoreRegisters ==
    /\ lane.pc = "reading"
    /\ Register(lane.fresh, lane.ref)
    /\ Settle(lane.fresh)
    /\ UNCHANGED <<native, ref, opened, unavailable, turn, outputFailed, closeFailed,
                   stored, queue, blocker, idle, rollbackVars>>
RestoreReadFails ==
    /\ lane.pc = "reading"
    /\ Release(lane.fresh, "failed")
    /\ UNCHANGED <<ownerVars, current, stored, queue, idle, rollbackVars>>
Failed ==
    /\ lane.pc = "failed"
    /\ Settle(None)
    /\ UNCHANGED <<sessionVars, ownerVars, current, stored, queue, blocker, idle, rollbackVars>>

\* refresh of the owner the caller holds.  It fails for a stale owner, after a
\* failed close, or when the history cannot be read; readSnapshot of a Session
\* that is not open any more answers invalidState.
Revive(o) ==
    /\ unavailable' = [unavailable EXCEPT ![o] = TRUE]
    /\ blocker' = session[o]
    /\ native' = AfterClose(session[o])
    /\ lane' = [lane EXCEPT !.pc = "releasing", !.then = "reviveRetire", !.owner = o,
                            !.ref = ownerRef[o]]
    /\ UNCHANGED <<ref, output, opened, request>>
Refresh ==
    LET o == lane.op.owner IN
    /\ Ready("refresh")
    /\ \/ Settle(None) /\ UNCHANGED <<sessionVars, blocker, unavailable>>
       \/ /\ current = o /\ ~closeFailed[o]
          /\ unavailable[o] \/ native[session[o]] # "open"
          /\ IF IdleForRestore(o) THEN Revive(o)
             ELSE Settle(None) /\ UNCHANGED <<sessionVars, blocker, unavailable>>
       \/ /\ current = o /\ ~closeFailed[o]
          /\ ~(unavailable[o] /\ IdleForRestore(o)) /\ native[session[o]] = "open"
          /\ Settle(o)
          /\ UNCHANGED <<sessionVars, blocker, unavailable>>
    /\ UNCHANGED <<session, ownerRef, turn, outputFailed, closeFailed, current,
                   stored, queue, idle, rollbackVars>>

\* #reviveIdleSession after the old Session is released and the Subagents
\* retired: the reference is opened again.
ReviveRetired ==
    /\ lane.pc = "reviveRetire"
    /\ IF current = lane.owner THEN Continue("reviveOpening") ELSE Settle(None)
    /\ UNCHANGED <<sessionVars, ownerVars, current, stored, queue, blocker, idle, rollbackVars>>
ReviveOpens ==
    /\ lane.pc = "reviveOpening"
    /\ Open(lane.ref)
    /\ lane' = [lane EXCEPT !.pc = "reviveReading", !.fresh = opened + 1]
    /\ UNCHANGED <<ownerVars, current, stored, queue, blocker, idle, request, rollbackVars>>
ReviveOpenFails ==
    /\ lane.pc = "reviveOpening"
    /\ Drop(lane.owner)
    /\ UNCHANGED <<session, ownerRef, turn, outputFailed, closeFailed, current,
                   stored, queue, idle, rollbackVars>>

\* The new Session is installed in the owner, unless another owner is loaded.
ReviveInstalls ==
    /\ lane.pc = "reviveReading"
    /\ IF current = lane.owner
       THEN /\ session' = [session EXCEPT ![lane.owner] = lane.fresh]
            /\ unavailable' = [unavailable EXCEPT ![lane.owner] = FALSE]
            /\ outputFailed' = [outputFailed EXCEPT ![lane.owner] = FALSE]
            /\ output' = [output EXCEPT ![lane.fresh] = "live"]
            /\ Settle(lane.owner)
            /\ UNCHANGED <<native, ref, opened, blocker>>
       ELSE /\ Release(lane.fresh, "failed")
            /\ UNCHANGED <<session, unavailable, outputFailed>>
    /\ UNCHANGED <<ownerRef, turn, closeFailed, current, stored, queue, idle, rollbackVars>>
ReviveReadFails ==
    /\ lane.pc = "reviveReading"
    /\ Release(lane.fresh, "reviveDrop")
    /\ UNCHANGED <<ownerVars, current, stored, queue, idle, rollbackVars>>
ReviveDrops ==
    /\ lane.pc = "reviveDrop"
    /\ Drop(lane.owner)
    /\ UNCHANGED <<session, ownerRef, turn, outputFailed, closeFailed, current,
                   stored, queue, idle, rollbackVars>>

\* deleteThread: the owner and its mapping go after the confirmed release.
Delete ==
    /\ Ready("delete")
    /\ IF current # None
       THEN /\ unavailable' = [unavailable EXCEPT ![current] = TRUE]
            /\ Release(session[current], "deleted")
       ELSE Continue("deleted") /\ UNCHANGED <<sessionVars, blocker, unavailable>>
    /\ UNCHANGED <<session, ownerRef, turn, outputFailed, closeFailed, current,
                   stored, queue, idle, rollbackVars>>
Deleted ==
    /\ lane.pc = "deleted"
    /\ current' = None /\ stored' = None
    /\ Settle(None)
    /\ UNCHANGED <<sessionVars, ownerVars, queue, blocker, idle, rollbackVars>>

\* discardUnavailableIdle: only if nothing changed since it was queued.
Discard ==
    LET o == lane.op.owner IN
    /\ Ready("discard")
    /\ IF current = o /\ session[o] = lane.op.session /\ unavailable[o] /\ IdleForRestore(o)
       THEN Drop(o)
       ELSE Settle(None) /\ UNCHANGED <<sessionVars, blocker, unavailable>>
    /\ UNCHANGED <<session, ownerRef, turn, outputFailed, closeFailed, current,
                   stored, queue, idle, rollbackVars>>

LaneStep ==
    \/ Start \/ ReleaseConfirmed \/ ReleaseFails \/ Dropped \/ DropRetired \/ AfterDrop
    \/ Resolve \/ RestoreOpens \/ RestoreOpenFails \/ RestoreRegisters
    \/ RestoreReadFails \/ Failed \/ Refresh \/ ReviveRetired \/ ReviveOpens
    \/ ReviveOpenFails \/ ReviveInstalls \/ ReviveReadFails \/ ReviveDrops
    \/ Delete \/ Deleted \/ Discard

-----------------------------------------------------------------------------
(* Idle release.                                                           *)

Busy == lane.pc # "free" \/ queue # <<>> \/ blocker # None
\* Mutant: only callers waiting for the lane count.
OnlyWaiting == {r \in Request : request[r].pc = "waiting"}
InOperation == {r \in Request : request[r].pc # "off"}

\* check: the loaded owner is idle, nobody is inside an operation.
IdleCloses ==
    /\ current # None /\ idle = None
    /\ InOperation = {} /\ ~Busy
    /\ ~unavailable[current] /\ ~outputFailed[current] /\ ~closeFailed[current]
    /\ ~turn[current]
    /\ idle' = current
    /\ native' = AfterClose(session[current])
    /\ UNCHANGED <<ref, output, opened, ownerVars, current, stored, queue, lane, blocker,
                   request, rollbackVars>>

\* The bounded waiter retires the owner only if the release is confirmed and
\* the owner is still the loaded one.
IdleReleases ==
    /\ idle # None /\ Released(session[idle])
    /\ idle' = None
    /\ IF ~outputFailed[idle] /\ current = idle
       THEN current' = None /\ UNCHANGED closeFailed
       ELSE closeFailed' = [closeFailed EXCEPT ![idle] = TRUE] /\ UNCHANGED current
    /\ UNCHANGED <<sessionVars, session, ownerRef, unavailable, turn, outputFailed,
                   stored, queue, lane, blocker, request, rollbackVars>>

\* It rejects, or CLOSE_TIMEOUT_MS pass: further use is blocked.
IdleFails ==
    /\ idle # None
    /\ idle' = None
    /\ closeFailed' = [closeFailed EXCEPT ![idle] = TRUE]
    /\ UNCHANGED <<sessionVars, session, ownerRef, unavailable, turn, outputFailed,
                   current, stored, queue, lane, blocker, request, rollbackVars>>

-----------------------------------------------------------------------------
(* Callers.  Desktop's requests for a Thread run one after the other; the  *)
(* delegation coordinator's do not wait for them.  Only Desktop deletes a  *)
(* Thread or rolls it back.                                                *)

\* #locate finds the Thread and no failed idle release; the latter stays so
\* while the caller is inside its operation.
Locatable == IF current = None THEN stored # None ELSE ~closeFailed[current]

\* runOperation waits for a close in flight, then the caller resolves.
Call(r, kind) ==
    /\ request[r].pc = "off" /\ idle = None
    /\ kind = "delete" => r = Desktop /\ Locatable
    /\ Admit(Operation(kind, r, None, None))
    /\ request' = [request EXCEPT ![r].pc = "waiting"]
    /\ UNCHANGED <<sessionVars, ownerVars, current, stored, lane, blocker, idle, rollbackVars>>

\* The caller refreshes the owner it holds, maybe to roll back its last Turn.
CallRefresh(r, rolling) ==
    /\ request[r].pc = "holding" /\ ~request[r].rolling
    /\ rolling => r = Desktop /\ ~turn[request[r].owner]
    /\ Admit(Operation("refresh", r, request[r].owner, None))
    /\ request' = [request EXCEPT ![r].pc = "waiting", ![r].rolling = rolling]
    /\ UNCHANGED <<sessionVars, ownerVars, current, stored, lane, blocker, idle, rollbackVars>>

\* It starts a Turn on the owner it holds, if that is idle; only Desktop looks
\* whether it is still loaded.  The owner counts as running before the Session answers: it takes the Turn only
\* if it is open and has not faulted, and a refusal resets the owner.
StartTurn(r) ==
    LET o == request[r].owner IN
    /\ request[r].pc = "holding" /\ ~request[r].rolling
    /\ (r = Desktop => current = o) /\ ~turn[o]
    /\ turn' = [turn EXCEPT ![o] = TRUE]
    /\ request' = [request EXCEPT ![r].pc = "starting"]
    /\ UNCHANGED <<sessionVars, session, ownerRef, unavailable, outputFailed,
                   closeFailed, current, stored, queue, lane, blocker, idle, rollbackVars>>
TurnAccepted(r) ==
    LET o == request[r].owner IN
    /\ request[r].pc = "starting"
    /\ native[session[o]] = "open" /\ ~unavailable[o]
    /\ request' = [request EXCEPT ![r] = NoRequest]
    /\ UNCHANGED <<sessionVars, ownerVars, current, stored, queue, lane, blocker, idle, rollbackVars>>
TurnRefused(r) ==
    /\ request[r].pc = "starting"
    /\ turn' = [turn EXCEPT ![request[r].owner] = FALSE]
    /\ request' = [request EXCEPT ![r] = NoRequest]
    /\ UNCHANGED <<sessionVars, session, ownerRef, unavailable, outputFailed,
                   closeFailed, current, stored, queue, lane, blocker, idle, rollbackVars>>

\* It is done with the owner.
Finish(r) ==
    /\ request[r].pc = "holding"
    /\ request' = [request EXCEPT ![r] = NoRequest]
    /\ UNCHANGED <<sessionVars, ownerVars, current, stored, queue, lane, blocker, idle, rollbackVars>>

\* Once refreshed, a rollback opens a Session with a new reference,
RollbackOpens(r) ==
    /\ request[r].pc = "holding" /\ request[r].rolling
    /\ rollbacks < MaxRollbacks
    /\ rollbacks' = rollbacks + 1
    /\ Open(rollbacks + 2)
    /\ request' = [request EXCEPT ![r].pc = "rollback", ![r].fresh = opened + 1]
    /\ unchanged' = unchanged \cup {r}
    /\ UNCHANGED <<ownerVars, current, stored, queue, lane, blocker, idle>>

\* and commits it, unless the record changed or the new Session did not check
\* out: then that is closed, best effort.
RollbackCommits(r) ==
    /\ request[r].pc = "rollback"
    /\ r \in unchanged /\ stored = ownerRef[request[r].owner]
    /\ stored' = ref[request[r].fresh]
    /\ unchanged' = {}
    /\ request' = [request EXCEPT ![r].pc = "replace"]
    /\ UNCHANGED <<sessionVars, ownerVars, current, queue, lane, blocker, idle, rollbacks>>
RollbackAborts(r) ==
    /\ request[r].pc = "rollback"
    /\ native' = AfterClose(request[r].fresh)
    /\ request' = [request EXCEPT ![r] = NoRequest]
    /\ UNCHANGED <<ref, output, opened, ownerVars, current, stored, queue, lane, blocker,
                   idle, rollbackVars>>

\* Mutant: an active Turn does not stop the replacement.
OnlyStale(o) == current # o
ActiveOrStale(o) == turn[o] \/ current # o

\* replace throws on an active or stale owner; otherwise it closes the old
\* Session and waits for its output,
Replace(r) ==
    LET o == request[r].owner IN
    /\ request[r].pc = "replace"
    /\ IF ActiveOrStale(o)
       THEN request' = [request EXCEPT ![r] = NoRequest] /\ UNCHANGED native
       ELSE /\ native' = AfterClose(session[o])
            /\ request' = [request EXCEPT ![r].pc = "replacing"]
    /\ UNCHANGED <<ref, output, opened, ownerVars, current, stored, queue, lane, blocker,
                   idle, rollbackVars>>

\* and, confirmed or rejected, registers the new one.
Replaced(r) ==
    LET o == request[r].owner IN
    /\ request[r].pc = "replacing"
    /\ Released(session[o]) \/ native[session[o]] = "closeRejected"
    /\ Register(request[r].fresh, ref[request[r].fresh])
    /\ request' = [request EXCEPT ![r] = NoRequest]
    /\ UNCHANGED <<native, ref, opened, unavailable, turn, outputFailed, closeFailed,
                   stored, queue, lane, blocker, idle, rollbackVars>>

RequestStep(r) ==
    \/ Call(r, "resolve") \/ Call(r, "delete")
    \/ CallRefresh(r, FALSE) \/ CallRefresh(r, TRUE) \/ Finish(r)
    \/ StartTurn(r) \/ TurnAccepted(r) \/ TurnRefused(r)
    \/ RollbackOpens(r) \/ RollbackCommits(r) \/ RollbackAborts(r)
    \/ Replace(r) \/ Replaced(r)

SessionStep(s) == CloseResolves(s) \/ CloseRejects(s) \/ OutputEnds(s)
OwnerStep(o) == OutputBreaks(o) \/ Fault(o) \/ TurnEnds(o)
IdleEnds == IdleReleases \/ IdleFails

Next ==
    \/ LaneStep
    \/ IdleCloses \/ IdleEnds
    \/ \E r \in Request : RequestStep(r)
    \/ \E s \in Session : SessionStep(s)
    \/ \E o \in Owner : OwnerStep(o)

Spec == Init /\ [][Next]_vars

\* The lane goes on (a release has its timeout, and the adapter answers open and
\* readSnapshot) and an idle release ends (it has its timeout too).  Closes,
\* outputs and Turns may hang.
FairSpec == Spec /\ WF_vars(LaneStep) /\ WF_vars(IdleEnds)

-----------------------------------------------------------------------------
Holders == {o \in Owner : current = o \/ \E r \in Request : request[r].owner = o}

\* The types, and two facts that tie them together: the loaded owner has a
\* Session that was opened, and Sessions are made in order.
TypeOK ==
    /\ native \in [Session -> {"unmade", "open", "closing", "closeRejected", "closed"}]
    /\ ref \in [Session -> Ref \cup {None}]
    /\ output \in [Session -> {"none", "live", "broken", "ended"}]
    /\ opened \in 0 .. MaxSessions
    /\ current \in Owner \cup {None}
    /\ session \in [Owner -> Session \cup {None}]
    /\ ownerRef \in [Owner -> Ref \cup {None}]
    /\ {unavailable, turn, outputFailed, closeFailed} \subseteq [Owner -> BOOLEAN]
    /\ stored \in Ref \cup {None}
    /\ Len(queue) <= MaxQueued /\ rollbacks \in 0 .. MaxRollbacks
    /\ blocker \in Session \cup {None} /\ idle \in Owner \cup {None}
    /\ \A s \in Session : native[s] = "unmade" <=> s > opened
    /\ \A o \in Holders : o # None => session[o] # None

\* Two live Sessions never write the same native reference: the reason why an
\* unconfirmed release blocks the Thread.
NoDuplicateWriter ==
    \A s, t \in Session : s # t /\ Live(s) /\ Live(t) => ref[s] # ref[t]

LiveSessions == {s \in Session : Live(s)}
Ownership == INSTANCE ThreadOwnership WITH
    writer <- IF LiveSessions = {} THEN None ELSE CHOOSE s \in LiveSessions : TRUE,
    loaded <- IF current = None THEN None ELSE session[current],
    spent  <- {s \in Session : native[s] = "closed"}

\* Without rollbacks the lifecycle implements ThreadOwnership: one writer, and a
\* Session replaces the published one only when that is closed.
OneWriter == Ownership!Spec

\* A caller never holds an owner whose idle release failed: "further use is
\* blocked", although callers, idle releases and the lane wait for each other
\* in three different ways.
FailedReleaseBlocksUse ==
    \A r \in Request : request[r].pc = "holding" => ~closeFailed[request[r].owner]

\* The loaded owner is forgotten, and its record removed, only when its Session
\* is closed and its output drained; a late close forgets nobody else.
ForgottenOnlyAfterRelease ==
    [][current # None /\ current' = None => Released(session[current])]_vars

\* Nobody but deletion and a broken output closes the Session under a running
\* Turn of the loaded owner.
TurnKeepsItsSession ==
    [][\A o \in Owner :
          /\ turn[o] /\ current = o
          /\ native[session[o]] = "open" /\ native'[session[o]] # "open"
          => lane.op.kind = "delete" \/ output'[session[o]] = "broken"]_vars

\* Every lane operation is answered, although closes, outputs and Turns may
\* hang: a stuck release costs its timeout and no more.
CallersAnswered ==
    \A r \in Request : request[r].pc = "waiting" ~> request[r].pc # "waiting"
=============================================================================
