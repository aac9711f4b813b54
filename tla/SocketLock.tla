----------------------------- MODULE SocketLock -----------------------------
(***************************************************************************)
(* withRemoteAppServerSocketInitializationLock                             *)
(* (packages/host-runtime/src/remote-socket-lock.ts): Lamport's bakery     *)
(* kept in files of a private directory.  Every call is a contender with a *)
(* register file of its own; a register left by a dead process, or older   *)
(* than its 30 s lease, is unlinked by whoever reads it.  A winner also    *)
(* creates the single file version 1 of the lock used, so that a shim that *)
(* still runs version 1 stays out.                                         *)
(*                                                                         *)
(* A contender is one call, named by its owner token; tokens are compared  *)
(* with <, so they are numbers.  Calls of one process crash one by one     *)
(* here, which only allows more behaviours.                                *)
(***************************************************************************)
EXTENDS Integers, FiniteSets

CONSTANTS Contender,     \* owner tokens; each is used by one call
          MaxAttempts,   \* LOCK_RETRY_COUNT
          MaxTicket,     \* Number.MAX_SAFE_INTEGER
          MaxCrashes,    \* bound of the model: processes that die
          MaxExpiries    \* bound of the model: calls that outlive a lease

ASSUME ContenderAssumption == Contender \subseteq Nat
ASSUME AttemptAssumption == MaxAttempts \in Nat \ {0}
ASSUME TicketAssumption == MaxTicket \in Nat \ {0}

Absent == -1      \* no register file
Choosing == 0     \* the ticket of a choosing register
Nobody == -1      \* not a token

VARIABLES
    pc,           \* where each call stands
    alive,        \* FALSE once the process of the call died
    register,     \* the files owner-<token>.json: Absent, Choosing or a ticket
    stale,        \* the register's mtime is at least one lease old
    overran,      \* history: the lease of some register of this call ran out
    todo,         \* names of the last readdir still to be read
    sweep,        \* an abandoned entry being rechecked or unlinked
    maximum,      \* maximumTicket of the choosing catalog
    ticket,       \* ownRecord.ticket
    ownSeen,      \* ownsPublishedEntry of this catalog
    blocked,      \* unsettled or blockedByBakery of this catalog
    attempts,     \* catalogs read by the retry loop
    marker,       \* the file at the version 1 path
    markerStale,  \* its lease is over
    guarded,      \* the call holds the handle of the marker it created
    version1,     \* where the version 1 shim stands
    exposed,      \* history: acts behind a marker its live owner or version 1 gave up
    ahead         \* history: calls that waited with a ticket when this one began

lockVars == <<register, stale>>
scanVars == <<todo, sweep, maximum, ownSeen, blocked>>
markerVars == <<marker, markerStale, guarded, version1, exposed>>
history == <<overran, ahead>>
vars == <<pc, alive, register, stale, overran, todo, sweep, maximum, ticket,
          ownSeen, blocked, attempts, marker, markerStale, guarded, version1, exposed,
          ahead>>

Phase == {"out", "listChoosing", "readChoosing", "listScan", "readScan",
          "guard", "inspect", "act", "leaving", "gone"}
Sweep == [of : Contender \cup {Nobody}, saw : (0 .. MaxTicket) \cup {Absent}, armed : BOOLEAN]
NoSweep == [of |-> Nobody, saw |-> Absent, armed |-> FALSE]
NoMarker == [kind |-> "absent", by |-> Nobody]
Version1 == [kind |-> "version1", by |-> Nobody]     \* the live version 1 owner
Inert == [kind |-> "inert", by |-> Nobody]           \* a dead version 1 owner
HeldBy(i) == [kind |-> "version2", by |-> i]
Marker == {NoMarker, Version1, Inert} \cup {HeldBy(i) : i \in Contender}

Init ==
    /\ pc = [i \in Contender |-> "out"]
    /\ alive = [i \in Contender |-> TRUE]
    /\ register = [i \in Contender |-> Absent]
    /\ stale = [i \in Contender |-> FALSE]
    /\ overran = [i \in Contender |-> FALSE]
    /\ todo = [i \in Contender |-> {}]
    /\ sweep = [i \in Contender |-> NoSweep]
    /\ maximum = [i \in Contender |-> 0]
    /\ ticket = [i \in Contender |-> 0]
    /\ ownSeen = [i \in Contender |-> FALSE]
    /\ blocked = [i \in Contender |-> FALSE]
    /\ attempts = [i \in Contender |-> 0]
    /\ marker \in {NoMarker, Inert}
    /\ markerStale = FALSE
    /\ guarded = [i \in Contender |-> FALSE]
    /\ version1 = "out"
    /\ exposed = [i \in Contender |-> FALSE]
    /\ ahead = [i \in Contender |-> {}]

Present(i) == register[i] # Absent
Waiting == {"listScan", "readScan", "guard", "inspect"}
Go(i, phase) == pc' = [pc EXCEPT ![i] = phase]
At(i, phase) == pc[i] = phase /\ alive[i]
Acting(i) == At(i, "act")

\* recordHasPriority: ticket u of contender j goes before ticket t of i.
Before(u, j, t, i) == u < t \/ (u = t /\ j < i)

\* Mutant: a call that is still choosing does not block.
BlocksWithTicketOnly(j, i) ==
    j # i /\ register[j] > Choosing /\ Before(register[j], j, ticket[i], i)

\* blockedByBakery, for the entry of j in a catalog of i.
Blocks(j, i) ==
    /\ j # i /\ Present(j)
    /\ register[j] = Choosing \/ Before(register[j], j, ticket[i], i)

\* Mutant: the tickets of the catalog are not counted.
FirstTicket(i) == 1
NextTicket(i) == maximum[i] + 1

\* ownerIsAbandoned is a choice when the process is dead and its lease is not
\* over: the pid may have been given to another process.
MayBeAbandoned(j) == stale[j] \/ ~alive[j]
MayBeLive(j) == ~stale[j]

\* The variables of a call that returned or died are gone.
Forget(i) ==
    /\ todo' = [todo EXCEPT ![i] = {}]
    /\ sweep' = [sweep EXCEPT ![i] = NoSweep]
    /\ maximum' = [maximum EXCEPT ![i] = 0]
    /\ ownSeen' = [ownSeen EXCEPT ![i] = FALSE]
    /\ blocked' = [blocked EXCEPT ![i] = FALSE]
    /\ ticket' = [ticket EXCEPT ![i] = 0]
    /\ attempts' = [attempts EXCEPT ![i] = 0]

-----------------------------------------------------------------------------
(* The call.                                                               *)

\* writeLockRecordAtomic of the choosing record.
PublishChoosing(i) ==
    /\ At(i, "out")
    /\ register' = [register EXCEPT ![i] = Choosing]
    /\ stale' = [stale EXCEPT ![i] = FALSE]
    /\ Go(i, "listChoosing")
    /\ ahead' = [ahead EXCEPT ![i] = {j \in Contender : alive[j] /\ pc[j] \in Waiting}]
    /\ UNCHANGED <<alive, overran, ticket, attempts, scanVars, markerVars>>

\* readdir: the entries to read are those there now.
ListEntries(i) ==
    /\ todo' = [todo EXCEPT ![i] = {j \in Contender : Present(j)}]
    /\ ownSeen' = [ownSeen EXCEPT ![i] = FALSE]
    /\ blocked' = [blocked EXCEPT ![i] = FALSE]
    /\ UNCHANGED <<alive, lockVars, history, sweep, maximum, ticket, markerVars>>

ListChoosing(i) ==
    /\ At(i, "listChoosing")
    /\ Go(i, "readChoosing")
    /\ ListEntries(i)
    /\ UNCHANGED attempts

ListScan(i) ==
    /\ At(i, "listScan")
    /\ Go(i, "readScan")
    /\ attempts' = [attempts EXCEPT ![i] = @ + 1]
    /\ ListEntries(i)

Reading(i) == pc[i] \in {"readChoosing", "readScan"} /\ alive[i]

\* readLockEntrySnapshot of an entry that is gone, or whose owner is live.
ReadEntry(i, j) ==
    /\ Reading(i) /\ sweep[i] = NoSweep /\ j \in todo[i]
    /\ ~Present(j) \/ MayBeLive(j)
    /\ todo' = [todo EXCEPT ![i] = @ \ {j}]
    /\ maximum' = [maximum EXCEPT ![i] =
           IF pc[i] = "readChoosing" /\ register[j] > @ THEN register[j] ELSE @]
    /\ ownSeen' = [ownSeen EXCEPT ![i] = @ \/ (j = i /\ Present(j))]
    /\ blocked' = [blocked EXCEPT ![i] = @ \/ Blocks(j, i)]
    /\ UNCHANGED <<pc, alive, lockVars, history, sweep, ticket, attempts, markerVars>>

\* The entry looks abandoned: removeAbandonedLockEntry starts.
ReadAbandoned(i, j) ==
    /\ Reading(i) /\ sweep[i] = NoSweep /\ j \in todo[i]
    /\ Present(j) /\ MayBeAbandoned(j)
    /\ todo' = [todo EXCEPT ![i] = @ \ {j}]
    /\ sweep' = [sweep EXCEPT ![i] = [of |-> j, saw |-> register[j], armed |-> FALSE]]
    /\ UNCHANGED <<pc, alive, lockVars, history, maximum, ticket, ownSeen, blocked,
                   attempts, markerVars>>

\* It reads the entry again: a different file, or one no longer abandoned,
\* is left in place and makes the catalog unsettled.
Recheck(i) ==
    LET j == sweep[i].of IN
    /\ Reading(i) /\ sweep[i] # NoSweep /\ ~sweep[i].armed
    /\ \/ /\ register[j] = sweep[i].saw /\ MayBeAbandoned(j)
          /\ sweep' = [sweep EXCEPT ![i] = [of |-> j, saw |-> sweep[i].saw, armed |-> TRUE]]
          /\ UNCHANGED blocked
       \/ /\ register[j] # sweep[i].saw \/ MayBeLive(j)
          /\ sweep' = [sweep EXCEPT ![i] = NoSweep]
          /\ blocked' = [blocked EXCEPT ![i] = TRUE]
    /\ UNCHANGED <<pc, alive, lockVars, history, todo, maximum, ticket, ownSeen,
                   attempts, markerVars>>

\* rm: whatever file has that name by now.
Unlink(i) ==
    /\ Reading(i) /\ sweep[i].armed
    /\ register' = [register EXCEPT ![sweep[i].of] = Absent]
    /\ stale' = [stale EXCEPT ![sweep[i].of] = FALSE]
    /\ sweep' = [sweep EXCEPT ![i] = NoSweep]
    /\ UNCHANGED <<pc, alive, history, todo, maximum, ticket, ownSeen, blocked,
                   attempts, markerVars>>

CatalogRead(i) == todo[i] = {} /\ sweep[i] = NoSweep

\* The ticket record replaces the choosing one (rename), or the tickets are
\* used up and the call throws.
TakeTicket(i) ==
    /\ At(i, "readChoosing") /\ CatalogRead(i)
    /\ IF maximum[i] >= MaxTicket
       THEN Go(i, "leaving") /\ UNCHANGED <<lockVars, ticket>>
       ELSE /\ ticket' = [ticket EXCEPT ![i] = NextTicket(i)]
            /\ register' = [register EXCEPT ![i] = NextTicket(i)]
            /\ stale' = [stale EXCEPT ![i] = FALSE]
            /\ Go(i, "listScan")
    /\ UNCHANGED <<alive, history, scanVars, attempts, markerVars>>

\* Mutant: one attempt too many.
RetryOnceMore(i) == Go(i, IF attempts[i] <= MaxAttempts THEN "listScan" ELSE "leaving")
\* delay, then the next attempt, or the call throws after the last one.
Retry(i) == Go(i, IF attempts[i] < MaxAttempts THEN "listScan" ELSE "leaving")

\* The verdict on a catalog of the retry loop.
Decide(i) ==
    /\ At(i, "readScan") /\ CatalogRead(i)
    /\ IF ~ownSeen[i] THEN Go(i, "leaving")
       ELSE IF blocked[i] THEN Retry(i) ELSE Go(i, "guard")
    /\ UNCHANGED <<alive, lockVars, history, scanVars, ticket, attempts, markerVars>>

\* tryAcquireLegacyCompatibilityGuard: open with O_EXCL.
AcquireGuard(i) ==
    /\ At(i, "guard")
    /\ IF marker = NoMarker
       THEN /\ marker' = HeldBy(i)
            /\ markerStale' = FALSE
            /\ guarded' = [guarded EXCEPT ![i] = TRUE]
            /\ Go(i, "act")
       ELSE Go(i, "inspect") /\ UNCHANGED <<marker, markerStale, guarded>>
    /\ UNCHANGED <<alive, lockVars, history, scanVars, ticket, attempts, version1, exposed>>

\* Mutant: any marker counts as a fence.
AnyMarkerIsAFence == marker # NoMarker
\* ownerIsAbandoned of the record in the marker, whatever version wrote it.
MarkerMayBeAbandoned ==
    \/ marker.kind = "inert"
    \/ marker.kind = "version1" /\ markerStale
    \/ marker.kind = "version2" /\ (markerStale \/ ~alive[marker.by])
MarkerMayBlock == marker.kind \in {"version1", "version2"} /\ ~markerStale

\* legacyLockState: an abandoned marker is a passive fence, the action runs
\* without a marker of its own; otherwise the loop goes on.
InspectMarker(i) ==
    /\ At(i, "inspect")
    /\ \/ /\ MarkerMayBeAbandoned
          /\ Go(i, "act")
          /\ exposed' = [exposed EXCEPT ![i] = marker.kind = "version1" /\ markerStale]
       \/ /\ marker = NoMarker \/ MarkerMayBlock
          /\ Retry(i)
          /\ UNCHANGED exposed
    /\ UNCHANGED <<alive, lockVars, history, scanVars, ticket, attempts, marker,
                   markerStale, guarded, version1>>

\* The action settles; releaseLegacyCompatibilityGuard unlinks the marker if
\* it is still the file this call created.
FinishAction(i) ==
    /\ At(i, "act")
    /\ IF guarded[i] /\ marker = HeldBy(i)
       THEN marker' = NoMarker /\ markerStale' = FALSE
       ELSE UNCHANGED <<marker, markerStale>>
    /\ guarded' = [guarded EXCEPT ![i] = FALSE]
    /\ exposed' = [exposed EXCEPT ![i] = FALSE]
    /\ Go(i, "leaving")
    /\ UNCHANGED <<alive, lockVars, history, scanVars, ticket, attempts, version1>>

\* An await of the call rejects before the action: the finally block runs.
Throw(i) ==
    /\ pc[i] \notin {"out", "act", "leaving", "gone"} /\ alive[i]
    /\ sweep' = [sweep EXCEPT ![i] = NoSweep]
    /\ Go(i, "leaving")
    /\ UNCHANGED <<alive, lockVars, history, todo, maximum, ownSeen, blocked, ticket,
                   attempts, markerVars>>

\* Mutant: the call ends without removing its register.
LeaveRegisterBehind(i) ==
    /\ At(i, "leaving")
    /\ Forget(i)
    /\ Go(i, "gone")
    /\ UNCHANGED <<alive, lockVars, history, markerVars>>

\* removeOwnedLockEntry; the variables of the call end with it.
Leave(i) ==
    /\ At(i, "leaving")
    /\ register' = [register EXCEPT ![i] = Absent]
    /\ stale' = [stale EXCEPT ![i] = FALSE]
    /\ Forget(i)
    /\ Go(i, "gone")
    /\ UNCHANGED <<alive, history, markerVars>>

CallStep(i) ==
    \/ Throw(i) \/ PublishChoosing(i) \/ Leave(i) \/ FinishAction(i)
    \/ ListChoosing(i) \/ ListScan(i)
    \/ \E j \in Contender : ReadEntry(i, j) \/ ReadAbandoned(i, j)
    \/ Recheck(i) \/ Unlink(i) \/ TakeTicket(i) \/ Decide(i)
    \/ AcquireGuard(i) \/ InspectMarker(i)

-----------------------------------------------------------------------------
(* The environment.                                                        *)

\* The process dies; its register and its marker stay behind.
Crash(i) ==
    /\ alive[i] /\ pc[i] \notin {"out", "gone"}
    /\ Cardinality({j \in Contender : ~alive[j]}) < MaxCrashes
    /\ alive' = [alive EXCEPT ![i] = FALSE]
    /\ Forget(i)
    /\ UNCHANGED <<pc, lockVars, history, markerVars>>

\* LOCK_MAX_AGE_MS pass since the register was written.
LeaseExpires(i) ==
    /\ Present(i) /\ ~stale[i]
    /\ overran[i] \/ Cardinality({j \in Contender : overran[j]}) < MaxExpiries
    /\ stale' = [stale EXCEPT ![i] = TRUE]
    /\ overran' = [overran EXCEPT ![i] = TRUE]
    /\ UNCHANGED <<pc, alive, register, ahead, scanVars, ticket, attempts, markerVars>>

\* LOCK_MAX_AGE_MS pass since the marker was written, though its owner lives.
\* The marker of a call is younger than its register.
MarkerExpires ==
    /\ marker.kind \in {"version1", "version2"} /\ ~markerStale
    /\ marker.kind = "version2" => overran[marker.by]
    /\ markerStale' = TRUE
    /\ UNCHANGED <<pc, alive, lockVars, history, scanVars, ticket, attempts,
                   marker, guarded, version1, exposed>>

\* A shim that still runs version 1 (not in this repository) creates the
\* marker, or judges the one that is there abandoned and unlinks that path
\* later, and unlinks it again when its action is over; or it dies.
Version1Enters ==
    /\ version1 = "out" /\ marker = NoMarker
    /\ version1' = "acting"
    /\ marker' = Version1
    /\ UNCHANGED <<markerStale, exposed>>
Version1Judges ==
    /\ version1 = "out" /\ MarkerMayBeAbandoned
    /\ version1' = "reclaiming"
    /\ UNCHANGED <<marker, markerStale, exposed>>
Version1Unlinks ==
    /\ version1 # "out"
    /\ version1' = "out"
    /\ marker' = NoMarker
    /\ markerStale' = FALSE
    /\ exposed' = [i \in Contender |-> exposed[i] \/ (marker # NoMarker /\ Acting(i))]
Version1Dies ==
    /\ version1 # "out"
    /\ version1' = "out"
    /\ marker' = IF marker = Version1 THEN Inert ELSE marker
    /\ UNCHANGED <<markerStale, exposed>>
Version1Step ==
    /\ Version1Enters \/ Version1Judges \/ Version1Unlinks \/ Version1Dies
    /\ UNCHANGED <<pc, alive, lockVars, history, scanVars, ticket, attempts, guarded>>

Next ==
    \/ \E i \in Contender : CallStep(i) \/ Crash(i) \/ LeaseExpires(i)
    \/ MarkerExpires
    \/ Version1Step

Spec == Init /\ [][Next]_vars
\* A live process keeps running its call: every await of it settles.
FairSpec == Spec /\ \A i \in Contender : WF_vars(CallStep(i))

-----------------------------------------------------------------------------
TypeOK ==
    /\ pc \in [Contender -> Phase]
    /\ alive \in [Contender -> BOOLEAN]
    /\ register \in [Contender -> (0 .. MaxTicket) \cup {Absent}]
    /\ stale \in [Contender -> BOOLEAN]
    /\ overran \in [Contender -> BOOLEAN]
    /\ todo \in [Contender -> SUBSET Contender]
    /\ sweep \in [Contender -> Sweep]
    /\ maximum \in [Contender -> 0 .. MaxTicket]
    /\ ticket \in [Contender -> 0 .. MaxTicket]
    /\ ownSeen \in [Contender -> BOOLEAN]
    /\ blocked \in [Contender -> BOOLEAN]
    /\ attempts \in [Contender -> 0 .. MaxAttempts]
    /\ marker \in Marker
    /\ markerStale \in BOOLEAN
    /\ guarded \in [Contender -> BOOLEAN]
    /\ version1 \in {"out", "reclaiming", "acting"}
    /\ exposed \in [Contender -> BOOLEAN]
    /\ ahead \in [Contender -> SUBSET Contender]

\* "Serializes Unix control-socket bind and unlink operations": of two calls
\* that run their action at the same time, one outlived a lease.
Serialized ==
    \A i, j \in Contender :
        i # j /\ Acting(i) /\ Acting(j) => overran[i] \/ overran[j]

\* First come, first served: a call that runs its action is past every call
\* that already waited with a ticket when it began, unless one of the two died
\* or outlived a lease.
FirstComeFirstServed ==
    \A j \in Contender : Acting(j) /\ ~overran[j] =>
        \A i \in ahead[j] : overran[i] \/ ~alive[i] \/ pc[i] \in {"leaving", "gone"}

\* A version 1 owner and a call of this version run their actions together
\* only if some call outlived its lease, if the owner outlived the marker's
\* lease when the call took it for a passive fence, or if version 1 unlinked
\* the marker the call was acting behind.
Version1Excluded ==
    \A i \in Contender : version1 = "acting" /\ Acting(i) =>
        exposed[i] \/ \E k \in Contender : overran[k]

\* A register outlives its call only if the process died: every call that
\* keeps running gives its register up, whatever the others do.
CallsEnd ==
    \A i \in Contender :
        pc[i] # "out" ~> (~alive[i] \/ (pc[i] = "gone" /\ ~Present(i)))
=============================================================================
