# Codex Buddy: a verification project

Codex Buddy (CodexHost) puts a Host between Codex Desktop and several coding
agents.  Desktop speaks the app-server protocol to the Host.  The Host passes
official Threads on to the official app-server and serves *external Threads*
itself, each backed by a native Session of another Harness that an adapter
opens.  Delegation lets one agent start and steer the Threads of another
without Desktop.  Around the Host there are a launcher, a shim that replaces the
official executable, an updater, a renderer extension and small local servers.

The modules here are TLA+ translations of the code in `packages/host-runtime/src`,
`packages/mapping-store/src` and `packages/harness-broker/src`.
They are meant to be read beside it: every definition that models code is listed
with its lines in `PROJECT.json` under `map`.

Contents: 1 inventory, 2 plan, 3 the modules, 4 runs and bounds, 5 fairness,
6 proofs, 7 where code and documents disagree, 8 what is not modelled.

## 1. Inventory

### Parts that are modelled

| part | state | operations | what is hard | what makes it correct |
|---|---|---|---|---|
| Socket lock (`remote-socket-lock.ts`) | register files, the version 1 marker, leases | publish a choosing register, read the catalog, take a ticket, wait, guard, act, leave; reclaim abandoned registers | catalogs are read file by file while others write; processes die at any point; a lease runs out under a live call | one action at a time, in the order of arrival, never beside a version 1 owner; every call ends |
| Thread runtime (`external-thread-runtime.ts`, `-lifecycle.ts`, `-idle-release.ts`, `external-output-failure.ts`, faults in `app-server-host.ts`) | the loaded owner of a Thread, its Session and flags, the lane, the unconfirmed release | resolve, restore, refresh, revive, drop, delete, discard, idle release, replace | closes that reject or hang, timeouts whose work goes on, owners read before an await and used after it, three mutual waits | one writer per native history; an owner is forgotten only after its release; no waiting for ever |
| Rollback (`external-thread-rollback.ts`) | the stored native reference | refresh, open a replacement, commit, replace | it is not in the lane | no running Turn is cut |
| Turns (`app-server-host.ts`) | active and projected Turn, response gates, pending command | Desktop's, delegated, queued and steered starts, command lookup, completion, interrupt | four kinds of starters with different awaits | the Host knows the native Turn that runs |
| Steering (`external-turn-steering.ts`) | the reservation of a Thread, receipts | insert, replace, read the capability, fall back, time out, stop | a 20 s timer, the terminal event, the user's stop and a retry race | input is delivered once, and never after it was reported as failed |
| Follow-up queue (`external-thread-queue.ts`) | submissions of a Thread | add, delete, reorder, take, restore, drain | a submission is out of the queue while it is started | none is lost, doubled or forgotten |
| Mapping store (`mapping-store.ts`) | `store.lock`, a record file, its backup and a metadata file for each Thread, all records in memory | start, restore, quarantine, sweep, create, change, remove, close | a crash or a failing call between any two system calls; damaged files | one owner; a record is old or new; what is told is what a restart finds |
| Harness broker (`server.ts`) | Session records, writer leases, the provisional lease, a queue for each connection | open, announce, fault, reopen, close, retire | an identity that is known late; a socket or the broker that ends under an open | one writer for a native identity; no lease without a holder |
| Official runtime (`official-runtime-owner.ts`, `-scope.ts`, `official-work-gate.ts`) | phase and generation of the process, the gate, clients with connections and subscriptions, requests | start, stop, recover, attach, detach, admit, restore, answer, close | exits, lost connections, failures and answers in every order | one process; nothing waits on the dead; a Thread is resumed before its Turn; it recovers |
| Delegation watch (`delegation-watch.ts`) | watches and their states, one timer | watch, observe, deliver, give up, close | every read and send is awaited; a send may start a Turn and fail to say so | a watch notifies at most once and is never forgotten |
| Delegated starts (`harness-delegation-coordinator.ts`, delegations and indexes of `mapping-store.ts`) | Thread records, delegations, request identities, the Session a start opened | find, create the record, record the delegation, open, commit, start the Turn, report, undo | starts of one request overlap; undoing takes four steps beside the end of the Turn; the Host dies between two of them | one Session for a request; a repeated request is answered with its child; a failed start leaves nothing |

How they interact.  Desktop's requests for a Thread run one after the other
through `DesktopRequestQueue` and, inside it, `idleRelease.runOperation`; Turn
starts, steers and queue requests are *detached* from it, so they interleave.
Delegation calls `runOperation` directly.  An operation resolves the owner in the
lane of the Thread and then acts on it.  The consumer of the native output is a
task of its own: it projects events, settles Turns, tells steering the terminal
outcome, drains the queue, and reports faults, which queue a discard in the lane.

Below the Threads lies the mapping store, which every commit of a reference, a Turn
or a title goes to, and which each Host process locks for itself.  The official
runtime serves the Threads the Host passes on; clients of a long-lived Host share it
and it survives their connections.  The broker is one process for several Hosts on
macOS: to them it is an adapter, so its Sessions are the Sessions of
`ThreadRuntime`.  A watch reads Threads and sends its notification as a delegated
Turn, which is one of the starters of `ThreadTurns`.

### Parts that are not modelled yet

| part | state and operations | hard behaviour | properties wanted |
|---|---|---|---|
| Desktop request queue, prewarms | per-Thread promise chain; draft leases adopted or discarded | a discard awaits a close beside a delegated start; Desktop's steer-then-delete of a follow-up | no draft with work is closed; a steered follow-up is not started too |
| Local runtime lease, active update | owner record, mutation lock, update lock | process numbers reused, hand-over between processes | nobody stops a foreign process; one updater |
| Shutdown | order of closes and drains | work admitted meanwhile | no Session survives the Host |
| Buddy, provider routing, usage, git, adapters, renderer, console, shared packages | mostly data, user interface or operating system | | |

`PROJECT.json` lists all of them with their sources, and every hazard with the
properties that cover it or the reason why none does.

## 2. Plan

1. `SocketLock`: mutual exclusion between processes; done, proved.
2. `ThreadRuntime` with the abstract `ThreadOwnership`: who may write a native
   history; done, its safety and the refinement proved.
3. `ThreadTurns`: what users type and when it is run; done, its safety proved.
4. `MappingStore` with the abstract `DurableThreads`: what a restart finds; done,
   its safety and the refinement proved.
5. `HarnessBroker`: leases of native identities between Hosts; done, proved.
6. `OfficialRuntime`: generations, clients and recovery; done, its safety proved.
7. `DelegationWatch`: one-shot notifications; done, its safety proved.
8. `Delegation`: how a delegated Thread comes to be; done, proved.
9. Proofs of every safety property the runs check, both refinements included: done.
10. `DesktopRequests`: the request queue with prewarms and steer-then-delete; the
   module that composes `ThreadTurns` with its callers.
11. The two process leases: the local runtime lease and the update lock.
12. Shutdown, which composes 2, 3 and 10.

A component has one module for its actions and properties, an `MC` module with
its instances, a `.cfg` per question and a `_proofs` module.  No module declares a
recursive operator, so that each can be proved about.

## 3. The modules

### SocketLock

A contender is one call of `withRemoteAppServerSocketInitializationLock`, named
after its owner token.  `register` holds the files `owner-<token>.json`: absent,
choosing (0) or a ticket.  `pc` is the place in the function; each `await` on the
file system is a step.  `ListEntries` and `ListScan` are a `readdir`, `ReadEntry`
and `ReadAbandoned` read one of its files, `Recheck` and `Unlink` are the two
halves of `removeAbandonedLockEntry`.  A name read but gone is skipped, as in the
code.  `NextTicket`, `TakeTicket` and `Decide` are the bakery, `AcquireGuard` and
`InspectMarker` the compatibility with version 1.  `LeaseExpires` lets 30 s pass
for one register; `overran` remembers whose lease ever ran out.  `MarkerExpires` does
the same for the marker, whichever version wrote it and though its owner lives.
`version1` is one shim of the older version, at a time: it creates the marker and acts,
or judges a marker abandoned and unlinks that path later, or dies.  `exposed` remembers
the calls that act behind a marker its live owner let expire or version 1 unlinked.
The variables of a call that ended are cleared (`Forget`).  Left out: directory modes,
fsync, the content of malformed files, a marker that is read before it is written.

### ThreadRuntime and ThreadOwnership

One external Thread.  An *owner* is an `ExternalThread` object; `current` is
`#threads.get(id)`.  `native` and `output` are the two halves of a Session: the
process, and the task that consumes its output.  `queue` and `lane` are
`ExternalThreadLifecycle.run`, one operation at a time; `blocker` is its
`#releasing` entry, the Session whose release was not confirmed.  `lane.pc` names
the await the operation is at and `lane.then` where it goes on after a release.
`idle` is a close of `ExternalThreadIdleRelease`.  Callers (`request`) are inside
`runOperation`; one of them is Desktop, which is sequential, the others are
delegated calls, which hold owners and start Turns without being in order with
Desktop.  A close may resolve, reject or hang; a timeout fails its waiter and
leaves the close running.  `IdleForRelease` has the guards about Turns and callers; that
background work and running descendants also put an idle release off
(`external-thread-runtime.ts:320-322`) is left out, so that the model releases where the
code may still wait.  No property depends on it.

`ThreadOwnership` is what all this promises: one writer, published once its
predecessor is spent, forgotten once it is spent.  `ThreadRuntime` implements it
(property `OneWriter`) under the mapping `writer` = the live Session, `loaded` =
the Session of `current`, `spent` = the closed ones, as long as nobody rolls back.

### ThreadTurns

One loaded Thread.  `turn` are its Turns with the native state, the caller and
the response gate; `active` and `projected` are `activeTurnId` and
`projectedTerminalTurnId`.  A start is split where the code awaits: at the model
selection, the command lookup and `turn.start`.  `pending` and `receipt` are the
maps of `ExternalTurnSteering`; `steer[r].pc` is where the delivery of request `r`
is.  `consumer` walks the terminal event through the awaits of
`#projectHarnessOutput`: waiting for insertions and the gate, published, idle,
settled.  `queue` and `taken` are the follow-up queue and the submissions that are
out of it while they are started.  An interrupt replaces the response gate of the active
Turn by one that also waits for the answer to the cancel: `stopping`, which
`InterruptAnswered` ends if the cancel is ever answered.  `subagents` is a Thread that is
idle but active for Desktop, since subagents of its Turn still run (`BecomesIdle`,
`SubagentsEnd`); `CheckAfterAdd` does not drain then.  `overlooked` is a history variable:
the last look at a queue that was not empty found the Thread held.  A start the Harness
refuses (`Rejected`) and a delegated one whose call throws (`DelegatedStartThrows`, which
undoes nothing) are different steps.  Left out: Turns that a Harness begins by
itself, submission of a prewarm, failed persistence of identities, a start that throws
though its native Turn began, eviction of receipts beyond 128, a retry with other content
(it is refused and changes nothing), and failures of the writer to Desktop.  The
Thread itself stays loaded: what happens when it does not is `ThreadRuntime`.

### MappingStore and DurableThreads

Several processes and one directory.  `lock` is `store.lock`: who created the file and
whether its content is written.  `primary`, `backup` and `meta` are the record file, its
backup and the metadata file of each Thread; `archive` is what the quarantine keeps.
`memory[p]` is `#records` of process `p`, `phase[p]` where its `initialize` or `close` is,
and `op[p]` the system call its queue (`#enqueue`) is at: `Backup`, `Copied`, `Rename`
and `WriteMeta` are one `#update`, `RemoveRecord`, `RemoveBackup` and `RemoveMeta` one
removal, `PutBack` what undoes either.  A process may crash between any two calls, a call
in `Failing` may fail (`AfterFailure` says where that leads), and files may be found
unreadable at a start (`Damage`).  A record is its native Session and its revision, which
stands for every other field.

`DurableThreads` is the promise: Threads change only by the one write in progress, and
between writes a restart finds what the store serves.  `MappingStore` implements it
(`ImplementsDurableThreads`) under the mapping `stored` = what a start would load,
`served` = the ready records of the running process.  Left out: temp files and their
residue, the content of Turn mappings, section placements, superseded Sessions and
process numbers that are used again.

### HarnessBroker

One broker process.  `record` are the `ServerSession`s, named by the native Session they
were opened with; `writers` and `provisional` are `nativeWriters` and
`provisionalNativeWriter`, `creating` is `openingCreate`.  `task[k]` is the request the
queue of connection `k` works on: `OpenStart` runs to the native open, `OpenDone` decides
what becomes of it (`Refuses`), `Rejected` ends the close of a refused one; `ReopenReq`,
`ReopenOpen` and `ReopenDone` are `session.reopen`.  `Dropped` and `FinishClose` are the
two halves of `closeRecord`.  `Announce` and `FaultOutput` are the outputs that matter to
leases.  `native` is the environment: a Session may open under an identity that is not
known yet, or in use, and closes when it likes.  Once idle for its time without a record, a broker retires
without waiting for native closes, opens or strays: `RetiredStaysEmpty` says what it may
leave (`closing`, `Late`, `Stray`).  Left out: what requests do inside a live
Session, the end of the whole server, and the client.

### OfficialRuntime

`host` is everything the Host keeps about the official process, and its synchronous code
is written as functions of it: `Schedule`, `Unpublish`, `Retire`, `Unavailable`, `Stop`,
`StartFails`, `Disowned`.  A step runs from one event to the next.  The start of the
scope passes through `stop` (the old exit is awaited), `begin` (provider routing) and
`owner`; that of the owner through `process` and `clients`, which are attached one by
one.  `process` are the generations, `dialing` the connects in flight, `loaded` the
clients whose Thread the present process has loaded.  A request is `connecting`,
`restoring` (`thread/resume` of an older subscription) or `sent`.  Left out: scopes
without recovery, management requests, and the order in which clients attach.  Chains of
promises that are already settled count as one step; so the scope's start and the call of
`gate.initialized` are one (`StartSettles`, `official-runtime-scope.ts:91-102`).

### DelegationWatch

A watch is named by the call that registered it and `watch` is its state.  `Register`,
`ReadTarget` and `ReadNotify` are the awaits of `watch`; `TimerFires`, `Observe`,
`Observed`, `AllObserved`, `Send`, `Sent` and `TickEnds` those of a tick, which reads and
sends one after the other and uses what it read only when it arrives.  `Send` includes
what the coordinator does: a Turn may have started although the call failed
(`unknown`), or surely not (`rejected`, `permanent`).  `notified` counts the Turns that
were started for a watch.  Left out: the trim to 50 undeliverable entries and all text.

### Delegation

A call of `start` is named like the child Thread and the delegation it makes, and `pc` is
the await it is at.  `store` holds the Thread records and delegations in the order of the
store's Maps; what the indexes hold is a function of them (`Indexed`, `Records`,
`Children`), because every write rebuilds all of them, and stops at the first conflict
with the rest unindexed.  `Find` is the look for a duplicate, `CreateRecord` the record,
which may be one that another call of the request has made, `CheckRequest` and
`RecordDelegation` the two halves of `createDelegation`, `Open` to `Select` the Session and
its first Turn, `Select` and `Reported` the two halves of `setDelegationStatus`,
`Announced` the notification after it, which may still fail, and
`CloseSession`, `Forget` and `RemoveChild` the clean-up.  `store.told` are the delegations
whose status is no longer `creating`, of which that call of `setDelegationStatus` writes
nothing.

Others are at work with the child meanwhile.  Whoever read a Thread while it was loaded, or
consumes its output, goes on with it (`held`): `StatusFound` and `StatusRecorded` are the two
halves of the status write of a read (`#read`) or of the end of a Turn, before and after the
file is written (`writing`).  `Resolve` is a request that restores an owner of a Thread that
has none, from when it has read the record.  `overtaken` are the calls whose clean-up met one
of these on its way.

`Crash` is the end of the process with the restart after it, which reads the files in the
order of their directory, whatever that is, drops records without a native identity and may
find delegations it cannot index (`down`).  Left out: what a status says beyond being
`creating` or not, configuration, the 30 s (`IMPLICIT_DEDUPLICATION_MS`) within which a start
without a request counts as repeated (any of the same task may or may not), the release of an
idle child, and the deletion of a child by Desktop.

## 4. Runs and bounds

| run | question | bounds |
|---|---|---|
| `socket_lock` | `TypeOK`, `Serialized`, `FirstComeFirstServed`, `Version1Excluded`, `CallsEnd` | 2 calls, 1 attempt, so that this limit is hit, 2 tickets, which two calls cannot use up, one crash, one lease of a call that runs out, one version 1 shim at a time |
| `thread_runtime` | `OneWriter` (refinement), `NoDuplicateWriter`, `FailedReleaseBlocksUse`, `TypeOK` | Desktop and one delegated caller, 3 Sessions, 2 waiting operations, no rollback |
| `thread_runtime_rollback` | `ForgottenOnlyAfterRelease`, `TurnKeepsItsSession`, `CallersAnswered` | 2 Sessions, 1 rollback |
| `thread_runtime_writers` | counterexample to `NoDuplicateWriter` with a rollback | 3 Sessions, 1 rollback |
| `turns` | `TakenOnce`, `FailedSteerNotTaken`, `ShownBeforeTerminal`, `NoFollowUpStalls`, `FollowUpsKept` | 2 steers with 2 messages (so also retries) and native insertion beside 1 other start; or 2 follow-ups beside 2 starts and subagents; or 1 of each beside 1 other start and stops (constraint `SteersOrFollowUps`) |
| `turns_mixed` | `StopIsFinal`, `OneNativeTurn`, `TypeOK` | 1 steer and 1 queued follow-up that are commands, Desktop, Delegation, no insertion, 2 starts |
| `turns_answers` | `SteersAnswered` | 2 steers of one message, insertions and cancels may never be answered |
| `mapping_store` | `ImplementsDurableThreads` (refinement), `OneOwner`, `NativesUnique`, `AbandonedLockBlocksNobody`, `MetadataKept`, `TypeOK` | 2 processes whose starts do not overlap, 2 Threads, 2 native Sessions, 3 revisions, 2 crashes, 1 failing call, 1 damaged file |
| `harness_broker` | `OneLeasedWriter`, `OneUnknown`, `LeasesHaveHolders`, `RetiredStaysEmpty` | 2 connections, 3 native Sessions, 2 identities of which one exists from the start |
| `official_runtime` | `OneProcess`, `WaitsOnTheLiving`, `SubscribedTurns`, `Recovers` | 2 clients, 2 requests, 2 faults, 5 generations, connects to dead processes settle before the next process is ready (`PromptDials`) |
| `delegation_watch` | `NotifiedOnce`, `WatchesEnd` | 2 watches of one Thread for one subscriber, 1 Turn of others in each |
| `delegation` | `OneSessionPerRequest`, `RepeatReturnsOriginal`, `FailedLeavesNothing` | 3 starts of which 1 may come without the request, 1 request, 1 crash or failing write, statuses and restored owners only for the child of the latter, and not after a failing write (constraint `OneChild`) |

What the properties say is in the comment above each.  Why the bounds are enough:
two calls are where the bakery can fail, a third adds no new pair, and the proof
covers every number of calls, attempts and tickets.  Three Sessions are the current one, the one that replaces it
and the one a late continuation would open; two waiting operations let an
operation be queued behind the one it invalidates.  Two steers of one or two
messages are a retry and a competitor; two starts let a Turn end and another one
begin under every await.  Two processes and two crashes let the second process find
what the first left in the middle of a write and leave its own; two Threads and two
native Sessions are what it takes for one Session to be found twice.  Three
delegated starts are two that overlap and one that asks again.  Three native
Sessions in the broker are one that is replaced, its replacement and a competitor.  Two
faults let the recovery from one meet the next; five generations are never used up with
two faults (`Recovers` would fail otherwise).  `MaxSessions`, `MaxQueued`, `MaxRollbacks`,
`MaxStarts`, `MaxCrashes`, `MaxExpiries`, `MaxConns`, `MaxRevision`, `MaxFaults`,
`MaxDamages`, `MaxGeneration`, `MaxTurns` and
`MaxTroubles` only bound the environment: at a bound an
action of it is disabled.  Symmetry is used in safety runs only.

`turns` splits its questions by its constraint to stay small: two steers compete with each
other, two follow-ups meet a Thread whose subagents run, and one of each meet while the user
stops the Turn.  Stops beside two steers are in `turns_answers`,
stops beside commands in `turns_mixed`; the theorems of `ThreadTurns_proofs` have no such constraint.
In `delegation` readers, statuses and restores meet one of the three children, since what they
are about is its clean-up beside the calls of the others; the theorem has no such constraint
either.
`mapping_store` leaves out the failure named in section 7 (`Unreliable` lists the calls that
may fail) and overlapping starts, because there the code does what section 7 describes.

Deadlock is checked for `ThreadRuntime`.  Elsewhere everything may be done: all calls of
the lock have left, the input is used up, the processes of the store are down for good, the
broker has retired and its connections are gone, the scope of the official runtime is
closed, the watches are settled, the starts have ended.

## 5. Fairness

* `SocketLock`: weak fairness of the step of each live call; every await of it is a
  file operation or a short sleep.  Dead processes, leases and version 1 are free.
* `ThreadRuntime`: weak fairness of the lane, whose waits on a close are bounded
  by `RELEASE_TIMEOUT_MS` and which otherwise waits for `adapter.open` and
  `readSnapshot`, and of the end of an idle release, bounded by
  `CLOSE_TIMEOUT_MS`.  Closes, outputs and Turns may hang for ever.
* `ThreadTurns`: weak fairness of the answers of the adapter to a start, an
  insertion and a read, of the 20 s timer and of the Host's continuations.  Strong
  fairness of `Projected`: a steer that waits for its input to be projected holds the
  response gate it has read, so a stop that replaces the gate later does not hold it up.
  None for the end of a native Turn, for the answer to a cancel or for Desktop: so
  `SteersAnswered` excepts an inserted steer whose Turn was stopped with a cancel that is
  never answered (`StopHangs`, section 7).
* `OfficialRuntime`: weak fairness of the Host's own continuations and its restart
  timer, of the connects, which settle or fail, and of the kill a stop ends with, which
  the backend bounds by a timeout.  None for clients, answers and faults: `Recovers`
  does not need a client to ask again.
* `DelegationWatch`: weak fairness of the timer, of every call the service awaits, and of
  the deadlines, since time passes.  Turns need not end, Threads need not become readable.
* `MappingStore`, `HarnessBroker` and `Delegation` are checked for safety only.

## 6. Proofs

There is a theorem for every safety property the runs check, refinements included.  The bounds of section 4 are constants of the theorems:
nothing is fixed but what an assumption or the hypothesis of a theorem says.  The
assumptions (`...Assumption`, one in each module) say that numbers are numbers and that
`None`, `NoOne` and `Bad` are not among the values they stand beside.

| module | theorems | property | hypothesis |
|---|---|---|---|
| `SocketLock_proofs` | `TypeCorrect`, `MutualExclusion`, `Fairness`, `Version1Exclusion` | `TypeOK`, `Serialized`, `FirstComeFirstServed`, `Version1Excluded` | |
| `ThreadRuntime_proofs` | `RuntimeTypes`, `FailedReleaseIsNotUsed`, `ForgottenWhenReleased`, `TurnsKeepSessions` | `TypeOK`, `FailedReleaseBlocksUse`, `ForgottenOnlyAfterRelease`, `TurnKeepsItsSession` | |
| | `OneWriterLives`, `LifecycleImplementsOwnership` | `NoDuplicateWriter`, `OneWriter` | no rollback |
| `ThreadTurns_proofs` | `HostKnowsItsTurn`, `TurnTypes`, `InputIsShown`, `FollowUpsAreKept`, `FollowUpsGoOn` | `OneNativeTurn`, `TypeOK`, `ShownBeforeTerminal`, `FollowUpsKept`, `NoFollowUpStalls` | |
| | `FailedLeavesNoInput`, `MessagesTakenOnce` | `FailedSteerNotTaken`, `TakenOnce` | no answer to an insertion is lost |
| | `StoppedSteersBeginNothing` | `StopIsFinal` | no native insertion |
| `MappingStore_proofs` | `StoreTypes`, `OneProcessOwns`, `NativesStayUnique`, `NoLockIsInTheWay`, `MetadataStays` | `TypeOK`, `OneOwner`, `NativesUnique`, `AbandonedLockBlocksNobody`, `MetadataKept` | starts do not overlap |
| | `StoreIsDurable` | `ImplementsDurableThreads` | the same, and `Reliable`: a readable backup can be restored, and a failed write or removal can be undone |
| `HarnessBroker_proofs` | `LeasedWriterIsAlone`, `LeasesAreHeld`, `UnknownIsAlone`, `RetiredBrokerIsEmpty` | `OneLeasedWriter`, `LeasesHaveHolders`, `OneUnknown`, `RetiredStaysEmpty` | |
| `OfficialRuntime_proofs` | `OneProcessLives`, `NothingWaitsOnTheRetired`, `TurnsReachTheirThread` | `OneProcess`, `WaitsOnTheLiving`, `SubscribedTurns` | |
| `DelegationWatch_proofs` | `WatchNotifiesOnce` | `NotifiedOnce` | |
| `Delegation_proofs` | `RequestHasOneSession`, `RepeatsAreAnswered`, `FailedStartLeavesNothing` | `OneSessionPerRequest`, `RepeatReturnsOriginal`, `FailedLeavesNothing` | |

Each hypothesis is what the run of the property has, and without it the code does what
section 7 describes.  None of the properties is inductive; what had to be added is the argument.

*SocketLock.*  A call is *sound* while it lives and no lease of its ran out.  That two
calls do not act together follows from what each has read.  `IInv` adds that nobody unlinks
the register of a sound call (`SweptUnsound`), so that it is as its owner wrote it
(`RegisterAsWritten`), and that a call which has been looked at and found not to block
either still has to see the other's ticket or has a later one (`ClearedBehind`);
`AheadFirst` carries the order of arrival.  For version 1, a call that acts and is not exposed
stands behind its own marker, behind that of another call of this version, or behind the inert
one of a dead owner, and a version 1 owner that acts has its own marker there.

*ThreadRuntime.*  `IInv` says where each owner and Session may be while the lane is at each
of its awaits: an owner in use has a Session, a caller that holds one whose idle release
failed meanwhile cannot exist, since the release waits for the callers inside and they for
it.  Without rollbacks there is one Session that may live at all, `TheOne`: that of the
unconfirmed release, else the fresh one of the lane, else that of the loaded owner.  While
the lane opens, nothing lives.  The refinement follows action by action from this.

*ThreadTurns.*  `IInv` has the central fact: a native Turn that runs is the Host's active
Turn.  The consumer, while it waits to publish a terminal event, still has that Turn
active and ended (`EventIsActive`): otherwise publishing would make the Thread free while
something else runs.  `Whole` adds for each caller where it is: what a steer has with the
Harness at each of its places (`Fits`), which steer carries a message (`Carried`), what has
been shown of an insertion the consumer waits for (`AllShown`), what a stop has reached
(`AllStopped`), the one place a follow-up is in (`Placed`) and how often it was taken
(`Counted`).  `Looked` says who will still look at the queue after a Turn that completed, or
that the last look is remembered as `overlooked`.

*MappingStore.*  `LockInv` says what `store.lock` tells of the processes, `ProcInv` what the
owner is doing and what it has in memory, `DiskInv` what disk and quarantine keep.  While
the disk is undamaged, what is on it is in the memory of the process that serves it, for
every Thread that process has come to (`DiskInMemory`), and an operation writes no native
Session another Thread has (`OpIsFree`).  The refinement rests on `AgreeInv`, damage or not:
what the serving process has in memory is what a start would load, but for the Thread of the
operation under way, and a readable backup is older than its record, so that damage only goes
back in time.  Every system call of a request is then `Begin`, `Write` or `End` of
`DurableThreads`, the end of a start `Open`, the end of a process `Stop`, and everything else
leaves the abstract state alone; a crash between two calls leaves what was written.  `Reliable`
holds in the run (one failing call, never the restore) and is needed (section 7).

*HarnessBroker.*  Every lease has a holder, and the holder tells which Session may write:
a record that is kept, a close under way or an open in flight.  At most one Session with an
unknown identity runs, since the provisional lease lasts until it has told it.  While the
broker retires there is no record and the open connections have nothing to do, so that every
native Session that still opens or is open belongs to an ended connection or is stray
(`NativesHaveUsers`).

*OfficialRuntime.*  The code's steps are functions of `host` that call one another, so there
is a lemma per function for what `Sound` says of `host`, and three facts that relate `host` to
the processes: only the owned one lives, what a client counts as loaded the process has
loaded, and a Turn that was sent goes to a subscribed Thread.

*DelegationWatch.*  A watch that waits and is not in the send under way has started
nothing; one that is, has started what its answer will say.

*Delegation.*  A call owns its request from the write of its delegation until it has taken
it out again, for good if it succeeded (`Owns`).  The delegation of an owner is indexed:
no request is met twice in the entries up to it, since the write that added it was checked
with the whole list, entries are only added behind it, and taking out another keeps the
order.  So no other call of the request owns it, and the look for a duplicate finds the
owner.  A restart may load the files in any order; owners that succeeded stay indexed if the
store comes up at all.  What a clean-up removed is written again only by a status that found
the delegation there before (`Writes`, `Gone`), and the call whose clean-up met one is
`overtaken`; an owner comes back only while the record is there.

Lists are changed by place in `ThreadTurns` and `Delegation` (`RemoveAt`, and moves as a
function of the place), so that what an operation does to a list is a lemma about places.

Only model-checked: all liveness (`CallersAnswered`, `SteersAnswered`, `Recovers`,
`WatchesEnd`, `CallsEnd`), which depends on fairness and `ENABLED` and is outside of what
the prover does; and the counterexample of `thread_runtime_writers`, which a proof cannot
give.

## 7. Where code and documents disagree

* `thread_runtime_writers`: `replace` throws after a rollback committed its
  reference, and the replacement stays open; the next restore opens the same
  reference a second time.

Each of the following is visible by a change of one instance or one property, named in
brackets; the runs of section 4 stay clear of them.

* A Turn completes while the Thread is held, so nothing is drained, and nobody looks again:
  a steer reserves it and then fails, or a command is looked up and fails.  A follow-up added
  while subagents of the completed Turn run is checked while the status is still active, and
  not drained (`app-server-host.ts:7122-7123`, `:7811-7816`).  The follow-up stays, although
  `docs/architecture/external-thread-queue.md:20` says the Host starts the head of the queue
  after a completed Turn (for a late follow-up it asks for an idle Thread, as the code does,
  and says nothing of when it is looked at again).  [`NoFollowUpStalls` without `~overlooked`]
* A broker exits though a native Session may be open: `closeRecord` deletes the record and arms
  the idle exit before it closes the native Session (`server.ts:476-482`), and a reopened Session
  whose record left meanwhile is stray (`docs/platforms/macos/native-aqua-broker.md:63` and
  `server.ts:295`: it never exits while a Session is open).  [`RetiredStaysEmpty` without `Late`
  and `Stray`, or with `closing` among its phases]
* A live version 1 owner that holds its marker for 30 s is taken for a passive fence, and a
  version 1 shim that has judged a marker abandoned unlinks the path whoever owns it by then;
  so the fence does not keep every older contender out (the comments at
  `remote-socket-lock.ts:239-241` and `:388-391`).  [`Version1Excluded` without `exposed`]
* A failed delegated start may leave its delegation: a read of the child, or the end of its
  Turn, found it before it was removed and writes its status afterwards
  (`harness-delegation-coordinator.ts:551-557`, `mapping-store.ts:632-634`).  A request that
  restores the child during the clean-up leaves an owner without a record.  Compare
  `openspec/specs/cross-harness-delegation/spec.md:102`: no half-persisted child.
  [`FailedLeavesNothing` without `overtaken`]
* Input that is being inserted reserves nothing; the user's stop does not reach it, and
  the fallback begins a new Turn (`external-thread-steering.md:47`: an explicit stop starts no new
  Turn).  [`StopIsFinal`, `Native = TRUE`]
* An insertion whose answer was lost frees its receipt, and the retry inserts the message
  again (`external-thread-steering.md:15` and `:48`).  [`TakenOnce`, `LostAnswers = TRUE`]
* Two processes that start together find the same stale `store.lock`; the slower one renames
  aside the file the faster one has just created, and both own the store.  A file that is
  created but not written yet also counts as stale
  (`harness-plugin-runtime.md:209`: one writing instance).  [`OneOwner`, `Overlap = TRUE`]

Limits that contradict no document but are worth knowing:

* `Serialized` excepts calls that outlived their lease.  A call that stalls for 30 s while
  choosing loses its register and publishes its ticket without noticing.
* A cancel that hangs or throws leaves the response gate of its Turn closed for ever
  (`app-server-host.ts:7451-7473`): a steer inserted into that Turn is not answered, and the
  Turn never ends for Desktop.  A delegated start that throws leaves the Thread busy.
* If the restore of a readable backup fails, the Thread is quarantined as if there were
  none (`mapping-store.ts:402`).  Right after `commitReady` the backup is the creating record,
  so a damaged record then loses the Thread at the next start.  An older backup may carry a
  native Session that belongs to another Thread by now; the start then throws
  (`NativesUnique` is stated for an undamaged disk).  Two failing calls in a row leave disk and
  memory apart.
* The broker releases the reservations of a refused open before its native close is
  confirmed, and a Session that is reopened for a record which left meanwhile is kept by
  nobody: `OneLeasedWriter` excepts both by name (`Refused`, `Stray`), compare
  `docs/platforms/macos/native-aqua-broker.md:9`.
* `gate.initialized()` throws while an admitted request still waits for a connect to the old
  process.  The scope is marked started by then, so later starts return at once and the gate
  stays closed.  [`Recovers`, `PromptDials = FALSE`]  A client that closes during a start makes
  the start fail; the timer repairs it.
* A registration joins a watch whose stop was already read but not yet acted on.

* Two delegated starts of one request that overlap both find no delegation
  (`harness-delegation-coordinator.ts:257`) and both pass the check of `createDelegation`, which
  writes the file before it indexes.  `#rebuildIndexes` then throws with the indexes cleared.
  The one that sees it does not remove the delegation it has written, since `createDelegation`
  had not returned, so every later write of the store throws after it was made.  Mostly that
  makes the other start fail and remove its own; the request then belongs to a child that
  never existed.  If the other has succeeded, or the Host dies before, the store cannot be
  initialized again.  [`~down` as an invariant of `delegation`]
* `createProvisional` hands the second start the record the first one has made.  If the first
  is then refused it removes that record, and the second returns a child that has no record.
  Compare `openspec/specs/cross-harness-delegation/spec.md:102`: no half-persisted child.
* A repeated start may be answered with the child of a start that is still under way and
  then fails.  A failing unlink, a status written after the removal and a crash before the
  native identity is stored leave a delegation without a Thread, which answers the request
  from then on.  `FailedLeavesNothing` excepts a failing write (`faults`), a record that two
  calls share (`OwnRecord`), and a status or an owner on its way (`overtaken`).  The status may
  also reach the disk between the unlink and the change in memory of one `removeDelegation`;
  then only the file comes back, and a restart loads it.  The model has file and memory of a
  delegation as one.
* A close that rejects in the clean-up is ignored (`:423`), and the Session is nobody's.

## 8. What is not modelled, and why

Native Harnesses, the operating system and Desktop are environment: what they may
do is in the definitions marked external in `map` and in what the runs leave free.
Text, rendering, schemas, file formats and logging are abstracted.  The parts of
the second table in section 1 are left to the plan; the last row of it keeps
little shared state and is not planned.  It is also by far the largest: adapters, the
renderer extension and the other packages are most of the repository's lines, and translate
single messages or drive a user interface.

Of the parts that are modelled, this is missing: persistence failures
(`persistenceError`), Subagent Threads and the rollback of a Fork in `ThreadRuntime`, which
add refusals and further releases, and the background work and descendants that put an idle
release off; Turns a Harness starts by itself, prewarm submission and
failed writes in `ThreadTurns`; section placements and superseded Sessions in
`MappingStore`, which are kept in files of their own; official targets and what statuses say in `Delegation`; bootstrap Turns,
reads and selections of a live Session in `HarnessBroker`; management requests and replies to
server requests in `OfficialRuntime`; the listing and trimming of watches.
