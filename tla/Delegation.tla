----------------------------- MODULE Delegation -----------------------------
(***************************************************************************)
(* How a delegated Thread comes to be: HarnessDelegationCoordinator.start  *)
(* (packages/host-runtime) with the delegations and indexes of the mapping *)
(* store it writes to.                                                     *)
(*                                                                         *)
(* A call of start is also the name of the child Thread and the delegation *)
(* it makes.  A step is the code between two awaits; the writes of Thread  *)
(* records run one after the other and are one step, those of delegations  *)
(* are not.  Configuration, titles and official targets are left out, of a *)
(* status only whether it is creating still matters, and every call has    *)
(* the same parent, target and task.                                       *)
(***************************************************************************)
EXTENDS Integers, Sequences, SequencesExt

CONSTANTS Start, Request, None,
          Asks,        \* the requests a call may come with, None for no request
          MaxTroubles  \* bounds the crashes and the failed writes together

ASSUME DelegationAssumption ==
    /\ None \notin Start \cup Request \cup {"restored"} /\ "restored" \notin Start
    /\ Asks \in [Start -> SUBSET (Request \cup {None})]
    /\ MaxTroubles \in Nat

VARIABLES
    start,     \* each call: where it is and what it works on
    session,   \* the native Session it opened: none, open, left (closed, or not)
    loaded,    \* the owner of each Thread: the call whose Session it is, or restored
    store,     \* the mapping store: Thread records, those ready, delegations, and
               \* those whose status is no longer creating
    held,      \* Threads that were loaded: reads and the output consumer go on with them
    writing,   \* Threads whose delegation has a status of theirs on its way to disk
    overtaken, \* history: calls whose clean-up met such a status, or a new owner
    down,      \* the store cannot be loaded
    crashes, faults

statusVars == <<held, writing, overtaken>>
vars == <<start, session, loaded, store, statusVars, down, crashes, faults>>

Call == [pc |-> "idle", request |-> None, before |-> {}, record |-> None,
         named |-> FALSE, answer |-> None]

Init ==
    /\ start = [s \in Start |-> Call]
    /\ session = [s \in Start |-> "none"]
    /\ loaded = [s \in Start |-> None]
    /\ store = [records |-> <<>>, ready |-> {}, delegations |-> <<>>, told |-> {}]
    /\ held = {} /\ writing = {} /\ overtaken = {}
    /\ down = FALSE
    /\ crashes = 0 /\ faults = 0

-----------------------------------------------------------------------------
(* The store: records and delegations in the order of their Maps *)

Asked(s) == start[s].request

\* Where a second entry of one request stands.
Clash(q) ==
    {i \in DOMAIN q : Asked(q[i]) # None /\ \E j \in 1..(i - 1) : Asked(q[j]) = Asked(q[i])}

\* What #rebuildIndexes has indexed, which every write calls: it clears the
\* indexes and throws at the first delegation whose request another has, or at
\* the first such record.
Indexed(q) == {q[i] : i \in {i \in DOMAIN q : \A j \in Clash(q) : i < j}}

Records == IF Clash(store.delegations) = {} THEN Indexed(store.records) ELSE {}

Entry(seen, r) ==
    IF \E s \in seen : Asked(s) = r THEN CHOOSE s \in seen : Asked(s) = r ELSE None

DelegationOf(r) == Entry(Indexed(store.delegations), r)
RecordOf(r) == Entry(Records, r)

\* The children of the delegations, also of the one it throws at.
Children ==
    LET q == store.delegations
    IN {q[i] : i \in {i \in DOMAIN q : \A j \in Clash(q) : i <= j}}

\* Mutant: two delegations of one request are not noticed.
SoundRecords(st) == Clash(st.records) = {}

\* It does not throw.
Sound(st) == Clash(st.delegations) = {} /\ Clash(st.records) = {}

Put(q, s) == IF s \in ToSet(q) THEN q ELSE Append(q, s)
Without(q, s) ==
    IF s \in ToSet(q) THEN RemoveAt(q, CHOOSE i \in DOMAIN q : q[i] = s) ELSE q

\* A Thread record can be updated: it is there, and no other has its request.
Updatable(s) ==
    /\ s \in ToSet(store.records)
    /\ Asked(s) # None => RecordOf(Asked(s)) \in {None, s}

\* A delegation is written, by its creation or with a status: also one that has
\* been removed meanwhile.
Recorded(s) == [store EXCEPT !.delegations = Put(@, s)]
WithStatus(s) == [store EXCEPT !.delegations = Put(@, s), !.told = @ \cup {s}]

\* A record gets its native identity.
Committed(s) == [store EXCEPT !.ready = @ \cup {s}]

-----------------------------------------------------------------------------
(* Steps of a call *)

At(s, pc) == start[s].pc = pc
To(s, pc) == start' = [start EXCEPT ![s].pc = pc]

Fault == crashes + faults < MaxTroubles /\ faults' = faults + 1

\* before: the children that calls of this request have returned.
Begin(s, r) ==
    /\ At(s, "idle") /\ ~down /\ r \in Asks[s]
    /\ start' = [start EXCEPT ![s] = [Call EXCEPT
          !.pc = "finding", !.request = r,
          !.before = {start[t].answer : t \in {u \in Start : At(u, "done") /\ Asked(u) = r}}]]
    /\ UNCHANGED <<session, loaded, store, statusVars, down, crashes, faults>>

\* A delegation of this request, or without one a recent one of the same task.
Found(s) ==
    IF Asked(s) # None THEN {DelegationOf(Asked(s))}
    ELSE ToSet(store.delegations) \cup {None}

Find(s) ==
    /\ At(s, "finding")
    /\ \E d \in Found(s) :
          IF d = None THEN To(s, "creating")
          ELSE start' = [start EXCEPT ![s].pc = "repeated", ![s].answer = d]
    /\ UNCHANGED <<session, loaded, store, statusVars, down, crashes, faults>>

\* createProvisional hands out the record that has the request already.  What
\* it throws is not cleaned up after.
CreateRecord(s) ==
    LET old == IF Asked(s) = None THEN None ELSE RecordOf(Asked(s))
        new == [store EXCEPT !.records = Append(@, s)]
    IN
    /\ At(s, "creating")
    /\ IF old # None
       THEN /\ start' = [start EXCEPT ![s].pc = "checking", ![s].record = old,
                                         ![s].named = old \in store.ready]
            /\ UNCHANGED <<store, faults>>
       ELSE \/ /\ store' = new /\ UNCHANGED faults
               /\ start' = [start EXCEPT ![s].record = s,
                                         ![s].pc = IF Sound(new) THEN "checking" ELSE "failed"]
            \/ Fault /\ To(s, "failed") /\ UNCHANGED store
    /\ UNCHANGED <<session, loaded, statusVars, down, crashes>>

\* createDelegation looks at the index, writes the file and indexes it.
CheckRequest(s) ==
    /\ At(s, "checking")
    /\ To(s, IF Asked(s) # None /\ DelegationOf(Asked(s)) # None
             THEN "removing" ELSE "recording")
    /\ UNCHANGED <<session, loaded, store, statusVars, down, crashes, faults>>

RecordDelegation(s) ==
    /\ At(s, "recording")
    /\ \/ /\ store' = Recorded(s) /\ UNCHANGED faults
          /\ IF Sound(store')
             THEN To(s, "opening")
             ELSE To(s, "removing")
       \/ Fault /\ To(s, "removing") /\ UNCHANGED store
    /\ UNCHANGED <<session, loaded, statusVars, down, crashes>>

\* Thread t has an owner, which reads and the output consumer hold on to.
Load(t, owner) == loaded' = [loaded EXCEPT ![t] = owner] /\ held' = held \cup {t}

\* With or without a native identity, which is committed first.
Open(s) ==
    LET t == start[s].record IN
    /\ At(s, "opening")
    /\ \/ To(s, "forgetting") /\ UNCHANGED <<session, loaded, held>>
       \/ /\ session' = [session EXCEPT ![s] = "open"]
          /\ \/ /\ start' = [start EXCEPT ![s].pc = "committing", ![s].named = TRUE]
                /\ UNCHANGED <<loaded, held>>
             \/ To(s, "starting") /\ Load(t, s)
    /\ UNCHANGED <<store, writing, overtaken, down, crashes, faults>>

\* The record of the call, whoever made it, becomes ready; its Thread is
\* registered and its first Turn started.
Commit(s) ==
    LET t == start[s].record IN
    /\ At(s, "committing")
    /\ store' = IF Updatable(t) THEN Committed(t) ELSE store
    /\ IF Updatable(t) /\ Sound(store')
       THEN To(s, "starting") /\ Load(t, s)
       ELSE To(s, "closing") /\ UNCHANGED <<loaded, held>>
    /\ UNCHANGED <<session, writing, overtaken, down, crashes, faults>>

TurnStarted(s, ok) ==
    /\ At(s, "starting")
    /\ To(s, IF ~ok THEN "closing" ELSE IF start[s].named THEN "selecting" ELSE "identifying")
    /\ UNCHANGED <<session, loaded, store, statusVars, down, crashes, faults>>

\* The Session tells its identity, which the output consumer commits, or the
\* wait for it times out.
Identified(s) ==
    LET t == start[s].record IN
    /\ At(s, "identifying")
    /\ \/ /\ store' = IF Updatable(t) THEN Committed(t) ELSE store
          /\ To(s, IF Updatable(t) /\ Sound(store') THEN "selecting" ELSE "closing")
       \/ To(s, "closing") /\ UNCHANGED store
    /\ UNCHANGED <<session, loaded, statusVars, down, crashes, faults>>

\* The effective selection, if known, is written to the child.  Then
\* setDelegationStatus looks for the delegation, and writes nothing if its status is
\* running or terminal already.
Select(s) ==
    /\ At(s, "selecting")
    /\ \E known \in BOOLEAN :
          To(s, IF ~(known => Updatable(s) /\ Sound(store)) \/ s \notin ToSet(store.delegations)
                THEN "closing"
                ELSE IF s \in store.told THEN "announcing" ELSE "reporting")
    /\ UNCHANGED <<session, loaded, store, statusVars, down, crashes, faults>>

\* It has written the file and sets the delegation.
Reported(s) ==
    /\ At(s, "reporting")
    /\ \/ /\ store' = WithStatus(s) /\ UNCHANGED faults
          /\ To(s, IF Sound(store') THEN "announcing" ELSE "closing")
       \/ Fault /\ To(s, "closing") /\ UNCHANGED store
    /\ UNCHANGED <<session, loaded, statusVars, down, crashes>>

\* Desktop is told of the Thread, which may fail; the call answers with its child.
Announced(s, ok) ==
    /\ At(s, "announcing")
    /\ IF ok THEN start' = [start EXCEPT ![s].pc = "done", ![s].answer = s]
       ELSE To(s, "closing")
    /\ UNCHANGED <<session, loaded, store, statusVars, down, crashes, faults>>

-----------------------------------------------------------------------------
(* The clean-up of a call that failed *)

\* Mutant: the Session is left open.
LeaveOpen(s) ==
    /\ At(s, "closing")
    /\ loaded' = [loaded EXCEPT ![s] = None]
    /\ To(s, "forgetting")
    /\ UNCHANGED <<session, store, statusVars, down, crashes, faults>>

\* A close that rejects is ignored; the child leaves the runtime.
CloseSession(s) ==
    /\ At(s, "closing")
    /\ session' = [session EXCEPT ![s] = "left"]
    /\ loaded' = [loaded EXCEPT ![s] = None]
    /\ To(s, "forgetting")
    /\ UNCHANGED <<store, statusVars, down, crashes, faults>>

Overtakes(s, it) == overtaken' = IF it THEN overtaken \cup {s} ELSE overtaken

\* removeDelegation, only of the delegation this call has made.
Forget(s) ==
    /\ At(s, "forgetting")
    /\ \/ /\ store' = [store EXCEPT !.delegations = Without(@, s), !.told = @ \ {s}]
          /\ UNCHANGED faults
       \/ Fault /\ UNCHANGED store
    /\ To(s, "removing") /\ Overtakes(s, s \in writing)
    /\ UNCHANGED <<session, loaded, held, writing, down, crashes>>

\* Mutant: the delegation of the request goes, whoever made it.
RemoveChildOfRequest(s) ==
    LET d == IF Asked(s) = None THEN s ELSE DelegationOf(Asked(s)) IN
    /\ At(s, "removing")
    /\ store' = [store EXCEPT !.records = Without(@, s), !.ready = @ \ {s},
                              !.delegations = Without(@, d)]
    /\ To(s, "failed") /\ Overtakes(s, loaded[s] # None)
    /\ UNCHANGED <<session, loaded, held, writing, down, crashes, faults>>

\* removeThread of the child.
RemoveChild(s) ==
    /\ At(s, "removing")
    /\ \/ /\ store' = [store EXCEPT !.records = Without(@, s), !.ready = @ \ {s}]
          /\ UNCHANGED faults
       \/ Fault /\ UNCHANGED store
    /\ To(s, "failed") /\ Overtakes(s, loaded[s] # None)
    /\ UNCHANGED <<session, loaded, held, writing, down, crashes>>

-----------------------------------------------------------------------------
(* What others do with the child meanwhile, and crashes *)

\* A request for Thread t restores an owner when it has none and a native identity:
\* from when it reads the record the restore is under way, or done.
Resolve(t) ==
    /\ ~down /\ loaded[t] = None
    /\ t \in ToSet(store.records) \cap store.ready
    /\ Load(t, "restored")
    /\ UNCHANGED <<start, session, store, writing, overtaken, down, crashes, faults>>

\* A read of Thread t, or the end of a Turn of it, looks for its delegation and
\* finds that the status differs: the file is being written.
StatusFound(t) ==
    /\ t \in held \ writing /\ t \in Children
    /\ writing' = writing \cup {t}
    /\ UNCHANGED <<start, session, loaded, store, held, overtaken, down, crashes, faults>>

\* The file is written, maybe after its removal, and the delegation set.  Another one
\* may be under way.
StatusRecorded(t) ==
    /\ t \in writing
    /\ store' = WithStatus(t)
    /\ writing' \in {writing, writing \ {t}} /\ Overtakes(t, At(t, "forgetting"))
    /\ UNCHANGED <<start, session, loaded, held, down, crashes, faults>>

\* The Host dies and starts again.  It finds the files in the order of their
\* directories and drops records still creating; if the indexes cannot be built
\* the store is not initialized.
Crash ==
    /\ ~down /\ crashes + faults < MaxTroubles
    /\ crashes' = crashes + 1
    /\ start' = [s \in Start |->
                    IF start[s].pc \in {"idle", "repeated", "done", "failed"} THEN start[s]
                    ELSE [Call EXCEPT !.pc = "lost", !.request = Asked(s), !.before = start[s].before]]
    /\ session' = [s \in Start |-> IF session[s] = "none" THEN "none" ELSE "left"]
    /\ loaded' = [s \in Start |-> None]
    /\ held' = {} /\ writing' = {} /\ UNCHANGED overtaken
    /\ \E rs \in SetToSeqs(ToSet(store.records) \cap store.ready),
          ds \in SetToSeqs(ToSet(store.delegations)) :
          store' = [store EXCEPT !.records = rs, !.delegations = ds]
    /\ down' = ~Sound(store')
    /\ UNCHANGED faults

-----------------------------------------------------------------------------
Next ==
    \/ \E s \in Start, r \in Request \cup {None} : Begin(s, r)
    \/ \E s \in Start :
          \/ Find(s) \/ CreateRecord(s) \/ CheckRequest(s) \/ RecordDelegation(s)
          \/ Open(s) \/ Commit(s) \/ Identified(s) \/ Select(s)
          \/ Reported(s) \/ Resolve(s) \/ StatusFound(s) \/ StatusRecorded(s)
          \/ CloseSession(s) \/ Forget(s) \/ RemoveChild(s)
          \/ \E ok \in BOOLEAN : TurnStarted(s, ok) \/ Announced(s, ok)
    \/ Crash

Spec == Init /\ [][Next]_vars

-----------------------------------------------------------------------------
(* Properties *)

\* One request never has two Sessions at work, however its calls overlap, fail
\* and are repeated: the second is found out before it opens one
\* (cross-harness-delegation/spec.md: no second Session).
OneSessionPerRequest ==
    \A s, t \in Start :
        Asked(s) = Asked(t) /\ Asked(s) # None /\ session[s] = "open" /\ session[t] = "open"
            => s = t

\* A request that succeeded answers with its child from then on, also after
\* restarts and beside calls that fail, and opens nothing again.
RepeatReturnsOriginal ==
    \A s \in Start :
        start[s].before # {} /\ Asked(s) # None =>
            /\ session[s] = "none"
            /\ start[s].pc = "repeated" => start[s].before = {start[s].answer}

\* A call that failed after it opened a Session leaves neither the Thread nor an
\* owner nor its delegation, unless the disk failed, two calls shared the record, or
\* somebody else was with the child just then: a read or the end of a Turn had a
\* status of the delegation on its way when that was removed, or had the Thread
\* restored when its record was.
OwnRecord(s) == \A u \in Start : (start[u].record = s) <=> (u = s)
FailedLeavesNothing ==
    \A s \in Start :
        At(s, "failed") /\ session[s] # "none" /\ OwnRecord(s)
            /\ faults = 0 /\ s \notin overtaken =>
               /\ session[s] # "open" /\ loaded[s] = None
               /\ s \notin ToSet(store.records) \cup ToSet(store.delegations)
=============================================================================
