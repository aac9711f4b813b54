-------------------------- MODULE OfficialRuntime --------------------------
(***************************************************************************)
(* The official Codex app-server of a long-lived Host: OfficialRuntimeOwner*)
(* starts and stops one process at a time for many clients, and            *)
(* OfficialRuntimeScope replaces a generation that failed                  *)
(* (packages/host-runtime/src/codex-runtime).                              *)
(*                                                                         *)
(* host is everything the Host keeps; its code runs on one thread, so a    *)
(* step runs from one event to the next, promises that are already settled *)
(* included, and is written as a function of host.  Scopes without         *)
(* recovery, which start only once, are left out.  Every client has been   *)
(* configured.                                                             *)
(***************************************************************************)
EXTENDS Naturals, FiniteSets

CONSTANTS Client, Request, NoOne,
          PromptDials,    \* a connect to a process that is gone settles before
                          \* the next process is ready
          MaxGeneration, MaxFaults

ASSUME OfficialAssumption ==
    /\ NoOne \notin Client
    /\ PromptDials \in BOOLEAN
    /\ MaxGeneration \in Nat /\ MaxFaults \in Nat

VARIABLES
    host,
    process,   \* the process of each generation: none, alive, exited
    dialing,   \* connects in flight
    loaded,    \* the clients whose Thread the current process has loaded
    faults

vars == <<host, process, dialing, loaded, faults>>

Generation == 1..MaxGeneration
NoRequest == [pc |-> "idle", client |-> NoOne, turn |-> FALSE]

Init ==
    /\ host = [
          gate       |-> FALSE,       \* OfficialWorkGate is ready
          phase      |-> "stopped",   \* of the owner
          backend    |-> 0,           \* the generation owned, 0 for none
          noticed    |-> 0,           \* the last one whose exit was handled
          generation |-> 0,
          starting   |-> "none",      \* the owner's start: process, clients
          todo       |-> {},          \* the clients that start still attaches
          awaited    |-> NoOne,       \* the one it waits for
          stopping   |-> "none",      \* the owner's stop: waiting, process
          start      |-> "none",      \* the scope's: stop, begin, owner
          started    |-> FALSE,
          timer      |-> FALSE,       \* a restart is scheduled
          close      |-> "none",      \* the scope's: stop, done
          closed     |-> FALSE,
          attached   |-> {},
          gone       |-> {},          \* clients that were closed
          runtime    |-> [c \in Client |-> 0],
          live       |-> {},          \* clients whose runtime is not retired
          connecting |-> [c \in Client |-> 0],
          thread     |-> [c \in Client |-> 0],  \* generation of its subscription
          request    |-> [r \in Request |-> NoRequest]]
    /\ process = [g \in Generation |-> "none"]
    /\ dialing = {}
    /\ loaded = {}
    /\ faults = 0

-----------------------------------------------------------------------------
(* Synchronous code, as functions of h *)

\* Mutant: a start that fails leaves no restart behind.
ScheduleUnlessStarted(h) ==
    IF h.closed \/ h.timer \/ h.start # "none" \/ ~h.started THEN h
    ELSE [h EXCEPT !.timer = TRUE]

\* #scheduleRecovery
Schedule(h) ==
    IF h.closed \/ h.timer \/ h.start # "none" THEN h ELSE [h EXCEPT !.timer = TRUE]

\* gate.unavailable: the scope schedules a restart.
Unpublish(h) == IF h.gate THEN Schedule([h EXCEPT !.gate = FALSE]) ELSE h

\* Mutant: what waits for an answer is not failed.
RetireNothing(h, clients) == [h EXCEPT !.live = h.live \ clients]

\* #retire: the runtimes take nothing more, what waits for an answer fails.
Retire(h, clients) ==
    [h EXCEPT !.live = h.live \ clients,
              !.request = [r \in Request |->
                  IF /\ h.request[r].client \in clients
                     /\ h.request[r].pc \in {"restoring", "sent"}
                  THEN NoRequest ELSE h.request[r]]]

Unavailable(h) == Unpublish(Retire([h EXCEPT !.phase = "unavailable"], h.attached))

ScopeStartFails(h) == IF h.start = "none" THEN h ELSE Schedule([h EXCEPT !.start = "none"])

\* The promise of a stop settles: a start and a close of the scope go on.
StopSettles(h, ok) ==
    LET s == [h EXCEPT
                 !.stopping = "none",
                 !.close = IF @ = "stop" THEN IF ok THEN "done" ELSE "none" ELSE @,
                 !.start = IF @ = "stop" /\ ok THEN "begin" ELSE @]
    IN IF s.start = "stop" THEN ScopeStartFails(s) ELSE s

StopBegins(h) ==
    IF h.backend = 0
    THEN StopSettles([h EXCEPT !.phase = "stopped"], TRUE)
    ELSE Retire(Unpublish([h EXCEPT !.phase = "stopping", !.stopping = "process"]), h.attached)

\* owner.stop: a stop in progress is joined, a start in flight is awaited.
Stop(h) ==
    IF h.stopping # "none" THEN h
    ELSE IF h.starting # "none" THEN [h EXCEPT !.stopping = "waiting"]
    ELSE StopBegins(h)

StartFails(h) ==
    ScopeStartFails(Unavailable([h EXCEPT !.starting = "none", !.todo = {}, !.awaited = NoOne]))

\* The process has exited: the attached clients lose their connections.
Disowned(h) ==
    LET kept(f) == [c \in Client |-> IF c \in h.attached THEN 0 ELSE f[c]] IN
    [h EXCEPT !.backend = 0, !.phase = "stopped",
              !.runtime = kept(h.runtime), !.connecting = kept(h.connecting)]

Running(h) == h.phase \in {"starting", "running"}
Reachable(h, c) == c \in h.attached /\ h.backend # 0 /\ Running(h)

Busy(h) == \E r \in Request : h.request[r].pc # "idle"

-----------------------------------------------------------------------------
(* OfficialRuntimeScope *)

\* Mutant: the old generation is dropped, its exit is not waited for.
ScopeStartAnew(h) ==
    IF h.closed \/ h.start # "none" \/ (h.started /\ h.phase = "running") THEN h
    ELSE [Disowned(h) EXCEPT !.timer = FALSE, !.start = "begin"]

\* Called by a client that needs Codex, and by the timer.
ScopeStart(h) ==
    IF h.closed \/ h.start # "none" \/ (h.started /\ h.phase = "running") THEN h
    ELSE Stop([h EXCEPT !.timer = FALSE, !.start = "stop"])

ClientStarts ==
    /\ host.attached # {}
    /\ host' = ScopeStart(host) /\ host' # host
    /\ UNCHANGED <<process, dialing, loaded, faults>>

TimerFires ==
    /\ host.timer
    /\ host' = ScopeStart([host EXCEPT !.timer = FALSE])
    /\ UNCHANGED <<process, dialing, loaded, faults>>

\* The old exit is proved and provider routing is up: the owner starts.  A
\* closed scope creates no backend.
OwnerStarts ==
    /\ host.start = "begin"
    /\ IF host.closed \/ host.backend # 0 \/ host.phase # "stopped"
       THEN host' = ScopeStartFails(host) /\ UNCHANGED <<process, loaded>>
       ELSE LET g == host.generation + 1 IN
            /\ g \in Generation
            /\ host' = [host EXCEPT !.start = "owner", !.starting = "process",
                                    !.phase = "starting", !.backend = g, !.generation = g]
            /\ process' = [process EXCEPT ![g] = "alive"]
            /\ loaded' = {}
    /\ UNCHANGED <<dialing, faults>>

RoutingFails ==
    /\ host.start = "begin" /\ faults < MaxFaults
    /\ faults' = faults + 1
    /\ host' = ScopeStartFails(host)
    /\ UNCHANGED <<process, dialing, loaded>>

\* The owner's start has succeeded: the gate opens unless the scope was closed
\* or an admitted request has not ended yet.
StartSettles(h) ==
    IF h.closed THEN ScopeStartFails(h)
    ELSE LET s == [h EXCEPT !.started = TRUE] IN
         IF Busy(h) THEN ScopeStartFails(s)
         ELSE [s EXCEPT !.gate = TRUE, !.start = "none"]

\* A close that failed may be retried.
Close ==
    /\ host.close = "none"
    /\ host' = Stop([host EXCEPT !.closed = TRUE, !.timer = FALSE, !.close = "stop"])
    /\ UNCHANGED <<process, dialing, loaded, faults>>

-----------------------------------------------------------------------------
(* OfficialRuntimeOwner: start *)

\* backend.start settles.  Its process may live on when it failed.
ProcessReady ==
    /\ host.starting = "process" /\ process[host.backend] = "alive"
    /\ PromptDials => dialing = {}
    /\ host' = IF host.phase # "starting" THEN StartFails(host)
               ELSE [host EXCEPT !.starting = "clients", !.todo = host.attached]
    /\ UNCHANGED <<process, dialing, loaded, faults>>

ProcessFails ==
    /\ host.starting = "process"
    /\ IF process[host.backend] = "exited" THEN UNCHANGED faults
       ELSE faults < MaxFaults /\ faults' = faults + 1
    /\ host' = StartFails(host)
    /\ UNCHANGED <<process, dialing, loaded>>

Dial(h, c) ==
    IF h.runtime[c] # 0 \/ h.connecting[c] # 0 THEN {} ELSE {<<c, h.backend>>}

Dialed(h, c) ==
    IF Dial(h, c) = {} THEN h ELSE [h EXCEPT !.connecting[c] = h.backend]

\* The clients of the moment the process was ready are attached one by one.
AttachNext(c) ==
    /\ host.starting = "clients" /\ host.awaited = NoOne /\ c \in host.todo
    /\ IF Reachable(host, c)
       THEN /\ host' = [Dialed(host, c) EXCEPT !.awaited = c]
            /\ dialing' = dialing \cup Dial(host, c)
       ELSE host' = StartFails(host) /\ UNCHANGED dialing
    /\ UNCHANGED <<process, loaded, faults>>

\* It is connected: the native initialization is answered, or its runtime has
\* been retired meanwhile.
Initialized(c) ==
    /\ host.awaited = c /\ host.runtime[c] # 0
    /\ host' = IF c \in host.live
               THEN [host EXCEPT !.awaited = NoOne, !.todo = @ \ {c}]
               ELSE StartFails(host)
    /\ UNCHANGED <<process, dialing, loaded, faults>>

AllAttached ==
    /\ host.starting = "clients" /\ host.todo = {}
    /\ host' = IF host.phase = "starting"
               THEN StartSettles([host EXCEPT !.phase = "running", !.starting = "none"])
               ELSE StartFails(host)
    /\ UNCHANGED <<process, dialing, loaded, faults>>

-----------------------------------------------------------------------------
(* OfficialRuntimeOwner: stop, and what makes a generation unavailable *)

StopGoesOn ==
    /\ host.stopping = "waiting" /\ host.starting = "none"
    /\ host' = StopBegins(host)
    /\ UNCHANGED <<process, dialing, loaded, faults>>

Killed ==
    /\ host.stopping = "process" /\ process[host.backend] = "alive"
    /\ process' = [process EXCEPT ![host.backend] = "exited"]
    /\ UNCHANGED <<host, dialing, loaded, faults>>

\* The exit is proved.
StopDone ==
    /\ host.stopping = "process" /\ process[host.backend] = "exited"
    /\ host' = StopSettles(Disowned(host), TRUE)
    /\ UNCHANGED <<process, dialing, loaded, faults>>

StopFails ==
    /\ host.stopping = "process" /\ faults < MaxFaults
    /\ faults' = faults + 1
    /\ host' = StopSettles(Unavailable(host), FALSE)
    /\ UNCHANGED <<process, dialing, loaded>>

Exits(g) ==
    /\ process[g] = "alive" /\ faults < MaxFaults
    /\ faults' = faults + 1
    /\ process' = [process EXCEPT ![g] = "exited"]
    /\ UNCHANGED <<host, dialing, loaded>>

\* backend.closed, which settles once: ignored while the owner is stopping.
ExitSeen ==
    /\ host.backend # 0 /\ process[host.backend] = "exited"
    /\ host.noticed # host.backend
    /\ LET h == [host EXCEPT !.noticed = host.backend] IN
       host' = IF h.phase = "stopping" THEN h ELSE Stop(Unavailable(h))
    /\ UNCHANGED <<process, dialing, loaded, faults>>

\* The connection of a client ends, be its process alive or not.  The scope
\* hears of a gate that closes and stops the owner once this step is over.
ConnectionLost(c) ==
    /\ c \in host.live /\ host.runtime[c] = host.generation
    /\ host.phase # "stopping"
    /\ IF process[host.runtime[c]] = "exited" THEN UNCHANGED faults
       ELSE faults < MaxFaults /\ faults' = faults + 1
    /\ LET h == Unavailable(host) IN host' = IF host.gate THEN Stop(h) ELSE h
    /\ UNCHANGED <<process, dialing, loaded>>

-----------------------------------------------------------------------------
(* Clients and their requests *)

Attach(c) ==
    /\ c \notin host.attached \cup host.gone /\ ~host.closed
    /\ host' = [host EXCEPT !.attached = @ \cup {c}]
    /\ UNCHANGED <<process, dialing, loaded, faults>>

Detach(c) ==
    /\ c \in host.attached
    /\ host' = [Retire(host, {c}) EXCEPT !.attached = @ \ {c}, !.gone = @ \cup {c}]
    /\ UNCHANGED <<process, dialing, loaded, faults>>

\* Mutant: a subscription of an earlier generation is taken as it is.
ForwardUnrestored(h, q) ==
    IF q.client \in h.live THEN [q EXCEPT !.pc = "sent"] ELSE NoRequest

\* With a connection, a Turn first restores a subscription of an earlier
\* generation, or joins the restore in flight.
Forward(h, q) ==
    LET old == q.turn /\ h.thread[q.client] \notin {0, h.runtime[q.client]} IN
    IF q.client \in h.live THEN [q EXCEPT !.pc = IF old THEN "restoring" ELSE "sent"]
    ELSE NoRequest

\* The gate admits a request: one of a Turn, or a thread/start.
Admit(r, c, turn) ==
    LET q == [pc |-> "connecting", client |-> c, turn |-> turn] IN
    /\ host.request[r].pc = "idle" /\ host.gate /\ Reachable(host, c)
    /\ turn \/ host.thread[c] = 0
    /\ host' = [Dialed(host, c) EXCEPT
                   !.request[r] = IF host.runtime[c] # 0 THEN Forward(host, q) ELSE q]
    /\ dialing' = dialing \cup Dial(host, c)
    /\ UNCHANGED <<process, loaded, faults>>

\* The requests that wait for the connection of c go on with it, or fail.
Waiting(h, c) == {r \in Request : h.request[r].pc = "connecting" /\ h.request[r].client = c}

\* The connection still belongs to the process and to an attached client.
Usable(h, c, g) == c \in h.attached /\ h.backend = g /\ Running(h)

ConnectSettles(c, g) ==
    LET h == [host EXCEPT !.connecting[c] = IF @ = g THEN 0 ELSE @] IN
    /\ <<c, g>> \in dialing /\ dialing' = dialing \ {<<c, g>>}
    /\ \/ /\ process[g] = "alive" /\ Usable(h, c, g)
          /\ LET u == [h EXCEPT !.runtime[c] = g, !.live = @ \cup {c}] IN
             host' = [u EXCEPT !.request = [r \in Request |->
                         IF r \in Waiting(u, c) THEN Forward(u, u.request[r])
                         ELSE u.request[r]]]
          /\ UNCHANGED faults
       \/ /\ IF process[g] = "alive" /\ Usable(h, c, g)
             THEN faults < MaxFaults /\ faults' = faults + 1
             ELSE UNCHANGED faults
          /\ LET u == [h EXCEPT !.request = [r \in Request |->
                         IF r \in Waiting(h, c) THEN NoRequest ELSE h.request[r]]] IN
             host' = IF host.awaited = c /\ host.connecting[c] = g THEN StartFails(u) ELSE u
    /\ UNCHANGED <<process, loaded>>

\* thread/resume is answered: every request that waits for it is sent.
Restored(c, ok) ==
    LET joined == {r \in Request : host.request[r].pc = "restoring"
                                     /\ host.request[r].client = c} IN
    /\ joined # {} /\ process[host.runtime[c]] = "alive"
    /\ host' = [host EXCEPT
          !.thread[c] = IF ok THEN host.runtime[c] ELSE @,
          !.request = [r \in Request |->
              IF r \notin joined THEN host.request[r]
              ELSE IF ok THEN [host.request[r] EXCEPT !.pc = "sent"] ELSE NoRequest]]
    /\ loaded' = IF ok THEN loaded \cup {c} ELSE loaded
    /\ UNCHANGED <<process, dialing, faults>>

\* The process answers; a thread/start that succeeds leaves a subscription.
Answered(r, ok) ==
    LET q == host.request[r]
        started == ok /\ ~q.turn IN
    /\ q.pc = "sent" /\ process[host.runtime[q.client]] = "alive" /\ Running(host)
    /\ host' = [host EXCEPT !.request[r] = NoRequest,
                            !.thread[q.client] = IF started THEN host.generation ELSE @]
    /\ loaded' = IF started THEN loaded \cup {q.client} ELSE loaded
    /\ UNCHANGED <<process, dialing, faults>>

-----------------------------------------------------------------------------
Next ==
    \/ ClientStarts \/ TimerFires \/ OwnerStarts \/ RoutingFails
    \/ Close
    \/ ProcessReady \/ ProcessFails
    \/ \E c \in Client : AttachNext(c)
    \/ \E c \in Client : Initialized(c)
    \/ AllAttached
    \/ StopGoesOn \/ Killed \/ StopDone \/ StopFails
    \/ \E g \in Generation : Exits(g)
    \/ ExitSeen
    \/ \E c \in Client : ConnectionLost(c)
    \/ \E c \in Client : Attach(c)
    \/ \E c \in Client : Detach(c)
    \/ \E r \in Request, c \in Client, turn \in BOOLEAN : Admit(r, c, turn)
    \/ \E c \in Client, g \in Generation : ConnectSettles(c, g)
    \/ \E c \in Client, ok \in BOOLEAN : Restored(c, ok)
    \/ \E r \in Request, ok \in BOOLEAN : Answered(r, ok)

Spec == Init /\ [][Next]_vars

\* The Host's own steps and timers go on, a stop ends its process in the end and
\* a connect settles.  Clients, answers and faults are owed nothing.
FairSpec ==
    /\ Spec
    /\ WF_vars(TimerFires) /\ WF_vars(OwnerStarts)
    /\ WF_vars(ProcessReady) /\ WF_vars(ProcessFails /\ process[host.backend] = "exited")
    /\ WF_vars(\E c \in Client : AttachNext(c) \/ Initialized(c))
    /\ WF_vars(AllAttached)
    /\ WF_vars(StopGoesOn) /\ WF_vars(Killed) /\ WF_vars(StopDone) /\ WF_vars(ExitSeen)
    /\ \A c \in Client, g \in Generation : WF_vars(ConnectSettles(c, g))

-----------------------------------------------------------------------------
(* Properties *)

\* The only Codex process that lives is the one the owner holds, so there is
\* never a second one, and none once the scope has been closed, whatever start,
\* stop or retry was under way.
OneProcess ==
    /\ \A g \in Generation : process[g] = "alive" => host.backend = g
    /\ host.close = "done" => host.backend = 0

\* No request waits for an answer of a connection that was retired: it would
\* keep the next generation from being admitted (OfficialWorkGate.initialized).
WaitsOnTheLiving ==
    \A r \in Request : host.request[r].pc \in {"restoring", "sent"} =>
        /\ host.request[r].client \in host.live
        /\ host.runtime[host.request[r].client] = host.backend

\* A Turn of a Thread the client subscribed to reaches a process that has
\* loaded this Thread, however many generations ago it was started.
SubscribedTurns ==
    \A r \in Request :
        LET q == host.request[r] IN
        q.pc = "sent" /\ q.turn /\ host.thread[q.client] # 0 => q.client \in loaded

\* After a failure of any kind Codex is admitted again, until the scope closes.
Recovers == (host.start # "none" \/ host.started) ~> (host.gate \/ host.closed)

=============================================================================
