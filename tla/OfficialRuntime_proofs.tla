----------------------- MODULE OfficialRuntime_proofs -----------------------
(***************************************************************************)
(* Proofs about OfficialRuntime, for every set of clients and requests and *)
(* every bound: one process at a time, no request that waits on a retired  *)
(* connection, and no Turn that reaches a process without its Thread.      *)
(*                                                                         *)
(* The inductive invariant is a predicate of host (Sound) and three facts  *)
(* that relate host to the processes.  Because the code's steps are        *)
(* functions of host that call one another, there is a lemma per function, *)
(* and the proof of an action cites the lemma of the function it calls.    *)
(***************************************************************************)
EXTENDS OfficialRuntime, TLAPS

Number == 0..MaxGeneration

RequestType == [pc     : {"idle", "connecting", "restoring", "sent"},
                client : Client \cup {NoOne},
                turn   : BOOLEAN]

HostType ==
    [gate       : BOOLEAN,
     phase      : {"stopped", "starting", "running", "stopping", "unavailable"},
     backend    : Number,
     noticed    : Number,
     generation : Number,
     starting   : {"none", "process", "clients"},
     todo       : SUBSET Client,
     awaited    : Client \cup {NoOne},
     stopping   : {"none", "waiting", "process"},
     start      : {"none", "stop", "begin", "owner"},
     started    : BOOLEAN,
     timer      : BOOLEAN,
     close      : {"none", "stop", "done"},
     closed     : BOOLEAN,
     attached   : SUBSET Client,
     gone       : SUBSET Client,
     runtime    : [Client -> Number],
     live       : SUBSET Client,
     connecting : [Client -> Number],
     thread     : [Client -> Number],
     request    : [Request -> RequestType]]

TypeOK ==
    /\ host \in HostType
    /\ process \in [Generation -> {"none", "alive", "exited"}]
    /\ dialing \subseteq Client \X Generation
    /\ loaded \subseteq Client
    /\ faults \in Nat

Pending(q) == q.pc \in {"restoring", "sent"}

\* A close that began has closed the scope; one that is done left no process.
ClosesAreFinal(h) ==
    /\ h.close # "none" => h.closed
    /\ h.close = "done" => h.backend = 0

\* While a stop waits for the exit, nothing starts and every runtime is retired.
StopsAreQuiet(h) ==
    h.stopping = "process" =>
        /\ h.backend # 0
        /\ h.phase = "stopping"
        /\ h.starting = "none"
        /\ h.live = {}

\* A start has created its process, and awaits a client it still has to attach.
StartsAwait(h) ==
    /\ h.starting # "none" => h.backend # 0
    /\ h.awaited # NoOne => h.starting = "clients" /\ h.awaited \in h.todo

\* A runtime that is not retired belongs to an attached client and to the
\* generation owned, and what waits for an answer waits for such a runtime.
RuntimesAreOwned(h) ==
    /\ \A c \in h.live : c \in h.attached /\ h.backend # 0 /\ h.runtime[c] = h.backend
    /\ \A r \in Request : Pending(h.request[r]) => h.request[r].client \in h.live

Sound(h) ==
    /\ h \in HostType
    /\ ClosesAreFinal(h)
    /\ StopsAreQuiet(h)
    /\ StartsAwait(h)
    /\ RuntimesAreOwned(h)

\* A subscription is not newer than the process; one of the generation owned
\* is of a Thread the process has loaded.
ThreadsAreLoaded ==
    /\ host.backend <= host.generation
    /\ \A c \in Client : host.thread[c] <= host.generation
    /\ \A c \in Client : host.thread[c] = host.backend /\ host.backend # 0 => c \in loaded

OneAlive == \A g \in Generation : process[g] = "alive" => host.backend = g

IInv ==
    /\ TypeOK
    /\ Sound(host)
    /\ OneAlive
    /\ ThreadsAreLoaded
    /\ SubscribedTurns

-----------------------------------------------------------------------------
(* The functions of host *)

\* s is h but for whether a restart is due, what the scope's start is doing
\* and whether the gate is open.
SameOwner(h, s) ==
    /\ s \in HostType
    /\ s.phase = h.phase /\ s.backend = h.backend /\ s.generation = h.generation
    /\ s.starting = h.starting /\ s.todo = h.todo /\ s.awaited = h.awaited
    /\ s.stopping = h.stopping /\ s.close = h.close /\ s.closed = h.closed
    /\ s.attached = h.attached /\ s.runtime = h.runtime /\ s.live = h.live
    /\ s.thread = h.thread /\ s.request = h.request

\* s owns the process h owns, knows the same Threads, and has lost some
\* requests at most.
Follows(h, s) ==
    /\ s.backend = h.backend /\ s.generation = h.generation /\ s.thread = h.thread
    /\ \A r \in Request : s.request[r] \in {h.request[r], NoRequest}

\* s is h with the runtimes of some clients retired.
Retires(h, s, clients) ==
    /\ s \in HostType
    /\ s.backend = h.backend /\ s.generation = h.generation
    /\ s.starting = h.starting /\ s.todo = h.todo /\ s.awaited = h.awaited
    /\ s.stopping = h.stopping /\ s.close = h.close /\ s.closed = h.closed
    /\ s.attached = h.attached /\ s.runtime = h.runtime /\ s.thread = h.thread
    /\ s.live = h.live \ clients
    /\ \A r \in Request : s.request[r] \in {h.request[r], NoRequest}
    /\ \A r \in Request : Pending(s.request[r]) =>
           s.request[r] = h.request[r] /\ h.request[r].client \notin clients

\* Scheduling a restart changes nothing of the owner.
LEMMA ScheduleIsQuiet ==
    ASSUME NEW h \in HostType
    PROVE  SameOwner(h, Schedule(h))
<1> DEFINE s == [h EXCEPT !.timer = TRUE]
<1>1. SameOwner(h, s)
  BY DEF SameOwner, HostType
<1>2. SameOwner(h, h)
  BY DEF SameOwner
<1>3. Schedule(h) = h \/ Schedule(h) = s
  BY DEF Schedule
<1> HIDE DEF s
<1> QED
  BY <1>1, <1>2, <1>3

\* Neither does closing the gate.
LEMMA UnpublishIsQuiet ==
    ASSUME NEW h \in HostType
    PROVE  SameOwner(h, Unpublish(h))
<1>1. CASE ~h.gate
  BY <1>1 DEF Unpublish, SameOwner
<1>2. CASE h.gate
  <2> DEFINE s == [h EXCEPT !.gate = FALSE]
  <2>1. SameOwner(h, s)
    BY DEF SameOwner, HostType
  <2>2. s \in HostType
    BY <2>1 DEF SameOwner
  <2>3. Unpublish(h) = Schedule(s)
    BY <1>2 DEF Unpublish
  <2> HIDE DEF s
  <2> QED
    BY <2>1, <2>2, <2>3, ScheduleIsQuiet DEF SameOwner
<1> QED
  BY <1>1, <1>2 DEF HostType

\* Nor does a start of the scope that fails.
LEMMA ScopeStartFailsIsQuiet ==
    ASSUME NEW h \in HostType
    PROVE  SameOwner(h, ScopeStartFails(h))
<1>1. CASE h.start = "none"
  BY <1>1 DEF ScopeStartFails, SameOwner
<1>2. CASE h.start # "none"
  <2> DEFINE s == [h EXCEPT !.start = "none"]
  <2>1. SameOwner(h, s)
    BY DEF SameOwner, HostType
  <2>2. s \in HostType
    BY <2>1 DEF SameOwner
  <2>3. ScopeStartFails(h) = Schedule(s)
    BY <1>2 DEF ScopeStartFails
  <2> HIDE DEF s
  <2> QED
    BY <2>1, <2>2, <2>3, ScheduleIsQuiet DEF SameOwner
<1> QED
  BY <1>1, <1>2

\* What is sound stays so where the owner is the same.
LEMMA SameOwnerIsSound ==
    ASSUME NEW h, NEW s, Sound(h), SameOwner(h, s)
    PROVE  Sound(s) /\ Follows(h, s)
BY DEF Sound, SameOwner, Follows, ClosesAreFinal, StopsAreQuiet, StartsAwait, RuntimesAreOwned

\* Following is transitive.
LEMMA FollowsOn ==
    ASSUME NEW h, NEW s, NEW t, Follows(h, s), Follows(s, t)
    PROVE  Follows(h, t)
BY DEF Follows

\* A host that only retired clients follows the old one.
LEMMA RetiresFollows ==
    ASSUME NEW h, NEW s, NEW clients, Retires(h, s, clients)
    PROVE  Follows(h, s)
BY DEF Follows, Retires

\* A request that was dropped waits for nothing.
LEMMA NoRequestIsIdle == NoRequest \in RequestType /\ ~Pending(NoRequest)
BY DEF NoRequest, RequestType, Pending

\* #retire retires the clients it is given and fails what waits for them.
LEMMA RetireRetires ==
    ASSUME NEW h \in HostType, NEW clients
    PROVE  /\ Retires(h, Retire(h, clients), clients)
           /\ Retire(h, clients).phase = h.phase
<1> DEFINE dropped(r) == /\ h.request[r].client \in clients
                         /\ h.request[r].pc \in {"restoring", "sent"}
           f == [r \in Request |-> IF dropped(r) THEN NoRequest ELSE h.request[r]]
           s == [h EXCEPT !.live = h.live \ clients, !.request = f]
<1>1. Retire(h, clients) = s
  BY DEF Retire
<1>2. \A r \in Request : f[r] \in {h.request[r], NoRequest}
  OBVIOUS
<1>3. \A r \in Request : Pending(f[r]) => f[r] = h.request[r] /\ h.request[r].client \notin clients
  BY NoRequestIsIdle DEF Pending
<1>4. f \in [Request -> RequestType]
  BY NoRequestIsIdle DEF HostType
<1>5. h.live \ clients \in SUBSET Client
  BY DEF HostType
<1> HIDE DEF f
<1>6. s \in HostType
  BY <1>4, <1>5 DEF HostType
<1>7. /\ s.live = h.live \ clients /\ s.request = f /\ s.phase = h.phase
      /\ s.backend = h.backend /\ s.generation = h.generation
      /\ s.starting = h.starting /\ s.todo = h.todo /\ s.awaited = h.awaited
      /\ s.stopping = h.stopping /\ s.close = h.close /\ s.closed = h.closed
      /\ s.attached = h.attached /\ s.runtime = h.runtime /\ s.thread = h.thread
  BY DEF HostType
<1> HIDE DEF s
<1> QED
  BY <1>1, <1>2, <1>3, <1>6, <1>7 DEF Retires

\* #unavailable retires every attached client.
LEMMA UnavailableRetires ==
    ASSUME NEW h \in HostType
    PROVE  /\ Retires(h, Unavailable(h), h.attached)
           /\ Unavailable(h).phase = "unavailable"
<1> DEFINE s == [h EXCEPT !.phase = "unavailable"]
           t == Retire(s, h.attached)
<1>1. s \in HostType
  BY DEF HostType
<1>2. /\ s.phase = "unavailable" /\ s.live = h.live /\ s.request = h.request
      /\ s.backend = h.backend /\ s.generation = h.generation
      /\ s.starting = h.starting /\ s.todo = h.todo /\ s.awaited = h.awaited
      /\ s.stopping = h.stopping /\ s.close = h.close /\ s.closed = h.closed
      /\ s.attached = h.attached /\ s.runtime = h.runtime /\ s.thread = h.thread
  BY DEF HostType
<1>3. Unavailable(h) = Unpublish(t)
  BY DEF Unavailable
<1> HIDE DEF s
<1>4. Retires(s, t, h.attached) /\ t.phase = s.phase
  BY <1>1, RetireRetires
<1>5. t \in HostType
  BY <1>4 DEF Retires
<1> HIDE DEF t
<1>6. SameOwner(t, Unpublish(t))
  BY <1>5, UnpublishIsQuiet
<1> QED
  BY <1>2, <1>3, <1>4, <1>6 DEF Retires, SameOwner

\* A generation that becomes unavailable stays sound unless its exit is awaited.
LEMMA UnavailableIsSound ==
    ASSUME NEW h, Sound(h), h.stopping # "process"
    PROVE  Sound(Unavailable(h)) /\ Follows(h, Unavailable(h))
<1>1. PICK s : s = Unavailable(h)
  OBVIOUS
<1>2. Retires(h, s, h.attached) /\ s.phase = "unavailable"
  BY <1>1, UnavailableRetires DEF Sound
<1>3. ClosesAreFinal(s) /\ StopsAreQuiet(s) /\ StartsAwait(s)
  BY <1>2 DEF Sound, Retires, ClosesAreFinal, StopsAreQuiet, StartsAwait
<1>4. RuntimesAreOwned(s)
  BY <1>2 DEF Sound, Retires, RuntimesAreOwned
<1> QED
  BY <1>1, <1>2, <1>3, <1>4, RetiresFollows DEF Sound, Retires

\* A start of the owner that fails leaves a sound host.
LEMMA StartFailsIsSound ==
    ASSUME NEW h, Sound(h), h.starting # "none"
    PROVE  Sound(StartFails(h)) /\ Follows(h, StartFails(h))
<1> DEFINE s == [h EXCEPT !.starting = "none", !.todo = {}, !.awaited = NoOne]
           t == Unavailable(s)
<1>1. s \in HostType
  BY DEF HostType, Sound
<1>2. /\ s.phase = h.phase /\ s.live = h.live /\ s.request = h.request
      /\ s.backend = h.backend /\ s.generation = h.generation
      /\ s.starting = "none" /\ s.awaited = NoOne
      /\ s.stopping = h.stopping /\ s.close = h.close /\ s.closed = h.closed
      /\ s.attached = h.attached /\ s.runtime = h.runtime /\ s.thread = h.thread
  BY DEF HostType, Sound
<1>3. StartFails(h) = ScopeStartFails(t)
  BY DEF StartFails
<1> HIDE DEF s
<1>4. Sound(s) /\ Follows(h, s) /\ s.stopping # "process"
  BY <1>1, <1>2 DEF Sound, Follows, ClosesAreFinal, StopsAreQuiet, StartsAwait, RuntimesAreOwned
<1>5. Sound(t) /\ Follows(s, t)
  BY <1>4, UnavailableIsSound
<1> HIDE DEF t
<1>6. Sound(ScopeStartFails(t)) /\ Follows(t, ScopeStartFails(t))
  BY <1>5, ScopeStartFailsIsQuiet, SameOwnerIsSound DEF Sound
<1> QED
  BY <1>3, <1>4, <1>5, <1>6, FollowsOn

\* s is h after its stop has settled.
Settles(h, s, ok) ==
    /\ s \in HostType
    /\ s.phase = h.phase /\ s.backend = h.backend /\ s.generation = h.generation
    /\ s.starting = h.starting /\ s.todo = h.todo /\ s.awaited = h.awaited
    /\ s.stopping = "none" /\ s.closed = h.closed
    /\ s.close = IF h.close = "stop" THEN IF ok THEN "done" ELSE "none" ELSE h.close
    /\ s.attached = h.attached /\ s.runtime = h.runtime /\ s.live = h.live
    /\ s.thread = h.thread /\ s.request = h.request

\* The promise of a stop ends it and the close that waits for it.
LEMMA StopSettlesSettles ==
    ASSUME NEW h \in HostType, NEW ok \in BOOLEAN
    PROVE  Settles(h, StopSettles(h, ok), ok)
<1> DEFINE close == IF h.close = "stop" THEN IF ok THEN "done" ELSE "none" ELSE h.close
           start == IF h.start = "stop" /\ ok THEN "begin" ELSE h.start
           s == [h EXCEPT
                   !.stopping = "none",
                   !.close = IF @ = "stop" THEN IF ok THEN "done" ELSE "none" ELSE @,
                   !.start = IF @ = "stop" /\ ok THEN "begin" ELSE @]
           t == [h EXCEPT !.stopping = "none", !.close = close, !.start = start]
<1>1. close \in {"none", "stop", "done"} /\ start \in {"none", "stop", "begin", "owner"}
  BY DEF HostType
<1>2. s = t
  OBVIOUS
<1>3. StopSettles(h, ok) = IF s.start = "stop" THEN ScopeStartFails(s) ELSE s
  BY DEF StopSettles
<1> HIDE DEF s
<1>4. close = IF h.close = "stop" THEN IF ok THEN "done" ELSE "none" ELSE h.close
  OBVIOUS
<1> HIDE DEF close, start
<1>5. t \in HostType
  <2>1. \A c \in {"none", "stop", "done"}, b \in {"none", "stop", "begin", "owner"} :
            [h EXCEPT !.stopping = "none", !.close = c, !.start = b] \in HostType
    BY DEF HostType
  <2> QED
    BY <1>1, <2>1
<1>6. Settles(h, t, ok)
  BY <1>4, <1>5 DEF Settles, HostType
<1>7. Settles(h, s, ok) /\ s \in HostType
  BY <1>2, <1>5, <1>6
<1>8. SameOwner(s, ScopeStartFails(s))
  BY <1>7, ScopeStartFailsIsQuiet
<1>9. Settles(h, ScopeStartFails(s), ok)
  BY <1>7, <1>8 DEF Settles, SameOwner
<1> QED
  BY <1>3, <1>7, <1>9

\* A stop that settles leaves a sound host, with its process gone if it
\* succeeded.
LEMMA SettlesIsSound ==
    ASSUME NEW h, NEW s, NEW ok \in BOOLEAN, Settles(h, s, ok),
           ClosesAreFinal(h), StartsAwait(h), RuntimesAreOwned(h), ok => h.backend = 0
    PROVE  Sound(s) /\ Follows(h, s)
<1>1. ClosesAreFinal(s) /\ StopsAreQuiet(s) /\ StartsAwait(s)
  BY DEF Settles, ClosesAreFinal, StopsAreQuiet, StartsAwait
<1>2. RuntimesAreOwned(s)
  BY DEF Settles, RuntimesAreOwned
<1> QED
  BY <1>1, <1>2 DEF Sound, Settles, Follows

\* A stop that begins retires every runtime before it waits for the exit.
LEMMA StopBeginsIsSound ==
    ASSUME NEW h, Sound(h), h.starting = "none"
    PROVE  Sound(StopBegins(h)) /\ Follows(h, StopBegins(h))
<1>1. CASE h.backend = 0
  <2> DEFINE s == [h EXCEPT !.phase = "stopped"]
  <2>1. s \in HostType
    BY DEF Sound, HostType
  <2>2. /\ s.live = h.live /\ s.request = h.request
        /\ s.backend = h.backend /\ s.generation = h.generation
        /\ s.starting = h.starting /\ s.todo = h.todo /\ s.awaited = h.awaited
        /\ s.stopping = h.stopping /\ s.close = h.close /\ s.closed = h.closed
        /\ s.attached = h.attached /\ s.runtime = h.runtime /\ s.thread = h.thread
    BY DEF Sound, HostType
  <2>3. StopBegins(h) = StopSettles(s, TRUE)
    BY <1>1 DEF StopBegins
  <2> HIDE DEF s
  <2>4. ClosesAreFinal(s) /\ StartsAwait(s) /\ RuntimesAreOwned(s)
    BY <2>2 DEF Sound, ClosesAreFinal, StartsAwait, RuntimesAreOwned
  <2>5. Settles(s, StopSettles(s, TRUE), TRUE)
    BY <2>1, StopSettlesSettles
  <2>6. Sound(StopBegins(h)) /\ Follows(s, StopBegins(h))
    BY <1>1, <2>2, <2>3, <2>4, <2>5, SettlesIsSound
  <2>7. Follows(h, s)
    BY <2>2 DEF Follows
  <2> QED
    BY <2>6, <2>7, FollowsOn
<1>2. CASE h.backend # 0
  <2> DEFINE s == [h EXCEPT !.phase = "stopping", !.stopping = "process"]
             t == Unpublish(s)
             u == Retire(t, h.attached)
  <2>1. s \in HostType
    BY DEF Sound, HostType
  <2>2. /\ s.phase = "stopping" /\ s.live = h.live /\ s.request = h.request
        /\ s.backend = h.backend /\ s.generation = h.generation
        /\ s.starting = h.starting /\ s.todo = h.todo /\ s.awaited = h.awaited
        /\ s.stopping = "process" /\ s.close = h.close /\ s.closed = h.closed
        /\ s.attached = h.attached /\ s.runtime = h.runtime /\ s.thread = h.thread
    BY DEF Sound, HostType
  <2>3. StopBegins(h) = u
    BY <1>2 DEF StopBegins
  <2> HIDE DEF s
  <2>4. SameOwner(s, t)
    BY <2>1, UnpublishIsQuiet
  <2>5. t \in HostType
    BY <2>4 DEF SameOwner
  <2> HIDE DEF t
  <2>6. Retires(t, u, h.attached) /\ u.phase = t.phase
    BY <2>5, RetireRetires
  <2> HIDE DEF u
  <2>7. u.live = {}
    BY <2>2, <2>4, <2>6 DEF Sound, RuntimesAreOwned, SameOwner, Retires
  <2>8. ClosesAreFinal(u) /\ StopsAreQuiet(u) /\ StartsAwait(u)
    BY <1>2, <2>2, <2>4, <2>6, <2>7
       DEF Sound, ClosesAreFinal, StopsAreQuiet, StartsAwait, SameOwner, Retires
  <2>9. RuntimesAreOwned(u)
    BY <2>2, <2>4, <2>6, <2>7 DEF Sound, RuntimesAreOwned, SameOwner, Retires
  <2>10. Follows(h, u)
    BY <2>2, <2>4, <2>6 DEF SameOwner, Retires, Follows
  <2> QED
    BY <2>3, <2>6, <2>8, <2>9, <2>10 DEF Sound, Retires
<1> QED
  BY <1>1, <1>2

\* owner.stop, whatever is under way, leaves a sound host.
LEMMA StopIsSound ==
    ASSUME NEW h, Sound(h)
    PROVE  Sound(Stop(h)) /\ Follows(h, Stop(h))
<1>1. CASE h.stopping # "none"
  BY <1>1 DEF Stop, Follows
<1>2. CASE h.stopping = "none" /\ h.starting # "none"
  <2> DEFINE s == [h EXCEPT !.stopping = "waiting"]
  <2>1. s \in HostType
    BY DEF Sound, HostType
  <2>2. /\ s.live = h.live /\ s.request = h.request
        /\ s.backend = h.backend /\ s.generation = h.generation
        /\ s.starting = h.starting /\ s.todo = h.todo /\ s.awaited = h.awaited
        /\ s.stopping = "waiting" /\ s.close = h.close /\ s.closed = h.closed
        /\ s.attached = h.attached /\ s.runtime = h.runtime /\ s.thread = h.thread
    BY DEF Sound, HostType
  <2>3. Stop(h) = s
    BY <1>2 DEF Stop
  <2> HIDE DEF s
  <2>4. Sound(s)
    BY <2>1, <2>2 DEF Sound, ClosesAreFinal, StopsAreQuiet, StartsAwait, RuntimesAreOwned
  <2>5. Follows(h, s)
    BY <2>2 DEF Follows
  <2> QED
    BY <2>3, <2>4, <2>5
<1>3. CASE h.stopping = "none" /\ h.starting = "none"
  BY <1>3, StopBeginsIsSound DEF Stop
<1> QED
  BY <1>1, <1>2, <1>3

\* A start of the scope first stops the owner, and leaves a sound host.
LEMMA ScopeStartIsSound ==
    ASSUME NEW h, Sound(h)
    PROVE  Sound(ScopeStart(h)) /\ Follows(h, ScopeStart(h))
<1> DEFINE s == [h EXCEPT !.timer = FALSE, !.start = "stop"]
<1>1. SameOwner(h, s)
  BY DEF Sound, SameOwner, HostType
<1>2. ScopeStart(h) = h \/ ScopeStart(h) = Stop(s)
  BY DEF ScopeStart
<1> HIDE DEF s
<1>3. Sound(s) /\ Follows(h, s)
  BY <1>1, SameOwnerIsSound
<1>4. Sound(Stop(s)) /\ Follows(s, Stop(s))
  BY <1>3, StopIsSound
<1>5. Follows(h, h)
  BY DEF Follows
<1> QED
  BY <1>2, <1>3, <1>4, <1>5, FollowsOn

\* The start of the scope settles without touching the owner.
LEMMA StartSettlesIsQuiet ==
    ASSUME NEW h \in HostType
    PROVE  SameOwner(h, StartSettles(h))
<1> DEFINE s == [h EXCEPT !.started = TRUE]
           t == [s EXCEPT !.gate = TRUE, !.start = "none"]
<1>1. SameOwner(h, s)
  BY DEF SameOwner, HostType
<1>2. s \in HostType
  BY <1>1 DEF SameOwner
<1>3. /\ StartSettles(h) = ScopeStartFails(h) \/ StartSettles(h) = ScopeStartFails(s)
         \/ StartSettles(h) = t
  BY DEF StartSettles
<1> HIDE DEF s
<1>4. SameOwner(s, t)
  BY <1>2 DEF SameOwner, HostType
<1> HIDE DEF t
<1>5. SameOwner(s, ScopeStartFails(s)) /\ SameOwner(h, ScopeStartFails(h))
  BY <1>2, ScopeStartFailsIsQuiet
<1> QED
  BY <1>1, <1>3, <1>4, <1>5 DEF SameOwner

\* A connect that begins is noted for its client, and changes nothing else.
LEMMA DialedIsQuiet ==
    ASSUME NEW h \in HostType, NEW c \in Client
    PROVE  SameOwner(h, Dialed(h, c))
<1> DEFINE s == [h EXCEPT !.connecting[c] = h.backend]
<1>1. h.backend \in Number /\ h.connecting \in [Client -> Number]
  BY DEF HostType
<1>2. [h.connecting EXCEPT ![c] = h.backend] \in [Client -> Number]
  BY <1>1
<1>3. s = [h EXCEPT !.connecting = [h.connecting EXCEPT ![c] = h.backend]]
  BY DEF HostType
<1>4. \A f \in [Client -> Number] : SameOwner(h, [h EXCEPT !.connecting = f])
  BY DEF SameOwner, HostType
<1>5. SameOwner(h, s)
  BY <1>2, <1>3, <1>4
<1>6. SameOwner(h, h)
  BY DEF SameOwner
<1> QED
  BY <1>5, <1>6 DEF Dialed

-----------------------------------------------------------------------------
(* The invariant *)

\* A step that loses requests at most, leaves a sound host and starts no
\* process keeps the invariant.
LEMMA FollowingKeeps ==
    ASSUME IInv, Sound(host'), Follows(host, host'), loaded' = loaded,
           process' \in [Generation -> {"none", "alive", "exited"}],
           \A g \in Generation : process'[g] = "alive" => process[g] = "alive",
           dialing' \subseteq Client \X Generation,
           faults' \in Nat
    PROVE  IInv'
<1>1. TypeOK'
  BY DEF IInv, TypeOK, Sound
<1>2. OneAlive'
  BY DEF IInv, OneAlive, Follows
<1>3. ThreadsAreLoaded'
  BY DEF IInv, ThreadsAreLoaded, Follows
<1>4. SubscribedTurns'
  BY DEF IInv, SubscribedTurns, Follows, NoRequest
<1> QED
  BY <1>1, <1>2, <1>3, <1>4 DEF IInv

\* The same for a step of the Host alone.
LEMMA HostStepKeeps ==
    ASSUME IInv, Sound(host'), Follows(host, host'),
           UNCHANGED <<process, loaded>>,
           dialing' \subseteq Client \X Generation,
           faults' \in {faults, faults + 1}
    PROVE  IInv'
<1>1. /\ process' \in [Generation -> {"none", "alive", "exited"}]
      /\ \A g \in Generation : process'[g] = "alive" => process[g] = "alive"
  BY DEF IInv, TypeOK
<1>2. faults' \in Nat
  BY DEF IInv, TypeOK
<1> QED
  BY <1>1, <1>2, FollowingKeeps

\* At first there is nothing to keep sound.
LEMMA InitHolds == Init => IInv
<1> SUFFICES ASSUME Init PROVE IInv
  OBVIOUS
<1>1. \A r \in Request : host.request[r] = NoRequest
  BY DEF Init
<1>2. /\ host.close = "none" /\ host.stopping = "none" /\ host.awaited = NoOne
      /\ host.live = {} /\ host.backend = 0 /\ host.generation = 0
      /\ host.starting = "none" /\ host.thread = [c \in Client |-> 0]
  BY DEF Init
<1>3. host \in HostType
  <2>1. 0 \in Number
    BY OfficialAssumption DEF Number
  <2>2. host.request \in [Request -> RequestType]
    BY NoRequestIsIdle DEF Init
  <2> QED
    BY <2>1, <2>2, NoRequestIsIdle DEF Init, HostType
<1>4. Sound(host)
  BY <1>1, <1>2, <1>3, NoRequestIsIdle
     DEF Sound, ClosesAreFinal, StopsAreQuiet, StartsAwait, RuntimesAreOwned
<1>5. TypeOK
  BY <1>3 DEF Init, TypeOK
<1>6. OneAlive
  BY DEF Init, OneAlive
<1>7. ThreadsAreLoaded
  BY <1>2 DEF ThreadsAreLoaded
<1>8. SubscribedTurns
  BY <1>1 DEF SubscribedTurns, NoRequest
<1> QED
  BY <1>4, <1>5, <1>6, <1>7, <1>8 DEF IInv

\* Starts of the scope, its restart and its close keep the invariant.
LEMMA ScopeKeeps ==
    ASSUME IInv, ClientStarts \/ TimerFires \/ RoutingFails \/ Close
    PROVE  IInv'
<1>1. Sound(host) /\ host \in HostType /\ dialing \subseteq Client \X Generation /\ faults \in Nat
  BY DEF IInv, TypeOK
<1>2. CASE ClientStarts
  BY <1>1, <1>2, ScopeStartIsSound, HostStepKeeps DEF ClientStarts
<1>3. CASE TimerFires
  <2> DEFINE s == [host EXCEPT !.timer = FALSE]
  <2>1. SameOwner(host, s)
    BY <1>1 DEF SameOwner, HostType
  <2>2. host' = ScopeStart(s)
    BY <1>3 DEF TimerFires
  <2> HIDE DEF s
  <2>3. Sound(s) /\ Follows(host, s)
    BY <1>1, <2>1, SameOwnerIsSound
  <2>4. Sound(host') /\ Follows(host, host')
    BY <2>2, <2>3, ScopeStartIsSound, FollowsOn
  <2> QED
    BY <1>1, <1>3, <2>4, HostStepKeeps DEF TimerFires
<1>4. CASE RoutingFails
  <2>1. Sound(host') /\ Follows(host, host')
    BY <1>1, <1>4, ScopeStartFailsIsQuiet, SameOwnerIsSound DEF RoutingFails
  <2> QED
    BY <1>1, <1>4, <2>1, HostStepKeeps DEF RoutingFails
<1>5. CASE Close
  <2> DEFINE s == [host EXCEPT !.closed = TRUE, !.timer = FALSE, !.close = "stop"]
  <2>1. s \in HostType
    BY <1>1 DEF HostType
  <2>2. /\ s.phase = host.phase /\ s.live = host.live /\ s.request = host.request
        /\ s.backend = host.backend /\ s.generation = host.generation
        /\ s.starting = host.starting /\ s.todo = host.todo /\ s.awaited = host.awaited
        /\ s.stopping = host.stopping /\ s.close = "stop" /\ s.closed
        /\ s.attached = host.attached /\ s.runtime = host.runtime /\ s.thread = host.thread
    BY <1>1 DEF HostType
  <2>3. host' = Stop(s)
    BY <1>5 DEF Close
  <2> HIDE DEF s
  <2>4. Sound(s) /\ Follows(host, s)
    BY <1>1, <2>1, <2>2
       DEF Sound, Follows, ClosesAreFinal, StopsAreQuiet, StartsAwait, RuntimesAreOwned
  <2>5. Sound(host') /\ Follows(host, host')
    BY <2>3, <2>4, StopIsSound, FollowsOn
  <2> QED
    BY <1>1, <1>5, <2>5, HostStepKeeps DEF Close
<1> QED
  BY <1>2, <1>3, <1>4, <1>5

\* The owner starts a process only where it owns none.
LEMMA OwnerStartsKeeps ==
    ASSUME IInv, OwnerStarts
    PROVE  IInv'
<1>1. Sound(host) /\ host \in HostType /\ TypeOK
  BY DEF IInv, TypeOK
<1>2. CASE host.closed \/ host.backend # 0 \/ host.phase # "stopped"
  <2>1. host' = ScopeStartFails(host) /\ UNCHANGED <<process, loaded, dialing, faults>>
    BY <1>2 DEF OwnerStarts
  <2>2. Sound(host') /\ Follows(host, host')
    BY <1>1, <2>1, ScopeStartFailsIsQuiet, SameOwnerIsSound
  <2> QED
    BY <1>1, <2>1, <2>2, HostStepKeeps DEF TypeOK
<1>3. CASE ~(host.closed \/ host.backend # 0 \/ host.phase # "stopped")
  <2>1. PICK g \in Generation :
          /\ g = host.generation + 1
          /\ host' = [host EXCEPT !.start = "owner", !.starting = "process",
                                  !.phase = "starting", !.backend = g, !.generation = g]
          /\ process' = [process EXCEPT ![g] = "alive"]
          /\ loaded' = {} /\ UNCHANGED <<dialing, faults>>
    BY <1>3 DEF OwnerStarts
  <2>2. g \in Number /\ g # 0
    BY OfficialAssumption DEF Number, Generation
  <2>3. host' \in HostType
    BY <1>1, <2>1, <2>2 DEF HostType
  <2>4. /\ host'.phase = "starting" /\ host'.live = host.live /\ host'.request = host.request
        /\ host'.backend = g /\ host'.generation = g
        /\ host'.starting = "process" /\ host'.todo = host.todo /\ host'.awaited = host.awaited
        /\ host'.stopping = host.stopping /\ host'.close = host.close
        /\ host'.closed = host.closed /\ host'.thread = host.thread
    BY <1>1, <2>1 DEF HostType
  <2>5. host.live = {} /\ host.stopping # "process" /\ host.backend = 0
    BY <1>1, <1>3 DEF Sound, StopsAreQuiet, RuntimesAreOwned
  <2>6. host.awaited = NoOne /\ host.close = "none"
    BY <1>1, <1>3, <2>5 DEF Sound, StartsAwait, ClosesAreFinal
  <2>7. Sound(host')
    <3>1. ClosesAreFinal(host') /\ StopsAreQuiet(host') /\ StartsAwait(host')
      BY <2>2, <2>4, <2>5, <2>6 DEF ClosesAreFinal, StopsAreQuiet, StartsAwait
    <3>2. RuntimesAreOwned(host')
      BY <1>1, <2>4, <2>5 DEF Sound, RuntimesAreOwned
    <3> QED
      BY <2>3, <3>1, <3>2 DEF Sound
  <2>8. TypeOK'
    BY <1>1, <2>1, <2>3 DEF TypeOK
  <2>9. OneAlive'
    BY <1>1, <2>1, <2>4, <2>5 DEF IInv, TypeOK, OneAlive, Generation
  <2>10. ThreadsAreLoaded'
    <3>1. \A c \in Client : host.thread[c] \in Number /\ host.thread[c] <= host.generation
      BY <1>1 DEF IInv, ThreadsAreLoaded, HostType
    <3>2. host.generation \in Nat
      BY <1>1, OfficialAssumption DEF HostType, Number
    <3>3. g <= g /\ \A c \in Client : host.thread[c] <= g /\ host.thread[c] # g
      BY <2>1, <3>1, <3>2, OfficialAssumption DEF Number
    <3> QED
      BY <2>4, <3>3 DEF ThreadsAreLoaded
  <2>11. SubscribedTurns'
    BY <1>1, <2>4, <2>5 DEF Sound, RuntimesAreOwned, Pending, SubscribedTurns
  <2> QED
    BY <2>7, <2>8, <2>9, <2>10, <2>11 DEF IInv
<1> QED
  BY <1>2, <1>3

\* What the start of the owner goes through keeps the invariant.
LEMMA StartKeeps ==
    ASSUME IInv,
           \/ ProcessReady \/ ProcessFails \/ AllAttached
           \/ \E c \in Client : AttachNext(c)
           \/ \E c \in Client : Initialized(c)
    PROVE  IInv'
<1>1. Sound(host) /\ host \in HostType /\ dialing \subseteq Client \X Generation /\ faults \in Nat
  BY DEF IInv, TypeOK
<1>2. host.starting # "none" => Sound(StartFails(host)) /\ Follows(host, StartFails(host))
  BY <1>1, StartFailsIsSound
<1>3. CASE ProcessReady
  <2> DEFINE s == [host EXCEPT !.starting = "clients", !.todo = host.attached]
  <2>1. s \in HostType
    BY <1>1 DEF HostType
  <2>2. /\ s.phase = host.phase /\ s.live = host.live /\ s.request = host.request
        /\ s.backend = host.backend /\ s.generation = host.generation
        /\ s.starting = "clients" /\ s.awaited = host.awaited
        /\ s.stopping = host.stopping /\ s.close = host.close /\ s.closed = host.closed
        /\ s.attached = host.attached /\ s.runtime = host.runtime /\ s.thread = host.thread
    BY <1>1 DEF HostType
  <2>3. host.starting = "process" /\ host' \in {StartFails(host), s}
    BY <1>3 DEF ProcessReady
  <2> HIDE DEF s
  <2>4. host.awaited = NoOne
    BY <1>1, <2>3 DEF Sound, StartsAwait
  <2>5. Sound(s) /\ Follows(host, s)
    BY <1>1, <2>1, <2>2, <2>3, <2>4
       DEF Sound, Follows, ClosesAreFinal, StopsAreQuiet, StartsAwait, RuntimesAreOwned
  <2>6. Sound(host') /\ Follows(host, host')
    BY <1>2, <2>3, <2>5
  <2> QED
    BY <1>1, <1>3, <2>6, HostStepKeeps DEF ProcessReady
<1>4. CASE ProcessFails
  <2>1. Sound(host') /\ Follows(host, host')
    BY <1>2, <1>4 DEF ProcessFails
  <2>2. UNCHANGED <<process, dialing, loaded>> /\ faults' \in {faults, faults + 1}
    BY <1>4 DEF ProcessFails
  <2> QED
    BY <1>1, <2>1, <2>2, HostStepKeeps
<1>5. CASE AllAttached
  <2> DEFINE s == [host EXCEPT !.phase = "running", !.starting = "none"]
  <2>1. s \in HostType
    BY <1>1 DEF HostType
  <2>2. /\ s.live = host.live /\ s.request = host.request /\ s.starting = "none"
        /\ s.backend = host.backend /\ s.generation = host.generation
        /\ s.awaited = host.awaited
        /\ s.stopping = host.stopping /\ s.close = host.close /\ s.closed = host.closed
        /\ s.attached = host.attached /\ s.runtime = host.runtime /\ s.thread = host.thread
    BY <1>1 DEF HostType
  <2>3. /\ host.starting = "clients" /\ host.todo = {}
        /\ host' \in {StartFails(host), StartSettles(s)}
    BY <1>5 DEF AllAttached
  <2> HIDE DEF s
  <2>4. host.awaited = NoOne /\ host.stopping # "process"
    BY <1>1, <2>3 DEF Sound, StartsAwait, StopsAreQuiet
  <2>5. Sound(s) /\ Follows(host, s)
    BY <1>1, <2>1, <2>2, <2>4
       DEF Sound, Follows, ClosesAreFinal, StopsAreQuiet, StartsAwait, RuntimesAreOwned
  <2>6. Sound(StartSettles(s)) /\ Follows(host, StartSettles(s))
    BY <2>1, <2>5, StartSettlesIsQuiet, SameOwnerIsSound, FollowsOn
  <2>7. Sound(host') /\ Follows(host, host')
    BY <1>2, <2>3, <2>6
  <2> QED
    BY <1>1, <1>5, <2>7, HostStepKeeps DEF AllAttached
<1>6. ASSUME NEW c \in Client, AttachNext(c)
      PROVE  IInv'
  <2>1. host.starting = "clients" /\ c \in host.todo
    BY <1>6 DEF AttachNext
  <2>2. CASE Reachable(host, c)
    <3>1. host.backend \in Generation /\ host.backend \in Number
      BY <1>1, <2>2, OfficialAssumption DEF Reachable, HostType, Number, Generation
    <3> DEFINE s == Dialed(host, c)
               t == [s EXCEPT !.awaited = c]
    <3>2. SameOwner(host, s)
      BY <1>1, <3>1, DialedIsQuiet
    <3>3. s \in HostType
      BY <3>2 DEF SameOwner
    <3> HIDE DEF s
    <3>4. t \in HostType
      BY <3>3 DEF HostType
    <3>5. /\ t.phase = s.phase /\ t.live = s.live /\ t.request = s.request
          /\ t.backend = s.backend /\ t.generation = s.generation
          /\ t.starting = s.starting /\ t.todo = s.todo /\ t.awaited = c
          /\ t.stopping = s.stopping /\ t.close = s.close /\ t.closed = s.closed
          /\ t.attached = s.attached /\ t.runtime = s.runtime /\ t.thread = s.thread
      BY <3>3 DEF HostType
    <3>6. host' = t
      BY <1>6, <2>2 DEF AttachNext, s
    <3> HIDE DEF t
    <3>7. Sound(s) /\ Follows(host, s)
      BY <1>1, <3>2, SameOwnerIsSound
    <3>8. s.starting = "clients" /\ c \in s.todo
      BY <2>1, <3>2 DEF SameOwner
    <3>9. Sound(t) /\ Follows(s, t)
      BY <3>4, <3>5, <3>7, <3>8
         DEF Sound, Follows, ClosesAreFinal, StopsAreQuiet, StartsAwait, RuntimesAreOwned
    <3>10. Sound(host') /\ Follows(host, host')
      BY <3>6, <3>7, <3>9, FollowsOn
    <3>11. dialing' \subseteq Client \X Generation
      BY <1>1, <1>6, <2>2, <3>1 DEF AttachNext, Dial
    <3>12. UNCHANGED <<process, loaded, faults>>
      BY <1>6 DEF AttachNext
    <3> QED
      BY <3>10, <3>11, <3>12, HostStepKeeps
  <2>3. CASE ~Reachable(host, c)
    <3>1. host' = StartFails(host) /\ UNCHANGED <<process, dialing, loaded, faults>>
      BY <1>6, <2>3 DEF AttachNext
    <3>2. Sound(host') /\ Follows(host, host')
      BY <1>2, <2>1, <3>1
    <3> QED
      BY <1>1, <3>1, <3>2, HostStepKeeps
  <2> QED
    BY <2>2, <2>3
<1>7. ASSUME NEW c \in Client, Initialized(c)
      PROVE  IInv'
  <2>1. host.awaited = c /\ c # NoOne /\ UNCHANGED <<process, dialing, loaded, faults>>
    BY <1>7, OfficialAssumption DEF Initialized
  <2>2. host.starting = "clients"
    BY <1>1, <2>1 DEF Sound, StartsAwait
  <2> DEFINE s == [host EXCEPT !.awaited = NoOne, !.todo = @ \ {c}]
  <2>3. s \in HostType
    BY <1>1 DEF HostType
  <2>4. /\ s.phase = host.phase /\ s.live = host.live /\ s.request = host.request
        /\ s.backend = host.backend /\ s.generation = host.generation
        /\ s.starting = host.starting /\ s.awaited = NoOne
        /\ s.stopping = host.stopping /\ s.close = host.close /\ s.closed = host.closed
        /\ s.attached = host.attached /\ s.runtime = host.runtime /\ s.thread = host.thread
    BY <1>1 DEF HostType
  <2>5. host' = s \/ host' = StartFails(host)
    BY <1>7 DEF Initialized
  <2> HIDE DEF s
  <2>6. Sound(s) /\ Follows(host, s)
    BY <1>1, <2>3, <2>4
       DEF Sound, Follows, ClosesAreFinal, StopsAreQuiet, StartsAwait, RuntimesAreOwned
  <2>7. Sound(host') /\ Follows(host, host')
    BY <1>2, <2>2, <2>5, <2>6
  <2> QED
    BY <1>1, <2>1, <2>7, HostStepKeeps
<1> QED
  BY <1>3, <1>4, <1>5, <1>6, <1>7

\* A process that ends and is noticed keeps the invariant.
LEMMA ExitsKeep ==
    ASSUME IInv,
           \/ Killed \/ ExitSeen \/ StopGoesOn \/ StopFails
           \/ \E g \in Generation : Exits(g)
           \/ \E c \in Client : ConnectionLost(c)
    PROVE  IInv'
<1>1. Sound(host) /\ host \in HostType /\ dialing \subseteq Client \X Generation /\ faults \in Nat
  BY DEF IInv, TypeOK
<1>2. Follows(host, host)
  BY DEF Follows
<1>3. ASSUME Killed \/ \E g \in Generation : Exits(g)
      PROVE  IInv'
  <2>1. /\ host' = host /\ UNCHANGED <<dialing, loaded>>
        /\ \E g : process' = [process EXCEPT ![g] = "exited"]
        /\ faults' \in {faults, faults + 1}
    BY <1>3 DEF Killed, Exits
  <2>2. /\ process' \in [Generation -> {"none", "alive", "exited"}]
        /\ \A g \in Generation : process'[g] = "alive" => process[g] = "alive"
    BY <2>1 DEF IInv, TypeOK
  <2>3. faults' \in Nat
    BY <1>1, <2>1
  <2> QED
    BY <1>1, <1>2, <2>1, <2>2, <2>3, FollowingKeeps
<1>4. CASE ExitSeen
  <2> DEFINE s == [host EXCEPT !.noticed = host.backend]
  <2>1. SameOwner(host, s)
    BY <1>1 DEF SameOwner, HostType
  <2>2. host' = IF s.phase = "stopping" THEN s ELSE Stop(Unavailable(s))
    BY <1>4 DEF ExitSeen
  <2> HIDE DEF s
  <2>3. Sound(s) /\ Follows(host, s)
    BY <1>1, <2>1, SameOwnerIsSound
  <2>4. CASE s.phase = "stopping"
    BY <1>1, <1>4, <2>2, <2>3, <2>4, HostStepKeeps DEF ExitSeen
  <2>5. CASE s.phase # "stopping"
    <3>1. s.stopping # "process"
      BY <2>3, <2>5 DEF Sound, StopsAreQuiet
    <3>2. Sound(Unavailable(s)) /\ Follows(s, Unavailable(s))
      BY <2>3, <3>1, UnavailableIsSound
    <3>3. Sound(host') /\ Follows(Unavailable(s), host')
      BY <2>2, <2>5, <3>2, StopIsSound
    <3>4. Follows(host, host')
      BY <2>3, <3>2, <3>3, FollowsOn
    <3> QED
      BY <1>1, <1>4, <3>3, <3>4, HostStepKeeps DEF ExitSeen
  <2> QED
    BY <2>4, <2>5
<1>5. CASE StopGoesOn
  <2>1. Sound(host') /\ Follows(host, host')
    BY <1>1, <1>5, StopBeginsIsSound DEF StopGoesOn
  <2> QED
    BY <1>1, <1>5, <2>1, HostStepKeeps DEF StopGoesOn
<1>6. CASE StopFails
  <2> DEFINE s == Unavailable(host)
  <2>1. /\ host.stopping = "process" /\ host' = StopSettles(s, FALSE)
        /\ faults' = faults + 1 /\ UNCHANGED <<process, dialing, loaded>>
    BY <1>6 DEF StopFails
  <2>2. Retires(host, s, host.attached)
    BY <1>1, UnavailableRetires
  <2> HIDE DEF s
  <2>3. ClosesAreFinal(s) /\ StartsAwait(s)
    BY <1>1, <2>2 DEF Sound, Retires, ClosesAreFinal, StartsAwait
  <2>4. RuntimesAreOwned(s)
    BY <1>1, <2>2 DEF Sound, Retires, RuntimesAreOwned
  <2>5. Settles(s, host', FALSE)
    BY <2>1, <2>2, StopSettlesSettles DEF Retires
  <2>6. Sound(host') /\ Follows(s, host')
    BY <2>3, <2>4, <2>5, SettlesIsSound
  <2>7. Follows(host, host')
    BY <2>2, <2>6, RetiresFollows, FollowsOn
  <2> QED
    BY <1>1, <2>1, <2>6, <2>7, HostStepKeeps
<1>7. ASSUME NEW c \in Client, ConnectionLost(c)
      PROVE  IInv'
  <2> DEFINE s == Unavailable(host)
  <2>1. /\ host.phase # "stopping"
        /\ host' = IF host.gate THEN Stop(s) ELSE s
        /\ faults' \in {faults, faults + 1} /\ UNCHANGED <<process, dialing, loaded>>
    BY <1>7 DEF ConnectionLost
  <2>2. host.stopping # "process"
    BY <1>1, <2>1 DEF Sound, StopsAreQuiet
  <2>3. Sound(s) /\ Follows(host, s)
    BY <1>1, <2>2, UnavailableIsSound
  <2> HIDE DEF s
  <2>4. Sound(Stop(s)) /\ Follows(s, Stop(s))
    BY <2>3, StopIsSound
  <2>5. Sound(host') /\ Follows(host, host')
    BY <2>1, <2>3, <2>4, FollowsOn
  <2> QED
    BY <1>1, <2>1, <2>5, HostStepKeeps
<1> QED
  BY <1>3, <1>4, <1>5, <1>6, <1>7

\* The owner gives its process up only once the exit is proved.
LEMMA StopDoneKeeps ==
    ASSUME IInv, StopDone
    PROVE  IInv'
<1> DEFINE kept(f) == [c \in Client |-> IF c \in host.attached THEN 0 ELSE f[c]]
           s == Disowned(host)
<1>1. Sound(host) /\ host \in HostType /\ TypeOK
  BY DEF IInv, TypeOK
<1>2. /\ host.stopping = "process" /\ process[host.backend] = "exited"
      /\ host' = StopSettles(s, TRUE) /\ UNCHANGED <<process, dialing, loaded, faults>>
  BY DEF StopDone
<1>3. s \in HostType
  <2>1. 0 \in Number
    BY OfficialAssumption DEF Number
  <2>2. kept(host.runtime) \in [Client -> Number] /\ kept(host.connecting) \in [Client -> Number]
    BY <1>1, <2>1 DEF HostType
  <2>3. s = [host EXCEPT !.backend = 0, !.phase = "stopped",
                         !.runtime = kept(host.runtime), !.connecting = kept(host.connecting)]
    BY DEF Disowned
  <2> HIDE DEF kept, s
  <2>4. \A f \in [Client -> Number], k \in [Client -> Number] :
            [host EXCEPT !.backend = 0, !.phase = "stopped",
                         !.runtime = f, !.connecting = k] \in HostType
    BY <1>1, <2>1 DEF HostType
  <2> QED
    BY <2>2, <2>3, <2>4
<1>4. /\ s.backend = 0 /\ s.generation = host.generation /\ s.live = host.live
      /\ s.starting = host.starting /\ s.awaited = host.awaited /\ s.todo = host.todo
      /\ s.stopping = host.stopping /\ s.close = host.close /\ s.closed = host.closed
      /\ s.thread = host.thread /\ s.request = host.request
  BY <1>1 DEF Disowned, HostType
<1> HIDE DEF s
<1>5. host.starting = "none" /\ host.live = {}
  BY <1>1, <1>2 DEF Sound, StopsAreQuiet
<1>6. ClosesAreFinal(s) /\ StartsAwait(s) /\ RuntimesAreOwned(s)
  BY <1>1, <1>4, <1>5 DEF Sound, ClosesAreFinal, StartsAwait, RuntimesAreOwned
<1>7. Settles(s, host', TRUE)
  BY <1>2, <1>3, StopSettlesSettles
<1>8. Sound(host') /\ Follows(s, host')
  BY <1>4, <1>6, <1>7, SettlesIsSound
<1>9. TypeOK'
  BY <1>1, <1>2, <1>8 DEF TypeOK, Sound
<1>10. OneAlive'
  BY <1>1, <1>2 DEF IInv, OneAlive
<1>11. host'.backend = 0 /\ host'.generation = host.generation /\ host'.thread = host.thread
  BY <1>4, <1>8 DEF Follows
<1>12. ThreadsAreLoaded'
  <2>1. host.generation \in Nat
    BY <1>1, OfficialAssumption DEF HostType, Number
  <2> QED
    BY <1>11, <2>1 DEF IInv, ThreadsAreLoaded
<1>13. SubscribedTurns'
  <2>1. host'.request = host.request
    BY <1>4, <1>7 DEF Settles
  <2> QED
    BY <1>2, <1>11, <2>1 DEF IInv, SubscribedTurns
<1> QED
  BY <1>8, <1>9, <1>10, <1>12, <1>13 DEF IInv

\* A client that comes or goes keeps the invariant.
LEMMA AttachmentsKeep ==
    ASSUME IInv, NEW c \in Client, Attach(c) \/ Detach(c)
    PROVE  IInv'
<1>1. Sound(host) /\ host \in HostType /\ dialing \subseteq Client \X Generation /\ faults \in Nat
  BY DEF IInv, TypeOK
<1>2. CASE Attach(c)
  <2>1. host' = [host EXCEPT !.attached = @ \cup {c}]
    BY <1>2 DEF Attach
  <2>2. host' \in HostType
    BY <1>1, <2>1 DEF HostType
  <2>3. /\ host'.phase = host.phase /\ host'.live = host.live /\ host'.request = host.request
        /\ host'.backend = host.backend /\ host'.generation = host.generation
        /\ host'.starting = host.starting /\ host'.todo = host.todo
        /\ host'.awaited = host.awaited /\ host'.stopping = host.stopping
        /\ host'.close = host.close /\ host'.closed = host.closed
        /\ host'.attached = host.attached \cup {c} /\ host'.runtime = host.runtime
        /\ host'.thread = host.thread
    BY <1>1, <2>1 DEF HostType
  <2>4. Sound(host') /\ Follows(host, host')
    BY <1>1, <2>2, <2>3
       DEF Sound, Follows, ClosesAreFinal, StopsAreQuiet, StartsAwait, RuntimesAreOwned
  <2> QED
    BY <1>1, <1>2, <2>4, HostStepKeeps DEF Attach
<1>3. CASE Detach(c)
  <2> DEFINE s == Retire(host, {c})
             t == [s EXCEPT !.attached = @ \ {c}, !.gone = @ \cup {c}]
  <2>1. Retires(host, s, {c}) /\ s.phase = host.phase
    BY <1>1, RetireRetires
  <2>2. s \in HostType
    BY <2>1 DEF Retires
  <2>3. host' = t
    BY <1>3 DEF Detach
  <2> HIDE DEF s
  <2>4. t \in HostType
    BY <2>2 DEF HostType
  <2>5. /\ t.phase = s.phase /\ t.live = s.live /\ t.request = s.request
        /\ t.backend = s.backend /\ t.generation = s.generation
        /\ t.starting = s.starting /\ t.todo = s.todo /\ t.awaited = s.awaited
        /\ t.stopping = s.stopping /\ t.close = s.close /\ t.closed = s.closed
        /\ t.attached = s.attached \ {c} /\ t.runtime = s.runtime /\ t.thread = s.thread
    BY <2>2 DEF HostType
  <2> HIDE DEF t
  <2>6. ClosesAreFinal(t) /\ StopsAreQuiet(t) /\ StartsAwait(t)
    BY <1>1, <2>1, <2>5
       DEF Sound, Retires, ClosesAreFinal, StopsAreQuiet, StartsAwait
  <2>7. RuntimesAreOwned(t)
    BY <1>1, <2>1, <2>5 DEF Sound, Retires, RuntimesAreOwned
  <2>8. Follows(host, t)
    BY <2>1, <2>5 DEF Retires, Follows
  <2>9. Sound(host') /\ Follows(host, host')
    BY <2>3, <2>4, <2>6, <2>7, <2>8 DEF Sound
  <2> QED
    BY <1>1, <1>3, <2>9, HostStepKeeps DEF Detach
<1> QED
  BY <1>2, <1>3

\* A step that serves requests: of the owner's fields it changes the runtimes
\* and the subscriptions.
SameStarts(h, s) ==
    /\ s \in HostType
    /\ s.phase = h.phase /\ s.backend = h.backend /\ s.generation = h.generation
    /\ s.starting = h.starting /\ s.todo = h.todo /\ s.awaited = h.awaited
    /\ s.stopping = h.stopping /\ s.close = h.close /\ s.closed = h.closed
    /\ s.attached = h.attached

\* Such a step keeps the invariant if what then waits, waits for a runtime of
\* the generation owned, and what is sent reaches a loaded Thread.
LEMMA ServingKeeps ==
    ASSUME IInv, SameStarts(host, host'), host'.live = {} \/ host.stopping # "process",
           RuntimesAreOwned(host'), ThreadsAreLoaded', SubscribedTurns',
           process' = process, loaded' \subseteq Client,
           dialing' \subseteq Client \X Generation, faults' \in {faults, faults + 1}
    PROVE  IInv'
<1>1. ClosesAreFinal(host') /\ StopsAreQuiet(host') /\ StartsAwait(host')
  BY DEF IInv, Sound, SameStarts, ClosesAreFinal, StopsAreQuiet, StartsAwait
<1>2. Sound(host')
  BY <1>1 DEF Sound, SameStarts
<1>3. TypeOK'
  BY DEF IInv, TypeOK, SameStarts
<1>4. OneAlive'
  BY DEF IInv, OneAlive, SameStarts
<1> QED
  BY <1>2, <1>3, <1>4 DEF IInv

\* A request that goes on with a connection waits for a runtime that lives,
\* and a Turn that is sent needs no restore.
LEMMA ForwardFacts ==
    ASSUME NEW h \in HostType, NEW q \in RequestType, NEW f, f = Forward(h, q)
    PROVE  /\ f \in RequestType
           /\ Pending(f) => f.client = q.client /\ q.client \in h.live
           /\ f.pc = "sent" /\ f.turn => h.thread[q.client] \in {0, h.runtime[q.client]}
<1>1. CASE q.client \notin h.live
  BY <1>1, NoRequestIsIdle DEF Forward, Pending, NoRequest
<1>2. CASE q.client \in h.live
  <2> DEFINE old == q.turn /\ h.thread[q.client] \notin {0, h.runtime[q.client]}
  <2>1. f = [q EXCEPT !.pc = IF old THEN "restoring" ELSE "sent"]
    BY <1>2 DEF Forward
  <2>2. f.client = q.client /\ f.turn = q.turn /\ f.pc = IF old THEN "restoring" ELSE "sent"
    BY <2>1 DEF RequestType
  <2>3. f \in RequestType
    BY <2>1 DEF RequestType
  <2> QED
    BY <1>2, <2>2, <2>3
<1> QED
  BY <1>1, <1>2

\* A request that is admitted keeps the invariant.
LEMMA AdmitKeeps ==
    ASSUME IInv, NEW r \in Request, NEW c \in Client, NEW turn \in BOOLEAN, Admit(r, c, turn)
    PROVE  IInv'
<1> DEFINE q == [pc |-> "connecting", client |-> c, turn |-> turn]
           s == Dialed(host, c)
           f == IF host.runtime[c] # 0 THEN Forward(host, q) ELSE q
           t == [s EXCEPT !.request[r] = f]
<1>1. TypeOK /\ Sound(host) /\ host \in HostType
  BY DEF IInv, TypeOK
<1>2. /\ Reachable(host, c) /\ host' = t /\ dialing' = dialing \cup Dial(host, c)
      /\ UNCHANGED <<process, loaded, faults>>
  BY DEF Admit
<1>3. host.backend \in Generation /\ host.phase # "stopping"
  BY <1>1, <1>2, OfficialAssumption DEF Reachable, Running, HostType, Number, Generation
<1>4. SameOwner(host, s)
  BY <1>1, DialedIsQuiet
<1>5. q \in RequestType /\ q.client = c /\ q.pc = "connecting"
  BY DEF RequestType
<1> HIDE DEF q
<1>6. /\ f \in RequestType
      /\ Pending(f) => f.client = c /\ c \in host.live
      /\ f.pc = "sent" /\ f.turn => host.thread[c] \in {0, host.runtime[c]}
  <2>1. CASE host.runtime[c] # 0
    BY <1>1, <1>5, <2>1, ForwardFacts
  <2>2. CASE host.runtime[c] = 0
    BY <1>5, <2>2 DEF Pending
  <2> QED
    BY <2>1, <2>2
<1> HIDE DEF f
<1>7. s \in HostType /\ s.request \in [Request -> RequestType]
  BY <1>4 DEF SameOwner, HostType
<1> HIDE DEF s
<1>8. \A k \in [Request -> RequestType] : [s EXCEPT !.request = k] \in HostType
  BY <1>7 DEF HostType
<1>9. /\ t = [s EXCEPT !.request = [s.request EXCEPT ![r] = f]]
      /\ [s.request EXCEPT ![r] = f] \in [Request -> RequestType]
  BY <1>6, <1>7 DEF HostType
<1>10. t \in HostType
  BY <1>8, <1>9
<1>11. /\ t.phase = s.phase /\ t.backend = s.backend /\ t.generation = s.generation
       /\ t.starting = s.starting /\ t.todo = s.todo /\ t.awaited = s.awaited
       /\ t.stopping = s.stopping /\ t.close = s.close /\ t.closed = s.closed
       /\ t.attached = s.attached /\ t.runtime = s.runtime /\ t.live = s.live
       /\ t.thread = s.thread /\ t.request = [s.request EXCEPT ![r] = f]
  BY <1>7 DEF HostType
<1> HIDE DEF t
<1>12. SameStarts(host, host')
  BY <1>2, <1>4, <1>10, <1>11 DEF SameStarts, SameOwner
<1>13. /\ host'.runtime = host.runtime /\ host'.live = host.live /\ host'.thread = host.thread
       /\ host'.backend = host.backend /\ host'.generation = host.generation
       /\ host'.attached = host.attached /\ host'.request[r] = f
       /\ \A o \in Request : o # r => host'.request[o] = host.request[o]
  BY <1>2, <1>4, <1>7, <1>11 DEF SameOwner
<1>14. RuntimesAreOwned(host')
  BY <1>1, <1>6, <1>13 DEF Sound, RuntimesAreOwned
<1>15. ThreadsAreLoaded'
  BY <1>2, <1>13 DEF IInv, ThreadsAreLoaded
<1>16. SubscribedTurns'
  <2>1. ASSUME f.pc = "sent", f.turn, host.thread[f.client] # 0
        PROVE  f.client \in loaded
    <3>1. f.client = c /\ c \in host.live
      BY <1>6, <2>1 DEF Pending
    <3>2. host.thread[c] = host.backend /\ host.backend # 0
      BY <1>1, <1>6, <2>1, <3>1 DEF Sound, RuntimesAreOwned
    <3> QED
      BY <3>1, <3>2 DEF IInv, ThreadsAreLoaded
  <2> QED
    BY <1>2, <1>13, <2>1 DEF IInv, SubscribedTurns
<1>17. host.stopping # "process"
  BY <1>1, <1>3 DEF Sound, StopsAreQuiet
<1>18. dialing' \subseteq Client \X Generation
  BY <1>1, <1>2, <1>3 DEF TypeOK, Dial
<1>19. loaded' \subseteq Client
  BY <1>1, <1>2 DEF TypeOK
<1> QED
  BY <1>2, <1>12, <1>14, <1>15, <1>16, <1>17, <1>18, <1>19, ServingKeeps

\* A restore that is answered keeps the invariant: it leaves a subscription to
\* the process that has just loaded the Thread.
LEMMA RestoredKeeps ==
    ASSUME IInv, NEW c \in Client, NEW ok \in BOOLEAN, Restored(c, ok)
    PROVE  IInv'
<1> DEFINE joined == {r \in Request : host.request[r].pc = "restoring"
                                         /\ host.request[r].client = c}
           g == IF ok THEN host.runtime[c] ELSE host.thread[c]
           k == [r \in Request |->
                   IF r \notin joined THEN host.request[r]
                   ELSE IF ok THEN [host.request[r] EXCEPT !.pc = "sent"] ELSE NoRequest]
           d == [host.thread EXCEPT ![c] = g]
<1>1. TypeOK /\ Sound(host) /\ host \in HostType
  BY DEF IInv, TypeOK
<1>2. /\ joined # {}
      /\ host' = [host EXCEPT !.thread[c] = IF ok THEN host.runtime[c] ELSE @, !.request = k]
      /\ loaded' = IF ok THEN loaded \cup {c} ELSE loaded
      /\ UNCHANGED <<process, dialing, faults>>
  BY DEF Restored
<1>3. host' = [host EXCEPT !.thread = d, !.request = k]
  BY <1>1, <1>2 DEF HostType
<1>4. c \in host.live /\ host.runtime[c] = host.backend /\ host.backend # 0
  BY <1>1, <1>2 DEF Sound, RuntimesAreOwned, Pending
<1>5. \A r \in Request :
        /\ k[r] \in RequestType
        /\ k[r] = host.request[r] \/ k[r] = NoRequest
             \/ (ok /\ k[r].client = c /\ host.request[r].client = c)
  BY <1>1, NoRequestIsIdle DEF HostType, RequestType
<1> HIDE DEF joined
<1>6. k \in [Request -> RequestType]
  BY <1>5
<1>7. /\ d \in [Client -> Number]
      /\ d[c] = g
      /\ \A o \in Client : o # c => d[o] = host.thread[o]
  BY <1>1 DEF HostType
<1> HIDE DEF k, d, g
<1>8. host' \in HostType
  BY <1>1, <1>3, <1>6, <1>7 DEF HostType
<1>9. /\ host'.phase = host.phase /\ host'.backend = host.backend
      /\ host'.generation = host.generation
      /\ host'.starting = host.starting /\ host'.todo = host.todo
      /\ host'.awaited = host.awaited /\ host'.stopping = host.stopping
      /\ host'.close = host.close /\ host'.closed = host.closed
      /\ host'.attached = host.attached /\ host'.runtime = host.runtime
      /\ host'.live = host.live /\ host'.thread = d /\ host'.request = k
  BY <1>1, <1>3 DEF HostType
<1>10. SameStarts(host, host')
  BY <1>8, <1>9 DEF SameStarts
<1>11. RuntimesAreOwned(host')
  BY <1>1, <1>4, <1>5, <1>9, NoRequestIsIdle DEF Sound, RuntimesAreOwned
<1>12. g = IF ok THEN host.backend ELSE host.thread[c]
  BY <1>4 DEF g
<1>13. ThreadsAreLoaded'
  BY <1>2, <1>7, <1>9, <1>12 DEF IInv, ThreadsAreLoaded
<1>14. SubscribedTurns'
  BY <1>2, <1>5, <1>7, <1>9, <1>12 DEF IInv, SubscribedTurns, NoRequest
<1>15. host.stopping # "process"
  BY <1>1, <1>4 DEF Sound, StopsAreQuiet
<1> QED
  BY <1>1, <1>2, <1>10, <1>11, <1>13, <1>14, <1>15, ServingKeeps DEF TypeOK

\* An answer keeps the invariant: a thread/start that succeeds subscribes to
\* the process that answered.
LEMMA AnsweredKeeps ==
    ASSUME IInv, NEW r \in Request, NEW ok \in BOOLEAN, Answered(r, ok)
    PROVE  IInv'
<1> DEFINE q == host.request[r]
           started == ok /\ ~q.turn
           c == q.client
           g == IF started THEN host.generation ELSE host.thread[c]
           k == [host.request EXCEPT ![r] = NoRequest]
           d == [host.thread EXCEPT ![c] = g]
<1>1. TypeOK /\ Sound(host) /\ host \in HostType
  BY DEF IInv, TypeOK
<1>2. /\ q.pc = "sent"
      /\ host' = [host EXCEPT !.request[r] = NoRequest,
                              !.thread[c] = IF started THEN host.generation ELSE @]
      /\ loaded' = IF started THEN loaded \cup {c} ELSE loaded
      /\ UNCHANGED <<process, dialing, faults>>
  BY DEF Answered
<1>3. host' = [host EXCEPT !.request = k, !.thread = d]
  BY <1>1, <1>2 DEF HostType
<1>4. c \in host.live /\ c \in Client
  BY <1>1, <1>2 DEF Sound, RuntimesAreOwned, Pending, HostType
<1>5. /\ k \in [Request -> RequestType] /\ k[r] = NoRequest
      /\ \A o \in Request : o # r => k[o] = host.request[o]
  BY <1>1, NoRequestIsIdle DEF HostType
<1>6. /\ d \in [Client -> Number] /\ d[c] = g
      /\ \A o \in Client : o # c => d[o] = host.thread[o]
  BY <1>1, <1>4 DEF HostType
<1>7. g = host.thread[c] \/ (g = host.generation /\ c \in loaded')
  BY <1>2
<1>8. loaded \subseteq loaded' /\ loaded' \subseteq Client
  BY <1>1, <1>2, <1>4 DEF TypeOK
<1> HIDE DEF k, d, g, c, started, q
<1>9. host' \in HostType
  BY <1>1, <1>3, <1>5, <1>6 DEF HostType
<1>10. /\ host'.phase = host.phase /\ host'.backend = host.backend
       /\ host'.generation = host.generation
       /\ host'.starting = host.starting /\ host'.todo = host.todo
       /\ host'.awaited = host.awaited /\ host'.stopping = host.stopping
       /\ host'.close = host.close /\ host'.closed = host.closed
       /\ host'.attached = host.attached /\ host'.runtime = host.runtime
       /\ host'.live = host.live /\ host'.thread = d /\ host'.request = k
  BY <1>1, <1>3 DEF HostType
<1>11. SameStarts(host, host')
  BY <1>9, <1>10 DEF SameStarts
<1>12. RuntimesAreOwned(host')
  BY <1>1, <1>5, <1>10, NoRequestIsIdle DEF Sound, RuntimesAreOwned
<1>13. ThreadsAreLoaded'
  <2>1. host.generation <= host.generation
    BY <1>1, OfficialAssumption DEF HostType, Number
  <2> QED
    BY <1>6, <1>7, <1>8, <1>10, <2>1 DEF IInv, ThreadsAreLoaded
<1>14. SubscribedTurns'
  <2> SUFFICES ASSUME NEW o \in Request, k[o].pc = "sent", k[o].turn, d[k[o].client] # 0
               PROVE  k[o].client \in loaded'
    BY <1>10 DEF SubscribedTurns
  <2>1. o # r /\ k[o] = host.request[o]
    BY <1>5 DEF NoRequest
  <2>2. k[o].client \in Client
    BY <1>1, <2>1 DEF Sound, RuntimesAreOwned, Pending, HostType
  <2>3. CASE k[o].client = c
    BY <1>6, <1>7, <1>8, <2>1, <2>3 DEF IInv, SubscribedTurns
  <2>4. CASE k[o].client # c
    BY <1>6, <1>8, <2>1, <2>2, <2>4 DEF IInv, SubscribedTurns
  <2> QED
    BY <2>3, <2>4
<1>15. host.stopping # "process"
  BY <1>1, <1>4 DEF Sound, StopsAreQuiet
<1>16. dialing' \subseteq Client \X Generation
  BY <1>1, <1>2 DEF TypeOK
<1> QED
  BY <1>2, <1>8, <1>11, <1>12, <1>13, <1>14, <1>15, <1>16, ServingKeeps

\* A connect that settles keeps the invariant: its runtime is of the generation
\* owned, or what waits for it fails.
LEMMA ConnectSettlesKeeps ==
    ASSUME IInv, NEW c \in Client, NEW g \in Generation, ConnectSettles(c, g)
    PROVE  IInv'
<1> DEFINE n == IF host.connecting[c] = g THEN 0 ELSE host.connecting[c]
           h == [host EXCEPT !.connecting[c] = IF @ = g THEN 0 ELSE @]
<1>1. TypeOK /\ Sound(host) /\ host \in HostType
  BY DEF IInv, TypeOK
<1>2. g \in Number /\ g # 0
  BY OfficialAssumption DEF Number, Generation
<1>3. SameOwner(host, h)
  <2>1. [host.connecting EXCEPT ![c] = n] \in [Client -> Number]
    BY <1>1, <1>2, OfficialAssumption DEF HostType, Number
  <2>2. h = [host EXCEPT !.connecting = [host.connecting EXCEPT ![c] = n]]
    BY <1>1 DEF HostType
  <2>3. \A f \in [Client -> Number] : SameOwner(host, [host EXCEPT !.connecting = f])
    BY <1>1 DEF SameOwner, HostType
  <2> HIDE DEF n, h
  <2> QED
    BY <2>1, <2>2, <2>3
<1>4. h \in HostType /\ Sound(h) /\ Follows(host, h)
  BY <1>1, <1>3, SameOwnerIsSound DEF SameOwner
<1>5. /\ dialing' \subseteq Client \X Generation
      /\ faults' \in {faults, faults + 1}
      /\ UNCHANGED <<process, loaded>>
  BY <1>1 DEF ConnectSettles, TypeOK
<1> DEFINE u == [h EXCEPT !.runtime[c] = g, !.live = @ \cup {c}]
           k == [r \in Request |-> IF r \in Waiting(u, c) THEN Forward(u, u.request[r])
                                                       ELSE u.request[r]]
           v == [h EXCEPT !.request = [r \in Request |->
                   IF r \in Waiting(h, c) THEN NoRequest ELSE h.request[r]]]
<1>6. \/ Usable(h, c, g) /\ host' = [u EXCEPT !.request = k]
      \/ host' = IF host.awaited = c /\ host.connecting[c] = g THEN StartFails(v) ELSE v
  BY DEF ConnectSettles
<1>7. CASE host' = IF host.awaited = c /\ host.connecting[c] = g THEN StartFails(v) ELSE v
  <2> DEFINE e == [r \in Request |-> IF r \in Waiting(h, c) THEN NoRequest ELSE h.request[r]]
  <2>1. v = [h EXCEPT !.request = e]
    OBVIOUS
  <2>2. /\ e \in [Request -> RequestType]
        /\ \A r \in Request : e[r] \in {h.request[r], NoRequest}
    BY <1>4, NoRequestIsIdle DEF HostType
  <2> HIDE DEF h, v, e
  <2>3. v \in HostType
    BY <1>4, <2>1, <2>2 DEF HostType
  <2>4. /\ v.phase = h.phase /\ v.live = h.live /\ v.request = e
        /\ v.backend = h.backend /\ v.generation = h.generation
        /\ v.starting = h.starting /\ v.todo = h.todo /\ v.awaited = h.awaited
        /\ v.stopping = h.stopping /\ v.close = h.close /\ v.closed = h.closed
        /\ v.attached = h.attached /\ v.runtime = h.runtime /\ v.thread = h.thread
    BY <1>4, <2>1 DEF HostType
  <2>5. ClosesAreFinal(v) /\ StopsAreQuiet(v) /\ StartsAwait(v)
    BY <1>4, <2>4 DEF Sound, ClosesAreFinal, StopsAreQuiet, StartsAwait
  <2>6. RuntimesAreOwned(v)
    BY <1>4, <2>2, <2>4, NoRequestIsIdle DEF Sound, RuntimesAreOwned
  <2>7. Sound(v) /\ Follows(host, v)
    <3>1. Follows(h, v)
      BY <2>2, <2>4 DEF Follows
    <3> QED
      BY <1>4, <2>3, <2>5, <2>6, <3>1, FollowsOn DEF Sound
  <2>8. host.awaited = c => v.starting # "none"
    BY <1>1, <1>3, <2>4, OfficialAssumption DEF Sound, StartsAwait, SameOwner
  <2>9. host.awaited = c => Sound(StartFails(v)) /\ Follows(v, StartFails(v))
    BY <2>7, <2>8, StartFailsIsSound
  <2>10. Sound(host') /\ Follows(host, host')
    BY <1>7, <2>7, <2>9, FollowsOn
  <2> QED
    BY <1>5, <2>10, HostStepKeeps
<1>8. CASE Usable(h, c, g) /\ host' = [u EXCEPT !.request = k]
  <2> DEFINE e == [h.runtime EXCEPT ![c] = g]
  <2>1. c \in h.attached /\ h.backend = g /\ h.phase # "stopping"
    BY <1>8 DEF Usable, Running
  <2> HIDE DEF h
  <2>2. u = [h EXCEPT !.runtime = e, !.live = h.live \cup {c}]
    BY <1>4 DEF HostType
  <2>3. /\ e \in [Client -> Number] /\ e[c] = g
        /\ \A o \in Client : o # c => e[o] = h.runtime[o]
    BY <1>2, <1>4 DEF HostType
  <2> HIDE DEF e, u
  <2>4. u \in HostType
    BY <1>4, <2>2, <2>3 DEF HostType
  <2>5. /\ u.phase = h.phase /\ u.live = h.live \cup {c} /\ u.request = h.request
        /\ u.backend = h.backend /\ u.generation = h.generation
        /\ u.starting = h.starting /\ u.todo = h.todo /\ u.awaited = h.awaited
        /\ u.stopping = h.stopping /\ u.close = h.close /\ u.closed = h.closed
        /\ u.attached = h.attached /\ u.runtime = e /\ u.thread = h.thread
    BY <1>4, <2>2 DEF HostType
  <2>6. \A r \in Request :
          \/ k[r] = h.request[r]
          \/ /\ k[r] \in RequestType
             /\ Pending(k[r]) => k[r].client = c
             /\ k[r].pc = "sent" /\ k[r].turn => h.thread[c] \in {0, g}
    <3> SUFFICES ASSUME NEW r \in Request, r \in Waiting(u, c)
                 PROVE  /\ k[r] \in RequestType
                        /\ Pending(k[r]) => k[r].client = c
                        /\ k[r].pc = "sent" /\ k[r].turn => h.thread[c] \in {0, g}
      BY <2>5
    <3>1. u.request[r] \in RequestType /\ u.request[r].client = c
      BY <2>4 DEF HostType, Waiting
    <3>2. k[r] = Forward(u, u.request[r])
      OBVIOUS
    <3> HIDE DEF k
    <3> QED
      BY <2>3, <2>4, <2>5, <3>1, <3>2, ForwardFacts
  <2>7. k \in [Request -> RequestType]
    <3>1. \A r \in Request : k[r] \in RequestType
      BY <1>4, <2>6 DEF HostType
    <3>2. k = [r \in Request |-> k[r]]
      OBVIOUS
    <3> HIDE DEF k
    <3> QED
      BY <3>1, <3>2
  <2> HIDE DEF k
  <2>8. host' \in HostType
    BY <1>8, <2>4, <2>7 DEF HostType
  <2>9. /\ host'.phase = u.phase /\ host'.backend = u.backend
        /\ host'.generation = u.generation
        /\ host'.starting = u.starting /\ host'.todo = u.todo
        /\ host'.awaited = u.awaited /\ host'.stopping = u.stopping
        /\ host'.close = u.close /\ host'.closed = u.closed
        /\ host'.attached = u.attached /\ host'.runtime = u.runtime
        /\ host'.live = u.live /\ host'.thread = u.thread /\ host'.request = k
    BY <1>8, <2>4 DEF HostType
  <2>10. SameStarts(host, host')
    BY <1>3, <2>5, <2>8, <2>9 DEF SameStarts, SameOwner
  <2>11. /\ host'.attached = h.attached /\ host'.runtime = e /\ host'.live = h.live \cup {c}
         /\ host'.thread = h.thread /\ host'.backend = g /\ h.backend = g
         /\ host'.generation = h.generation /\ host'.request = k
    BY <2>1, <2>5, <2>9
  <2>12. h.live \subseteq Client
    BY <1>4 DEF HostType
  <2>13. RuntimesAreOwned(host')
    <3>1. \A o \in host'.live : o \in host'.attached /\ host'.backend # 0
                                  /\ host'.runtime[o] = host'.backend
      BY <1>2, <1>4, <2>1, <2>3, <2>11, <2>12 DEF Sound, RuntimesAreOwned
    <3>2. \A r \in Request : Pending(host'.request[r]) => host'.request[r].client \in host'.live
      BY <1>4, <2>6, <2>11 DEF Sound, RuntimesAreOwned
    <3> QED
      BY <3>1, <3>2 DEF RuntimesAreOwned
  <2>14. host.thread = h.thread /\ host.backend = g /\ host.request = h.request
         /\ host.generation = h.generation /\ host.phase = h.phase
    BY <1>3, <2>1 DEF SameOwner
  <2>15. ThreadsAreLoaded'
    BY <1>5, <2>11, <2>14 DEF IInv, ThreadsAreLoaded
  <2>16. SubscribedTurns'
    <3> SUFFICES ASSUME NEW r \in Request, k[r].pc = "sent", k[r].turn,
                        h.thread[k[r].client] # 0
                 PROVE  k[r].client \in loaded
      BY <1>5, <2>11 DEF SubscribedTurns
    <3>1. CASE k[r] = h.request[r]
      BY <2>14, <3>1 DEF IInv, SubscribedTurns
    <3>2. CASE k[r] # h.request[r]
      <4>1. k[r].client = c /\ h.thread[c] = g
        BY <2>6, <3>2 DEF Pending
      <4> QED
        BY <1>2, <2>14, <4>1 DEF IInv, ThreadsAreLoaded
    <3> QED
      BY <3>1, <3>2
  <2>17. host.stopping # "process"
    BY <1>1, <2>1, <2>14 DEF Sound, StopsAreQuiet
  <2>18. loaded' \subseteq Client /\ process' = process
    BY <1>1, <1>5 DEF TypeOK
  <2> QED
    BY <1>5, <2>10, <2>13, <2>15, <2>16, <2>17, <2>18, ServingKeeps
<1> QED
  BY <1>6, <1>7, <1>8

\* Every step keeps the invariant.
LEMMA NextKeeps == IInv /\ [Next]_vars => IInv'
<1> SUFFICES ASSUME IInv, [Next]_vars PROVE IInv'
  OBVIOUS
<1>1. CASE UNCHANGED vars
  <2>1. UNCHANGED <<host, process, dialing, loaded, faults>>
    BY <1>1 DEF vars
  <2>2. Follows(host, host')
    BY <2>1 DEF Follows
  <2>3. Sound(host')
    BY <2>1 DEF IInv
  <2> QED
    BY <2>1, <2>2, <2>3, HostStepKeeps DEF IInv, TypeOK
<1>2. CASE Next
  BY <1>2, ScopeKeeps, OwnerStartsKeeps, StartKeeps, ExitsKeep, StopDoneKeeps, AttachmentsKeep,
     AdmitKeeps, ConnectSettlesKeeps, RestoredKeeps, AnsweredKeeps DEF Next
<1> QED
  BY <1>1, <1>2

\* The invariant holds in every reachable state.
LEMMA InvariantHolds == Spec => []IInv
BY InitHolds, NextKeeps, PTL DEF Spec

\* For any clients and requests, and any number of generations and faults: the
\* only Codex process that lives is the one the owner holds, and none does
\* once the scope has been closed.
THEOREM OneProcessLives == Spec => []OneProcess
<1>1. IInv => OneProcess
  BY DEF IInv, Sound, OneAlive, ClosesAreFinal, OneProcess
<1> QED
  BY <1>1, InvariantHolds, PTL

\* No request ever waits for an answer of a connection that was retired or of
\* another generation than the one the owner holds.
THEOREM NothingWaitsOnTheRetired == Spec => []WaitsOnTheLiving
<1>1. IInv => WaitsOnTheLiving
  BY DEF IInv, Sound, RuntimesAreOwned, Pending, WaitsOnTheLiving
<1> QED
  BY <1>1, InvariantHolds, PTL

\* A Turn of a Thread its client subscribed to is only ever sent to a process
\* that has loaded the Thread.
THEOREM TurnsReachTheirThread == Spec => []SubscribedTurns
<1>1. IInv => SubscribedTurns
  BY DEF IInv
<1> QED
  BY <1>1, InvariantHolds, PTL

=============================================================================
