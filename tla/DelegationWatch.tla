--------------------------- MODULE DelegationWatch ---------------------------
(***************************************************************************)
(* One-shot notifications when a watched Thread stops: the                 *)
(* DelegationWatchService of packages/host-runtime/src/delegation-watch.ts *)
(* with the Threads it reads and sends to.                                 *)
(*                                                                         *)
(* A watch is named by the call that registered it.  The service polls: a  *)
(* tick reads every watched Thread and then sends what is due, one awaited *)
(* call after the other, while further watches are registered, Turns start *)
(* and end, Threads are deleted and deadlines pass.  The trim of what could*)
(* not be delivered and the text of a notification are left out.           *)
(***************************************************************************)
EXTENDS Naturals, FiniteSets

CONSTANTS Call, Watched, Subscriber, NoOne,
          MaxTurns       \* Turns that start in a Thread besides notifications

ASSUME WatchAssumption ==
    /\ Watched \cap Subscriber = {} /\ NoOne \notin Watched \cup Subscriber \cup Call
    /\ MaxTurns \in Nat

Thread == Watched \cup Subscriber

VARIABLES
    thread,    \* status of each Thread: running, stopped, gone
    turns,     \* Turns started in it by others
    call,      \* the watch call: where it is, its Threads and what it read
    watch,     \* #watches: the state of the watch of each call
    late,      \* the watches whose deadline has passed, then whose delivery has
    failing,   \* watches whose last read failed
    tick,      \* what the service is doing
    closed,
    notified   \* the notification Turns started for each watch

vars == <<thread, turns, call, watch, late, failing, tick, closed, notified>>
service == <<watch, late, failing, tick>>

NoCall == [pc |-> "idle", target |-> NoOne, notify |-> NoOne, terminal |-> FALSE]
Off == [pc |-> "off", todo |-> {}, at |-> NoOne, read |-> "none", pending |-> {}]

Init ==
    /\ thread \in [Thread -> {"running", "stopped"}]
    /\ turns = [t \in Thread |-> 0]
    /\ call = [c \in Call |-> NoCall]
    /\ watch = [c \in Call |-> "none"]
    /\ late = {} /\ failing = {}
    /\ tick = Off
    /\ closed = FALSE
    /\ notified = [c \in Call |-> 0]

In(state) == {c \in Call : watch[c] = state}

-----------------------------------------------------------------------------
(* Threads and time *)

TurnStarts(t) ==
    /\ thread[t] = "stopped" /\ turns[t] < MaxTurns
    /\ thread' = [thread EXCEPT ![t] = "running"]
    /\ turns' = [turns EXCEPT ![t] = @ + 1]
    /\ UNCHANGED <<call, service, closed, notified>>

TurnEnds(t) ==
    /\ thread[t] = "running"
    /\ thread' = [thread EXCEPT ![t] = "stopped"]
    /\ UNCHANGED <<turns, call, service, closed, notified>>

ThreadDeleted(t) ==
    /\ thread[t] # "gone"
    /\ thread' = [thread EXCEPT ![t] = "gone"]
    /\ UNCHANGED <<turns, call, service, closed, notified>>

\* The deadline of a watch, or of a notification, passes.
DeadlinePasses(c) ==
    /\ watch[c] \in {"watching", "pendingDelivery"} /\ c \notin late
    /\ late' = late \cup {c}
    /\ UNCHANGED <<thread, turns, call, watch, failing, tick, closed, notified>>

-----------------------------------------------------------------------------
(* watch *)

Register(c, t, n) ==
    /\ call[c] = NoCall /\ ~closed
    /\ call' = [call EXCEPT ![c] = [NoCall EXCEPT !.pc = "target", !.target = t, !.notify = n]]
    /\ UNCHANGED <<thread, turns, service, closed, notified>>

Step(c, pc) == call' = [call EXCEPT ![c].pc = pc]

\* A read fails when its Thread is gone, and may fail when it is not.
ReadTarget(c) ==
    LET t == call[c].target IN
    /\ call[c].pc = "target"
    /\ \/ Step(c, "failed")
       \/ /\ thread[t] # "gone"
          /\ call' = [call EXCEPT ![c].pc = "notify", ![c].terminal = thread[t] = "stopped"]
    /\ UNCHANGED <<thread, turns, service, closed, notified>>

\* A watch of the same Threads that still observes is shared.
Existing(c) ==
    \E d \in In("watching") : call[d].target = call[c].target /\ call[d].notify = call[c].notify

\* Mutant: only watches that still observe keep the timer going.
KeepsTimerWhileWatching(w, t) ==
    IF t.pc = "off" /\ \E c \in Call : w[c] = "watching" THEN [t EXCEPT !.pc = "timer"] ELSE t

\* #schedule: a timer runs while a watch is not settled.
KeepsTimer(w, t) ==
    IF t.pc = "off" /\ \E c \in Call : w[c] \in {"watching", "pendingDelivery"}
    THEN [t EXCEPT !.pc = "timer"] ELSE t

\* Both Threads exist; what the first read found decides.
ReadNotify(c) ==
    /\ call[c].pc = "notify"
    /\ \/ Step(c, "failed") /\ UNCHANGED <<watch, tick>>
       \/ /\ thread[call[c].notify] # "gone"
          /\ IF call[c].terminal \/ Existing(c) \/ closed
             THEN Step(c, "answered") /\ UNCHANGED <<watch, tick>>
             ELSE /\ Step(c, "watched")
                  /\ watch' = [watch EXCEPT ![c] = "watching"]
                  /\ tick' = KeepsTimer(watch', tick)
    /\ UNCHANGED <<thread, turns, late, failing, closed, notified>>

-----------------------------------------------------------------------------
(* A tick: every watched Thread is read *)

TimerFires ==
    /\ tick.pc = "timer"
    /\ tick' = [tick EXCEPT !.pc = "observing", !.todo = In("watching")]
    /\ UNCHANGED <<thread, turns, call, watch, late, failing, closed, notified>>

\* The read takes place; its result is used when it arrives.
Observe(c) ==
    /\ tick.pc = "observing" /\ tick.at = NoOne /\ c \in tick.todo /\ ~closed
    /\ \E r \in {thread[call[c].target], "error"} :
          tick' = [tick EXCEPT !.todo = @ \ {c}, !.at = c, !.read = r]
    /\ UNCHANGED <<thread, turns, call, watch, late, failing, closed, notified>>

\* An error is reported only once reads have failed for a while.
Observed(unreadable) ==
    LET c == tick.at
        due == \/ tick.read \in {"stopped", "gone"} \/ c \in late
               \/ tick.read = "error" /\ unreadable
    IN
    /\ tick.pc = "observing" /\ c # NoOne
    /\ unreadable => tick.read = "error" /\ c \in failing
    /\ watch' = IF due /\ watch[c] = "watching"
                THEN [watch EXCEPT ![c] = "pendingDelivery"] ELSE watch
    /\ late' = IF due THEN late \ {c} ELSE late
    /\ failing' = IF tick.read = "error" /\ ~due THEN failing \cup {c} ELSE failing \ {c}
    /\ tick' = [tick EXCEPT !.at = NoOne, !.read = "none"]
    /\ UNCHANGED <<thread, turns, call, closed, notified>>

AllObserved ==
    /\ tick.pc = "observing" /\ tick.at = NoOne /\ (tick.todo = {} \/ closed)
    /\ tick' = [tick EXCEPT !.pc = "delivering",
                            !.todo = {call[c].notify : c \in In("pendingDelivery")}]
    /\ UNCHANGED <<thread, turns, call, watch, late, failing, closed, notified>>

-----------------------------------------------------------------------------
(* A tick: what is due for a subscriber starts one Turn there *)

\* A Turn starts in a Thread that is idle.  The Harness may start it and fail
\* to say so, or refuse it; a busy Thread is left alone.
Send(n) ==
    LET pending == {c \in In("pendingDelivery") : call[c].notify = n}
        Sent(r) == tick' = [tick EXCEPT !.todo = @ \ {n}, !.at = n, !.read = r,
                                        !.pending = pending]
    IN
    /\ tick.pc = "delivering" /\ tick.at = NoOne /\ n \in tick.todo /\ ~closed
    /\ \/ /\ thread[n] = "stopped"
          /\ thread' = [thread EXCEPT ![n] = "running"]
          /\ notified' = [c \in Call |-> IF c \in pending THEN notified[c] + 1 ELSE notified[c]]
          /\ \E r \in {"ok", "unknown"} : Sent(r)
       \/ /\ UNCHANGED <<thread, notified>>
          /\ \/ thread[n] = "stopped" /\ (Sent("rejected") \/ Sent("unknown"))
             \/ thread[n] = "running" /\ Sent("rejected")
             \/ thread[n] = "gone" /\ Sent("permanent")
    /\ UNCHANGED <<turns, call, watch, late, failing, closed>>

\* Mutant: every failed send is tried again until its deadline.
GivenUpWhenLate(c) == c \in late

\* A send is tried again only when no Turn can have started.
GivenUp(c) == tick.read # "rejected" \/ c \in late

Sent ==
    /\ tick.pc = "delivering" /\ tick.at # NoOne
    /\ watch' = [c \in Call |->
          IF c \notin tick.pending \/ watch[c] # "pendingDelivery" THEN watch[c]
          ELSE IF tick.read = "ok" THEN "delivered"
          ELSE IF GivenUp(c) THEN "undeliverable" ELSE watch[c]]
    /\ tick' = [tick EXCEPT !.at = NoOne, !.read = "none", !.pending = {}]
    /\ UNCHANGED <<thread, turns, call, late, failing, closed, notified>>

TickEnds ==
    /\ tick.pc = "delivering" /\ tick.at = NoOne /\ (tick.todo = {} \/ closed)
    /\ tick' = KeepsTimer(watch, Off)
    /\ UNCHANGED <<thread, turns, call, watch, late, failing, closed, notified>>

\* The watches are forgotten; a tick in progress ends at its next step.
Close ==
    /\ ~closed
    /\ closed' = TRUE
    /\ watch' = [c \in Call |->
          IF watch[c] \in {"watching", "pendingDelivery", "undeliverable"}
          THEN "dropped" ELSE watch[c]]
    /\ tick' = IF tick.pc = "timer" THEN Off ELSE tick
    /\ UNCHANGED <<thread, turns, call, late, failing, notified>>

-----------------------------------------------------------------------------
Next ==
    \/ \E t \in Thread : TurnStarts(t)
    \/ \E t \in Thread : TurnEnds(t)
    \/ \E t \in Thread : ThreadDeleted(t)
    \/ \E c \in Call : DeadlinePasses(c)
    \/ \E c \in Call, t \in Watched, n \in Subscriber : Register(c, t, n)
    \/ \E c \in Call : ReadTarget(c)
    \/ \E c \in Call : ReadNotify(c)
    \/ TimerFires
    \/ \E c \in Call : Observe(c)
    \/ \E unreadable \in BOOLEAN : Observed(unreadable)
    \/ AllObserved
    \/ \E n \in Subscriber : Send(n)
    \/ Sent \/ TickEnds \/ Close

Spec == Init /\ [][Next]_vars

\* The timer fires, every call the service awaits returns and time passes.
\* Turns need not end.
FairSpec ==
    /\ Spec
    /\ WF_vars(TimerFires) /\ WF_vars(\E c \in Call : Observe(c))
    /\ WF_vars(\E unreadable \in BOOLEAN : Observed(unreadable))
    /\ WF_vars(AllObserved) /\ WF_vars(\E n \in Subscriber : Send(n))
    /\ WF_vars(Sent) /\ WF_vars(TickEnds)
    /\ \A c \in Call : WF_vars(DeadlinePasses(c))

-----------------------------------------------------------------------------
(* Properties *)

\* A watch notifies once: no Turn is started twice for it, whatever became of the
\* answer of a send, one that was delivered has started its Turn, and one that
\* still waits has not (#deliver, deliveryFailure).
NotifiedOnce ==
    \A c \in Call :
        /\ notified[c] <= 1
        /\ watch[c] = "delivered" => notified[c] = 1
        /\ watch[c] \in {"watching", "pendingDelivery"} /\ c \notin tick.pending => notified[c] = 0

\* No watch is forgotten: each is delivered or kept as undeliverable, even if the
\* Threads are gone, busy or unreadable for good, unless the service closes.
WatchesEnd ==
    \A c \in Call :
        watch[c] = "watching" ~> watch[c] \in {"delivered", "undeliverable", "dropped"}

=============================================================================
