----------------------- MODULE DelegationWatch_proofs -----------------------
(***************************************************************************)
(* A watch notifies once, whatever registrations, Turns, deletions,        *)
(* deadlines and a close do between two awaits of a tick.  Proved for any  *)
(* Threads, any number of watches and any number of Turns.                 *)
(***************************************************************************)
EXTENDS DelegationWatch, TLAPS

CallAt(pc) == [pc : pc, target : Watched, notify : Subscriber, terminal : BOOLEAN]

TypeOK ==
    /\ thread \in [Thread -> {"running", "stopped", "gone"}]
    /\ call \in [Call -> {NoCall} \cup CallAt({"target", "notify", "failed", "answered", "watched"})]
    /\ watch \in [Call -> {"none", "watching", "pendingDelivery", "delivered",
                           "undeliverable", "dropped"}]
    /\ notified \in [Call -> Nat]
    /\ tick \in [pc : {"off", "timer", "observing", "delivering"},
                 todo : SUBSET (Call \cup Subscriber), at : Call \cup Subscriber \cup {NoOne},
                 read : {"none", "running", "stopped", "gone", "error",
                         "ok", "unknown", "rejected", "permanent"},
                 pending : SUBSET Call]

\* A watch exists from the end of the call that registered it, and nothing is
\* sent for a call that made none.
WatchesAreRegistered ==
    \A c \in Call :
        /\ watch[c] # "none" => call[c].pc = "watched"
        /\ watch[c] = "none" => notified[c] = 0

\* A tick reads the Threads of registered watches.
ReadsWatches ==
    tick.pc = "observing" => \A c \in tick.todo \cap Call : call[c].pc = "watched"

\* Only a send under way holds watches back.  While it waits, none of them was
\* notified if the send was refused, and all were if it was accepted.
SendUnderWay ==
    /\ tick.pending # {} => tick.pc = "delivering" /\ tick.at # NoOne
    /\ \A c \in tick.pending :
          /\ watch[c] \in {"pendingDelivery", "dropped"}
          /\ tick.read = "rejected" => notified[c] = 0
          /\ tick.read = "ok" => notified[c] = 1

IInv == TypeOK /\ WatchesAreRegistered /\ ReadsWatches /\ SendUnderWay /\ NotifiedOnce

-----------------------------------------------------------------------------
\* The service starts with nothing watched and nothing sent.
LEMMA InitHolds == Init => IInv
<1> SUFFICES ASSUME Init PROVE IInv
  OBVIOUS
<1>1. TypeOK
  BY DEF Init, TypeOK, NoCall, Off
<1>2. WatchesAreRegistered /\ ReadsWatches /\ SendUnderWay /\ NotifiedOnce
  BY DEF Init, WatchesAreRegistered, ReadsWatches, SendUnderWay, NotifiedOnce, Off
<1> QED
  BY <1>1, <1>2 DEF IInv

\* Threads, time and the calls that only read.
LEMMA ThreadsKeep ==
    ASSUME IInv, UNCHANGED <<call, watch, tick, notified>>,
           thread' \in [Thread -> {"running", "stopped", "gone"}]
    PROVE  IInv'
BY DEF IInv, TypeOK, WatchesAreRegistered, ReadsWatches, SendUnderWay, NotifiedOnce

\* #schedule keeps the tick or starts its timer, and never touches a send.
LEMMA TimerKeeps ==
    ASSUME NEW w, NEW t, t \in [pc : {"off", "timer", "observing", "delivering"},
                 todo : SUBSET (Call \cup Subscriber), at : Call \cup Subscriber \cup {NoOne},
                 read : {"none", "running", "stopped", "gone", "error",
                         "ok", "unknown", "rejected", "permanent"},
                 pending : SUBSET Call]
    PROVE  \/ KeepsTimer(w, t) = t
           \/ t.pc = "off" /\ KeepsTimer(w, t) = [t EXCEPT !.pc = "timer"]
BY DEF KeepsTimer

\* A registration or a read of a call that is not yet watched.
LEMMA CallKeeps ==
    ASSUME IInv, NEW c \in Call, call[c].pc # "watched", UNCHANGED <<thread, watch, tick, notified>>,
           NEW v \in CallAt({"target", "notify", "failed", "answered", "watched"}),
           call' = [call EXCEPT ![c] = v]
    PROVE  IInv'
<1>1. TypeOK'
  BY DEF IInv, TypeOK
<1>2. \A d \in Call : call[d].pc = "watched" => call'[d].pc = "watched"
  BY DEF IInv, TypeOK
<1>3. WatchesAreRegistered'
  BY <1>2 DEF IInv, WatchesAreRegistered
<1>4. ReadsWatches'
  BY <1>2 DEF IInv, ReadsWatches
<1>5. SendUnderWay' /\ NotifiedOnce'
  BY DEF IInv, SendUnderWay, NotifiedOnce
<1> QED
  BY <1>1, <1>3, <1>4, <1>5 DEF IInv

-----------------------------------------------------------------------------
\* The steps of a watch call.
LEMMA RegistrationKeeps ==
    ASSUME IInv, NEW c \in Call,
           \/ \E t \in Watched, n \in Subscriber : Register(c, t, n)
           \/ ReadTarget(c)
    PROVE  IInv'
<1>1. ASSUME NEW t \in Watched, NEW n \in Subscriber, Register(c, t, n)
      PROVE  IInv'
  <2> DEFINE v == [NoCall EXCEPT !.pc = "target", !.target = t, !.notify = n]
  <2>1. v \in CallAt({"target", "notify", "failed", "answered", "watched"})
    BY DEF NoCall, CallAt
  <2>2. call[c].pc # "watched"
    <3>1. call[c] = NoCall
      BY <1>1, Zenon DEF Register
    <3> QED
      BY <3>1 DEF NoCall
  <2>3. call' = [call EXCEPT ![c] = v] /\ UNCHANGED <<thread, watch, tick, notified>>
    BY <1>1 DEF Register, service
  <2> QED
    BY <2>1, <2>2, <2>3, CallKeeps
<1>2. CASE ReadTarget(c)
  <2> DEFINE stopped == thread[call[c].target] = "stopped"
             v(pc, b) == [call[c] EXCEPT !.pc = pc, !.terminal = b]
  <2>1. call[c] \in CallAt({"target", "notify", "failed", "answered", "watched"})
    BY <1>2 DEF ReadTarget, IInv, TypeOK, NoCall
  <2>2. call[c].pc # "watched" /\ UNCHANGED <<thread, watch, tick, notified>>
    BY <1>2 DEF ReadTarget, service
  <2>3. CASE Step(c, "failed")
    <3>1. [call[c] EXCEPT !.pc = "failed"]
            \in CallAt({"target", "notify", "failed", "answered", "watched"})
      BY <2>1 DEF CallAt
    <3>2. call' = [call EXCEPT ![c] = [call[c] EXCEPT !.pc = "failed"]]
      BY <2>3 DEF Step
    <3> QED
      BY <2>2, <3>1, <3>2, CallKeeps
  <2>4. CASE call' = [call EXCEPT ![c].pc = "notify", ![c].terminal = stopped]
    <3>1. v("notify", stopped)
            \in CallAt({"target", "notify", "failed", "answered", "watched"})
      BY <2>1 DEF CallAt
    <3>2. call' = [call EXCEPT ![c] = v("notify", stopped)]
      BY <2>1, <2>4 DEF CallAt, IInv, TypeOK
    <3> QED
      BY <2>2, <3>1, <3>2, CallKeeps
  <2> QED
    BY <1>2, <2>3, <2>4 DEF ReadTarget
<1> QED
  BY <1>1, <1>2

\* The second read answers the call, or makes the watch that nothing was sent for.
LEMMA ReadNotifyKeeps ==
    ASSUME IInv, NEW c \in Call, ReadNotify(c)
    PROVE  IInv'
<1>1. call[c] \in CallAt({"target", "notify", "failed", "answered", "watched"})
  BY DEF ReadNotify, IInv, TypeOK, NoCall
<1>2. \A pc \in {"failed", "answered", "watched"} :
         [call[c] EXCEPT !.pc = pc]
            \in CallAt({"target", "notify", "failed", "answered", "watched"})
  BY <1>1 DEF CallAt
<1>3. call[c].pc # "watched" /\ UNCHANGED <<thread, notified>>
  BY DEF ReadNotify
<1>4. CASE (Step(c, "failed") \/ Step(c, "answered")) /\ UNCHANGED <<watch, tick>>
  <2>1. PICK pc \in {"failed", "answered"} : call' = [call EXCEPT ![c] = [call[c] EXCEPT !.pc = pc]]
    BY <1>4 DEF Step
  <2> QED
    BY <1>2, <1>3, <1>4, <2>1, CallKeeps
<1>5. CASE Step(c, "watched") /\ watch' = [watch EXCEPT ![c] = "watching"]
            /\ tick' = KeepsTimer(watch', tick)
  <2>1. call' = [call EXCEPT ![c] = [call[c] EXCEPT !.pc = "watched"]]
    BY <1>5 DEF Step
  <2>2. call'[c].pc = "watched" /\ \A d \in Call : call[d].pc = "watched" => call'[d].pc = "watched"
    BY <2>1, <1>1 DEF IInv, TypeOK, CallAt
  <2>3. watch[c] = "none" /\ notified[c] = 0
    BY <1>3 DEF IInv, WatchesAreRegistered
  <2>4. c \notin tick.pending
    BY <2>3 DEF IInv, SendUnderWay
  <2>5. \/ tick' = tick
        \/ tick.pc = "off" /\ tick' = [tick EXCEPT !.pc = "timer"]
    BY <1>5, TimerKeeps DEF IInv, TypeOK
  <2>6. TypeOK'
    BY <1>2, <1>3, <1>5, <2>1, <2>5 DEF IInv, TypeOK
  <2>7. /\ tick'.pending = tick.pending /\ tick'.read = tick.read
        /\ tick'.at = tick.at /\ tick'.todo = tick.todo
        /\ tick'.pc = tick.pc \/ (tick.pc = "off" /\ tick'.pc = "timer")
    BY <2>5 DEF IInv, TypeOK
  <2>8. WatchesAreRegistered'
    BY <1>3, <1>5, <2>2, <2>3 DEF IInv, TypeOK, WatchesAreRegistered
  <2>9. ReadsWatches'
    BY <2>2, <2>7 DEF IInv, ReadsWatches
  <2>10. SendUnderWay'
    BY <1>3, <1>5, <2>4, <2>7 DEF IInv, TypeOK, SendUnderWay
  <2>11. NotifiedOnce'
    BY <1>3, <1>5, <2>3, <2>7 DEF IInv, TypeOK, NotifiedOnce
  <2> QED
    BY <2>6, <2>8, <2>9, <2>10, <2>11 DEF IInv
<1> QED
  BY <1>4, <1>5 DEF ReadNotify

-----------------------------------------------------------------------------
\* The steps of a tick that only read.
LEMMA ObservationKeeps ==
    ASSUME IInv,
           TimerFires \/ (\E c \in Call : Observe(c)) \/ AllObserved \/ TickEnds
    PROVE  IInv'
<1>1. UNCHANGED <<thread, call, watch, notified>> /\ tick.pending = {}
  BY DEF IInv, SendUnderWay, TimerFires, Observe, AllObserved, TickEnds
<1>2. TypeOK' /\ ReadsWatches' /\ tick'.pending = {}
  <2>1. CASE TimerFires
    BY <1>1, <2>1 DEF IInv, TypeOK, ReadsWatches, WatchesAreRegistered, TimerFires, In
  <2>2. ASSUME NEW c \in Call, Observe(c)
        PROVE  TypeOK' /\ ReadsWatches' /\ tick'.pending = {}
    <3>1. PICK r \in {thread[call[c].target], "error"} :
             tick' = [tick EXCEPT !.todo = @ \ {c}, !.at = c, !.read = r]
      BY <2>2 DEF Observe
    <3>2. call[c].pc = "watched"
      BY <2>2 DEF IInv, ReadsWatches, Observe
    <3>3. call[c].target \in Watched
      BY <3>2 DEF IInv, TypeOK, CallAt, NoCall
    <3>4. r \in {"running", "stopped", "gone", "error"}
      BY <3>3 DEF IInv, TypeOK, Thread
    <3> QED
      BY <1>1, <2>2, <3>1, <3>4 DEF IInv, TypeOK, ReadsWatches, Observe
  <2>3. CASE AllObserved
    <3>1. {call[d].notify : d \in In("pendingDelivery")} \subseteq Subscriber
      BY DEF IInv, TypeOK, WatchesAreRegistered, In, CallAt, NoCall
    <3> QED
      BY <1>1, <2>3, <3>1 DEF IInv, TypeOK, ReadsWatches, AllObserved
  <2>4. CASE TickEnds
    <3>1. Off \in [pc : {"off", "timer", "observing", "delivering"},
                 todo : SUBSET (Call \cup Subscriber), at : Call \cup Subscriber \cup {NoOne},
                 read : {"none", "running", "stopped", "gone", "error",
                         "ok", "unknown", "rejected", "permanent"},
                 pending : SUBSET Call]
      BY DEF Off
    <3>2. tick' = Off \/ tick' = [Off EXCEPT !.pc = "timer"]
      BY <2>4, <3>1, TimerKeeps DEF TickEnds
    <3> QED
      BY <1>1, <3>2 DEF IInv, TypeOK, ReadsWatches, Off
  <2> QED
    BY <2>1, <2>2, <2>3, <2>4
<1>3. WatchesAreRegistered' /\ SendUnderWay' /\ NotifiedOnce'
  BY <1>1, <1>2 DEF IInv, WatchesAreRegistered, SendUnderWay, NotifiedOnce
<1> QED
  BY <1>2, <1>3 DEF IInv

\* What a read found may make its watch due: it was notified of nothing yet.
LEMMA ObservedKeeps ==
    ASSUME IInv, NEW unreadable \in BOOLEAN, Observed(unreadable)
    PROVE  IInv'
<1>1. UNCHANGED <<thread, call, notified>> /\ tick.pc = "observing" /\ tick.pending = {}
  BY DEF IInv, SendUnderWay, Observed
<1>2. tick' = [tick EXCEPT !.at = NoOne, !.read = "none"]
  BY DEF Observed
<1>3. \/ watch' = watch
      \/ \E c \in {tick.at} : /\ watch[c] = "watching"
                            /\ watch' = [watch EXCEPT ![c] = "pendingDelivery"]
  BY DEF Observed
<1>4. TypeOK'
  BY <1>1, <1>2, <1>3 DEF IInv, TypeOK
<1>5. \A d \in Call : \/ watch'[d] = watch[d]
                      \/ watch[d] = "watching" /\ watch'[d] = "pendingDelivery"
  BY <1>3 DEF IInv, TypeOK
<1>6. tick'.pending = {} /\ tick'.todo = tick.todo
  BY <1>1, <1>2 DEF IInv, TypeOK
<1>7. WatchesAreRegistered' /\ NotifiedOnce'
  BY <1>1, <1>5, <1>6 DEF IInv, WatchesAreRegistered, NotifiedOnce
<1>8. ReadsWatches' /\ SendUnderWay'
  BY <1>1, <1>6 DEF IInv, ReadsWatches, SendUnderWay
<1> QED
  BY <1>4, <1>7, <1>8 DEF IInv

-----------------------------------------------------------------------------
\* A send starts a Turn for watches that were not notified, or for none.
LEMMA SendKeeps ==
    ASSUME IInv, NEW n \in Subscriber, Send(n)
    PROVE  IInv'
<1> DEFINE pending == {c \in In("pendingDelivery") : call[c].notify = n}
           Outcome(r) == tick' = [tick EXCEPT !.todo = @ \ {n}, !.at = n, !.read = r,
                                              !.pending = pending]
           started == [c \in Call |-> IF c \in pending THEN notified[c] + 1 ELSE notified[c]]
<1>1. UNCHANGED <<call, watch>> /\ tick.pc = "delivering" /\ tick.pending = {}
  BY DEF IInv, SendUnderWay, Send
<1>2. pending \subseteq Call /\ n # NoOne
  BY WatchAssumption DEF In
<1>3. \A c \in pending : watch[c] = "pendingDelivery" /\ notified[c] = 0
  BY <1>1 DEF IInv, NotifiedOnce, In
<1>4. \/ /\ notified' = started /\ thread' = [thread EXCEPT ![n] = "running"]
         /\ \E r \in {"ok", "unknown"} : Outcome(r)
      \/ /\ UNCHANGED <<notified, thread>>
         /\ \E r \in {"rejected", "unknown", "permanent"} : Outcome(r)
  BY DEF Send
<1>5. PICK r \in {"ok", "unknown", "rejected", "permanent"} : Outcome(r)
  BY <1>4
<1> HIDE DEF pending
<1>6. /\ tick' \in [pc : {"off", "timer", "observing", "delivering"},
                 todo : SUBSET (Call \cup Subscriber), at : Call \cup Subscriber \cup {NoOne},
                 read : {"none", "running", "stopped", "gone", "error",
                         "ok", "unknown", "rejected", "permanent"},
                 pending : SUBSET Call]
      /\ tick'.pc = "delivering" /\ tick'.at = n /\ tick'.read = r /\ tick'.pending = pending
  BY <1>1, <1>2, <1>5 DEF IInv, TypeOK
<1>7. TypeOK'
  BY <1>1, <1>4, <1>6 DEF IInv, TypeOK
<1>8. CASE notified' = started /\ r \in {"ok", "unknown"}
  <2>1. \A c \in Call : notified'[c] = IF c \in pending THEN 1 ELSE notified[c]
    BY <1>3, <1>8
  <2>2. WatchesAreRegistered'
    BY <1>1, <1>3, <2>1 DEF IInv, WatchesAreRegistered
  <2>3. SendUnderWay'
    BY <1>1, <1>2, <1>3, <1>6, <1>8, <2>1 DEF IInv, SendUnderWay
  <2>4. NotifiedOnce'
    BY <1>1, <1>3, <1>6, <2>1 DEF IInv, NotifiedOnce
  <2>5. ReadsWatches'
    BY <1>6 DEF ReadsWatches
  <2> QED
    BY <1>7, <2>2, <2>3, <2>4, <2>5 DEF IInv
<1>9. CASE notified' = notified /\ r \in {"rejected", "unknown", "permanent"}
  <2>1. WatchesAreRegistered' /\ ReadsWatches'
    BY <1>1, <1>6, <1>9 DEF IInv, WatchesAreRegistered, ReadsWatches
  <2>2. SendUnderWay'
    BY <1>1, <1>2, <1>3, <1>6, <1>9 DEF IInv, SendUnderWay
  <2>3. NotifiedOnce'
    BY <1>1, <1>6, <1>9 DEF IInv, NotifiedOnce
  <2> QED
    BY <1>7, <2>1, <2>2, <2>3 DEF IInv
<1>10. \/ notified' = started /\ r \in {"ok", "unknown"}
       \/ notified' = notified /\ r \in {"rejected", "unknown", "permanent"}
  <2>1. \A q \in {"ok", "unknown", "rejected", "permanent"} : Outcome(q) => q = r
    BY <1>5 DEF IInv, TypeOK
  <2> QED
    BY <1>4, <2>1
<1> QED
  BY <1>8, <1>9, <1>10

\* What the send came to settles its watches; only a refusal leaves them waiting.
LEMMA SentKeeps ==
    ASSUME IInv, Sent
    PROVE  IInv'
<1>1. UNCHANGED <<thread, call, notified>> /\ tick.pc = "delivering"
  BY DEF Sent
<1>2. tick' = [tick EXCEPT !.at = NoOne, !.read = "none", !.pending = {}]
  BY DEF Sent
<1>3. \A c \in Call :
         \/ watch'[c] = watch[c] /\ (c \notin tick.pending \/ watch[c] # "pendingDelivery")
         \/ /\ c \in tick.pending /\ watch[c] = "pendingDelivery"
            /\ \/ tick.read = "ok" /\ watch'[c] = "delivered"
               \/ watch'[c] = "undeliverable"
               \/ tick.read = "rejected" /\ watch'[c] = "pendingDelivery"
  BY DEF Sent, GivenUp
<1>4. TypeOK'
  <2>1. watch' \in [Call -> {"none", "watching", "pendingDelivery", "delivered",
                             "undeliverable", "dropped"}]
    BY DEF Sent, IInv, TypeOK
  <2> QED
    BY <1>1, <1>2, <2>1 DEF IInv, TypeOK
<1>5. tick'.pending = {} /\ tick'.pc = "delivering"
  BY <1>1, <1>2 DEF IInv, TypeOK
<1>6. WatchesAreRegistered'
  BY <1>1, <1>3 DEF IInv, WatchesAreRegistered
<1>7. NotifiedOnce'
  BY <1>1, <1>3, <1>5 DEF IInv, NotifiedOnce, SendUnderWay
<1>8. ReadsWatches' /\ SendUnderWay'
  BY <1>5 DEF ReadsWatches, SendUnderWay
<1> QED
  BY <1>4, <1>6, <1>7, <1>8 DEF IInv

\* A close drops what waits; a send under way is left to its answer.
LEMMA CloseKeeps ==
    ASSUME IInv, Close
    PROVE  IInv'
<1>1. UNCHANGED <<thread, call, notified>>
  BY DEF Close
<1>2. \A c \in Call :
         \/ watch'[c] = watch[c] /\ watch[c] \in {"none", "delivered", "dropped"}
         \/ watch[c] # "none" /\ watch'[c] = "dropped"
  BY DEF Close, IInv, TypeOK
<1>3. tick' = tick \/ (tick.pc = "timer" /\ tick' = Off)
  BY DEF Close
<1>4. TypeOK'
  <2>1. watch' \in [Call -> {"none", "watching", "pendingDelivery", "delivered",
                             "undeliverable", "dropped"}]
    BY DEF Close, IInv, TypeOK
  <2> QED
    BY <1>1, <1>3, <2>1 DEF IInv, TypeOK, Off
<1>5. WatchesAreRegistered' /\ ReadsWatches'
  BY <1>1, <1>2, <1>3 DEF IInv, WatchesAreRegistered, ReadsWatches, Off
<1>6. SendUnderWay'
  BY <1>1, <1>2, <1>3 DEF IInv, TypeOK, SendUnderWay, Off
<1>7. NotifiedOnce'
  BY <1>1, <1>2, <1>3 DEF IInv, NotifiedOnce, SendUnderWay, Off
<1> QED
  BY <1>4, <1>5, <1>6, <1>7 DEF IInv

-----------------------------------------------------------------------------
\* A watch notifies once, and one that still waits was not notified (#deliver,
\* deliveryFailure).
THEOREM WatchNotifiesOnce == Spec => []NotifiedOnce
<1>1. IInv /\ [Next]_vars => IInv'
  <2> SUFFICES ASSUME IInv, [Next]_vars PROVE IInv'
    OBVIOUS
  <2>1. CASE UNCHANGED vars
    BY <2>1, ThreadsKeep DEF vars, IInv, TypeOK
  <2>2. ASSUME NEW t \in Thread, TurnStarts(t) \/ TurnEnds(t) \/ ThreadDeleted(t) PROVE IInv'
    <3>1. UNCHANGED <<call, watch, tick, notified>>
      BY <2>2 DEF TurnStarts, TurnEnds, ThreadDeleted, service
    <3>2. thread' \in [Thread -> {"running", "stopped", "gone"}]
      BY <2>2 DEF TurnStarts, TurnEnds, ThreadDeleted, IInv, TypeOK
    <3> QED
      BY <3>1, <3>2, ThreadsKeep
  <2>3. ASSUME NEW c \in Call, DeadlinePasses(c) PROVE IInv'
    BY <2>3, ThreadsKeep DEF DeadlinePasses, IInv, TypeOK
  <2>4. ASSUME NEW c \in Call, NEW t \in Watched, NEW n \in Subscriber, Register(c, t, n)
        PROVE  IInv'
    BY <2>4, RegistrationKeeps
  <2>5. ASSUME NEW c \in Call, ReadTarget(c) PROVE IInv'
    BY <2>5, RegistrationKeeps
  <2>6. ASSUME NEW c \in Call, ReadNotify(c) PROVE IInv'
    BY <2>6, ReadNotifyKeeps
  <2>7. ASSUME NEW c \in Call, Observe(c) PROVE IInv'
    BY <2>7, ObservationKeeps
  <2>8. CASE TimerFires \/ AllObserved \/ TickEnds
    BY <2>8, ObservationKeeps
  <2>9. ASSUME NEW unreadable \in BOOLEAN, Observed(unreadable) PROVE IInv'
    BY <2>9, ObservedKeeps
  <2>10. ASSUME NEW n \in Subscriber, Send(n) PROVE IInv'
    BY <2>10, SendKeeps
  <2>11. CASE Sent
    BY <2>11, SentKeeps
  <2>12. CASE Close
    BY <2>12, CloseKeeps
  <2> QED
    BY <2>1, <2>2, <2>3, <2>4, <2>5, <2>6, <2>7, <2>8, <2>9, <2>10, <2>11, <2>12 DEF Next
<1> QED
  BY <1>1, InitHolds, PTL DEF Spec, IInv

=============================================================================
