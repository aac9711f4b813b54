------------------------ MODULE ThreadRuntime_proofs ------------------------
(***************************************************************************)
(* Proofs about ThreadRuntime.                                             *)
(***************************************************************************)
EXTENDS ThreadRuntime, TLAPS

-----------------------------------------------------------------------------
(* The invariant *)

Kinds == {"resolve", "refresh", "delete", "discard"}
Drops == {"dropped", "dropRetire"}
Revives == {"reviveRetire", "reviveOpening", "reviveReading", "reviveDrop"}
Reading == {"reading", "reviveReading"}
LanePcs == {"free", "admitted", "releasing", "afterDrop", "opening", "failed", "deleted"}
              \cup Drops \cup Revives \cup Reading
Thens == {"admitted", "dropped", "failed", "reviveRetire", "reviveDrop", "deleted"}
Replacing == {"rollback", "replace", "replacing"}
RequestPcs == {"off", "waiting", "holding", "starting"} \cup Replacing

Operations == [kind : Kinds \cup {"none"}, by : Request \cup {Nobody},
               owner : Owner \cup {None}, session : Session \cup {None}]
Lanes == [pc : LanePcs, op : Operations, owner : Owner \cup {None}, fresh : Session \cup {None},
          ref : Ref \cup {None}, then : Thens \cup {"none"}]
Requests == [pc : RequestPcs, owner : Owner \cup {None}, fresh : Session \cup {None},
             rolling : BOOLEAN]

Types ==
    /\ native \in [Session -> {"unmade", "open", "closing", "closeRejected", "closed"}]
    /\ ref \in [Session -> Ref \cup {None}]
    /\ output \in [Session -> {"none", "live", "broken", "ended"}]
    /\ opened \in 0 .. MaxSessions
    /\ current \in Owner \cup {None}
    /\ session \in [Owner -> Session \cup {None}]
    /\ ownerRef \in [Owner -> Ref \cup {None}]
    /\ unavailable \in [Owner -> BOOLEAN] /\ turn \in [Owner -> BOOLEAN]
    /\ outputFailed \in [Owner -> BOOLEAN] /\ closeFailed \in [Owner -> BOOLEAN]
    /\ stored \in Ref \cup {None}
    /\ queue \in Seq(Operations) /\ Len(queue) <= MaxQueued
    /\ lane \in Lanes
    /\ blocker \in Session \cup {None} /\ idle \in Owner \cup {None}
    /\ request \in [Request -> Requests]
    /\ rollbacks \in 0 .. MaxRollbacks

\* Sessions are made in order; only made ones have an output or an owner.
Made ==
    \A s \in Session : /\ native[s] = "unmade" <=> s > opened
                       /\ s > opened => output[s] = "none" /\ session[s] = None

\* An owner has a Session whose output is consumed; before that it was never closed.
Owned ==
    \A o \in Owner :
        /\ session[o] = None => ~closeFailed[o]
        /\ session[o] # None => native[session[o]] # "unmade" /\ output[session[o]] # "none"

HasSession(o) == o # None /\ session[o] # None

Held ==
    /\ current # None => HasSession(current)
    /\ \A r \in Request : request[r].owner # None => HasSession(request[r].owner)

\* A Session that was opened and is nobody's yet.
Fresh(s) == s # None /\ native[s] = "open" /\ output[s] = "none" /\ session[s] = None

\* The lane and one rollback, which is Desktop's, may each have one.
Unregistered ==
    /\ lane.pc \in Reading => Fresh(lane.fresh)
    /\ \A r \in Request :
          /\ request[r].rolling \/ request[r].pc \in Replacing => r = Desktop
          /\ request[r].pc \in Replacing =>
                Fresh(request[r].fresh) /\ (lane.pc \in Reading => request[r].fresh # lane.fresh)

\* An operation has a caller that waits, unless it discards an owner.
OperationFits(op) ==
    /\ op.kind \in Kinds
    /\ op.by = Nobody <=> op.kind = "discard"
    /\ op.by # Nobody => request[op.by].pc = "waiting"
    /\ op.kind = "delete" => op.by = Desktop
    /\ op.kind \in {"refresh", "discard"} => HasSession(op.owner)

\* Each caller has one operation.
Answered ==
    /\ \A i \in 1 .. Len(queue) :
          /\ OperationFits(queue[i])
          /\ \A j \in 1 .. Len(queue) : queue[i].by = queue[j].by => i = j \/ queue[i].by = Nobody
    /\ lane.pc # "free" =>
          /\ OperationFits(lane.op)
          /\ \A i \in 1 .. Len(queue) : queue[i].by = lane.op.by => lane.op.by = Nobody

\* A release was started on the blocker, and the lane waits for it.
Blocked ==
    /\ blocker # None => native[blocker] \notin {"unmade", "open"} /\ lane.pc \in {"free", "releasing"}
    /\ lane.pc = "releasing" => blocker # None /\ lane.then # "none"

\* Where the lane is, or goes once its release is confirmed.
Place == IF lane.pc = "releasing" THEN lane.then ELSE lane.pc

Placed ==
    /\ Place \in {"opening", "reading"} => lane.op.kind = "resolve"
    /\ Place \in Revives => lane.op.kind = "refresh"
    /\ Place \in Drops \cup {"failed", "afterDrop"} => lane.op.kind # "delete"
    /\ Place = "deleted" => lane.op.kind = "delete"
    /\ Place \in Drops \cup Revives => HasSession(lane.owner)

\* What is dropped, revived or deleted is released first.
ReleasedFirst ==
    /\ Place \in Drops \cup Revives =>
          \/ Released(session[lane.owner])
          \/ lane.pc = "releasing" /\ blocker = session[lane.owner] /\ lane.then # "reviveDrop"
    /\ Place = "deleted" /\ current # None =>
          \/ Released(session[current])
          \/ lane.pc = "releasing" /\ blocker = session[current]

\* An idle release owns the Thread alone.
IdleAlone ==
    idle # None => /\ current = idle /\ blocker = None
                   /\ lane.pc \in {"free", "admitted"}
                   /\ InOperation = {}

\* Nobody is given an owner whose close failed.
Usable ==
    /\ \A r \in Request : request[r].pc = "holding" =>
          request[r].owner # None /\ ~closeFailed[request[r].owner]
    /\ \A r \in Request : request[r].pc \in Replacing \cup {"starting"} => request[r].owner # None

\* The lane goes on to no owner whose close failed.
Offered ==
    /\ Place \in Revives => ~closeFailed[lane.owner]
    /\ Place \in Drops \cup {"afterDrop"} /\ lane.op.kind = "resolve" /\ current # None =>
          ~closeFailed[current]

Sessions == Made /\ Owned /\ Held /\ Unregistered
Callers == Answered /\ Blocked /\ IdleAlone /\ Usable
Positions == Placed /\ ReleasedFirst /\ Offered

IInv == Types /\ Sessions /\ Callers /\ Positions

\* Without rollbacks.
NothingLives == \A s \in Session : ~Live(s)
TheOne ==
    IF blocker # None THEN blocker
    ELSE IF lane.pc \in Reading THEN lane.fresh
    ELSE IF current # None THEN session[current]
    ELSE None

OneLives ==
    /\ \A r \in Request : request[r].pc \notin Replacing
    /\ \A s \in Session : Live(s) => s = TheOne
    /\ lane.pc \in Drops \cup {"opening", "failed", "deleted", "reviveRetire", "reviveOpening", "reviveDrop"} =>
          NothingLives
    /\ lane.pc \in {"opening", "reading"} => current = None
    /\ lane.pc \in {"reviveOpening", "reviveReading"} => current = lane.owner

-----------------------------------------------------------------------------
(* Types *)

NativeType == [Session -> {"unmade", "open", "closing", "closeRejected", "closed"}]

\* A close leaves the other Sessions alone.
LEMMA CloseTypes ==
    ASSUME Types, NEW s
    PROVE  AfterClose(s) \in NativeType
BY DEF Types, AfterClose, NativeType

\* What the lane becomes.
LEMMA LaneTypes ==
    ASSUME Types
    PROVE  /\ FreeLane \in Lanes /\ NoRequest \in Requests
           /\ \A pc \in LanePcs : [lane EXCEPT !.pc = pc] \in Lanes
           /\ \A th \in Thens : [lane EXCEPT !.pc = "releasing", !.then = th] \in Lanes
           /\ \A th \in Thens, o \in Owner \cup {None}, n \in Ref \cup {None} :
                [lane EXCEPT !.pc = "releasing", !.then = th, !.owner = o, !.ref = n] \in Lanes
           /\ \A n \in Ref \cup {None} : [lane EXCEPT !.pc = "opening", !.ref = n] \in Lanes
           /\ \A op \in Operations : [FreeLane EXCEPT !.pc = "admitted", !.op = op] \in Lanes
           /\ \A op \in Operations :
                [FreeLane EXCEPT !.pc = "releasing", !.op = op, !.then = "admitted"] \in Lanes
           /\ \A s \in Session, pc \in LanePcs : [lane EXCEPT !.pc = pc, !.fresh = s] \in Lanes
<1>1. NoOperation \in Operations
  BY DEF NoOperation, Operations
<1>2. {"free", "admitted", "releasing", "opening"} \subseteq LanePcs /\ "admitted" \in Thens
  BY DEF LanePcs, Thens
<1>3. FreeLane \in Lanes /\ NoRequest \in Requests
  BY <1>1, <1>2 DEF FreeLane, Lanes, NoRequest, Requests, RequestPcs
<1>4. lane \in Lanes
  BY DEF Types
<1> QED
  BY <1>2, <1>3, <1>4 DEF Lanes

\* The caller of an operation holds what it is answered.
LEMMA SettleTypes ==
    ASSUME Types, NEW o \in Owner \cup {None}, Settle(o)
    PROVE  lane' \in Lanes /\ request' \in [Request -> Requests]
<1>1. NoRequest \in Requests /\ FreeLane \in Lanes
  BY LaneTypes
<1>2. "holding" \in RequestPcs
  BY DEF RequestPcs
<1>3. request \in [Request -> Requests]
  BY DEF Types
<1>4. \A r \in Request : [request[r] EXCEPT !.pc = "holding", !.owner = o] \in Requests
  BY <1>2, <1>3 DEF Requests
<1>5. \/ request' = request
      \/ request' = [request EXCEPT ![lane.op.by] = NoRequest]
      \/ request' = [request EXCEPT ![lane.op.by] = [@ EXCEPT !.pc = "holding", !.owner = o]]
  BY DEF Settle
<1> QED
  BY <1>1, <1>3, <1>4, <1>5 DEF Settle

\* An opened Session has the next number.
LEMMA OpenTypes ==
    ASSUME Types, NEW n \in Ref \cup {None}, Open(n)
    PROVE  /\ opened' = opened + 1 /\ opened + 1 \in Session /\ opened' \in 0 .. MaxSessions
           /\ native' \in NativeType /\ ref' \in [Session -> Ref \cup {None}] /\ output' = output
BY BoundAssumption DEF Types, Open, NativeType, Session

\* The lane keeps the types.
LEMMA LaneStepTypes ==
    ASSUME IInv, LaneStep
    PROVE  Types'
<1> USE DEF NativeType, sessionVars, ownerVars, rollbackVars
<1>a. Types
  BY DEF IInv
<1>b. lane \in Lanes /\ lane.op \in Operations /\ lane.owner \in Owner \cup {None}
      /\ lane.fresh \in Session \cup {None} /\ lane.ref \in Ref \cup {None}
      /\ lane.op.owner \in Owner \cup {None} /\ lane.then \in Thens \cup {"none"}
  BY <1>a DEF Types, Lanes, Operations
<1>c. {"free", "admitted", "releasing", "afterDrop", "opening", "failed", "deleted", "dropped", "dropRetire",
       "reading", "reviveReading", "reviveRetire", "reviveOpening", "reviveDrop"} \subseteq LanePcs
      /\ {"admitted", "dropped", "failed", "reviveRetire", "reviveDrop", "deleted"} \subseteq Thens
      /\ Thens \subseteq LanePcs
  BY DEF LanePcs, Thens, Drops, Revives, Reading
<1>d. \A o \in Owner : session[o] \in Session \cup {None} /\ ownerRef[o] \in Ref \cup {None}
  BY <1>a DEF Types
<1>e. ASSUME NEW o \in Owner \cup {None}, Settle(o),
             UNCHANGED <<sessionVars, ownerVars, current, stored, queue, blocker, idle, rollbackVars>>
      PROVE  Types'
  BY <1>a, <1>e, SettleTypes DEF Types
<1>f. ASSUME NEW pc \in LanePcs, Continue(pc),
             UNCHANGED <<sessionVars, ownerVars, stored, queue, idle, rollbackVars>>,
             current' \in {current, None}, blocker' \in {blocker, None}
      PROVE  Types'
  BY <1>a, <1>f, LaneTypes DEF Types, Continue
<1>g. ASSUME NEW o \in Owner \cup {None}, NEW th \in Thens, blocker' = session[o] \/ blocker' = None,
             HasSession(o), native' = AfterClose(session[o]),
             lane' = [lane EXCEPT !.pc = "releasing", !.then = th, !.owner = o, !.ref = ownerRef[o]],
             unavailable' = [unavailable EXCEPT ![o] = TRUE],
             UNCHANGED <<ref, output, opened, request, session, ownerRef, turn, outputFailed, closeFailed,
                         current, stored, queue, idle, rollbackVars>>
      PROVE  Types'
  <2>1. o \in Owner
    BY <1>g DEF HasSession
  <2> QED
    BY <1>a, <1>d, <1>g, <2>1, LaneTypes, CloseTypes DEF Types
<1>h. ASSUME NEW o \in Owner \cup {None}, Drop(o), HasSession(o),
             UNCHANGED <<session, ownerRef, turn, outputFailed, closeFailed, current,
                         stored, queue, idle, rollbackVars>>
      PROVE  Types'
  <2>1. CASE current # o
    BY <1>a, <1>c, <1>f, <1>h, <2>1 DEF Drop
  <2>2. CASE current = o
    BY <1>c, <1>g, <1>h, <2>2 DEF Drop
  <2> QED
    BY <2>1, <2>2
<1>i. ASSUME NEW s \in Session \cup {None}, NEW th \in Thens, Release(s, th),
             unavailable' \in [Owner -> BOOLEAN],
             UNCHANGED <<session, ownerRef, turn, outputFailed, closeFailed, current,
                         stored, queue, idle, rollbackVars>>
      PROVE  Types'
  BY <1>a, <1>i, LaneTypes, CloseTypes DEF Types, Release
<1>j. ASSUME NEW pc \in LanePcs, NEW n \in Ref \cup {None}, Open(n),
             lane' = [lane EXCEPT !.pc = pc, !.fresh = opened + 1],
             UNCHANGED <<ownerVars, current, stored, queue, blocker, idle, request, rollbackVars>>
      PROVE  Types'
  BY <1>a, <1>j, LaneTypes, OpenTypes DEF Types
<1>k. /\ current # None => HasSession(current)
      /\ Place \in Revives \cup Drops => HasSession(lane.owner)
      /\ lane.pc = "admitted" /\ lane.op.kind \in {"refresh", "discard"} => HasSession(lane.op.owner)
  BY DEF IInv, Sessions, Held, Positions, Placed, Callers, Answered, OperationFits
<1>l. None \in Owner \cup {None} /\ current \in Owner \cup {None}
  BY <1>a DEF Types
<1>1. CASE Start
  <2>0. queue \in Seq(Operations) /\ Len(queue) <= MaxQueued /\ queue # <<>> /\ queue' = Tail(queue)
    BY <1>a, <1>1 DEF Types, Start
  <2>1. Head(queue) \in Operations /\ queue' \in Seq(Operations) /\ Len(queue') <= MaxQueued
    BY <2>0, BoundAssumption
  <2>2. lane' \in Lanes /\ native' \in NativeType
    <3> DEFINE l1 == [FreeLane EXCEPT !.pc = "admitted", !.op = Head(queue)]
               l2 == [FreeLane EXCEPT !.pc = "releasing", !.op = Head(queue), !.then = "admitted"]
    <3>1. l1 \in Lanes /\ l2 \in Lanes
      BY <1>a, <2>1, LaneTypes
    <3>2. lane' = l1 \/ lane' = l2
      BY <1>1 DEF Start
    <3>3. native' = native \/ native' = AfterClose(blocker)
      BY <1>1 DEF Start
    <3> HIDE DEF l1, l2
    <3>4. native' \in NativeType
      BY <1>a, <3>3, CloseTypes DEF Types
    <3> QED
      BY <3>1, <3>2, <3>4
  <2>3. blocker' = blocker
    BY <1>1 DEF Start
  <2> QED
    BY <1>a, <1>1, <2>1, <2>2, <2>3 DEF Types, Start
<1>2. CASE ReleaseConfirmed
  <2>1. lane.then \in LanePcs
    BY <1>b, <1>c, <1>2 DEF ReleaseConfirmed, IInv, Callers, Blocked
  <2> QED
    BY <1>f, <1>2, <2>1 DEF ReleaseConfirmed
<1>3. CASE ReleaseFails \/ RestoreOpenFails \/ Failed
  BY <1>e, <1>l, <1>3 DEF ReleaseFails, RestoreOpenFails, Failed
<1>4. CASE Dropped \/ DropRetired
  BY <1>c, <1>f, <1>4 DEF Dropped, DropRetired
<1>5. CASE AfterDrop
  BY <1>c, <1>e, <1>f, <1>l, <1>5 DEF AfterDrop
<1>6. CASE Resolve
  <2>1. CASE lane' = [lane EXCEPT !.pc = "opening", !.ref = stored]
             /\ UNCHANGED <<request, sessionVars, blocker, unavailable>>
    BY <1>a, <1>6, <2>1, LaneTypes DEF Types, Resolve
  <2>2. CASE (Settle(None) \/ Settle(current)) /\ UNCHANGED <<sessionVars, blocker, unavailable>>
    BY <1>e, <1>l, <1>6, <2>2 DEF Resolve
  <2>3. CASE current # None /\ Drop(current)
    BY <1>h, <1>k, <1>l, <1>6, <2>3 DEF Resolve
  <2> QED
    BY <1>6, <2>1, <2>2, <2>3 DEF Resolve
<1>7. CASE RestoreOpens \/ ReviveOpens
  BY <1>b, <1>c, <1>j, <1>7 DEF RestoreOpens, ReviveOpens
<1>8. CASE RestoreRegisters
  <2>1. lane.fresh \in Session
    BY <1>b, <1>8 DEF RestoreRegisters, IInv, Sessions, Unregistered, Reading, Fresh
  <2>2. lane' \in Lanes /\ request' \in [Request -> Requests]
    BY <1>a, <1>8, <2>1, SettleTypes DEF RestoreRegisters, Owner
  <2> QED
    BY <1>a, <1>b, <1>8, <2>1, <2>2 DEF Types, RestoreRegisters, Register, Owner
<1>9. CASE RestoreReadFails \/ ReviveReadFails
  <2>1. unavailable \in [Owner -> BOOLEAN]
    BY <1>a DEF Types
  <2> QED
    BY <1>b, <1>c, <1>i, <1>9, <2>1 DEF RestoreReadFails, ReviveReadFails
<1>10. CASE Refresh
  <2> DEFINE o == lane.op.owner
  <2>1. CASE (Settle(None) \/ Settle(o)) /\ UNCHANGED <<sessionVars, blocker, unavailable>>
    BY <1>b, <1>e, <1>l, <1>10, <2>1 DEF Refresh
  <2>2. CASE Revive(o)
    <3>1. HasSession(o)
      BY <1>k, <1>10 DEF Refresh, Ready
    <3> QED
      BY <1>b, <1>c, <1>g, <1>10, <2>2, <3>1 DEF Refresh, Revive
  <2> QED
    BY <1>10, <2>1, <2>2 DEF Refresh
<1>11. CASE ReviveRetired
  BY <1>c, <1>e, <1>f, <1>l, <1>11 DEF ReviveRetired
<1>12. CASE ReviveOpenFails \/ ReviveDrops
  <2>1. HasSession(lane.owner)
    BY <1>k, <1>12 DEF ReviveOpenFails, ReviveDrops, Place, Revives
  <2> QED
    BY <1>b, <1>h, <1>12, <2>1 DEF ReviveOpenFails, ReviveDrops
<1>13. CASE ReviveInstalls
  <2>1. CASE current = lane.owner
    <3>1. lane' \in Lanes /\ request' \in [Request -> Requests]
      BY <1>a, <1>b, <1>13, <2>1, SettleTypes DEF ReviveInstalls
    <3> QED
      BY <1>a, <1>b, <1>13, <2>1, <3>1 DEF Types, ReviveInstalls
  <2>2. CASE current # lane.owner
    <3>1. unavailable \in [Owner -> BOOLEAN]
      BY <1>a DEF Types
    <3> QED
      BY <1>b, <1>c, <1>i, <1>13, <2>2, <3>1 DEF ReviveInstalls
  <2> QED
    BY <2>1, <2>2
<1>14. CASE Delete
  <2>1. CASE current # None
    <3>1. session[current] \in Session \cup {None}
      BY <1>d, <1>l, <2>1
    <3>2. unavailable' \in [Owner -> BOOLEAN] /\ Release(session[current], "deleted")
      BY <1>a, <1>14, <2>1 DEF Delete, Types
    <3> QED
      BY <1>c, <1>i, <1>14, <3>1, <3>2 DEF Delete
  <2>2. CASE current = None
    BY <1>c, <1>f, <1>14, <2>2 DEF Delete
  <2> QED
    BY <2>1, <2>2
<1>15. CASE Deleted
  BY <1>a, <1>l, <1>15, SettleTypes DEF Deleted, Types
<1>16. CASE Discard
  <2>1. CASE Settle(None) /\ UNCHANGED <<sessionVars, blocker, unavailable>>
    BY <1>e, <1>l, <1>16, <2>1 DEF Discard
  <2>2. CASE Drop(lane.op.owner)
    <3>1. HasSession(lane.op.owner)
      BY <1>k, <1>16 DEF Discard, Ready
    <3> QED
      BY <1>b, <1>h, <1>16, <2>2, <3>1 DEF Discard
  <2> QED
    BY <1>16, <2>1, <2>2 DEF Discard
<1> QED
  BY <1>1, <1>2, <1>3, <1>4, <1>5, <1>6, <1>7, <1>8, <1>9, <1>10, <1>11, <1>12, <1>13,
     <1>14, <1>15, <1>16 DEF LaneStep

\* The callers keep the types.
LEMMA RequestStepTypes ==
    ASSUME IInv, NEW r \in Request, RequestStep(r)
    PROVE  Types'
<1> USE DEF NativeType, sessionVars, ownerVars, rollbackVars
<1>a. Types /\ request \in [Request -> Requests] /\ request[r] \in Requests
  BY DEF IInv, Types
<1>b. /\ request[r].owner \in Owner \cup {None} /\ request[r].fresh \in Session \cup {None}
      /\ NoRequest \in Requests
  BY <1>a, LaneTypes DEF Requests
<1>c. {"waiting", "starting", "rollback", "replace", "replacing"} \subseteq RequestPcs
  BY DEF RequestPcs, Replacing
<1>d. ASSUME NEW q \in Requests, request' = [request EXCEPT ![r] = q],
             UNCHANGED <<sessionVars, session, ownerRef, unavailable, outputFailed, closeFailed, current,
                         stored, queue, lane, blocker, idle, rollbacks>>,
             turn' \in [Owner -> BOOLEAN]
      PROVE  Types'
  BY <1>a, <1>d DEF Types
<1>e. \A pc \in RequestPcs : [request[r] EXCEPT !.pc = pc] \in Requests
  BY <1>a DEF Requests
<1>f. ASSUME NEW op \in Operations, Admit(op)
      PROVE  queue' \in Seq(Operations) /\ Len(queue') <= MaxQueued
  BY <1>a, <1>f, BoundAssumption DEF Types, Admit
<1>g. \A k \in {"resolve", "delete", "refresh"}, o \in Owner \cup {None} : Operation(k, r, o, None) \in Operations
  BY DEF Operation, Operations, Kinds
<1>h. turn \in [Owner -> BOOLEAN]
  BY <1>a DEF Types
<1>1. CASE Call(r, "resolve") \/ Call(r, "delete")
  <2>1. PICK k \in {"resolve", "delete"} : Call(r, k)
    BY <1>1
  <2>2. queue' \in Seq(Operations) /\ Len(queue') <= MaxQueued
    BY <1>f, <1>g, <2>1 DEF Call
  <2>3. request' = [request EXCEPT ![r] = [request[r] EXCEPT !.pc = "waiting"]]
    BY <1>a, <2>1 DEF Call
  <2>4. request' \in [Request -> Requests]
    BY <1>a, <1>c, <1>e, <2>3
  <2> QED
    BY <1>a, <2>1, <2>2, <2>4 DEF Types, Call
<1>2. ASSUME NEW b \in BOOLEAN, CallRefresh(r, b) PROVE Types'
  <2>1. queue' \in Seq(Operations) /\ Len(queue') <= MaxQueued
    BY <1>b, <1>f, <1>g, <1>2 DEF CallRefresh
  <2>2. request' = [request EXCEPT ![r] = [request[r] EXCEPT !.pc = "waiting", !.rolling = b]]
    BY <1>a, <1>2 DEF CallRefresh
  <2>3. [request[r] EXCEPT !.pc = "waiting", !.rolling = b] \in Requests
    BY <1>a, <1>c DEF Requests
  <2>4. request' \in [Request -> Requests]
    BY <1>a, <2>2, <2>3
  <2> QED
    BY <1>a, <1>2, <2>1, <2>4 DEF Types, CallRefresh
<1>3. CASE StartTurn(r)
  <2>1. request' = [request EXCEPT ![r] = [request[r] EXCEPT !.pc = "starting"]]
    BY <1>a, <1>3 DEF StartTurn
  <2> QED
    BY <1>c, <1>d, <1>e, <1>h, <1>3, <2>1 DEF StartTurn
<1>4. CASE TurnAccepted(r) \/ TurnRefused(r) \/ Finish(r)
  BY <1>b, <1>d, <1>h, <1>4 DEF TurnAccepted, TurnRefused, Finish
<1>5. CASE RollbackOpens(r)
  <2>1. rollbacks + 2 \in Ref /\ rollbacks' \in 0 .. MaxRollbacks
    BY <1>a, <1>5, BoundAssumption DEF Types, RollbackOpens, Ref
  <2>2. Open(rollbacks + 2)
    BY <1>5 DEF RollbackOpens
  <2>3. opened + 1 \in Session /\ opened' \in 0 .. MaxSessions /\ native' \in NativeType
        /\ ref' \in [Session -> Ref \cup {None}] /\ output' = output
    BY <1>a, <2>1, <2>2, OpenTypes
  <2>4. request' = [request EXCEPT ![r] = [request[r] EXCEPT !.pc = "rollback", !.fresh = opened + 1]]
    BY <1>a, <1>5 DEF RollbackOpens
  <2>5. [request[r] EXCEPT !.pc = "rollback", !.fresh = opened + 1] \in Requests
    BY <1>a, <1>c, <2>3 DEF Requests
  <2>6. request' \in [Request -> Requests]
    BY <1>a, <2>4, <2>5
  <2>7. UNCHANGED <<ownerVars, current, stored, queue, lane, blocker, idle>>
    BY <1>5 DEF RollbackOpens
  <2> QED
    BY <1>a, <2>1, <2>3, <2>6, <2>7 DEF Types
<1>6. CASE RollbackCommits(r)
  <2>1. request[r].fresh \in Session
    BY <1>b, <1>6 DEF RollbackCommits, IInv, Sessions, Unregistered, Replacing, Fresh
  <2>2. request' = [request EXCEPT ![r] = [request[r] EXCEPT !.pc = "replace"]]
    BY <1>a, <1>6 DEF RollbackCommits
  <2>3. request' \in [Request -> Requests]
    BY <1>a, <1>c, <1>e, <2>2
  <2> QED
    BY <1>a, <1>6, <2>1, <2>3 DEF Types, RollbackCommits
<1>7. CASE RollbackAborts(r)
  BY <1>a, <1>b, <1>7, CloseTypes DEF Types, RollbackAborts
<1>8. CASE Replace(r)
  <2>1. native' \in NativeType
    BY <1>a, <1>8, CloseTypes DEF Types, Replace
  <2>2. \/ request' = [request EXCEPT ![r] = NoRequest]
        \/ request' = [request EXCEPT ![r] = [request[r] EXCEPT !.pc = "replacing"]]
    BY <1>a, <1>8 DEF Replace
  <2>3. request' \in [Request -> Requests]
    BY <1>a, <1>b, <1>c, <1>e, <2>2
  <2> QED
    BY <1>a, <1>8, <2>1, <2>3 DEF Types, Replace
<1>9. CASE Replaced(r)
  <2>1. request[r].fresh \in Session
    BY <1>b, <1>9 DEF Replaced, IInv, Sessions, Unregistered, Replacing, Fresh
  <2>2. ref[request[r].fresh] \in Ref \cup {None}
    BY <1>a, <2>1 DEF Types
  <2> QED
    BY <1>a, <1>b, <1>9, <2>1, <2>2 DEF Types, Replaced, Register, Owner
<1>10. \A b \in BOOLEAN : CallRefresh(r, b) => Types'
  BY <1>2
<1>11. CallRefresh(r, TRUE) \/ CallRefresh(r, FALSE) => Types'
  BY <1>10
<1> QED
  BY <1>1, <1>3, <1>4, <1>5, <1>6, <1>7, <1>8, <1>9, <1>11 DEF RequestStep

\* The rest keeps the types.
LEMMA OtherTypes ==
    ASSUME IInv,
           \/ IdleCloses \/ IdleEnds
           \/ \E s \in Session : SessionStep(s)
           \/ \E o \in Owner : OwnerStep(o)
    PROVE  Types'
<1> USE DEF NativeType, sessionVars, ownerVars, rollbackVars
<1>a. Types
  BY DEF IInv
<1>1. CASE IdleCloses
  <2>1. native' \in NativeType
    BY <1>a, <1>1, CloseTypes DEF IdleCloses
  <2> QED
    BY <1>a, <1>1, <2>1 DEF Types, IdleCloses
<1>2. CASE IdleEnds
  <2>1. closeFailed' \in [Owner -> BOOLEAN]
    <3>1. closeFailed' = closeFailed \/ closeFailed' = [closeFailed EXCEPT ![idle] = TRUE]
      BY <1>2 DEF IdleEnds, IdleReleases, IdleFails
    <3> QED
      BY <1>a, <3>1 DEF Types
  <2>2. current' \in {current, None} /\ idle' = None
    BY <1>2 DEF IdleEnds, IdleReleases, IdleFails
  <2>3. UNCHANGED <<sessionVars, session, ownerRef, unavailable, turn, outputFailed,
                    stored, queue, lane, blocker, request, rollbackVars>>
    BY <1>2 DEF IdleEnds, IdleReleases, IdleFails
  <2> QED
    BY <1>a, <2>1, <2>2, <2>3 DEF Types
<1>3. ASSUME NEW s \in Session, SessionStep(s) PROVE Types'
  <2>1. CASE CloseResolves(s) \/ CloseRejects(s)
    BY <1>a, <2>1 DEF Types, CloseResolves, CloseRejects
  <2>2. CASE OutputEnds(s)
    BY <1>a, <2>2 DEF Types, OutputEnds
  <2> QED
    BY <1>3, <2>1, <2>2 DEF SessionStep
<1>4. ASSUME NEW o \in Owner, OwnerStep(o) PROVE Types'
  <2>1. CASE OutputBreaks(o)
    BY <1>a, <2>1, CloseTypes DEF Types, OutputBreaks
  <2>2. CASE Fault(o)
    <3>1. session[o] \in Session \cup {None}
      BY <1>a DEF Types
    <3>2. Operation("discard", Nobody, o, session[o]) \in Operations
      BY <3>1 DEF Operation, Operations, Kinds
    <3>3. queue \in Seq(Operations) /\ Len(queue) <= MaxQueued
      BY <1>a DEF Types
    <3>4. \/ queue' = queue
          \/ Len(queue) < MaxQueued /\ queue' = Append(queue, Operation("discard", Nobody, o, session[o]))
      BY <2>2 DEF Fault, Admit
    <3>5. queue' \in Seq(Operations) /\ Len(queue') <= MaxQueued
      BY <3>2, <3>3, <3>4, BoundAssumption
    <3> QED
      BY <1>a, <2>2, <3>5 DEF Types, Fault
  <2>3. CASE TurnEnds(o)
    BY <1>a, <2>3 DEF Types, TurnEnds
  <2> QED
    BY <1>4, <2>1, <2>2, <2>3 DEF OwnerStep
<1> QED
  BY <1>1, <1>2, <1>3, <1>4

\* Every variable keeps its type.
LEMMA TypesKeep == IInv /\ [Next]_vars => Types'
<1> SUFFICES ASSUME IInv, [Next]_vars PROVE Types'
  OBVIOUS
<1>1. CASE UNCHANGED vars
  BY <1>1 DEF IInv, Types, vars, sessionVars, ownerVars, rollbackVars
<1>2. CASE Next
  BY <1>2, LaneStepTypes, RequestStepTypes, OtherTypes DEF Next
<1> QED
  BY <1>1, <1>2

-----------------------------------------------------------------------------
(* Sessions that go on *)

\* No Session is opened, registered or reopened.
GoesOn ==
    /\ opened' = opened /\ session' = session
    /\ \A s \in Session : /\ native'[s] = "unmade" <=> native[s] = "unmade"
                          /\ native'[s] = "open" => native[s] = "open"
                          /\ output'[s] = "none" <=> output[s] = "none"
                          /\ Released(s) => Released(s)'

\* What a close does to the Sessions.
LEMMA CloseGoesOn ==
    ASSUME Types, NEW s \in Session, native' = AfterClose(s), UNCHANGED <<output, opened, session>>
    PROVE  /\ GoesOn
           /\ \A x \in Session : x # s => native'[x] = native[x]
           /\ native[s] # "unmade" => native'[s] \notin {"unmade", "open"}
           /\ native'[s] = IF native[s] \in {"open", "closeRejected"} THEN "closing" ELSE native[s]
BY DEF Types, AfterClose, GoesOn, Released, Drained

\* What the invariant says of Sessions that nobody opens or registers.
LEMMA SessionsStay ==
    ASSUME IInv, GoesOn, closeFailed' = closeFailed
    PROVE  /\ Made' /\ Owned'
           /\ \A o : HasSession(o)' <=> HasSession(o)
           /\ \A s \in Session : Fresh(s) /\ native'[s] = "open" => Fresh(s)'
<1>1. \A o \in Owner : session[o] \in Session \cup {None}
  BY DEF IInv, Types
<1>2. Made'
  BY DEF IInv, Sessions, Made, GoesOn
<1>3. Owned'
  BY <1>1 DEF IInv, Sessions, Owned, GoesOn
<1>4. \A o : HasSession(o)' <=> HasSession(o)
  BY DEF GoesOn, HasSession
<1>5. \A s \in Session : Fresh(s) /\ native'[s] = "open" => Fresh(s)'
  BY DEF GoesOn, Fresh
<1> QED
  BY <1>2, <1>3, <1>4, <1>5

\* What the invariant says of the Sessions that stay released.
LEMMA ReleasesStay ==
    ASSUME Types, session' = session, \A s \in Session : Released(s) => Released(s)'
    PROVE  /\ \A o : HasSession(o)' <=> HasSession(o)
           /\ \A o \in Owner : HasSession(o) /\ Released(session[o]) => Released(session[o])'
<1>1. \A s \in Session : Released(s) => native'[s] = "closed" /\ output'[s] \in {"none", "ended"}
  BY DEF Released, Drained
<1>2. \A o \in Owner : session[o] \in Session \cup {None}
  BY DEF Types
<1> QED
  BY <1>1, <1>2 DEF HasSession, Released, Drained

\* Nor what is said of the place where the lane is.
LEMMA PositionsStay ==
    ASSUME IInv, session' = session, \A s \in Session : Released(s) => Released(s)',
           UNCHANGED <<closeFailed, current, lane, blocker>>
    PROVE  Positions'
<1>a. Types /\ current \in Owner \cup {None} /\ lane.owner \in Owner \cup {None}
  BY DEF IInv, Types, Lanes
<1>1. /\ \A o : HasSession(o)' <=> HasSession(o)
      /\ \A o \in Owner : HasSession(o) /\ Released(session[o]) => Released(session[o])'
  BY <1>a, ReleasesStay
<1>2. Placed' /\ Offered'
  BY <1>1 DEF IInv, Positions, Placed, Offered, Place
<1>3. ReleasedFirst'
  <2>1. /\ current # None => HasSession(current) /\ current \in Owner
        /\ Place \in Drops \cup Revives => HasSession(lane.owner) /\ lane.owner \in Owner
    BY <1>a DEF IInv, Sessions, Held, Positions, Placed, HasSession
  <2>2. Place' = Place
    BY DEF Place
  <2>3. Place \in Drops \cup Revives /\ Released(session[lane.owner]) => Released(session[lane.owner])'
    BY <1>1, <2>1
  <2>4. current # None /\ Released(session[current]) => Released(session[current])'
    BY <1>1, <2>1
  <2> QED
    BY <2>2, <2>3, <2>4 DEF IInv, Positions, ReleasedFirst
<1> QED
  BY <1>2, <1>3 DEF Positions

\* A step of a Session changes nothing else.
LEMMA SessionMoves ==
    ASSUME IInv, GoesOn, \A s \in Session : Fresh(s) => native'[s] = "open",
           UNCHANGED <<closeFailed, current, queue, lane, blocker, request>>, IdleAlone'
    PROVE  Sessions' /\ Callers' /\ Positions'
<1>1. /\ Made' /\ Owned'
      /\ \A o : HasSession(o)' <=> HasSession(o)
      /\ \A s \in Session : Fresh(s) => Fresh(s)'
  BY SessionsStay
<1>a. /\ lane \in Lanes /\ request \in [Request -> Requests]
      /\ lane.fresh \in Session \cup {None}
      /\ \A r \in Request : request[r].fresh \in Session \cup {None}
  BY DEF IInv, Types, Lanes, Requests
<1>b. /\ blocker \in Session \cup {None}
      /\ \A o \in Owner : session[o] \in Session \cup {None}
      /\ current \in Owner \cup {None} /\ lane.owner \in Owner \cup {None}
  BY <1>a DEF IInv, Types, Lanes
<1>2. Held'
  BY <1>1 DEF IInv, Sessions, Held
<1>3. Unregistered'
  BY <1>1, <1>a DEF IInv, Sessions, Unregistered, Fresh
<1>4. Answered' /\ Usable'
  BY <1>1 DEF IInv, Callers, Answered, OperationFits, Usable
<1>5. Blocked'
  BY <1>b DEF IInv, Callers, Blocked, GoesOn
<1>6. Positions'
  BY PositionsStay DEF GoesOn
<1> QED
  BY <1>1, <1>2, <1>3, <1>4, <1>5, <1>6 DEF Sessions, Callers

\* Closes and outputs that settle, and Turns that end, change nothing else.
LEMMA SessionStepKeeps ==
    ASSUME IInv,
           \/ \E s \in Session : SessionStep(s)
           \/ \E o \in Owner : OutputBreaks(o) \/ TurnEnds(o)
    PROVE  Sessions' /\ Callers' /\ Positions'
<1>a. Types
  BY DEF IInv
<1>b. ASSUME UNCHANGED <<current, lane, blocker, idle, request>> PROVE IdleAlone'
  BY <1>b DEF IInv, Callers, IdleAlone, InOperation
<1>1. ASSUME NEW s \in Session, CloseResolves(s) \/ CloseRejects(s) PROVE Sessions' /\ Callers' /\ Positions'
  <2>1. /\ UNCHANGED <<output, opened, session, closeFailed, current, queue, lane, blocker, idle, request>>
        /\ native[s] = "closing" /\ native'[s] \in {"closed", "closeRejected"}
        /\ \A x \in Session : x # s => native'[x] = native[x]
    BY <1>a, <1>1 DEF Types, CloseResolves, CloseRejects, ownerVars
  <2>2. GoesOn /\ \A x \in Session : Fresh(x) => native'[x] = "open"
    BY <2>1 DEF GoesOn, Fresh, Released, Drained
  <2> QED
    BY <1>b, <2>1, <2>2, SessionMoves
<1>2. ASSUME NEW s \in Session, OutputEnds(s) PROVE Sessions' /\ Callers' /\ Positions'
  <2>1. /\ UNCHANGED <<native, opened, session, closeFailed, current, queue, lane, blocker, idle, request>>
        /\ output[s] \in {"live", "broken"} /\ output'[s] = "ended"
        /\ \A x \in Session : x # s => output'[x] = output[x]
    BY <1>a, <1>2 DEF Types, OutputEnds
  <2>2. GoesOn /\ \A x \in Session : Fresh(x) => native'[x] = "open"
    BY <2>1 DEF GoesOn, Fresh, Released, Drained
  <2> QED
    BY <1>b, <2>1, <2>2, SessionMoves
<1>3. ASSUME NEW o \in Owner, OutputBreaks(o) PROVE Sessions' /\ Callers' /\ Positions'
  <2> DEFINE s == session[o]
  <2>1. /\ UNCHANGED <<opened, session, closeFailed, current, queue, lane, blocker, idle, request>>
        /\ s \in Session /\ output[s] = "live" /\ output'[s] = "broken"
        /\ \A x \in Session : x # s => output'[x] = output[x]
        /\ native' = AfterClose(s)
    BY <1>a, <1>3 DEF Types, OutputBreaks
  <2>2. \A x \in Session : x # s => native'[x] = native[x]
    BY <1>a, <2>1 DEF Types, AfterClose
  <2>3. native'[s] = IF native[s] \in {"open", "closeRejected"} THEN "closing" ELSE native[s]
    BY <1>a, <2>1 DEF Types, AfterClose
  <2> HIDE DEF s
  <2>4. GoesOn /\ \A x \in Session : Fresh(x) => native'[x] = "open"
    BY <2>1, <2>2, <2>3 DEF GoesOn, Fresh, Released, Drained
  <2> QED
    BY <1>b, <2>1, <2>4, SessionMoves
<1>4. ASSUME NEW o \in Owner, TurnEnds(o) PROVE Sessions' /\ Callers' /\ Positions'
  <2>1. UNCHANGED <<native, output, opened, session, closeFailed, current, queue, lane, blocker, idle,
                    request>>
    BY <1>4 DEF TurnEnds, sessionVars
  <2>2. GoesOn /\ \A x \in Session : Fresh(x) => native'[x] = "open"
    BY <2>1 DEF GoesOn, Fresh, Released, Drained
  <2> QED
    BY <1>b, <2>1, <2>2, SessionMoves
<1> QED
  BY <1>1, <1>2, <1>3, <1>4 DEF SessionStep

\* An idle release closes the Session of the loaded owner, when nobody else uses it.
LEMMA IdleClosesKeeps ==
    ASSUME IInv, IdleCloses
    PROVE  Sessions' /\ Callers' /\ Positions'
<1> DEFINE s == session[current]
<1>1. /\ UNCHANGED <<output, opened, session, closeFailed, current, queue, lane, blocker, request>>
      /\ current # None /\ idle' = current /\ native' = AfterClose(s)
      /\ lane.pc = "free" /\ blocker = None /\ InOperation = {}
  BY DEF IdleCloses, ownerVars, Busy
<1>2. Types /\ current \in Owner /\ s \in Session /\ output[s] # "none"
  BY <1>1 DEF IInv, Types, Sessions, Held, HasSession, Owned
<1>3. GoesOn /\ \A x \in Session : Fresh(x) => native'[x] = "open"
  BY <1>1, <1>2, CloseGoesOn DEF Fresh
<1>4. IdleAlone'
  BY <1>1 DEF IdleAlone, InOperation
<1> QED
  BY <1>1, <1>3, <1>4, SessionMoves

\* An idle release ends: the owner is forgotten, or may not be used any more.
LEMMA IdleEndsKeeps ==
    ASSUME IInv, IdleEnds
    PROVE  Sessions' /\ Callers' /\ Positions'
<1>1. /\ UNCHANGED <<native, output, opened, session, queue, lane, blocker, request>>
      /\ idle # None /\ idle' = None
      /\ current' \in {current, None}
      /\ closeFailed' \in {closeFailed, [closeFailed EXCEPT ![idle] = TRUE]}
  BY DEF IdleEnds, IdleReleases, IdleFails, sessionVars
<1>2. /\ Types /\ current = idle /\ blocker = None /\ lane.pc \in {"free", "admitted"}
      /\ \A r \in Request : request[r].pc = "off"
      /\ HasSession(idle)
  BY <1>1 DEF IInv, Callers, IdleAlone, InOperation, Sessions, Held
<1>3. Made'
  BY <1>1 DEF IInv, Sessions, Made
<1>4. Owned'
  <2>1. \A o \in Owner : o # idle => closeFailed'[o] = closeFailed[o]
    BY <1>1, <1>2 DEF Types
  <2> QED
    BY <1>1, <1>2, <2>1 DEF IInv, Sessions, Owned, HasSession
<1>5. Held' /\ Unregistered'
  BY <1>1, <1>2 DEF IInv, Sessions, Held, HasSession, Unregistered, Fresh, Reading
<1>6. Answered' /\ Blocked' /\ IdleAlone'
  BY <1>1, <1>2 DEF IInv, Callers, Answered, OperationFits, Blocked, IdleAlone, HasSession
<1>7. Usable'
  BY <1>1, <1>2 DEF Usable, Replacing
<1>8. Positions'
  BY <1>1, <1>2 DEF Positions, Placed, ReleasedFirst, Offered, Place, Drops, Revives
<1> QED
  BY <1>3, <1>4, <1>5, <1>6, <1>7, <1>8 DEF Sessions, Callers

-----------------------------------------------------------------------------
(* The queue *)

\* An operation that still has its caller and its owner fits on.
LEMMA FitsOn ==
    ASSUME NEW op, OperationFits(op),
           \A o : HasSession(o) => HasSession(o)',
           op.by # Nobody => (request[op.by].pc = "waiting" => request'[op.by].pc = "waiting")
    PROVE  OperationFits(op)'
BY DEF OperationFits

\* A caller that was not waiting adds its operation at the end.
LEMMA AdmitAnswers ==
    ASSUME IInv, NEW op \in Operations, Admit(op), lane' = lane, OperationFits(op)',
           \A o : HasSession(o) => HasSession(o)',
           op.by # Nobody => request[op.by].pc # "waiting",
           \A r \in Request : request[r].pc = "waiting" => request'[r].pc = "waiting"
    PROVE  Answered'
<1>1. queue \in Seq(Operations) /\ lane.op \in Operations
  BY DEF IInv, Types, Lanes
<1>2. Len(queue) \in Nat /\ \A i \in 1 .. Len(queue) : queue[i] \in Operations
  BY <1>1
<1>3. Len(queue') = Len(queue) + 1 /\ queue'[Len(queue) + 1] = op
      /\ \A i \in 1 .. Len(queue) : queue'[i] = queue[i]
  BY <1>1 DEF Admit
<1>4. \A x \in Operations : x.by \in Request \cup {Nobody}
  BY DEF Operations
<1>5. /\ \A i \in 1 .. Len(queue) : OperationFits(queue[i])
      /\ \A i, j \in 1 .. Len(queue) : queue[i].by = queue[j].by => i = j \/ queue[i].by = Nobody
      /\ lane.pc # "free" => OperationFits(lane.op)
      /\ lane.pc # "free" => \A i \in 1 .. Len(queue) : queue[i].by = lane.op.by => lane.op.by = Nobody
  BY DEF IInv, Callers, Answered
<1>6. ASSUME NEW x \in Operations, OperationFits(x)
      PROVE  OperationFits(x)' /\ (x.by = op.by => x.by = Nobody)
  <2>1. x.by # Nobody => request[x.by].pc = "waiting"
    BY <1>6 DEF OperationFits
  <2>2. x.by # Nobody => request'[x.by].pc = "waiting"
    BY <1>4, <2>1
  <2> QED
    BY <1>6, <2>1, <2>2, FitsOn
<1>7. \A i \in 1 .. Len(queue) : queue[i].by = op.by => op.by = Nobody
  BY <1>2, <1>5, <1>6
<1>8. ASSUME NEW i \in 1 .. Len(queue') PROVE OperationFits(queue[i])'
  <2>1. PICK x \in Operations : queue'[i] = x /\ OperationFits(x)'
    <3>1. CASE i = Len(queue) + 1
      BY <1>3, <3>1
    <3>2. CASE i # Len(queue) + 1
      <4>1. i \in 1 .. Len(queue) /\ queue'[i] = queue[i] /\ queue[i] \in Operations
        BY <1>2, <1>3, <3>2
      <4> QED
        BY <1>5, <1>6, <4>1
    <3> QED
      BY <3>1, <3>2
  <2> QED
    BY <2>1
<1>9. \A i, j \in 1 .. Len(queue') : queue'[i].by = queue'[j].by => i = j \/ queue'[i].by = Nobody
  <2>1. \A i \in 1 .. Len(queue') :
          (i \in 1 .. Len(queue) /\ queue'[i] = queue[i]) \/ (i = Len(queue) + 1 /\ queue'[i] = op)
    BY <1>2, <1>3
  <2> QED
    BY <1>5, <1>7, <2>1
<1>10. lane'.pc # "free" =>
          /\ OperationFits(lane.op)'
          /\ \A i \in 1 .. Len(queue') : queue'[i].by = lane'.op.by => lane'.op.by = Nobody
  <2> SUFFICES ASSUME lane.pc # "free"
               PROVE  /\ OperationFits(lane.op)'
                      /\ \A i \in 1 .. Len(queue') : queue'[i].by = lane.op.by => lane.op.by = Nobody
    OBVIOUS
  <2>1. PICK x \in Operations : lane.op = x /\ OperationFits(x)' /\ (x.by = op.by => x.by = Nobody)
    BY <1>1, <1>5, <1>6
  <2>2. lane'.op = x
    BY <2>1
  <2>3. \A i \in 1 .. Len(queue') :
          (i \in 1 .. Len(queue) /\ queue'[i] = queue[i]) \/ (i = Len(queue) + 1 /\ queue'[i] = op)
    BY <1>2, <1>3
  <2> QED
    BY <1>5, <2>1, <2>2, <2>3
<1> QED
  BY <1>8, <1>9, <1>10 DEF Answered

-----------------------------------------------------------------------------
(* Callers *)

\* A caller goes on with the owner it holds, and at most closes its own fresh Session.
LEMMA CallerMoves ==
    ASSUME IInv, Types', GoesOn, Answered', IdleAlone', NEW r \in Request,
           UNCHANGED <<closeFailed, current, lane, blocker>>,
           \A q \in Request : q # r => request'[q] = request[q],
           request'[r].owner \in {request[r].owner, None},
           request'[r].pc = "holding" => request[r].pc = "holding" /\ request'[r].owner = request[r].owner,
           request'[r].pc \in Replacing \cup {"starting"} => request'[r].owner # None,
           request'[r].pc \in Replacing => Fresh(request[r].fresh)' /\ request'[r].fresh = request[r].fresh
                                           /\ request[r].pc \in Replacing,
           request'[r].rolling \/ request'[r].pc \in Replacing => r = Desktop,
           \A s \in Session : Fresh(s) =>
              \/ native'[s] = "open"
              \/ request[r].pc \in Replacing /\ s = request[r].fresh /\ request'[r].pc \notin Replacing
    PROVE  Sessions' /\ Callers' /\ Positions'
<1>1. /\ Made' /\ Owned'
      /\ \A o : HasSession(o)' <=> HasSession(o)
      /\ \A s \in Session : Fresh(s) /\ native'[s] = "open" => Fresh(s)'
  BY SessionsStay
<1>a. /\ lane \in Lanes /\ request \in [Request -> Requests]
      /\ lane.fresh \in Session \cup {None}
      /\ \A q \in Request : request[q].fresh \in Session \cup {None}
      /\ \A q \in Request : request'[q].fresh \in Session \cup {None}
  BY DEF IInv, Types, Lanes, Requests
<1>b. /\ blocker \in Session \cup {None}
      /\ \A o \in Owner : session[o] \in Session \cup {None}
      /\ current \in Owner \cup {None} /\ lane.owner \in Owner \cup {None}
  BY <1>a DEF IInv, Types, Lanes
<1>2. Held'
  BY <1>1 DEF IInv, Sessions, Held
<1>3. Unregistered'
  <2>1. /\ lane.pc \in Reading => Fresh(lane.fresh)
        /\ \A q \in Request :
              /\ request[q].rolling \/ request[q].pc \in Replacing => q = Desktop
              /\ request[q].pc \in Replacing =>
                    Fresh(request[q].fresh) /\ (lane.pc \in Reading => request[q].fresh # lane.fresh)
    BY DEF IInv, Sessions, Unregistered
  <2>2. lane.pc \in Reading => Fresh(lane.fresh)'
    BY <1>1, <1>a, <2>1 DEF Fresh
  <2>3. ASSUME NEW q \in Request, q # r, request[q].pc \in Replacing PROVE Fresh(request[q].fresh)'
    <3>1. request[r].pc \notin Replacing /\ Fresh(request[q].fresh) /\ request[q].fresh \in Session
      BY <1>a, <2>1, <2>3 DEF Fresh
    <3>2. native'[request[q].fresh] = "open"
      BY <3>1
    <3>3. request'[q].fresh = request[q].fresh
      BY <2>3
    <3> QED
      BY <3>1, <3>2, <3>3 DEF Fresh, GoesOn
  <2> QED
    BY <2>1, <2>2, <2>3 DEF Unregistered
<1>4. Usable'
  BY <1>1 DEF IInv, Callers, Usable
<1>5. Blocked'
  BY <1>b DEF IInv, Callers, Blocked, GoesOn
<1>6. Positions'
  BY PositionsStay DEF GoesOn
<1> QED
  BY <1>1, <1>2, <1>3, <1>4, <1>5, <1>6 DEF Sessions, Callers

\* Nobody waits for less than it did.
LEMMA AnswersStay ==
    ASSUME IInv, UNCHANGED <<queue, lane>>, \A o : HasSession(o) => HasSession(o)',
           \A r \in Request : request[r].pc = "waiting" => request'[r].pc = "waiting"
    PROVE  Answered'
<1>1. queue \in Seq(Operations) /\ lane.op \in Operations
  BY DEF IInv, Types, Lanes
<1>2. \A i \in 1 .. Len(queue) : queue[i] \in Operations
  BY <1>1
<1>3. \A x \in Operations : x.by \in Request \cup {Nobody}
  BY DEF Operations
<1>4. ASSUME NEW x \in Operations, OperationFits(x) PROVE OperationFits(x)'
  BY <1>3, <1>4, FitsOn DEF OperationFits
<1>5. ASSUME NEW i \in 1 .. Len(queue) PROVE OperationFits(queue[i])'
  <2>1. PICK x \in Operations : queue[i] = x /\ queue'[i] = x /\ OperationFits(x)
    BY <1>2 DEF IInv, Callers, Answered
  <2> QED
    BY <1>4, <2>1
<1>6. lane.pc # "free" => OperationFits(lane.op)'
  <2>1. PICK x \in Operations : lane.op = x /\ lane'.op = x
    BY <1>1
  <2> QED
    BY <1>4, <2>1 DEF IInv, Callers, Answered
<1> QED
  BY <1>5, <1>6 DEF IInv, Callers, Answered

\* A caller enters the lane.
LEMMA CallKeeps ==
    ASSUME IInv, Types', NEW r \in Request, NEW k \in {"resolve", "delete"}, Call(r, k)
    PROVE  Sessions' /\ Callers' /\ Positions'
<1> DEFINE op == Operation(k, r, None, None)
<1>1. /\ UNCHANGED <<native, output, opened, session, closeFailed, current, lane, blocker, idle>>
      /\ request[r].pc = "off" /\ idle = None /\ Admit(op)
      /\ k = "delete" => r = Desktop
  BY DEF Call, sessionVars, ownerVars
<1>2. /\ \A q \in Request : q # r => request'[q] = request[q]
      /\ request'[r].pc = "waiting" /\ request'[r].owner = request[r].owner
      /\ request'[r].rolling = request[r].rolling
  BY DEF IInv, Types, Requests, Call
<1>3. GoesOn /\ \A o : HasSession(o)' <=> HasSession(o)
  BY <1>1 DEF GoesOn, HasSession, Released, Drained
<1>4. op \in Operations /\ op.by = r
  BY DEF Operation, Operations, Kinds
<1>5. OperationFits(op)'
  BY <1>1, <1>2, <1>4, NobodyAssumption DEF OperationFits, Operation, Kinds
<1>6. Answered'
  <2> HIDE DEF op
  <2> QED
    BY <1>1, <1>2, <1>3, <1>4, <1>5, AdmitAnswers
<1>7. IdleAlone'
  BY <1>1 DEF IdleAlone
<1>8. request[r].rolling => r = Desktop
  BY DEF IInv, Sessions, Unregistered
<1> HIDE DEF op
<1> QED
  BY <1>1, <1>2, <1>3, <1>6, <1>7, <1>8, CallerMoves DEF Replacing, Fresh

\* The owner a caller holds has a Session.
LEMMA HolderHas ==
    ASSUME IInv, NEW r \in Request
    PROVE  /\ request[r].pc \in Replacing \cup {"holding", "starting"} => HasSession(request[r].owner)
           /\ request[r].pc # "off" => idle = None
           /\ request[r].rolling \/ request[r].pc \in Replacing => r = Desktop
BY DEF IInv, Callers, Usable, IdleAlone, InOperation, Sessions, Held, Unregistered

\* A caller enters the lane again with the owner it holds.
LEMMA CallRefreshKeeps ==
    ASSUME IInv, Types', NEW r \in Request, NEW b \in BOOLEAN, CallRefresh(r, b)
    PROVE  Sessions' /\ Callers' /\ Positions'
<1> DEFINE op == Operation("refresh", r, request[r].owner, None)
<1>1. /\ UNCHANGED <<native, output, opened, session, closeFailed, current, lane, blocker, idle>>
      /\ request[r].pc = "holding" /\ Admit(op)
      /\ b => r = Desktop
  BY DEF CallRefresh, sessionVars, ownerVars
<1>2. /\ \A q \in Request : q # r => request'[q] = request[q]
      /\ request'[r].pc = "waiting" /\ request'[r].owner = request[r].owner
      /\ request'[r].rolling <=> b
  BY DEF IInv, Types, Requests, CallRefresh
<1>3. GoesOn /\ \A o : HasSession(o)' <=> HasSession(o)
  BY <1>1 DEF GoesOn, HasSession, Released, Drained
<1>4. request[r].owner \in Owner \cup {None} /\ HasSession(request[r].owner)
  BY <1>1, HolderHas DEF IInv, Types, Requests
<1>5. Answered'
  <2>1. PICK o \in Owner \cup {None} : o = request[r].owner
    BY <1>4
  <2>2. PICK x \in Operations : x = Operation("refresh", r, o, None)
    BY DEF Operation, Operations, Kinds
  <2>3. /\ x = op /\ x.by = r
    BY <2>1, <2>2 DEF Operation
  <2>4. HasSession(o)'
    BY <1>3, <1>4, <2>1
  <2>5. OperationFits(x)'
    BY <1>2, <2>2, <2>4, NobodyAssumption DEF OperationFits, Operation, Kinds
  <2> HIDE DEF op
  <2> QED
    BY <1>1, <1>2, <1>3, <2>3, <2>5, AdmitAnswers
<1>6. IdleAlone'
  BY <1>1, HolderHas DEF IdleAlone
<1> HIDE DEF op
<1> QED
  BY <1>1, <1>2, <1>3, <1>5, <1>6, CallerMoves DEF Replacing, Fresh

\* A Session that faults is discarded by an operation nobody waits for.
LEMMA FaultKeeps ==
    ASSUME IInv, Types', NEW o \in Owner, Fault(o)
    PROVE  Sessions' /\ Callers' /\ Positions'
<1> DEFINE s == session[o]
<1>1. /\ UNCHANGED <<native, output, opened, session, closeFailed, current, lane, blocker, idle, request>>
      /\ s # None /\ s \in Session \cup {None}
      /\ queue' = queue \/ Admit(Operation("discard", Nobody, o, s))
  BY DEF Fault, sessionVars, IInv, Types
<1>2. GoesOn /\ \A x : HasSession(x)' <=> HasSession(x)
  BY <1>1 DEF GoesOn, HasSession, Released, Drained
<1>3. Answered'
  <2>1. CASE queue' = queue
    BY <1>1, <1>2, <2>1, AnswersStay
  <2>2. CASE Admit(Operation("discard", Nobody, o, s))
    <3>1. PICK x \in Operations : x = Operation("discard", Nobody, o, s)
      BY <1>1 DEF Operation, Operations, Kinds
    <3>2. HasSession(o)'
      BY <1>1, <1>2, BoundAssumption DEF HasSession, Owner, Session, None
    <3>3. OperationFits(x)' /\ x.by = Nobody
      BY <3>1, <3>2 DEF OperationFits, Operation, Kinds
    <3> HIDE DEF s
    <3> QED
      BY <1>1, <1>2, <2>2, <3>1, <3>3, AdmitAnswers
  <2> QED
    BY <1>1, <2>1, <2>2
<1>4. IdleAlone'
  BY <1>1 DEF IInv, Callers, IdleAlone, InOperation
<1>5. \A q \in Request :
         /\ request[q].pc \in Replacing \cup {"starting"} => request[q].owner # None
         /\ request[q].pc \in Replacing => Fresh(request[q].fresh)
         /\ request[q].rolling \/ request[q].pc \in Replacing => q = Desktop
  BY DEF IInv, Callers, Usable, Sessions, Unregistered
<1>6. \A q \in Request : Fresh(request[q].fresh) => Fresh(request[q].fresh)'
  BY <1>1 DEF Fresh
<1> HIDE DEF s
<1> QED
  BY <1>1, <1>2, <1>3, <1>4, <1>5, <1>6, CallerMoves, DesktopAssumption DEF Fresh

\* A caller that is not in the lane goes on with its owner, or is done.
LEMMA HolderKeeps ==
    ASSUME IInv, Types', NEW r \in Request,
           \/ StartTurn(r) \/ TurnAccepted(r) \/ TurnRefused(r) \/ Finish(r)
           \/ RollbackCommits(r) \/ RollbackAborts(r) \/ Replace(r)
    PROVE  Sessions' /\ Callers' /\ Positions'
<1> DEFINE o == request[r].owner
<1>1. /\ UNCHANGED <<output, opened, session, closeFailed, current, lane, blocker, idle, queue>>
      /\ request[r].pc \in Replacing \cup {"holding", "starting"}
  BY DEF StartTurn, TurnAccepted, TurnRefused, Finish, RollbackCommits, RollbackAborts, Replace,
         sessionVars, ownerVars, Replacing
<1>2. /\ HasSession(o) /\ idle = None
      /\ request[r].rolling \/ request[r].pc \in Replacing => r = Desktop
  BY <1>1, HolderHas DEF Replacing
<1>3. Types /\ request \in [Request -> Requests] /\ request[r] \in Requests
  BY DEF IInv, Types
<1>4. /\ \A q \in Request : q # r => request'[q] = request[q]
      /\ \/ request'[r] = NoRequest
         \/ /\ request'[r].owner = o /\ request'[r].fresh = request[r].fresh
            /\ request'[r].rolling <=> request[r].rolling
            /\ \/ request'[r].pc = "starting"
               \/ request[r].pc \in Replacing /\ request'[r].pc \in {"replace", "replacing"}
  BY <1>3 DEF StartTurn, TurnAccepted, TurnRefused, Finish, RollbackCommits, RollbackAborts, Replace,
              Requests, Replacing
<1>5. /\ NoRequest.pc = "off" /\ NoRequest.owner = None /\ ~NoRequest.rolling
  BY DEF NoRequest
<1>6. request[r].pc \in Replacing => Fresh(request[r].fresh)
  BY DEF IInv, Sessions, Unregistered
<1>7. PICK s \in Session : s = session[o]
  BY <1>2, <1>3 DEF Types, HasSession, Requests
<1>8. /\ GoesOn
      /\ \A x \in Session : Fresh(x) =>
            native'[x] = "open" \/ (request[r].pc \in Replacing /\ x = request[r].fresh /\ request'[r] = NoRequest)
  <2>1. CASE native' = native
    BY <1>1, <2>1 DEF GoesOn, Fresh, Released, Drained
  <2>2. CASE native' = AfterClose(request[r].fresh) /\ request[r].pc \in Replacing /\ request'[r] = NoRequest
    <3>1. PICK f \in Session : f = request[r].fresh
      BY <1>3, <1>6, <2>2 DEF Fresh, Requests
    <3> QED
      BY <1>1, <1>3, <2>2, <3>1, CloseGoesOn DEF Fresh
  <2>3. CASE native' = AfterClose(s)
    <3>1. output[s] # "none"
      BY <1>2, <1>3, <1>7 DEF IInv, Sessions, Owned, HasSession, Requests
    <3> QED
      BY <1>1, <1>3, <2>3, <3>1, CloseGoesOn DEF Fresh
  <2> QED
    BY <1>3, <1>7, <2>1, <2>2, <2>3
       DEF StartTurn, TurnAccepted, TurnRefused, Finish, RollbackCommits, RollbackAborts, Replace,
           sessionVars, Replacing
<1>9. \A x : HasSession(x)' <=> HasSession(x)
  BY <1>8 DEF GoesOn, HasSession
<1>10. Answered'
  BY <1>1, <1>4, <1>9, AnswersStay DEF Replacing
<1>11. IdleAlone'
  BY <1>1, <1>2 DEF IdleAlone
<1>12. request'[r].pc \in Replacing => Fresh(request[r].fresh)'
  <2> SUFFICES ASSUME request'[r].pc \in Replacing PROVE Fresh(request[r].fresh)'
    OBVIOUS
  <2>1. request'[r] # NoRequest /\ request[r].pc \in Replacing /\ request'[r].fresh = request[r].fresh
    BY <1>4, <1>5 DEF Replacing
  <2>2. PICK f \in Session : f = request[r].fresh /\ f = request'[r].fresh
    BY <1>3, <1>6, <2>1 DEF Fresh, Requests
  <2>3. Fresh(f) /\ native'[f] = "open"
    BY <1>6, <1>8, <2>1, <2>2
  <2>4. Fresh(f)'
    BY <1>8, <2>3 DEF Fresh, GoesOn
  <2> QED
    BY <2>2, <2>4
<1>13. request'[r].pc \in Replacing \cup {"starting"} =>
          /\ request'[r].owner = o /\ request'[r].fresh = request[r].fresh
          /\ request'[r].pc \in Replacing => request[r].pc \in Replacing
  BY <1>4, <1>5 DEF Replacing
<1>14. request'[r].pc # "holding" /\ request'[r].owner \in {o, None}
       /\ (request'[r].rolling \/ request'[r].pc \in Replacing => r = Desktop)
  BY <1>2, <1>4, <1>5 DEF Replacing
<1>15. request'[r] = NoRequest => request'[r].pc \notin Replacing
  BY <1>5 DEF Replacing
<1>16. o # None
  BY <1>2 DEF HasSession
<1> HIDE DEF o
<1> QED
  BY <1>1, <1>4, <1>8, <1>10, <1>11, <1>12, <1>13, <1>14, <1>15, <1>16, CallerMoves DEF o

-----------------------------------------------------------------------------
(* Sessions that are opened and registered *)

\* A Session is opened: it is nobody's, and the others stay as they are.
LEMMA OpenAdds ==
    ASSUME IInv, NEW n, Open(n), UNCHANGED <<session, closeFailed>>
    PROVE  /\ \A s : s = opened + 1 => s \in Session /\ native[s] = "unmade" /\ Fresh(s)'
           /\ \A s \in Session : s # opened + 1 => native'[s] = native[s]
           /\ \A s \in Session : Fresh(s) => s # opened + 1 /\ Fresh(s)'
           /\ \A s \in Session : Released(s) => Released(s)'
           /\ Made' /\ Owned'
           /\ \A o : HasSession(o)' <=> HasSession(o)
<1>1. Types /\ opened + 1 \in Session /\ opened \in Nat
  BY BoundAssumption DEF IInv, Types, Open, Session
<1>2. /\ native'[opened + 1] = "open" /\ opened' = opened + 1 /\ output' = output
      /\ \A s \in Session : s # opened + 1 => native'[s] = native[s]
  BY <1>1 DEF Types, Open
<1>3. /\ native[opened + 1] = "unmade" /\ output[opened + 1] = "none" /\ session[opened + 1] = None
  BY <1>1 DEF IInv, Sessions, Made
<1>4. \A s : s = opened + 1 => Fresh(s)'
  BY <1>1, <1>2, <1>3 DEF Fresh, None
<1>5. \A s \in Session : Fresh(s) => s # opened + 1 /\ Fresh(s)'
  BY <1>2, <1>3 DEF Fresh
<1>6. \A s \in Session : Released(s) => Released(s)'
  BY <1>2, <1>3 DEF Released, Drained
<1>7. Made'
  <2>1. \A s \in Session : s > opened' <=> s > opened /\ s # opened + 1
    BY <1>1, <1>2 DEF Session
  <2> QED
    BY <1>1, <1>2, <1>3, <2>1 DEF IInv, Sessions, Made
<1>8. Owned'
  BY <1>1, <1>2, <1>3 DEF IInv, Sessions, Owned, Types
<1>9. \A o : HasSession(o)' <=> HasSession(o)
  BY DEF HasSession
<1> QED
  BY <1>1, <1>2, <1>3, <1>4, <1>5, <1>6, <1>7, <1>8, <1>9

\* A rollback opens the Session that will replace the old one.
LEMMA RollbackOpensKeeps ==
    ASSUME IInv, Types', NEW r \in Request, RollbackOpens(r)
    PROVE  Sessions' /\ Callers' /\ Positions'
<1>1. /\ UNCHANGED <<session, closeFailed, current, queue, lane, blocker, idle>>
      /\ request[r].pc = "holding" /\ request[r].rolling
      /\ Open(rollbacks + 2)
  BY DEF RollbackOpens, ownerVars
<1>2. /\ HasSession(request[r].owner) /\ idle = None /\ r = Desktop
  BY <1>1, HolderHas
<1>3. PICK f \in Session : f = opened + 1 /\ native[f] = "unmade" /\ Fresh(f)'
  BY <1>1, OpenAdds
<1>4. /\ \A s \in Session : s # f => native'[s] = native[s]
      /\ \A s \in Session : Fresh(s) => s # f /\ Fresh(s)'
      /\ \A s \in Session : Released(s) => Released(s)'
      /\ Made' /\ Owned'
      /\ \A o : HasSession(o)' <=> HasSession(o)
  BY <1>1, <1>3, OpenAdds
<1>5. /\ \A q \in Request : q # r => request'[q] = request[q]
      /\ request'[r].pc = "rollback" /\ request'[r].owner = request[r].owner /\ request'[r].fresh = f
  BY <1>3 DEF IInv, Types, Requests, RollbackOpens
<1>6. Held'
  BY <1>1, <1>4, <1>5 DEF IInv, Sessions, Held
<1>7. Unregistered'
  <2>1. /\ lane.fresh \in Session \cup {None}
        /\ lane.pc \in Reading => Fresh(lane.fresh)
        /\ \A q \in Request : request[q].rolling \/ request[q].pc \in Replacing => q = Desktop
    BY DEF IInv, Types, Lanes, Sessions, Unregistered
  <2>2. lane.pc \in Reading => lane.fresh # f /\ Fresh(lane.fresh)'
    BY <1>1, <1>4, <2>1 DEF Fresh
  <2>3. Fresh(request[r].fresh)'
    BY <1>3, <1>5 DEF Fresh
  <2> QED
    BY <1>1, <1>2, <1>5, <2>1, <2>2, <2>3 DEF Unregistered
<1>8. Answered'
  BY <1>1, <1>4, <1>5, AnswersStay
<1>9. Blocked' /\ IdleAlone'
  <2>1. blocker \in Session \cup {None}
    BY DEF IInv, Types
  <2> QED
    BY <1>1, <1>2, <1>3, <1>4, <2>1 DEF IInv, Callers, Blocked, IdleAlone
<1>10. Usable'
  BY <1>1, <1>2, <1>5 DEF IInv, Callers, Usable, Replacing, HasSession
<1>11. Positions'
  BY <1>1, <1>4, PositionsStay
<1> QED
  BY <1>4, <1>6, <1>7, <1>8, <1>9, <1>10, <1>11 DEF Sessions, Callers

\* A fresh Session gets an owner: a new one is loaded.
LEMMA RegisterAdds ==
    ASSUME IInv, NEW f \in Session, NEW n, Fresh(f), Register(f, n), UNCHANGED <<native, opened, closeFailed>>
    PROVE  /\ current' = f /\ session'[f] = f /\ ~closeFailed[f]
           /\ \A o \in Owner : o # f => session'[o] = session[o]
           /\ Made' /\ Owned'
           /\ HasSession(f)' /\ \A o : HasSession(o) => o # f /\ HasSession(o)'
           /\ \A s \in Session : s # f /\ Fresh(s) => Fresh(s)'
           /\ \A s \in Session : Released(s) => s # f /\ Released(s)'
<1>1. /\ current' = f /\ session'[f] = f
      /\ \A o \in Owner : o # f => session'[o] = session[o]
      /\ output'[f] = "live"
      /\ \A s \in Session : s # f => output'[s] = output[s]
  BY DEF IInv, Types, Register, Owner
<1>2. /\ native[f] = "open" /\ session[f] = None /\ f # None
      /\ ~(f > opened) /\ ~closeFailed[f]
  BY DEF Fresh, IInv, Sessions, Made, Owned, Owner
<1>3. Made'
  BY <1>1, <1>2 DEF IInv, Sessions, Made, Owner
<1>4. Owned'
  <2>1. ASSUME NEW o \in Owner
        PROVE  /\ session'[o] = None => ~closeFailed[o]
               /\ session'[o] # None => native[session'[o]] # "unmade" /\ output'[session'[o]] # "none"
    <3>1. CASE o = f
      BY <1>1, <1>2, <3>1
    <3>2. CASE o # f
      <4>1. /\ session'[o] = session[o] /\ session[o] \in Session \cup {None}
            /\ session[o] = None => ~closeFailed[o]
            /\ session[o] # None => native[session[o]] # "unmade" /\ output[session[o]] # "none"
        BY <1>1, <3>2 DEF IInv, Types, Sessions, Owned
      <4> QED
        BY <1>1, <4>1
    <3> QED
      BY <3>1, <3>2
  <2> QED
    BY <2>1 DEF Owned
<1>5. HasSession(f)' /\ \A o : HasSession(o) => o # f
  BY <1>1, <1>2 DEF HasSession
<1>6. \A o : HasSession(o) => HasSession(o)'
  <2>1. \A o : o # f => session'[o] = session[o]
    BY DEF IInv, Types, Register, Owner
  <2> QED
    BY <1>5, <2>1 DEF HasSession
<1>7. \A s \in Session : s # f /\ Fresh(s) => Fresh(s)'
  BY <1>1 DEF Fresh, Owner
<1>8. \A s \in Session : Released(s) => s # f /\ Released(s)'
  BY <1>1, <1>2 DEF Released, Drained
<1> QED
  BY <1>1, <1>2, <1>3, <1>4, <1>5, <1>6, <1>7, <1>8

\* The replacement is registered.
LEMMA ReplacedKeeps ==
    ASSUME IInv, Types', NEW r \in Request, Replaced(r)
    PROVE  Sessions' /\ Callers' /\ Positions'
<1>1. /\ UNCHANGED <<native, opened, closeFailed, queue, lane, blocker, idle>>
      /\ request[r].pc = "replacing"
  BY DEF Replaced
<1>2. /\ request[r].pc \in Replacing /\ idle = None /\ r = Desktop
  BY <1>1, HolderHas DEF Replacing
<1>3. /\ Fresh(request[r].fresh)
      /\ lane.pc \in Reading => request[r].fresh # lane.fresh
      /\ \A q \in Request : request[q].rolling \/ request[q].pc \in Replacing => q = Desktop
      /\ lane.pc \in Reading => Fresh(lane.fresh)
  BY <1>2 DEF IInv, Sessions, Unregistered
<1>a. Types /\ lane.fresh \in Session \cup {None} /\ lane.owner \in Owner \cup {None}
  BY DEF IInv, Types, Lanes
<1>4. PICK f \in Session : f = request[r].fresh
  BY <1>3 DEF Fresh, IInv, Types, Requests
<1>5. Fresh(f) /\ Register(f, ref[f])
  BY <1>3, <1>4 DEF Replaced
<1>6. /\ current' = f /\ session'[f] = f /\ ~closeFailed[f]
      /\ \A o \in Owner : o # f => session'[o] = session[o]
      /\ Made' /\ Owned'
      /\ HasSession(f)' /\ \A o : HasSession(o) => o # f /\ HasSession(o)'
      /\ \A s \in Session : s # f /\ Fresh(s) => Fresh(s)'
      /\ \A s \in Session : Released(s) => s # f /\ Released(s)'
  BY <1>1, <1>5, RegisterAdds
<1>7. /\ \A q \in Request : q # r => request'[q] = request[q]
      /\ request'[r].pc = "off" /\ request'[r].owner = None /\ ~request'[r].rolling
  BY DEF IInv, Types, Requests, Replaced, NoRequest
<1>8. Held'
  BY <1>6, <1>7 DEF IInv, Sessions, Held
<1>9. Unregistered'
  <2>1. lane.pc \in Reading => Fresh(lane.fresh)'
    BY <1>1, <1>a, <1>3, <1>4, <1>6 DEF Fresh
  <2>2. \A q \in Request : q # r => request[q].pc \notin Replacing
    BY <1>2, <1>3
  <2> QED
    BY <1>1, <1>2, <1>3, <1>7, <2>1, <2>2 DEF Unregistered, Replacing
<1>10. Answered'
  BY <1>1, <1>6, <1>7, AnswersStay
<1>11. Blocked' /\ IdleAlone'
  BY <1>1, <1>2 DEF IInv, Callers, Blocked, IdleAlone
<1>12. Usable'
  BY <1>1, <1>7 DEF IInv, Callers, Usable, Replacing
<1>13. lane.pc # "free" => lane.op.kind # "delete"
  BY <1>1, <1>2, NobodyAssumption DEF IInv, Callers, Answered, OperationFits
<1>14. lane.owner # None => lane.owner \in Owner
  BY <1>a
<1>15. Placed' /\ Offered'
  BY <1>1, <1>6 DEF IInv, Positions, Placed, Offered, Place
<1>16. ReleasedFirst'
  <2>1. Place' = Place /\ Place # "deleted"
    BY <1>1, <1>13 DEF IInv, Positions, Placed, Place
  <2>2. Place \in Drops \cup Revives => /\ HasSession(lane.owner) /\ lane.owner \in Owner
                                       /\ session'[lane.owner] = session[lane.owner]
    BY <1>6, <1>14 DEF IInv, Positions, Placed, HasSession
  <2>3. Place \in Drops \cup Revives /\ Released(session[lane.owner]) => Released(session[lane.owner])'
    <3>1. \A s \in Session : Released(s) => native'[s] = "closed" /\ output'[s] \in {"none", "ended"}
      BY <1>6 DEF Released, Drained
    <3> QED
      BY <1>a, <1>1, <2>2, <3>1 DEF Types, HasSession, Released, Drained
  <2> QED
    BY <1>1, <2>1, <2>2, <2>3 DEF IInv, Positions, ReleasedFirst
<1> QED
  BY <1>6, <1>8, <1>9, <1>10, <1>11, <1>12, <1>15, <1>16 DEF Sessions, Callers, Positions

\* The callers keep the invariant.
LEMMA RequestStepKeeps ==
    ASSUME IInv, Types', NEW r \in Request, RequestStep(r)
    PROVE  Sessions' /\ Callers' /\ Positions'
<1>1. \A b \in BOOLEAN : CallRefresh(r, b) => Sessions' /\ Callers' /\ Positions'
  BY CallRefreshKeeps
<1>2. CallRefresh(r, TRUE) \/ CallRefresh(r, FALSE) => Sessions' /\ Callers' /\ Positions'
  BY <1>1
<1> QED
  BY <1>2, CallKeeps, HolderKeeps, RollbackOpensKeeps, ReplacedKeeps DEF RequestStep

-----------------------------------------------------------------------------
(* The lane *)

\* An operation in progress has a caller of its own, and no idle release is under way
\* once it has looked.
LEMMA LaneAlone ==
    ASSUME IInv
    PROVE  /\ lane.pc \notin {"free", "admitted"} => idle = None
           /\ lane.pc # "free" => OperationFits(lane.op)
           /\ lane.pc # "free" /\ lane.op.by # Nobody => request[lane.op.by].pc = "waiting"
           /\ lane.op \in Operations /\ lane.op.by \in Request \cup {Nobody}
           /\ lane.owner \in Owner \cup {None} /\ lane.fresh \in Session \cup {None}
BY DEF IInv, Types, Lanes, Operations, Callers, IdleAlone, Answered, OperationFits

\* The operation settles.
LEMMA SettleKeeps ==
    ASSUME IInv, Types', NEW o \in Owner \cup {None}, Settle(o), lane.pc # "free", idle = None,
           UNCHANGED <<native, closeFailed, queue, blocker, idle>>, Made', Owned',
           \A x : HasSession(x) => HasSession(x)', current' # None => HasSession(current)',
           \A s \in Session : Fresh(s) /\ (lane.pc \in Reading => s # lane.fresh) => Fresh(s)',
           o # None => HasSession(o)' /\ ~closeFailed[o] /\ lane.op.by # Nobody
    PROVE  Sessions' /\ Callers' /\ Positions'
<1> DEFINE by == lane.op.by
<1>1. /\ request \in [Request -> Requests] /\ by \in Request \cup {Nobody}
      /\ by # Nobody => request[by].pc = "waiting"
      /\ queue \in Seq(Operations)
  BY LaneAlone DEF IInv, Types
<1>2. lane' = FreeLane /\ FreeLane.pc = "free"
  BY DEF Settle, FreeLane
<1>3. /\ by = Nobody => request' = request
      /\ \A q \in Request : q # by => request'[q] = request[q]
      /\ by # Nobody =>
            \/ /\ request'[by].pc = "holding" /\ request'[by].owner = o
               /\ request'[by].rolling <=> request[by].rolling
               /\ o # None
            \/ request'[by].pc = "off" /\ request'[by].owner = None /\ ~request'[by].rolling
  <2>1. CASE by = Nobody
    BY <1>1, <2>1 DEF Settle
  <2>2. CASE by # Nobody /\ o = None
    BY <1>1, <2>2 DEF Settle, NoRequest
  <2>3. CASE by # Nobody /\ o # None
    <3>1. request' = [request EXCEPT ![by] = [request[by] EXCEPT !.pc = "holding", !.owner = o]]
      BY <1>1, <2>3 DEF Settle
    <3> QED
      BY <1>1, <2>3, <3>1 DEF Requests
  <2> QED
    BY <2>1, <2>2, <2>3
<1>4. \A q \in Request : q # by \/ request'[q].pc \in {"holding", "off"}
  BY <1>3, NobodyAssumption
<1>5. Held'
  <2>1. \A q \in Request : q # by /\ request'[q].owner # None => HasSession(request[q].owner)'
    BY <1>3 DEF IInv, Sessions, Held
  <2>2. by \in Request /\ request'[by].owner # None => o # None /\ request'[by].owner = o
    BY <1>1, <1>3, NobodyAssumption
  <2> QED
    BY <1>1, <1>3, <2>1, <2>2 DEF Held, HasSession
<1>6. Unregistered'
  <2>1. \A q \in Request : request'[q].pc \in Replacing => q # by /\ request[q].pc \in Replacing
    BY <1>3, <1>4 DEF Replacing
  <2>2. \A q \in Request : request'[q].rolling => request[q].rolling
    BY <1>1, <1>3, NobodyAssumption
  <2>3. \A q \in Request :
           /\ request[q].rolling \/ request[q].pc \in Replacing => q = Desktop
           /\ request[q].pc \in Replacing =>
                 Fresh(request[q].fresh) /\ (lane.pc \in Reading => request[q].fresh # lane.fresh)
    BY DEF IInv, Sessions, Unregistered
  <2>4. ASSUME NEW q \in Request, request'[q].pc \in Replacing PROVE Fresh(request[q].fresh)'
    <3>1. request'[q] = request[q] /\ request[q].pc \in Replacing
      BY <1>3, <2>1, <2>4
    <3>2. PICK f \in Session : f = request[q].fresh /\ Fresh(f) /\ (lane.pc \in Reading => f # lane.fresh)
      BY <1>1, <2>3, <3>1 DEF Fresh, Requests
    <3>3. Fresh(f)'
      BY <3>2
    <3> QED
      BY <3>1, <3>2, <3>3
  <2> QED
    BY <1>2, <2>1, <2>2, <2>3, <2>4 DEF Unregistered, Reading
<1>7. Answered'
  <2>1. \A i \in 1 .. Len(queue) :
           /\ queue[i] \in Operations /\ OperationFits(queue[i]) /\ (queue[i].by = by => by = Nobody)
           /\ \A j \in 1 .. Len(queue) : queue[i].by = queue[j].by => i = j \/ queue[i].by = Nobody
    BY <1>1 DEF IInv, Callers, Answered
  <2>2. ASSUME NEW i \in 1 .. Len(queue) PROVE OperationFits(queue[i])'
    <3>1. PICK x \in Operations : x = queue[i] /\ queue'[i] = x /\ OperationFits(x) /\ (x.by = by => by = Nobody)
      BY <2>1
    <3>2. x.by # Nobody => x.by \in Request /\ request'[x.by] = request[x.by]
      BY <1>3, <3>1 DEF Operations
    <3>3. OperationFits(x)'
      BY <3>1, <3>2, FitsOn
    <3> QED
      BY <3>1, <3>3
  <2> QED
    BY <1>2, <2>1, <2>2 DEF Answered
<1>8. Blocked' /\ IdleAlone'
  BY <1>2 DEF IInv, Callers, Blocked, IdleAlone
<1>9. Usable'
  <2>1. \A q \in Request : q # by /\ request'[q].pc = "holding" =>
           request'[q].owner # None /\ ~closeFailed'[request'[q].owner]
    BY <1>3 DEF IInv, Callers, Usable
  <2>2. \A q \in Request : q # by /\ request'[q].pc \in Replacing \cup {"starting"} => request'[q].owner # None
    BY <1>3 DEF IInv, Callers, Usable
  <2>3. by \in Request /\ request'[by].pc = "holding" =>
           request'[by].owner # None /\ ~closeFailed'[request'[by].owner]
    BY <1>3, NobodyAssumption
  <2> QED
    BY <1>4, <2>1, <2>2, <2>3 DEF Usable, Replacing
<1>10. Positions'
  BY <1>2 DEF Positions, Placed, ReleasedFirst, Offered, Place, Drops, Revives
<1> QED
  BY <1>5, <1>6, <1>7, <1>8, <1>9, <1>10 DEF Sessions, Callers

\* It settles, and the Sessions stay as they are.
LEMMA SettleAlone ==
    ASSUME IInv, Types', NEW o \in Owner \cup {None}, Settle(o), lane.pc # "free", idle = None,
           UNCHANGED <<native, output, opened, session, closeFailed, queue, blocker, idle>>,
           current' \in {current, None},
           o # None => HasSession(o) /\ ~closeFailed[o] /\ lane.op.by # Nobody
    PROVE  Sessions' /\ Callers' /\ Positions'
<1>1. GoesOn
  BY DEF GoesOn, Released, Drained
<1>2. /\ Made' /\ Owned'
      /\ \A x : HasSession(x)' <=> HasSession(x)
      /\ \A s \in Session : Fresh(s) => Fresh(s)'
  BY <1>1, SessionsStay DEF Fresh
<1>3. current' # None => HasSession(current)'
  BY <1>2 DEF IInv, Sessions, Held
<1>4. o # None => HasSession(o)' /\ ~closeFailed[o] /\ lane.op.by # Nobody
  BY <1>2
<1> QED
  BY <1>2, <1>3, <1>4, SettleKeeps

\* The operation goes on: nothing changes for callers that wait or that replace a Session.
LEMMA LaneGoes ==
    ASSUME IInv, Types', lane.pc # "free", lane'.pc # "free", lane'.op = lane.op, idle = None,
           UNCHANGED <<closeFailed, queue, request, idle>>, current' \in {current, None}, Made', Owned',
           \A x : HasSession(x)' <=> HasSession(x),
           \A s \in Session : Fresh(s) /\ (lane.pc \in Reading => s # lane.fresh) => Fresh(s)',
           lane'.pc \in Reading =>
              /\ Fresh(lane.fresh)'
              /\ \A r \in Request : request[r].pc \in Replacing => request[r].fresh # lane'.fresh,
           Blocked'
    PROVE  Sessions' /\ Callers'
<1>1. request \in [Request -> Requests]
  BY DEF IInv, Types
<1>2. Held'
  BY DEF IInv, Sessions, Held, HasSession
<1>3. Unregistered'
  <2>1. \A r \in Request :
           /\ request[r].rolling \/ request[r].pc \in Replacing => r = Desktop
           /\ request[r].pc \in Replacing =>
                 Fresh(request[r].fresh) /\ (lane.pc \in Reading => request[r].fresh # lane.fresh)
    BY DEF IInv, Sessions, Unregistered
  <2>2. ASSUME NEW r \in Request, request[r].pc \in Replacing PROVE Fresh(request[r].fresh)'
    <3>1. PICK f \in Session : f = request[r].fresh /\ Fresh(f) /\ (lane.pc \in Reading => f # lane.fresh)
      BY <1>1, <2>1, <2>2 DEF Fresh, Requests
    <3>2. Fresh(f)'
      BY <3>1
    <3> QED
      BY <3>1, <3>2
  <2> QED
    BY <2>1, <2>2 DEF Unregistered
<1>4. Answered'
  <2>1. queue \in Seq(Operations) /\ lane.op \in Operations
    BY DEF IInv, Types, Lanes
  <2>2. \A i \in 1 .. Len(queue) : queue[i] \in Operations
    BY <2>1
  <2>3. ASSUME NEW x \in Operations, OperationFits(x) PROVE OperationFits(x)'
    BY <2>3, FitsOn
  <2>4. ASSUME NEW i \in 1 .. Len(queue) PROVE OperationFits(queue[i])'
    <3>1. PICK x \in Operations : queue[i] = x /\ queue'[i] = x /\ OperationFits(x)
      BY <2>2 DEF IInv, Callers, Answered
    <3> QED
      BY <2>3, <3>1
  <2>5. OperationFits(lane.op)'
    <3>1. PICK x \in Operations : lane.op = x /\ lane'.op = x /\ OperationFits(x)
      BY <2>1 DEF IInv, Callers, Answered
    <3> QED
      BY <2>3, <3>1
  <2> QED
    BY <2>4, <2>5 DEF IInv, Callers, Answered
<1>5. IdleAlone' /\ Usable'
  BY DEF IInv, Callers, IdleAlone, Usable
<1> QED
  BY <1>2, <1>3, <1>4, <1>5 DEF Sessions, Callers

\* It starts the release of a Session that was registered or is its own.
LEMMA ReleaseBegins ==
    ASSUME IInv, Types', NEW s \in Session, lane.pc # "free", idle = None,
           blocker' = s, native' = AfterClose(s), native[s] # "unmade",
           output[s] # "none" \/ (lane.pc \in Reading /\ s = lane.fresh),
           lane'.pc = "releasing", lane'.then # "none", lane'.op = lane.op,
           UNCHANGED <<output, opened, session, closeFailed, current, queue, request, idle>>
    PROVE  /\ Sessions' /\ Callers'
           /\ \A o : HasSession(o)' <=> HasSession(o)
           /\ \A o \in Owner : HasSession(o) /\ Released(session[o]) => Released(session[o])'
<1>1. /\ GoesOn /\ Types
      /\ \A x \in Session : x # s => native'[x] = native[x]
      /\ native'[s] \notin {"unmade", "open"}
  BY CloseGoesOn DEF IInv
<1>2. /\ Made' /\ Owned'
      /\ \A o : HasSession(o)' <=> HasSession(o)
      /\ \A x \in Session : Fresh(x) /\ native'[x] = "open" => Fresh(x)'
  BY <1>1, SessionsStay
<1>3. \A x \in Session : Fresh(x) /\ (lane.pc \in Reading => x # lane.fresh) => Fresh(x)'
  BY <1>1, <1>2 DEF Fresh
<1>4. Blocked'
  BY <1>1, BoundAssumption DEF Blocked, Session, None
<1>5. Sessions' /\ Callers'
  BY <1>2, <1>3, <1>4, LaneGoes DEF Reading
<1> QED
  BY <1>1, <1>2, <1>5, ReleasesStay DEF GoesOn

\* It goes on, and no Session changes.
LEMMA LaneContinues ==
    ASSUME IInv, Types', lane.pc # "free", lane'.pc \notin Reading \cup {"free", "releasing"}, lane'.op = lane.op,
           idle = None, current' \in {current, None}, blocker' = None,
           UNCHANGED <<native, output, opened, session, closeFailed, queue, request, idle>>
    PROVE  /\ Sessions' /\ Callers'
           /\ \A o : HasSession(o)' <=> HasSession(o)
           /\ \A o : Released(session[o])' <=> Released(session[o])
<1>1. GoesOn
  BY DEF GoesOn, Released, Drained
<1>2. /\ Made' /\ Owned'
      /\ \A o : HasSession(o)' <=> HasSession(o)
      /\ \A x \in Session : Fresh(x) => Fresh(x)'
  BY <1>1, SessionsStay DEF Fresh
<1>3. Blocked'
  BY DEF Blocked
<1>4. Sessions' /\ Callers'
  BY <1>2, <1>3, LaneGoes
<1>5. \A o : Released(session[o])' <=> Released(session[o])
  BY DEF Released, Drained
<1> QED
  BY <1>2, <1>4, <1>5

\* It opens a Session of its own.
LEMMA LaneOpens ==
    ASSUME IInv, Types', NEW n, Open(n), lane.pc \in {"opening", "reviveOpening"},
           lane'.pc \in Reading, lane'.op = lane.op, lane'.fresh = opened + 1,
           UNCHANGED <<session, closeFailed, current, blocker, queue, request, idle>>
    PROVE  /\ Sessions' /\ Callers'
           /\ \A o : HasSession(o)' <=> HasSession(o)
           /\ \A o \in Owner : HasSession(o) /\ Released(session[o]) => Released(session[o])'
<1>1. PICK f \in Session : f = opened + 1 /\ Fresh(f)'
  BY OpenAdds
<1>2. /\ Made' /\ Owned'
      /\ \A o : HasSession(o)' <=> HasSession(o)
      /\ \A s \in Session : Fresh(s) => s # f /\ Fresh(s)'
      /\ \A s \in Session : Released(s) => Released(s)'
  BY <1>1, OpenAdds
<1>3. idle = None /\ blocker = None
  BY LaneAlone DEF IInv, Callers, Blocked
<1>4. Blocked'
  BY <1>3 DEF Blocked, Reading
<1>5. /\ Fresh(lane.fresh)'
      /\ \A r \in Request : request[r].pc \in Replacing => request[r].fresh # lane'.fresh
  <2>1. \A r \in Request : request[r].pc \in Replacing =>
           Fresh(request[r].fresh) /\ request[r].fresh \in Session \cup {None}
    BY DEF IInv, Types, Requests, Sessions, Unregistered
  <2>2. \A r \in Request : request[r].pc \in Replacing => request[r].fresh # f
    BY <1>2, <2>1 DEF Fresh
  <2> QED
    BY <1>1, <2>2
<1>6. Sessions' /\ Callers'
  <2>1. lane.pc # "free" /\ lane.pc \notin Reading /\ lane'.pc # "free"
    BY DEF Reading
  <2> QED
    BY <1>2, <1>3, <1>4, <1>5, <2>1, LaneGoes
<1> QED
  BY <1>2, <1>6, ReleasesStay DEF IInv

\* It drops an idle owner.
LEMMA DropKeeps ==
    ASSUME IInv, Types', NEW o \in Owner, HasSession(o), Drop(o), lane.pc \notin {"free", "releasing"}, idle = None,
           lane.op.kind # "delete", lane.op.kind = "resolve" /\ current # None => ~closeFailed[current],
           UNCHANGED <<session, closeFailed, current, queue, idle>>
    PROVE  Sessions' /\ Callers' /\ Positions'
<1>1. lane \in Lanes /\ blocker = None
  BY DEF IInv, Types, Callers, Blocked
<1>2. CASE current # o
  <2>1. /\ lane' = [lane EXCEPT !.pc = "afterDrop"]
        /\ UNCHANGED <<native, output, opened, blocker, request>>
    BY <1>2 DEF Drop, Continue
  <2>2. lane'.pc = "afterDrop" /\ lane'.op = lane.op
    BY <1>1, <2>1 DEF Lanes
  <2>3. Sessions' /\ Callers'
    BY <1>1, <2>1, <2>2, LaneContinues DEF Reading
  <2>4. Positions'
    BY <2>2 DEF Positions, Placed, ReleasedFirst, Offered, Place, Drops, Revives
  <2> QED
    BY <2>3, <2>4
<1>3. CASE current = o
  <2> DEFINE s == session[o]
  <2>1. /\ lane' = [lane EXCEPT !.pc = "releasing", !.then = "dropped", !.owner = o, !.ref = ownerRef[o]]
        /\ native' = AfterClose(s) /\ blocker' = s
        /\ UNCHANGED <<output, opened, request>>
    BY <1>3 DEF Drop
  <2>2. lane'.pc = "releasing" /\ lane'.then = "dropped" /\ lane'.owner = o /\ lane'.op = lane.op
    BY <1>1, <2>1 DEF Lanes
  <2>3. s \in Session /\ native[s] # "unmade" /\ output[s] # "none"
    BY DEF HasSession, IInv, Types, Sessions, Owned
  <2>4. Sessions' /\ Callers' /\ \A x : HasSession(x)' <=> HasSession(x)
    BY <2>1, <2>2, <2>3, ReleaseBegins
  <2>5. Placed'
    BY <2>2, <2>4 DEF Placed, Place, Drops, Revives
  <2>6. ReleasedFirst'
    BY <2>1, <2>2 DEF ReleasedFirst, Place, Drops, Revives
  <2>7. Offered'
    BY <2>2 DEF Offered, Place, Drops, Revives
  <2> QED
    BY <2>4, <2>5, <2>6, <2>7 DEF Positions
<1> QED
  BY <1>2, <1>3

\* It releases a Session that could not be read, or that was opened in vain.
LEMMA GivesUpKeeps ==
    ASSUME IInv, Types', lane.pc \in Reading, NEW th \in {"failed", "reviveDrop"}, Release(lane.fresh, th),
           th = "reviveDrop" => lane.pc = "reviveReading",
           UNCHANGED <<session, closeFailed, current, queue, idle>>
    PROVE  Sessions' /\ Callers' /\ Positions'
<1>1. lane \in Lanes /\ idle = None /\ lane.pc \notin {"free", "releasing"} /\ lane.owner \in Owner \cup {None}
  BY LaneAlone DEF IInv, Types, Reading
<1>2. PICK f \in Session : f = lane.fresh /\ native[f] = "open"
  BY <1>1 DEF IInv, Sessions, Unregistered, Fresh, Lanes
<1>3. /\ lane' = [lane EXCEPT !.pc = "releasing", !.then = th]
      /\ native' = AfterClose(f) /\ blocker' = f
      /\ UNCHANGED <<output, opened, request>>
  BY <1>2 DEF Release
<1>4. lane'.pc = "releasing" /\ lane'.then = th /\ lane'.owner = lane.owner /\ lane'.op = lane.op
  BY <1>1, <1>3 DEF Lanes
<1>5. /\ Sessions' /\ Callers'
      /\ \A x : HasSession(x)' <=> HasSession(x)
      /\ \A x \in Owner : HasSession(x) /\ Released(session[x]) => Released(session[x])'
  BY <1>1, <1>2, <1>3, <1>4, ReleaseBegins
<1>6. /\ lane.op.kind # "delete"
      /\ lane.pc = "reviveReading" => /\ lane.op.kind = "refresh" /\ HasSession(lane.owner)
                                      /\ Released(session[lane.owner]) /\ ~closeFailed[lane.owner]
  BY <1>1 DEF IInv, Positions, Placed, ReleasedFirst, Offered, Place, Reading, Revives
<1>7. Place' = th
  BY <1>4 DEF Place
<1>8. Placed' /\ Offered'
  BY <1>4, <1>5, <1>6, <1>7 DEF Placed, Offered, Drops, Revives
<1>9. ReleasedFirst'
  <2>1. lane.pc = "reviveReading" => Released(session[lane.owner])'
    BY <1>1, <1>4, <1>5, <1>6 DEF HasSession
  <2> QED
    BY <1>4, <1>7, <2>1 DEF ReleasedFirst, Drops, Revives
<1> QED
  BY <1>5, <1>8, <1>9 DEF Positions

\* The head of the lane starts.
LEMMA StartKeeps ==
    ASSUME IInv, Types', Start
    PROVE  Sessions' /\ Callers' /\ Positions'
<1>1. /\ queue \in Seq(Operations) /\ blocker \in Session \cup {None} /\ Types
      /\ lane.pc = "free" /\ queue # <<>> /\ queue' = Tail(queue)
      /\ UNCHANGED <<output, opened, session, closeFailed, current, idle, request, blocker>>
  BY DEF IInv, Types, Start, ownerVars
<1>2. /\ lane'.op = Head(queue)
      /\ \/ blocker = None /\ native' = native /\ lane'.pc = "admitted"
         \/ blocker # None /\ native' = AfterClose(blocker) /\ lane'.pc = "releasing" /\ lane'.then = "admitted"
  BY <1>1 DEF Start, FreeLane
<1>3. blocker # None => native[blocker] \notin {"unmade", "open"}
  BY DEF IInv, Callers, Blocked
<1>4. GoesOn /\ \A s \in Session : Fresh(s) => native'[s] = "open"
  <2>1. CASE native' = native
    BY <1>1, <2>1 DEF GoesOn, Fresh, Released, Drained
  <2>2. CASE blocker # None /\ native' = AfterClose(blocker)
    <3>1. PICK b \in Session : b = blocker
      BY <1>1, <2>2
    <3> QED
      BY <1>1, <1>3, <2>2, <3>1, CloseGoesOn DEF Fresh
  <2> QED
    BY <1>2, <2>1, <2>2
<1>5. /\ Made' /\ Owned'
      /\ \A o : HasSession(o)' <=> HasSession(o)
      /\ \A s \in Session : Fresh(s) => Fresh(s)'
  BY <1>1, <1>4, SessionsStay
<1>6. Held'
  BY <1>1, <1>5 DEF IInv, Sessions, Held
<1>7. Unregistered'
  <2>1. lane'.pc \notin Reading
    BY <1>2 DEF Reading
  <2>2. \A r \in Request : request[r].pc \in Replacing =>
           Fresh(request[r].fresh) /\ request[r].fresh \in Session \cup {None}
    BY DEF IInv, Types, Requests, Sessions, Unregistered
  <2>3. \A r \in Request : request[r].pc \in Replacing => Fresh(request[r].fresh)'
    BY <1>1, <1>5, <2>2 DEF Fresh
  <2> QED
    BY <1>1, <2>1, <2>3 DEF IInv, Sessions, Unregistered
<1>8. Answered'
  <2>1. /\ Len(queue) \in Nat /\ Len(queue) # 0 /\ Len(queue') = Len(queue) - 1
        /\ Head(queue) = queue[1]
        /\ \A i \in 1 .. Len(queue') : i + 1 \in 1 .. Len(queue) /\ queue'[i] = queue[i + 1]
        /\ \A i \in 1 .. Len(queue) : queue[i] \in Operations
    BY <1>1
  <2>2. \A i \in 1 .. Len(queue) :
           /\ OperationFits(queue[i])
           /\ \A j \in 1 .. Len(queue) : queue[i].by = queue[j].by => i = j \/ queue[i].by = Nobody
    BY DEF IInv, Callers, Answered
  <2>3. ASSUME NEW x \in Operations, OperationFits(x) PROVE OperationFits(x)'
    BY <1>1, <1>5, <2>3, FitsOn
  <2>4. ASSUME NEW i \in 1 .. Len(queue') PROVE OperationFits(queue[i])'
    <3>1. PICK x \in Operations : queue'[i] = x /\ OperationFits(x)
      BY <2>1, <2>2
    <3> QED
      BY <2>3, <3>1
  <2>5. OperationFits(lane.op)'
    <3>1. PICK x \in Operations : lane'.op = x /\ OperationFits(x)
      BY <1>2, <2>1, <2>2
    <3> QED
      BY <2>3, <3>1
  <2>6. \A i, j \in 1 .. Len(queue') : queue'[i].by = queue'[j].by => i = j \/ queue'[i].by = Nobody
    BY <2>1, <2>2
  <2>7. \A i \in 1 .. Len(queue') : queue'[i].by = lane'.op.by => lane'.op.by = Nobody
    <3>1. 1 \in 1 .. Len(queue) /\ \A i \in 1 .. Len(queue') : i + 1 # 1
      BY <2>1
    <3> QED
      BY <1>2, <2>1, <2>2, <3>1
  <2> QED
    BY <2>4, <2>5, <2>6, <2>7 DEF Answered
<1>9. Blocked'
  <2>1. blocker # None => native'[blocker] \notin {"unmade", "open"}
    BY <1>1, <1>3, <1>4 DEF GoesOn
  <2> QED
    BY <1>1, <1>2, <2>1 DEF Blocked
<1>10. IdleAlone' /\ Usable'
  BY <1>1, <1>2 DEF IInv, Callers, IdleAlone, InOperation, Usable
<1>11. Positions'
  BY <1>2 DEF Positions, Placed, ReleasedFirst, Offered, Place, Drops, Revives
<1> QED
  BY <1>5, <1>6, <1>7, <1>8, <1>9, <1>10, <1>11 DEF Sessions, Callers

\* The release of the blocker is confirmed.
LEMMA ReleaseConfirmedKeeps ==
    ASSUME IInv, Types', ReleaseConfirmed
    PROVE  Sessions' /\ Callers' /\ Positions'
<1>1. /\ UNCHANGED <<native, output, opened, session, closeFailed, current, queue, idle, request>>
      /\ lane' = [lane EXCEPT !.pc = lane.then] /\ lane.pc = "releasing" /\ blocker' = None
      /\ Released(blocker)
  BY DEF ReleaseConfirmed, Continue, sessionVars, ownerVars
<1>2. lane \in Lanes /\ lane.then \in Thens /\ idle = None
  BY <1>1, LaneAlone DEF IInv, Types, Lanes, Callers, Blocked
<1>3. lane'.pc = lane.then /\ lane'.op = lane.op /\ lane'.owner = lane.owner /\ lane'.then = lane.then
  BY <1>1, <1>2 DEF Lanes
<1>4. /\ Sessions' /\ Callers'
      /\ \A o : HasSession(o)' <=> HasSession(o)
      /\ \A o : Released(session[o])' <=> Released(session[o])
  <2>1. lane'.pc \notin Reading \cup {"free", "releasing"}
    BY <1>2, <1>3 DEF Thens, Reading
  <2> QED
    BY <1>1, <1>2, <1>3, <2>1, LaneContinues
<1>5. Place' = lane.then /\ Place = lane.then /\ lane.then # "releasing"
  BY <1>1, <1>2, <1>3 DEF Place, Thens
<1>6. Placed' /\ Offered'
  BY <1>1, <1>3, <1>4, <1>5 DEF IInv, Positions, Placed, Offered
<1>7. ReleasedFirst'
  <2>1. lane.then \in Drops \cup Revives => Released(session[lane.owner])
    BY <1>1, <1>5 DEF IInv, Positions, ReleasedFirst
  <2>2. lane.then \in Drops \cup Revives => Released(session[lane.owner])'
    BY <1>1, <1>3, <2>1 DEF Released, Drained
  <2>3. lane.then = "deleted" /\ current # None => Released(session[current])
    BY <1>1, <1>5 DEF IInv, Positions, ReleasedFirst
  <2>4. lane.then = "deleted" /\ current # None => Released(session[current])'
    BY <1>1, <2>3 DEF Released, Drained
  <2> QED
    BY <1>1, <1>5, <2>2, <2>4 DEF ReleasedFirst
<1> QED
  BY <1>4, <1>6, <1>7 DEF Positions

\* An owner is dropped, and nobody else.
LEMMA DroppedKeeps ==
    ASSUME IInv, Types', Dropped \/ DropRetired
    PROVE  Sessions' /\ Callers' /\ Positions'
<1>1. /\ UNCHANGED <<native, output, opened, session, closeFailed, queue, idle, request, blocker>>
      /\ lane.pc \in Drops /\ current' \in {current, None}
      /\ \E pc \in {"dropRetire", "afterDrop"} : lane' = [lane EXCEPT !.pc = pc]
  BY DEF Dropped, DropRetired, Continue, sessionVars, ownerVars, Drops
<1>2. lane \in Lanes /\ idle = None /\ blocker = None
  BY <1>1, LaneAlone DEF IInv, Types, Callers, Blocked, Drops
<1>3. lane'.pc \in {"dropRetire", "afterDrop"} /\ lane'.op = lane.op /\ lane'.owner = lane.owner
  BY <1>1, <1>2 DEF Lanes
<1>4. /\ Sessions' /\ Callers'
      /\ \A o : HasSession(o)' <=> HasSession(o)
  BY <1>1, <1>2, <1>3, LaneContinues DEF Drops, Reading
<1>5. Place = lane.pc /\ Place' = lane'.pc
  BY <1>1, <1>3 DEF Place, Drops
<1>6. Placed' /\ Offered'
  BY <1>1, <1>3, <1>4, <1>5 DEF IInv, Positions, Placed, Offered, Drops, Revives
<1>7. ReleasedFirst'
  <2>1. Released(session[lane.owner])'
    BY <1>1, <1>3, <1>5 DEF IInv, Positions, ReleasedFirst, Released, Drained, Drops
  <2> QED
    BY <1>3, <1>5, <2>1 DEF ReleasedFirst
<1> QED
  BY <1>4, <1>6, <1>7 DEF Positions

\* After a drop, an owner is answered, or the Thread restored.
LEMMA AfterDropKeeps ==
    ASSUME IInv, Types', AfterDrop
    PROVE  Sessions' /\ Callers' /\ Positions'
<1>1. /\ UNCHANGED <<native, output, opened, session, closeFailed, current, queue, idle, blocker>>
      /\ lane.pc = "afterDrop"
  BY DEF AfterDrop, sessionVars, ownerVars
<1>2. lane \in Lanes /\ idle = None /\ blocker = None /\ current \in Owner \cup {None} /\ None \in Owner \cup {None}
  BY <1>1, LaneAlone DEF IInv, Types, Callers, Blocked
<1>3. CASE Settle(None)
  BY <1>1, <1>2, <1>3, SettleAlone
<1>4. CASE lane.op.kind = "resolve" /\ current # None /\ Settle(current)
  <2>1. HasSession(current) /\ ~closeFailed[current] /\ lane.op.by # Nobody
    BY <1>1, <1>4, LaneAlone DEF IInv, Sessions, Held, Positions, Offered, Place, OperationFits
  <2> QED
    BY <1>1, <1>2, <1>4, <2>1, SettleAlone
<1>5. CASE lane.op.kind = "resolve" /\ current = None /\ Continue("opening")
  <2>1. lane'.pc = "opening" /\ lane'.op = lane.op /\ request' = request
    BY <1>2, <1>5 DEF Continue, Lanes
  <2>2. Sessions' /\ Callers'
    BY <1>1, <1>2, <2>1, LaneContinues DEF Reading
  <2>3. Positions'
    BY <1>5, <2>1 DEF Positions, Placed, ReleasedFirst, Offered, Place, Drops, Revives
  <2> QED
    BY <2>2, <2>3
<1> QED
  BY <1>3, <1>4, <1>5 DEF AfterDrop

\* What is known when an operation begins.
LEMMA ReadyLane ==
    ASSUME IInv, NEW k, Ready(k)
    PROVE  /\ lane \in Lanes /\ lane.pc = "admitted" /\ idle = None /\ blocker = None /\ lane.op.kind = k
           /\ OperationFits(lane.op) /\ current \in Owner \cup {None} /\ None \in Owner \cup {None}
           /\ lane.op.owner \in Owner \cup {None}
           /\ current # None => HasSession(current)
BY LaneAlone DEF Ready, IInv, Types, Operations, Callers, Blocked, Sessions, Held

\* A Thread is resolved.
LEMMA ResolveKeeps ==
    ASSUME IInv, Types', Resolve
    PROVE  Sessions' /\ Callers' /\ Positions'
<1>1. /\ lane \in Lanes /\ lane.pc = "admitted" /\ idle = None /\ blocker = None /\ lane.op.kind = "resolve"
      /\ OperationFits(lane.op) /\ current \in Owner \cup {None} /\ None \in Owner \cup {None}
      /\ current # None => HasSession(current)
  BY ReadyLane DEF Resolve
<1>2. UNCHANGED <<session, closeFailed, current, queue, idle>>
  BY DEF Resolve
<1>3. lane.op.by # Nobody
  BY <1>1 DEF OperationFits
<1>4. CASE lane' = [lane EXCEPT !.pc = "opening", !.ref = stored] /\ UNCHANGED <<request, sessionVars, blocker>>
  <2>1. lane'.pc = "opening" /\ lane'.op = lane.op
    BY <1>1, <1>4 DEF Lanes
  <2>2. Sessions' /\ Callers'
    BY <1>1, <1>2, <1>4, <2>1, LaneContinues DEF Reading, sessionVars
  <2>3. Positions'
    BY <1>1, <2>1 DEF Positions, Placed, ReleasedFirst, Offered, Place, Drops, Revives
  <2> QED
    BY <2>2, <2>3
<1>5. CASE Settle(None) /\ UNCHANGED <<sessionVars, blocker>>
  BY <1>1, <1>2, <1>5, SettleAlone DEF sessionVars
<1>6. CASE current # None /\ ~closeFailed[current] /\ Drop(current)
  <2>1. current \in Owner
    BY <1>1, <1>6
  <2> QED
    BY <1>1, <1>2, <1>6, <2>1, DropKeeps
<1>7. CASE current # None /\ ~closeFailed[current] /\ Settle(current) /\ UNCHANGED <<sessionVars, blocker>>
  BY <1>1, <1>2, <1>3, <1>7, SettleAlone DEF sessionVars
<1> QED
  BY <1>4, <1>5, <1>6, <1>7 DEF Resolve

\* An owner is refreshed.
LEMMA RefreshKeeps ==
    ASSUME IInv, Types', Refresh
    PROVE  Sessions' /\ Callers' /\ Positions'
<1> DEFINE o == lane.op.owner
<1>1. /\ lane \in Lanes /\ lane.pc = "admitted" /\ idle = None /\ blocker = None /\ lane.op.kind = "refresh"
      /\ OperationFits(lane.op) /\ None \in Owner \cup {None} /\ o \in Owner \cup {None}
  BY ReadyLane DEF Refresh
<1>2. UNCHANGED <<session, closeFailed, current, queue, idle>>
  BY DEF Refresh
<1>3. lane.op.by # Nobody /\ HasSession(o)
  BY <1>1 DEF OperationFits
<1>4. CASE (Settle(None) \/ (~closeFailed[o] /\ Settle(o))) /\ UNCHANGED <<sessionVars, blocker>>
  BY <1>1, <1>2, <1>3, <1>4, SettleAlone DEF sessionVars
<1>5. CASE ~closeFailed[o] /\ Revive(o)
  <2> DEFINE s == session[o]
  <2>1. /\ lane' = [lane EXCEPT !.pc = "releasing", !.then = "reviveRetire", !.owner = o, !.ref = ownerRef[o]]
        /\ native' = AfterClose(s) /\ blocker' = s
        /\ UNCHANGED <<output, opened, request>>
    BY <1>5 DEF Revive
  <2>2. lane'.pc = "releasing" /\ lane'.then = "reviveRetire" /\ lane'.owner = o /\ lane'.op = lane.op
    BY <1>1, <2>1 DEF Lanes
  <2>3. s \in Session /\ native[s] # "unmade" /\ output[s] # "none" /\ o \in Owner
    BY <1>1, <1>3 DEF HasSession, IInv, Types, Sessions, Owned
  <2>4. Sessions' /\ Callers' /\ \A x : HasSession(x)' <=> HasSession(x)
    BY <1>1, <1>2, <2>1, <2>2, <2>3, ReleaseBegins
  <2>5. Placed'
    <3>1. HasSession(lane.owner)'
      BY <1>3, <2>2, <2>4 DEF HasSession
    <3> QED
      BY <1>1, <2>2, <3>1 DEF Placed, Place, Drops, Revives
  <2>6. ReleasedFirst'
    BY <1>2, <2>1, <2>2 DEF ReleasedFirst, Place, Drops, Revives
  <2>7. Offered'
    BY <1>2, <1>5, <2>2 DEF Offered, Place, Drops, Revives
  <2> QED
    BY <2>4, <2>5, <2>6, <2>7 DEF Positions
<1> QED
  BY <1>4, <1>5 DEF Refresh

\* A Thread is deleted: its Session is released first.
LEMMA DeleteKeeps ==
    ASSUME IInv, Types', Delete
    PROVE  Sessions' /\ Callers' /\ Positions'
<1>1. /\ lane \in Lanes /\ lane.pc = "admitted" /\ idle = None /\ blocker = None /\ lane.op.kind = "delete"
      /\ current \in Owner \cup {None} /\ current # None => HasSession(current)
  BY ReadyLane DEF Delete
<1>2. UNCHANGED <<session, closeFailed, current, queue, idle>>
  BY DEF Delete
<1>3. CASE current = None
  <2>1. lane' = [lane EXCEPT !.pc = "deleted"] /\ UNCHANGED <<native, output, opened, blocker, request>>
    BY <1>3 DEF Delete, Continue, sessionVars
  <2>2. lane'.pc = "deleted" /\ lane'.op = lane.op
    BY <1>1, <2>1 DEF Lanes
  <2>3. Sessions' /\ Callers'
    BY <1>1, <1>2, <2>1, <2>2, LaneContinues DEF Reading
  <2>4. Positions'
    BY <1>1, <1>2, <1>3, <2>2 DEF Positions, Placed, ReleasedFirst, Offered, Place, Drops, Revives
  <2> QED
    BY <2>3, <2>4
<1>4. CASE current # None
  <2> DEFINE s == session[current]
  <2>1. /\ lane' = [lane EXCEPT !.pc = "releasing", !.then = "deleted"]
        /\ native' = AfterClose(s) /\ blocker' = s
        /\ UNCHANGED <<output, opened, request>>
    BY <1>4 DEF Delete, Release
  <2>2. lane'.pc = "releasing" /\ lane'.then = "deleted" /\ lane'.op = lane.op
    BY <1>1, <2>1 DEF Lanes
  <2>3. s \in Session /\ native[s] # "unmade" /\ output[s] # "none"
    BY <1>1, <1>4, ReadyLane DEF Delete, HasSession, IInv, Types, Sessions, Owned
  <2>4. Sessions' /\ Callers'
    BY <1>1, <1>2, <2>1, <2>2, <2>3, ReleaseBegins
  <2>5. Positions'
    BY <1>1, <1>2, <2>1, <2>2 DEF Positions, Placed, ReleasedFirst, Offered, Place, Drops, Revives
  <2> QED
    BY <2>4, <2>5
<1> QED
  BY <1>3, <1>4

\* An unavailable owner is discarded, if nothing changed.
LEMMA DiscardKeeps ==
    ASSUME IInv, Types', Discard
    PROVE  Sessions' /\ Callers' /\ Positions'
<1>1. /\ lane \in Lanes /\ lane.pc = "admitted" /\ idle = None /\ blocker = None /\ lane.op.kind = "discard"
      /\ OperationFits(lane.op) /\ None \in Owner \cup {None} /\ lane.op.owner \in Owner \cup {None}
  BY ReadyLane DEF Discard
<1>2. UNCHANGED <<session, closeFailed, current, queue, idle>>
  BY DEF Discard
<1>3. HasSession(lane.op.owner) /\ lane.op.owner \in Owner
  BY <1>1 DEF OperationFits, HasSession
<1>4. CASE Settle(None) /\ UNCHANGED <<sessionVars, blocker>>
  BY <1>1, <1>2, <1>4, SettleAlone DEF sessionVars
<1>5. CASE Drop(lane.op.owner)
  BY <1>1, <1>2, <1>3, <1>5, DropKeeps
<1> QED
  BY <1>4, <1>5 DEF Discard

\* What is known while an owner is revived.
LEMMA RevivingLane ==
    ASSUME IInv, lane.pc \in Revives
    PROVE  /\ lane \in Lanes /\ idle = None /\ blocker = None /\ lane.op.kind = "refresh" /\ lane.op.by # Nobody
           /\ lane.owner \in Owner /\ HasSession(lane.owner) /\ Released(session[lane.owner])
           /\ ~closeFailed[lane.owner]
BY LaneAlone DEF IInv, Types, Callers, Blocked, Positions, Placed, ReleasedFirst, Offered, OperationFits, HasSession,
                 Place, Revives

\* The old Session is released, and the Subagents retired.
LEMMA ReviveRetiredKeeps ==
    ASSUME IInv, Types', ReviveRetired
    PROVE  Sessions' /\ Callers' /\ Positions'
<1>1. /\ UNCHANGED <<native, output, opened, session, closeFailed, current, queue, idle, blocker>>
      /\ lane.pc = "reviveRetire" /\ lane.pc \in Revives
  BY DEF ReviveRetired, sessionVars, ownerVars, Revives
<1>2. /\ lane \in Lanes /\ idle = None /\ blocker = None /\ lane.op.kind = "refresh"
      /\ HasSession(lane.owner) /\ Released(session[lane.owner]) /\ ~closeFailed[lane.owner]
  BY <1>1, RevivingLane
<1>3. CASE Settle(None)
  BY <1>1, <1>2, <1>3, SettleAlone
<1>4. CASE Continue("reviveOpening")
  <2>1. lane'.pc = "reviveOpening" /\ lane'.op = lane.op /\ lane'.owner = lane.owner /\ request' = request
    BY <1>2, <1>4 DEF Continue, Lanes
  <2>2. Sessions' /\ Callers'
    BY <1>1, <1>2, <2>1, LaneContinues DEF Reading
  <2>3. Positions'
    BY <1>1, <1>2, <2>1 DEF Positions, Placed, ReleasedFirst, Offered, Place, Drops, Revives, HasSession,
                            Released, Drained
  <2> QED
    BY <2>2, <2>3
<1> QED
  BY <1>3, <1>4 DEF ReviveRetired

\* A Session is opened.
LEMMA OpensKeep ==
    ASSUME IInv, Types', RestoreOpens \/ ReviveOpens
    PROVE  Sessions' /\ Callers' /\ Positions'
<1>1. /\ UNCHANGED <<session, closeFailed, current, blocker, queue, request, idle>>
      /\ Open(lane.ref)
      /\ \/ lane.pc = "opening" /\ lane' = [lane EXCEPT !.pc = "reading", !.fresh = opened + 1]
         \/ lane.pc = "reviveOpening" /\ lane' = [lane EXCEPT !.pc = "reviveReading", !.fresh = opened + 1]
  BY DEF RestoreOpens, ReviveOpens, ownerVars
<1>2. lane \in Lanes
  BY DEF IInv, Types
<1>3. /\ lane'.op = lane.op /\ lane'.owner = lane.owner /\ lane'.fresh = opened + 1
      /\ \/ lane.pc = "opening" /\ lane'.pc = "reading"
         \/ lane.pc = "reviveOpening" /\ lane'.pc = "reviveReading"
  BY <1>1, <1>2 DEF Lanes
<1>4. /\ Sessions' /\ Callers'
      /\ \A o : HasSession(o)' <=> HasSession(o)
      /\ \A o \in Owner : HasSession(o) /\ Released(session[o]) => Released(session[o])'
  BY <1>1, <1>3, LaneOpens DEF Reading
<1>5. lane.pc = "opening" => lane.op.kind = "resolve"
  BY DEF IInv, Positions, Placed, Place
<1>6. lane.pc = "reviveOpening" =>
         /\ lane.op.kind = "refresh" /\ lane.owner \in Owner
         /\ HasSession(lane.owner) /\ Released(session[lane.owner]) /\ ~closeFailed[lane.owner]
  BY RevivingLane DEF Revives
<1>7. Place' = lane'.pc
  BY <1>3 DEF Place
<1>8. Placed' /\ Offered'
  BY <1>1, <1>3, <1>4, <1>5, <1>6, <1>7 DEF Placed, Offered, Drops, Revives
<1>9. ReleasedFirst'
  <2>1. lane.pc = "reviveOpening" => Released(session[lane.owner])'
    BY <1>1, <1>3, <1>4, <1>6
  <2> QED
    BY <1>3, <1>7, <2>1 DEF ReleasedFirst, Drops, Revives
<1> QED
  BY <1>4, <1>8, <1>9 DEF Positions

\* The restored Thread has its owner.
LEMMA RestoreRegistersKeeps ==
    ASSUME IInv, Types', RestoreRegisters
    PROVE  Sessions' /\ Callers' /\ Positions'
<1>1. /\ UNCHANGED <<native, opened, closeFailed, queue, idle, blocker>>
      /\ lane.pc = "reading" /\ lane.pc \in Reading
  BY DEF RestoreRegisters, Reading
<1>2. lane \in Lanes /\ idle = None /\ OperationFits(lane.op) /\ lane.op.kind = "resolve"
  BY <1>1, LaneAlone DEF IInv, Types, Positions, Placed, Place
<1>3. PICK f \in Session : f = lane.fresh /\ Fresh(f)
  BY <1>1, <1>2 DEF IInv, Sessions, Unregistered, Fresh, Lanes
<1>4. Register(f, lane.ref) /\ Settle(f)
  BY <1>3 DEF RestoreRegisters
<1>5. /\ current' = f /\ ~closeFailed[f]
      /\ Made' /\ Owned'
      /\ HasSession(f)' /\ \A o : HasSession(o) => HasSession(o)'
      /\ \A s \in Session : s # f /\ Fresh(s) => Fresh(s)'
  BY <1>1, <1>3, <1>4, RegisterAdds
<1>6. lane.op.by # Nobody /\ f \in Owner \cup {None}
  BY <1>2 DEF OperationFits, Owner
<1>7. current' # None => HasSession(current)'
  BY <1>5
<1> QED
  BY <1>1, <1>2, <1>3, <1>4, <1>5, <1>6, <1>7, SettleKeeps

\* The revived owner has its new Session.
LEMMA ReviveInstallsKeeps ==
    ASSUME IInv, Types', ReviveInstalls
    PROVE  Sessions' /\ Callers' /\ Positions'
<1> DEFINE o == lane.owner
<1>1. /\ UNCHANGED <<closeFailed, current, queue, idle>>
      /\ lane.pc = "reviveReading" /\ lane.pc \in Revives /\ lane.pc \in Reading
  BY DEF ReviveInstalls, Reading, Revives
<1>2. /\ lane \in Lanes /\ idle = None /\ lane.op.by # Nobody
      /\ o \in Owner /\ HasSession(o) /\ ~closeFailed[o]
  BY <1>1, RevivingLane
<1>3. CASE current # o
  BY <1>1, <1>3, GivesUpKeeps DEF ReviveInstalls
<1>4. CASE current = o
  <2>1. PICK f \in Session : f = lane.fresh /\ Fresh(f)
    BY <1>1, <1>2 DEF IInv, Sessions, Unregistered, Fresh, Lanes
  <2>2. /\ session' = [session EXCEPT ![o] = f] /\ output' = [output EXCEPT ![f] = "live"]
        /\ UNCHANGED <<native, opened, blocker>> /\ Settle(o)
    BY <1>4, <2>1 DEF ReviveInstalls
  <2>3. /\ session'[o] = f /\ \A x \in Owner : x # o => session'[x] = session[x]
        /\ output'[f] = "live" /\ \A s \in Session : s # f => output'[s] = output[s]
        /\ \A x : x # o => session'[x] = session[x]
    BY <1>2, <2>2 DEF IInv, Types
  <2>4. native[f] = "open" /\ session[f] = None /\ f # None /\ ~(f > opened) /\ ~(o > opened)
    BY <1>2, <2>1 DEF Fresh, IInv, Sessions, Made, HasSession, Owner
  <2>5. Made'
    BY <2>2, <2>3, <2>4 DEF IInv, Sessions, Made, Owner
  <2>6. Owned'
    <3>1. ASSUME NEW x \in Owner
          PROVE  /\ session'[x] = None => ~closeFailed[x]
                 /\ session'[x] # None => native[session'[x]] # "unmade" /\ output'[session'[x]] # "none"
      <4>1. CASE x = o
        BY <2>3, <2>4, <4>1
      <4>2. CASE x # o
        <5>1. /\ session'[x] = session[x] /\ session[x] \in Session \cup {None}
              /\ session[x] = None => ~closeFailed[x]
              /\ session[x] # None => native[session[x]] # "unmade" /\ output[session[x]] # "none"
          BY <2>3, <4>2 DEF IInv, Types, Sessions, Owned
        <5> QED
          BY <2>3, <5>1
      <4> QED
        BY <4>1, <4>2
    <3> QED
      BY <1>1, <2>2, <3>1 DEF Owned
  <2>7. \A x : HasSession(x) => HasSession(x)'
    BY <1>2, <2>3, <2>4 DEF HasSession
  <2>8. \A s \in Session : Fresh(s) /\ s # f => Fresh(s)'
    BY <1>2, <2>2, <2>3 DEF Fresh, HasSession, Owner
  <2>9. HasSession(current)'
    BY <1>1, <1>4, <2>3, <2>4, <1>2 DEF HasSession
  <2>10. o \in Owner \cup {None} /\ lane.pc # "free"
    BY <1>1, <1>2
  <2>11. \E x \in Owner \cup {None} : x = o /\ Settle(x) /\ HasSession(x)' /\ ~closeFailed[x]
    BY <1>2, <2>2, <2>3, <2>4 DEF HasSession
  <2> QED
    BY <1>1, <1>2, <2>1, <2>2, <2>5, <2>6, <2>7, <2>8, <2>9, <2>10, <2>11, SettleKeeps
<1> QED
  BY <1>3, <1>4

\* The lane keeps the invariant.
LEMMA LaneStepKeeps ==
    ASSUME IInv, Types', LaneStep
    PROVE  Sessions' /\ Callers' /\ Positions'
<1>1. CASE ReleaseFails \/ RestoreOpenFails \/ Failed \/ Deleted
  <2>1. /\ UNCHANGED <<native, output, opened, session, closeFailed, queue, blocker, idle>>
        /\ Settle(None) /\ current' \in {current, None} /\ lane.pc \notin {"free", "admitted"}
    BY <1>1 DEF ReleaseFails, RestoreOpenFails, Failed, Deleted, sessionVars, ownerVars
  <2> QED
    BY <2>1, LaneAlone, SettleAlone
<1>2. CASE RestoreReadFails \/ ReviveReadFails
  <2>1. /\ UNCHANGED <<session, closeFailed, current, queue, idle>>
        /\ lane.pc \in Reading
        /\ \E th \in {"failed", "reviveDrop"} :
              Release(lane.fresh, th) /\ (th = "reviveDrop" => lane.pc = "reviveReading")
    BY <1>2 DEF RestoreReadFails, ReviveReadFails, ownerVars, Reading
  <2> QED
    BY <2>1, GivesUpKeeps
<1>3. CASE ReviveOpenFails \/ ReviveDrops
  <2>1. /\ UNCHANGED <<session, closeFailed, current, queue, idle>>
        /\ lane.pc \in Revives /\ lane.pc \notin {"free", "releasing"} /\ Drop(lane.owner)
    BY <1>3 DEF ReviveOpenFails, ReviveDrops, Revives
  <2>2. lane.op.kind = "refresh" /\ idle = None /\ lane.owner \in Owner /\ HasSession(lane.owner)
    BY <2>1, RevivingLane
  <2> QED
    BY <2>1, <2>2, DropKeeps
<1> QED
  BY <1>1, <1>2, <1>3, StartKeeps, ReleaseConfirmedKeeps, DroppedKeeps, AfterDropKeeps, ResolveKeeps, OpensKeep,
     RestoreRegistersKeeps, RefreshKeeps, ReviveRetiredKeeps, ReviveInstallsKeeps, DeleteKeeps, DiscardKeeps
     DEF LaneStep

-----------------------------------------------------------------------------
(* The invariant holds *)

\* The invariant holds at first,
LEMMA InitHolds == Init => IInv
<1> SUFFICES ASSUME Init PROVE IInv
  OBVIOUS
<1>1. NoRequest \in Requests /\ FreeLane \in Lanes
  BY DEF NoRequest, Requests, RequestPcs, FreeLane, NoOperation, Lanes, Operations, LanePcs
<1>2. Types
  BY <1>1, BoundAssumption DEF Init, Types, None, Ref
<1>3. FreeLane.pc = "free" /\ FreeLane.then = "none"
      /\ NoRequest.pc = "off" /\ NoRequest.owner = None /\ ~NoRequest.rolling
  BY DEF FreeLane, NoRequest
<1>4. \A r \in Request : request[r].pc = "off" /\ request[r].owner = None /\ ~request[r].rolling
  BY <1>3 DEF Init
<1>5. lane.pc = "free" /\ queue = <<>> /\ blocker = None /\ idle = None /\ current = None
  BY <1>3 DEF Init
<1>6. Sessions
  <2>1. Made
    BY BoundAssumption DEF Init, Made, Owner, Session
  <2>2. Owned
    BY DEF Init, Owned
  <2>3. Held /\ Unregistered
    BY <1>4, <1>5 DEF Held, Unregistered, Replacing, Reading
  <2> QED
    BY <2>1, <2>2, <2>3 DEF Sessions
<1>7. Callers
  BY <1>4, <1>5 DEF Callers, Answered, Blocked, IdleAlone, Usable, Replacing
<1>8. Positions
  BY <1>5 DEF Positions, Placed, ReleasedFirst, Offered, Place, Drops, Revives
<1> QED
  BY <1>2, <1>6, <1>7, <1>8 DEF IInv

\* after every step,
LEMMA NextKeeps == IInv /\ [Next]_vars => IInv'
<1> SUFFICES ASSUME IInv, [Next]_vars PROVE IInv'
  OBVIOUS
<1>1. Types'
  BY TypesKeep
<1>2. Sessions' /\ Callers' /\ Positions'
  <2>1. CASE UNCHANGED vars
    <3>1. UNCHANGED <<native, ref, output, opened, session, ownerRef, unavailable, turn, outputFailed, closeFailed,
                      current, stored, queue, lane, blocker, idle, request>>
      BY <2>1 DEF vars, sessionVars, ownerVars
    <3>2. GoesOn /\ \A s \in Session : Fresh(s) => native'[s] = "open"
      BY <3>1 DEF GoesOn, Fresh, Released, Drained
    <3>3. IdleAlone'
      BY <3>1 DEF IInv, Callers, IdleAlone, InOperation
    <3> QED
      BY <3>1, <3>2, <3>3, SessionMoves
  <2>2. CASE LaneStep
    BY <1>1, <2>2, LaneStepKeeps
  <2>3. CASE IdleCloses \/ IdleEnds
    BY <2>3, IdleClosesKeeps, IdleEndsKeeps
  <2>4. CASE \E r \in Request : RequestStep(r)
    BY <1>1, <2>4, RequestStepKeeps
  <2>5. CASE \E s \in Session : SessionStep(s)
    BY <2>5, SessionStepKeeps
  <2>6. CASE \E o \in Owner : OwnerStep(o)
    BY <1>1, <2>6, SessionStepKeeps, FaultKeeps DEF OwnerStep
  <2> QED
    BY <2>1, <2>2, <2>3, <2>4, <2>5, <2>6 DEF Next
<1> QED
  BY <1>1, <1>2 DEF IInv

\* and so always.
LEMMA Invariant == Spec => []IInv
BY InitHolds, NextKeeps, PTL DEF Spec

-----------------------------------------------------------------------------
(* Theorems *)

\* Types: in every behaviour each variable has its type, Sessions are made in order
\* and every owner in use has the Session it was registered with (external-thread-runtime.ts).
THEOREM RuntimeTypes == Spec => []TypeOK
<1>1. IInv => TypeOK
  BY DEF IInv, Types, Sessions, Made, Held, HasSession, TypeOK, Holders
<1> QED
  BY <1>1, Invariant, PTL

\* A caller never holds an owner whose idle release failed (runOperation and
\* external-thread-idle-release.ts).
THEOREM FailedReleaseIsNotUsed == Spec => []FailedReleaseBlocksUse
<1>1. IInv => FailedReleaseBlocksUse
  BY DEF IInv, Callers, Usable, FailedReleaseBlocksUse
<1> QED
  BY <1>1, Invariant, PTL

\* Where the loaded owner goes away.
LEMMA Forgets ==
    ASSUME IInv, [Next]_vars, current # None, current' = None
    PROVE  Released(session[current])
<1>a. Types /\ current \in Owner \cup {None} /\ lane.fresh \in Session \cup {None} /\ None \notin Session
  BY BoundAssumption DEF IInv, Types, Lanes, Session, None
<1>1. CASE UNCHANGED vars
  BY <1>1 DEF vars
<1>2. CASE DropRetired
  <2>1. lane.pc = "dropRetire" /\ current = lane.owner
    BY <1>2 DEF DropRetired
  <2> QED
    BY <2>1 DEF IInv, Positions, ReleasedFirst, Place, Drops
<1>3. CASE Deleted
  <2>1. lane.pc = "deleted"
    BY <1>3 DEF Deleted
  <2> QED
    BY <2>1 DEF IInv, Positions, ReleasedFirst, Place
<1>4. CASE IdleReleases
  BY <1>4 DEF IdleReleases
<1>5. CASE RestoreRegisters
  <2>1. lane.fresh # None /\ current' = lane.fresh
    BY <1>5 DEF RestoreRegisters, Register, IInv, Sessions, Unregistered, Fresh, Reading
  <2> QED
    BY <2>1
<1>6. ASSUME NEW r \in Request, Replaced(r) PROVE FALSE
  <2>1. request[r].fresh # None /\ current' = request[r].fresh
    BY <1>6 DEF Replaced, Register, IInv, Sessions, Unregistered, Fresh, Replacing
  <2> QED
    BY <2>1
<1>7. LaneStep => current' = current \/ DropRetired \/ Deleted \/ RestoreRegisters
  BY DEF LaneStep, Start, ReleaseConfirmed, ReleaseFails, Dropped, AfterDrop, Resolve, RestoreOpens, RestoreOpenFails,
         RestoreReadFails, Failed, Refresh, ReviveRetired, ReviveOpens, ReviveOpenFails, ReviveInstalls,
         ReviveReadFails, ReviveDrops, Delete, Discard
<1>8. \A r \in Request : RequestStep(r) => current' = current \/ Replaced(r)
  BY DEF RequestStep, Call, CallRefresh, Finish, StartTurn, TurnAccepted, TurnRefused, RollbackOpens, RollbackCommits,
         RollbackAborts, Replace
<1>9. IdleCloses \/ IdleFails \/ (\E s \in Session : SessionStep(s)) \/ (\E o \in Owner : OwnerStep(o))
         => current' = current
  BY DEF IdleCloses, IdleFails, SessionStep, CloseResolves, CloseRejects, OutputEnds, OwnerStep, OutputBreaks, Fault,
         TurnEnds
<1> QED
  BY <1>1, <1>2, <1>3, <1>4, <1>5, <1>6, <1>7, <1>8, <1>9 DEF Next, IdleEnds

\* The loaded owner is forgotten only when its Session is closed and its output drained (#dropIdleSession,
\* deleteThread and the idle release).
THEOREM ForgottenWhenReleased == Spec => ForgottenOnlyAfterRelease
<1>1. IInv /\ [Next]_vars => [current # None /\ current' = None => Released(session[current])]_vars
  BY Forgets
<1> QED
  BY <1>1, Invariant, PTL DEF Spec, ForgottenOnlyAfterRelease

\* A close reaches one Session.
LEMMA OneCloses ==
    ASSUME IInv, NEW s, NEW x \in Session, native' = AfterClose(s), native[x] = "open", native'[x] # "open"
    PROVE  x = s
BY DEF IInv, Types, AfterClose

\* Who closes a Session of a loaded owner that runs a Turn.
LEMMA TurnKeeps ==
    ASSUME IInv, Types', [Next]_vars, NEW o \in Owner, turn[o], current = o,
           native[session[o]] = "open", native'[session[o]] # "open"
    PROVE  lane.op.kind = "delete" \/ output'[session[o]] = "broken"
<1> DEFINE s == session[o]
<1>1. Types /\ HasSession(o) /\ s \in Session /\ output[s] # "none"
  <2>1. o # None
    BY BoundAssumption DEF Owner, Session, None
  <2> QED
    BY <2>1 DEF IInv, Types, Sessions, Held, Owned, HasSession
<1>2. native' # native
  OBVIOUS
<1>3. ASSUME NEW x, native' = AfterClose(x) PROVE x = s
  BY <1>1, <1>3, OneCloses
<1>4. ASSUME NEW n, Open(n) PROVE FALSE
  <2>1. session' = session /\ closeFailed' = closeFailed => s # opened + 1
    BY <1>1, <1>4 DEF IInv, Sessions, Made, Open, Types
  <2>2. native' = [native EXCEPT ![opened + 1] = "open"]
    BY <1>4 DEF Open
  <2> QED
    BY <1>1, <2>2 DEF Types
<1>5. ASSUME NEW x \in Owner, Drop(x) PROVE x = o
  BY <1>2, <1>5 DEF Drop
<1>6. LaneStep => lane.op.kind = "delete"
  <2>1. CASE Start
    <3>1. native' = AfterClose(blocker) /\ blocker # None
      BY <1>2, <2>1 DEF Start
    <3> QED
      BY <1>3, <3>1 DEF IInv, Callers, Blocked
  <2>2. CASE Resolve
    <3>1. Drop(o)
      BY <1>2, <2>2 DEF Resolve, sessionVars
    <3> QED
      BY <1>2, <2>2 DEF Resolve, IdleForRestore, sessionVars
  <2>3. CASE Refresh
    BY <1>2, <2>3 DEF Refresh, IdleForRestore, sessionVars
  <2>4. CASE Discard
    BY <1>2, <2>4 DEF Discard, IdleForRestore, sessionVars
  <2>5. CASE ReviveOpenFails \/ ReviveDrops
    <3>1. lane.pc \in Revives /\ Drop(lane.owner)
      BY <2>5 DEF ReviveOpenFails, ReviveDrops, Revives
    <3>2. Released(session[lane.owner]) /\ lane.owner = o
      BY <1>5, <3>1, RevivingLane
    <3> QED
      BY <3>2 DEF Released
  <2>6. CASE RestoreReadFails \/ ReviveReadFails \/ ReviveInstalls
    <3>1. lane.pc \in Reading /\ native' = AfterClose(lane.fresh)
      BY <1>2, <2>6 DEF RestoreReadFails, ReviveReadFails, ReviveInstalls, Release, Reading
    <3>2. Fresh(lane.fresh)
      BY <3>1 DEF IInv, Sessions, Unregistered
    <3> QED
      BY <1>1, <1>3, <3>1, <3>2 DEF Fresh
  <2>7. CASE Delete
    BY <2>7 DEF Delete, Ready
  <2>8. CASE RestoreOpens \/ ReviveOpens
    BY <1>4, <2>8 DEF RestoreOpens, ReviveOpens
  <2> QED
    BY <1>2, <2>1, <2>2, <2>3, <2>4, <2>5, <2>6, <2>7, <2>8
       DEF LaneStep, ReleaseConfirmed, ReleaseFails, Dropped, DropRetired, AfterDrop, RestoreOpenFails, RestoreRegisters,
           Failed, ReviveRetired, Deleted, sessionVars
<1>7. ASSUME NEW r \in Request, RequestStep(r) PROVE FALSE
  <2>1. CASE RollbackAborts(r)
    <3>1. native' = AfterClose(request[r].fresh) /\ Fresh(request[r].fresh)
      BY <2>1 DEF RollbackAborts, IInv, Sessions, Unregistered, Replacing
    <3> QED
      BY <1>1, <1>3, <3>1 DEF Fresh
  <2>2. CASE Replace(r)
    <3>1. native' = AfterClose(session[request[r].owner]) /\ ~turn[request[r].owner] /\ current = request[r].owner
      BY <1>2, <2>2 DEF Replace, ActiveOrStale
    <3> QED
      BY <3>1
  <2>3. CASE RollbackOpens(r)
    BY <1>4, <2>3 DEF RollbackOpens
  <2> QED
    BY <1>2, <1>7, <2>1, <2>2, <2>3
       DEF RequestStep, Call, CallRefresh, Finish, StartTurn, TurnAccepted, TurnRefused, RollbackCommits, Replaced,
           sessionVars
<1>8. ~IdleCloses /\ ~IdleEnds
  BY <1>2 DEF IdleCloses, IdleEnds, IdleReleases, IdleFails, sessionVars
<1>9. ASSUME NEW x \in Session, SessionStep(x) PROVE FALSE
  BY <1>1, <1>2, <1>9 DEF SessionStep, CloseResolves, CloseRejects, OutputEnds, Types
<1>10. ASSUME NEW x \in Owner, OwnerStep(x) PROVE output'[s] = "broken"
  <2>1. CASE OutputBreaks(x)
    <3>1. native' = AfterClose(session[x]) /\ output' = [output EXCEPT ![session[x]] = "broken"]
      BY <2>1 DEF OutputBreaks
    <3>2. session[x] = s
      BY <1>3, <3>1
    <3> QED
      BY <1>1, <3>1, <3>2 DEF Types
  <2>2. CASE Fault(x) \/ TurnEnds(x)
    BY <1>2, <2>2 DEF Fault, TurnEnds, sessionVars
  <2> QED
    BY <1>10, <2>1, <2>2 DEF OwnerStep
<1>11. ~UNCHANGED vars
  BY <1>2 DEF vars, sessionVars
<1> QED
  BY <1>6, <1>7, <1>8, <1>9, <1>10, <1>11 DEF Next

\* Nobody but deletion and a broken output closes the Session under a running Turn of the loaded
\* owner (isIdleForRestore, the idle release's check and replace).
THEOREM TurnsKeepSessions == Spec => TurnKeepsItsSession
<1> DEFINE Keeps == \A o \in Owner :
              /\ turn[o] /\ current = o
              /\ native[session[o]] = "open" /\ native'[session[o]] # "open"
              => lane.op.kind = "delete" \/ output'[session[o]] = "broken"
<1>1. IInv /\ [Next]_vars => [Keeps]_vars
  <2> SUFFICES ASSUME IInv, [Next]_vars PROVE Keeps
    OBVIOUS
  <2>1. Types'
    BY TypesKeep
  <2> QED
    BY <2>1, TurnKeeps
<1> QED
  BY <1>1, Invariant, PTL DEF Spec, TurnKeepsItsSession

-----------------------------------------------------------------------------
(* Without rollbacks one Session lives *)

\* A close makes no Session live.
LEMMA CloseLives ==
    ASSUME IInv, NEW x, native' = AfterClose(x)
    PROVE  \A s \in Session : (Live(s)' <=> Live(s)) /\ (native'[s] = "closed" <=> native[s] = "closed")
BY DEF IInv, Types, AfterClose, Live

\* Where the lane is, when it is not about to open or register.
Elsewhere == Drops \cup {"opening", "reading", "failed", "deleted", "reviveRetire", "reviveOpening", "reviveReading",
                         "reviveDrop"}

\* Nothing lives where nobody is that may.
LEMMA NobodyLives ==
    ASSUME IInv, OneLives, TheOne = None
    PROVE  NothingLives
<1>1. None \notin Session
  BY BoundAssumption DEF None, Session
<1> QED
  BY <1>1 DEF OneLives, NothingLives

\* A blocker that is released was the only one.
LEMMA ReleasedOne ==
    ASSUME IInv, OneLives, TheOne # None, native[TheOne] = "closed"
    PROVE  NothingLives
BY DEF OneLives, NothingLives, Live

\* The lane keeps it.
LEMMA LaneOneLives ==
    ASSUME IInv, OneLives, LaneStep, request' = request \/ \A r \in Request : request'[r].pc \notin Replacing
    PROVE  OneLives'
<1>a. Types /\ lane \in Lanes /\ lane.then \in Thens \cup {"none"}
  BY DEF IInv, Types, Lanes
<1>b. \A r \in Request : request'[r].pc \notin Replacing
  BY DEF OneLives
<1>c. /\ lane.pc \notin {"free", "releasing"} => blocker = None
      /\ lane.pc = "releasing" => blocker # None
      /\ current # None => HasSession(current) /\ current \in Owner /\ session[current] # None
  BY <1>a DEF IInv, Callers, Blocked, Sessions, Held, HasSession, Types
<1>d. /\ \A s \in Session : Live(s) => s = TheOne
      /\ lane.pc \in Elsewhere \ Reading => NothingLives
      /\ lane.pc \in {"opening", "reading"} => current = None
      /\ lane.pc \in {"reviveOpening", "reviveReading"} => current = lane.owner
  BY DEF OneLives, Elsewhere, Reading, Drops
<1>e. ASSUME \A s \in Session : Live(s)' => s = TheOne', lane'.pc \notin Elsewhere
      PROVE  OneLives'
  BY <1>b, <1>e DEF OneLives, Elsewhere, Drops
<1>f. ASSUME NEW o, Settle(o), \A s \in Session : Live(s)' => s = IF blocker' # None THEN blocker'
                                                  ELSE IF current' # None THEN session'[current'] ELSE None
      PROVE  OneLives'
  <2>1. lane'.pc = "free"
    BY <1>f DEF Settle, FreeLane
  <2> QED
    BY <1>e, <1>f, <2>1 DEF TheOne, Reading, Elsewhere, Drops
<1>g. ASSUME NEW x, native' = AfterClose(x), \A s \in Session : Live(s) => s = x, blocker' = x, x # None,
             lane'.pc = "releasing"
      PROVE  OneLives'
  <2>1. \A s \in Session : Live(s)' => s = TheOne'
    BY <1>g, CloseLives DEF TheOne
  <2> QED
    BY <1>e, <1>g, <2>1 DEF Elsewhere, Drops
<1>h. ASSUME NEW o, Drop(o), UNCHANGED <<session, current>>, lane.pc \notin {"free", "releasing"} \cup Reading
      PROVE  OneLives'
  <2>1. CASE current # o
    <3>1. lane'.pc = "afterDrop" /\ UNCHANGED <<native, blocker>>
      BY <1>a, <1>h, <2>1 DEF Drop, Continue, Lanes
    <3>2. TheOne' = TheOne /\ \A s \in Session : Live(s)' <=> Live(s)
      BY <1>h, <3>1 DEF TheOne, Live, Reading
    <3> QED
      BY <1>d, <1>e, <3>1, <3>2 DEF Elsewhere, Drops
  <2>2. CASE current = o
    <3>1. /\ lane'.pc = "releasing" /\ blocker' = session[o] /\ native' = AfterClose(session[o])
      BY <1>a, <1>h, <2>2 DEF Drop, Lanes
    <3>2. \A s \in Session : Live(s) => current # None /\ s = session[current]
      <4>1. None \notin Session
        BY BoundAssumption DEF None, Session
      <4> QED
        BY <1>c, <1>d, <1>h, <4>1 DEF TheOne
    <3>3. CASE current # None
      BY <1>c, <1>g, <2>2, <3>1, <3>2, <3>3
    <3>4. CASE current = None
      <4>1. \A s \in Session : ~Live(s)'
        BY <3>1, <3>2, <3>4, CloseLives
      <4> QED
        BY <1>e, <3>1, <4>1 DEF Elsewhere, Drops
    <3> QED
      BY <3>3, <3>4
  <2> QED
    BY <2>1, <2>2
<1>n. ASSUME \A s \in Session : ~Live(s)', lane'.pc \in {"opening", "reading"} => current' = None,
             lane'.pc \in {"reviveOpening", "reviveReading"} => current' = lane'.owner
      PROVE  OneLives'
  BY <1>b, <1>n DEF OneLives, NothingLives
<1>o. NothingLives /\ native' = native => \A s \in Session : ~Live(s)'
  BY DEF NothingLives, Live
<1>p. native' = native => \A s \in Session : Live(s)' <=> Live(s)
  BY DEF Live
<1>1. CASE Start
  <2>1. /\ lane.pc = "free" /\ lane'.pc \in {"admitted", "releasing"} /\ UNCHANGED <<blocker, current, session>>
        /\ native' = native \/ native' = AfterClose(blocker)
    BY <1>1 DEF Start, FreeLane, ownerVars
  <2>2. TheOne' = TheOne
    BY <2>1 DEF TheOne, Reading
  <2>3. \A s \in Session : Live(s)' <=> Live(s)
    BY <1>p, <2>1, CloseLives
  <2> QED
    BY <1>d, <1>e, <2>1, <2>2, <2>3 DEF Elsewhere, Drops
<1>2. CASE ReleaseConfirmed
  <2>1. /\ lane.pc = "releasing" /\ native[blocker] = "closed" /\ native' = native
        /\ lane' = [lane EXCEPT !.pc = lane.then]
    BY <1>2 DEF ReleaseConfirmed, Continue, Released, sessionVars
  <2>2. NothingLives
    BY <1>c, <2>1, ReleasedOne DEF TheOne
  <2>3. lane'.pc = lane.then
    BY <1>a, <2>1 DEF Lanes
  <2> QED
    BY <1>a, <1>n, <1>o, <2>1, <2>2, <2>3 DEF Thens
<1>3. CASE ReleaseFails
  <2>1. lane.pc = "releasing" /\ native' = native /\ blocker' = blocker /\ Settle(None)
    BY <1>3 DEF ReleaseFails, sessionVars
  <2> QED
    BY <1>c, <1>d, <1>f, <1>p, <2>1 DEF TheOne
<1>4. CASE Dropped \/ DropRetired
  <2>1. lane.pc \in Drops /\ native' = native /\ lane'.pc \in {"dropRetire", "afterDrop"}
    BY <1>a, <1>4 DEF Dropped, DropRetired, Continue, sessionVars, Drops, Lanes
  <2>2. NothingLives
    BY <1>d, <2>1 DEF Elsewhere, Drops, Reading
  <2> QED
    BY <1>n, <1>o, <2>1, <2>2
<1>5. CASE AfterDrop
  <2>1. lane.pc = "afterDrop" /\ UNCHANGED <<native, session, current, blocker>> /\ blocker = None
    BY <1>c, <1>5 DEF AfterDrop, sessionVars, ownerVars
  <2>2. CASE Settle(None) \/ Settle(current)
    BY <1>d, <1>f, <1>p, <2>1, <2>2 DEF TheOne, Reading
  <2>3. CASE current = None /\ Continue("opening")
    <3>1. lane'.pc = "opening" /\ NothingLives
      BY <1>a, <2>1, <2>3, NobodyLives DEF Continue, Lanes, TheOne, Reading
    <3> QED
      BY <1>n, <1>o, <2>1, <2>3, <3>1
  <2> QED
    BY <1>5, <2>2, <2>3 DEF AfterDrop
<1>6. CASE Resolve
  <2>1. lane.pc = "admitted" /\ UNCHANGED <<session, current>> /\ blocker = None
    BY <1>c, <1>6 DEF Resolve, Ready
  <2>2. CASE (Settle(None) \/ Settle(current)) /\ UNCHANGED <<native, blocker>>
    BY <1>d, <1>f, <1>p, <2>1, <2>2 DEF TheOne, Reading
  <2>3. CASE current = None /\ lane' = [lane EXCEPT !.pc = "opening", !.ref = stored] /\ native' = native
    <3>1. lane'.pc = "opening" /\ NothingLives
      BY <1>a, <2>1, <2>3, NobodyLives DEF Lanes, TheOne, Reading
    <3> QED
      BY <1>n, <1>o, <2>1, <2>3, <3>1
  <2>4. CASE Drop(current)
    BY <1>h, <2>1, <2>4 DEF Reading
  <2> QED
    BY <1>6, <2>2, <2>3, <2>4 DEF Resolve, sessionVars
<1>7. CASE RestoreOpens \/ ReviveOpens
  <2>1. /\ Open(lane.ref) /\ UNCHANGED <<session, current, closeFailed, blocker>>
        /\ \/ lane.pc = "opening" /\ lane' = [lane EXCEPT !.pc = "reading", !.fresh = opened + 1]
           \/ lane.pc = "reviveOpening" /\ lane' = [lane EXCEPT !.pc = "reviveReading", !.fresh = opened + 1]
    BY <1>7 DEF RestoreOpens, ReviveOpens, ownerVars
  <2>2. \A s \in Session : s # opened + 1 => native'[s] = native[s]
    BY <2>1, OpenAdds
  <2>3. NothingLives /\ blocker' = None
    BY <1>c, <1>d, <2>1 DEF Elsewhere, Reading
  <2>4. \A s \in Session : Live(s)' => s = opened + 1
    BY <2>2, <2>3 DEF NothingLives, Live
  <2>5. /\ lane'.fresh = opened + 1 /\ lane'.owner = lane.owner
        /\ \/ lane.pc = "opening" /\ lane'.pc = "reading"
           \/ lane.pc = "reviveOpening" /\ lane'.pc = "reviveReading"
    BY <1>a, <2>1 DEF Lanes
  <2>6. TheOne' = opened + 1
    BY <2>3, <2>5 DEF TheOne, Reading
  <2> QED
    BY <1>b, <1>d, <2>1, <2>4, <2>5, <2>6 DEF OneLives, Drops
<1>8. CASE RestoreOpenFails \/ Failed \/ Deleted
  <2>1. lane.pc \in Elsewhere \ Reading /\ native' = native /\ lane'.pc = "free"
    BY <1>8 DEF RestoreOpenFails, Failed, Deleted, Settle, FreeLane, sessionVars, Elsewhere, Reading
  <2> QED
    BY <1>d, <1>n, <1>o, <2>1
<1>9. CASE RestoreRegisters
  <2>1. /\ lane.pc = "reading" /\ Settle(lane.fresh) /\ UNCHANGED <<native, blocker>>
        /\ session' = [session EXCEPT ![lane.fresh] = lane.fresh] /\ current' = lane.fresh
    BY <1>9 DEF RestoreRegisters, Register
  <2>2. Fresh(lane.fresh) /\ lane.fresh \in Owner
    BY <1>a, <2>1 DEF IInv, Sessions, Unregistered, Reading, Fresh, Lanes, Owner
  <2>3. session'[lane.fresh] = lane.fresh /\ blocker = None /\ lane.fresh # None
    BY <1>a, <1>c, <2>1, <2>2 DEF Types, Fresh
  <2>4. \A s \in Session : Live(s)' => s = lane.fresh
    BY <1>d, <1>p, <2>1, <2>3 DEF TheOne, Reading
  <2> QED
    BY <1>f, <2>1, <2>3, <2>4
<1>10. CASE RestoreReadFails \/ ReviveReadFails
  <2>1. lane.pc \in Reading /\ lane'.pc = "releasing" /\ native' = AfterClose(lane.fresh) /\ blocker' = lane.fresh
    BY <1>a, <1>10 DEF RestoreReadFails, ReviveReadFails, Release, Reading, Lanes
  <2>2. lane.fresh # None /\ blocker = None
    BY <1>c, <2>1 DEF IInv, Sessions, Unregistered, Fresh, Reading
  <2>3. \A s \in Session : Live(s) => s = lane.fresh
    BY <1>d, <2>1, <2>2 DEF TheOne
  <2> QED
    BY <1>g, <2>1, <2>2, <2>3
<1>11. CASE Refresh
  <2>1. lane.pc = "admitted" /\ UNCHANGED <<session, current>> /\ blocker = None
    BY <1>c, <1>11 DEF Refresh, Ready
  <2>2. CASE (Settle(None) \/ Settle(lane.op.owner)) /\ UNCHANGED <<native, blocker>>
    BY <1>d, <1>f, <1>p, <2>1, <2>2 DEF TheOne, Reading
  <2>3. CASE current = lane.op.owner /\ Revive(current)
    <3>1. /\ lane'.pc = "releasing" /\ native' = AfterClose(session[current]) /\ blocker' = session[current]
      BY <1>a, <2>3 DEF Revive, Lanes
    <3>2. current # None
      BY <2>3, <1>11, ReadyLane DEF Refresh, OperationFits, HasSession
    <3>3. \A s \in Session : Live(s) => s = session[current]
      BY <1>d, <2>1, <3>2 DEF TheOne, Reading
    <3> QED
      BY <1>c, <1>g, <3>1, <3>2, <3>3
  <2> QED
    BY <1>11, <2>2, <2>3 DEF Refresh, sessionVars
<1>12. CASE ReviveRetired
  <2>1. lane.pc = "reviveRetire" /\ UNCHANGED <<native, current>>
    BY <1>12 DEF ReviveRetired, sessionVars
  <2>2. NothingLives
    BY <1>d, <2>1 DEF Elsewhere, Reading
  <2>3. \/ lane'.pc = "free"
        \/ lane'.pc = "reviveOpening" /\ lane'.owner = lane.owner /\ current = lane.owner
    BY <1>a, <1>12 DEF ReviveRetired, Settle, FreeLane, Continue, Lanes
  <2> QED
    BY <1>n, <1>o, <2>1, <2>2, <2>3
<1>13. CASE ReviveOpenFails \/ ReviveDrops
  BY <1>h, <1>13 DEF ReviveOpenFails, ReviveDrops, Reading
<1>14. CASE ReviveInstalls
  <2> DEFINE o == lane.owner
  <2>1. lane.pc = "reviveReading" /\ current = o /\ current' = current
    BY <1>d, <1>14 DEF ReviveInstalls
  <2>2. lane.pc \in Reading /\ lane.pc \in Revives
    BY <2>1 DEF Reading, Revives
  <2>3. o \in Owner /\ o # None /\ blocker = None /\ lane.fresh # None
    BY <2>2, RevivingLane DEF HasSession, IInv, Sessions, Unregistered, Fresh
  <2>4. UNCHANGED <<native, blocker>> /\ Settle(o) /\ session' = [session EXCEPT ![o] = lane.fresh]
    BY <1>14, <2>1 DEF ReviveInstalls
  <2>5. session'[current'] = lane.fresh
    BY <1>a, <2>1, <2>3, <2>4 DEF Types
  <2>6. \A s \in Session : Live(s)' => s = lane.fresh
    BY <1>d, <1>p, <2>2, <2>3, <2>4 DEF TheOne
  <2> QED
    BY <1>f, <2>1, <2>3, <2>4, <2>5, <2>6
<1>15. CASE Delete
  <2>1. lane.pc = "admitted" /\ current' = current /\ blocker = None
    BY <1>c, <1>15 DEF Delete, Ready
  <2>2. CASE current = None
    <3>1. lane'.pc = "deleted" /\ native' = native /\ NothingLives
      BY <1>a, <1>15, <2>1, <2>2, NobodyLives DEF Delete, Continue, Lanes, TheOne, Reading, sessionVars
    <3> QED
      BY <1>n, <1>o, <3>1
  <2>3. CASE current # None
    <3>1. lane'.pc = "releasing" /\ native' = AfterClose(session[current]) /\ blocker' = session[current]
      BY <1>a, <1>15, <2>3 DEF Delete, Release, Lanes
    <3>2. \A s \in Session : Live(s) => s = session[current]
      BY <1>d, <2>1, <2>3 DEF TheOne, Reading
    <3> QED
      BY <1>c, <1>g, <2>3, <3>1, <3>2
  <2> QED
    BY <2>2, <2>3
<1>16. CASE Discard
  <2>1. lane.pc = "admitted" /\ UNCHANGED <<session, current>> /\ blocker = None
    BY <1>c, <1>16 DEF Discard, Ready
  <2>2. CASE Settle(None) /\ UNCHANGED <<native, blocker>>
    BY <1>d, <1>f, <1>p, <2>1, <2>2 DEF TheOne, Reading
  <2>3. CASE Drop(lane.op.owner)
    BY <1>h, <2>1, <2>3 DEF Reading
  <2> QED
    BY <1>16, <2>2, <2>3 DEF Discard, sessionVars
<1> QED
  BY <1>1, <1>2, <1>3, <1>4, <1>5, <1>6, <1>7, <1>8, <1>9, <1>10, <1>11, <1>12, <1>13, <1>14, <1>15, <1>16
     DEF LaneStep

\* No rollback begins in the lane.
LEMMA NobodyRolls ==
    ASSUME IInv, OneLives, LaneStep
    PROVE  \A r \in Request : request'[r].pc \notin Replacing
<1>1. request \in [Request -> Requests]
  BY DEF IInv, Types
<1>2. \A r \in Request : request[r].pc \notin Replacing
  BY DEF OneLives
<1>3. ASSUME NEW o, Settle(o) PROVE \A r \in Request : request'[r].pc \notin Replacing
  <2>1. \/ request' = request
        \/ request' = [request EXCEPT ![lane.op.by] = NoRequest]
        \/ request' = [request EXCEPT ![lane.op.by] = [@ EXCEPT !.pc = "holding", !.owner = o]]
    BY <1>3 DEF Settle
  <2>2. NoRequest.pc \notin Replacing
    BY DEF NoRequest, Replacing
  <2>3. \A r \in Request : [request[r] EXCEPT !.pc = "holding", !.owner = o].pc = "holding"
    BY <1>1 DEF Requests
  <2> QED
    BY <1>1, <1>2, <2>1, <2>2, <2>3 DEF Replacing
<1>4. request' = request \/ \E o : Settle(o)
  BY DEF LaneStep, Start, ReleaseConfirmed, ReleaseFails, Dropped, DropRetired, AfterDrop, Resolve, RestoreOpens,
         RestoreOpenFails, RestoreRegisters, RestoreReadFails, Failed, Refresh, ReviveRetired, ReviveOpens,
         ReviveOpenFails, ReviveInstalls, ReviveReadFails, ReviveDrops, Delete, Deleted, Discard, Drop, Revive, Release,
         Continue
<1> QED
  BY <1>2, <1>3, <1>4

\* Every step keeps one writer of a Session alive at most.
LEMMA OneLivesKeeps ==
    ASSUME MaxRollbacks = 0, IInv, OneLives, [Next]_vars
    PROVE  OneLives'
<1>a. Types /\ None \notin Session
  BY BoundAssumption DEF IInv, None, Session
<1>b. ASSUME UNCHANGED <<session, lane, blocker, current>>, \A r \in Request : request'[r].pc \notin Replacing,
             \A s \in Session : Live(s)' => Live(s)
      PROVE  OneLives'
  <2>1. TheOne' = TheOne
    BY <1>b DEF TheOne
  <2>2. NothingLives => NothingLives'
    BY <1>b DEF NothingLives
  <2>3. \A s \in Session : Live(s)' => s = TheOne'
    BY <1>b, <2>1 DEF OneLives
  <2> QED
    BY <1>b, <2>2, <2>3 DEF OneLives
<1>c. \A r \in Request : request[r].pc \notin Replacing
  BY DEF OneLives
<1>d. native' = native => \A s \in Session : Live(s)' => Live(s)
  BY DEF Live
<1>1. CASE UNCHANGED vars
  BY <1>b, <1>c, <1>d, <1>1 DEF vars, sessionVars, ownerVars
<1>2. CASE LaneStep
  BY <1>2, NobodyRolls, LaneOneLives
<1>3. CASE IdleCloses
  BY <1>b, <1>c, <1>3, CloseLives DEF IdleCloses, ownerVars
<1>4. CASE IdleReleases
  <2>1. /\ UNCHANGED <<native, session, lane, blocker, request>> /\ idle # None /\ native[session[idle]] = "closed"
        /\ current = idle /\ blocker = None /\ lane.pc \in {"free", "admitted"}
    BY <1>4 DEF IdleReleases, sessionVars, Released, IInv, Callers, IdleAlone
  <2>2. TheOne # None /\ native[TheOne] = "closed"
    BY <2>1 DEF TheOne, Reading, IInv, Sessions, Held, HasSession
  <2>3. NothingLives
    BY <2>2, ReleasedOne
  <2>4. NothingLives'
    BY <2>1, <2>3 DEF NothingLives, Live
  <2> QED
    BY <1>c, <2>1, <2>4 DEF OneLives, NothingLives, Drops
<1>5. CASE IdleFails
  BY <1>b, <1>c, <1>d, <1>5 DEF IdleFails, sessionVars
<1>6. ASSUME NEW r \in Request, RequestStep(r) PROVE OneLives'
  <2>1. ~RollbackOpens(r) /\ ~RollbackCommits(r) /\ ~RollbackAborts(r) /\ ~Replace(r) /\ ~Replaced(r)
    BY <1>a, <1>c DEF RollbackOpens, RollbackCommits, RollbackAborts, Replace, Replaced, Replacing, Types
  <2>2. UNCHANGED <<native, session, lane, blocker, current>>
    BY <1>6, <2>1 DEF RequestStep, Call, CallRefresh, Finish, StartTurn, TurnAccepted, TurnRefused, sessionVars, ownerVars
  <2>3. /\ \A q \in Request : q # r => request'[q] = request[q]
        /\ request'[r].pc \in {"waiting", "starting", "off"}
    BY <1>a, <1>6, <2>1 DEF Types, Requests, RequestStep, Call, CallRefresh, Finish, StartTurn, TurnAccepted, TurnRefused,
                            NoRequest
  <2> QED
    BY <1>b, <1>c, <1>d, <2>2, <2>3 DEF Replacing
<1>7. ASSUME NEW s \in Session, SessionStep(s) PROVE OneLives'
  <2>1. UNCHANGED <<session, lane, blocker, current, request>>
    BY <1>7 DEF SessionStep, CloseResolves, CloseRejects, OutputEnds, ownerVars
  <2>2. \A x \in Session : Live(x)' => Live(x)
    BY <1>a, <1>7 DEF SessionStep, CloseResolves, CloseRejects, OutputEnds, Types, Live
  <2> QED
    BY <1>b, <1>c, <2>1, <2>2
<1>8. ASSUME NEW o \in Owner, OwnerStep(o) PROVE OneLives'
  <2>1. UNCHANGED <<session, lane, blocker, current, request>>
    BY <1>8 DEF OwnerStep, OutputBreaks, Fault, TurnEnds
  <2>2. native' = native \/ native' = AfterClose(session[o])
    BY <1>8 DEF OwnerStep, OutputBreaks, Fault, TurnEnds, sessionVars
  <2> QED
    BY <1>b, <1>c, <1>d, <2>1, <2>2, CloseLives
<1> QED
  BY <1>1, <1>2, <1>3, <1>4, <1>5, <1>6, <1>7, <1>8 DEF Next, IdleEnds

\* So without rollbacks at most one is alive, always.
LEMMA OneLivesHolds == MaxRollbacks = 0 => (Spec => [](IInv /\ OneLives))
<1> SUFFICES ASSUME MaxRollbacks = 0 PROVE Spec => [](IInv /\ OneLives)
  OBVIOUS
<1>1. Init => OneLives
  <2> SUFFICES ASSUME Init PROVE OneLives
    OBVIOUS
  <2>1. lane.pc = "free" /\ \A r \in Request : request[r].pc = "off"
    BY DEF Init, FreeLane, NoRequest
  <2>2. \A s \in Session : ~Live(s)
    BY DEF Init, Live
  <2> QED
    BY <2>1, <2>2 DEF OneLives, Replacing, Drops
<1>2. (IInv /\ OneLives) /\ [Next]_vars => (IInv /\ OneLives)'
  BY NextKeeps, OneLivesKeeps
<1> QED
  BY <1>1, <1>2, InitHolds, PTL DEF Spec

\* Without rollbacks two live Sessions never write the same native reference: there are no two
\* (#restore, #reviveIdleSession and the release blocker of ExternalThreadLifecycle).
THEOREM OneWriterLives == MaxRollbacks = 0 => (Spec => []NoDuplicateWriter)
<1> SUFFICES ASSUME MaxRollbacks = 0 PROVE Spec => []NoDuplicateWriter
  OBVIOUS
<1>1. IInv /\ OneLives => NoDuplicateWriter
  BY DEF OneLives, NoDuplicateWriter
<1> QED
  BY <1>1, OneLivesHolds, PTL

-----------------------------------------------------------------------------
(* Without rollbacks the lifecycle implements ThreadOwnership *)

Writer == IF LiveSessions = {} THEN None ELSE CHOOSE s \in LiveSessions : TRUE
Loaded == IF current = None THEN None ELSE session[current]
Spent == {s \in Session : native[s] = "closed"}

\* The writer is the Session that lives.
LEMMA WriterLives ==
    ASSUME OneLives
    PROVE  /\ \A s \in Session : Live(s) => Writer = s
           /\ NothingLives => Writer = None
<1>1. LiveSessions # {} => Writer \in LiveSessions
  BY DEF Writer
<1>2. \A s \in LiveSessions : s \in Session /\ Live(s) /\ s = TheOne
  BY DEF LiveSessions, OneLives
<1>3. \A s \in Session : Live(s) => s \in LiveSessions
  BY DEF LiveSessions
<1> QED
  BY <1>1, <1>2, <1>3 DEF Writer, NothingLives

\* A step that neither opens nor closes leaves the writer and the spent Sessions alone.
LEMMA SameSessions ==
    ASSUME \A s \in Session : (Live(s)' <=> Live(s)) /\ (native'[s] = "closed" <=> native[s] = "closed")
    PROVE  Writer' = Writer /\ Spent' = Spent
<1>1. LiveSessions' = LiveSessions
  BY DEF LiveSessions
<1> QED
  BY <1>1 DEF Writer, Spent

\* The initial state is one of ThreadOwnership.
LEMMA InitImplements == Init => Ownership!Init
<1> SUFFICES ASSUME Init PROVE Ownership!Init
  OBVIOUS
<1>1. LiveSessions = {}
  BY DEF Init, LiveSessions, Live
<1> QED
  BY <1>1 DEF Init, Ownership!Init

\* The steps of ThreadOwnership.
LEMMA Acquires ==
    ASSUME NEW s \in Session, Writer = None, s \notin Spent, Writer' = s, Loaded' = Loaded, Spent' = Spent
    PROVE  Ownership!Next
BY DEF Ownership!Next, Ownership!Acquire, Writer, Loaded, Spent

\* How the steps map to those of the abstract owner: a writer is published,
LEMMA Publishes ==
    ASSUME Writer # None, Loaded \in Spent \cup {None}, Loaded' = Writer, Writer' = Writer, Spent' = Spent
    PROVE  Ownership!Next
BY DEF Ownership!Next, Ownership!Publish, Writer, Loaded, Spent

\* its Session is spent,
LEMMA Spends ==
    ASSUME Writer # None, Writer' = None, Spent' = Spent \cup {Writer}, Loaded' = Loaded
    PROVE  Ownership!Next
BY DEF Ownership!Next, Ownership!Spend, Writer, Loaded, Spent

\* it is forgotten,
LEMMA ForgetsIt ==
    ASSUME Loaded \in Spent, Loaded' = None, Writer' = Writer, Spent' = Spent
    PROVE  Ownership!Next
BY DEF Ownership!Next, Ownership!Forget, Writer, Loaded, Spent

\* or nothing changes for the owner.
LEMMA Stutters ==
    ASSUME Writer' = Writer, Loaded' = Loaded, Spent' = Spent
    PROVE  UNCHANGED Ownership!vars
BY DEF Ownership!vars, Writer, Loaded, Spent

\* Opening acquires, registering publishes, a confirmed close spends, and an owner is forgotten when it is spent.
LEMMA StepImplements ==
    ASSUME MaxRollbacks = 0, IInv, OneLives, [Next]_vars
    PROVE  Ownership!Next \/ UNCHANGED Ownership!vars
<1>a. /\ Types /\ lane \in Lanes /\ None \notin Session /\ Owner = Session
      /\ current # None => current \in Owner /\ session[current] # None /\ session[current] \in Session
  BY BoundAssumption DEF IInv, Types, None, Session, Owner, Sessions, Held, HasSession
<1>b. /\ \A s \in Session : Live(s) => Writer = s
      /\ NothingLives => Writer = None
  BY WriterLives
<1>c. /\ lane.pc \in Elsewhere \ Reading => NothingLives
      /\ lane.pc \in {"opening", "reading"} => current = None
      /\ lane.pc \in {"reviveOpening", "reviveReading"} => current = lane.owner
      /\ \A r \in Request : request[r].pc \notin Replacing
  BY DEF OneLives, Elsewhere, Reading, Drops
<1>d. ASSUME native' = native \/ \E x : native' = AfterClose(x), UNCHANGED <<session, current>>
      PROVE  UNCHANGED Ownership!vars
  <2>1. \A s \in Session : (Live(s)' <=> Live(s)) /\ (native'[s] = "closed" <=> native[s] = "closed")
    BY <1>d, CloseLives DEF Live
  <2> QED
    BY <1>d, <2>1, SameSessions, Stutters DEF Loaded
<1>e. ASSUME native' = native
      PROVE  Writer' = Writer /\ Spent' = Spent
  BY <1>e, SameSessions DEF Live
<1>f. ASSUME native' = native, session' = session, current # None, current' = None, Released(session[current])
      PROVE  Ownership!Next
  <2>1. Loaded \in Spent /\ Loaded' = None
    BY <1>a, <1>f DEF Loaded, Spent, Released
  <2> QED
    BY <1>e, <1>f, <2>1, ForgetsIt
<1>1. CASE UNCHANGED vars
  BY <1>d, <1>1 DEF vars, sessionVars, ownerVars
<1>2. CASE RestoreOpens \/ ReviveOpens
  <2>1. /\ Open(lane.ref) /\ UNCHANGED <<session, current, closeFailed>>
        /\ lane.pc \in Elsewhere \ Reading
    BY <1>2 DEF RestoreOpens, ReviveOpens, ownerVars, Elsewhere, Reading
  <2>2. PICK f \in Session : f = opened + 1 /\ native[f] = "unmade" /\ Fresh(f)'
    BY <2>1, OpenAdds
  <2>3. \A s \in Session : s # f => native'[s] = native[s]
    BY <2>1, <2>2, OpenAdds
  <2>4. NothingLives /\ Writer = None
    BY <1>b, <1>c, <2>1
  <2>5. native'[f] = "open"
    BY <2>2 DEF Fresh
  <2>6. \A s \in Session : Live(s)' <=> s = f
    BY <2>3, <2>4, <2>5 DEF NothingLives, Live
  <2>7. Writer' = f
    <3>1. LiveSessions' = {f}
      BY <2>6 DEF LiveSessions
    <3> QED
      BY <3>1 DEF Writer
  <2>8. Spent' = Spent /\ f \notin Spent
    BY <2>2, <2>3, <2>5 DEF Spent
  <2>9. Loaded' = Loaded
    BY <2>1 DEF Loaded
  <2> QED
    BY <2>4, <2>7, <2>8, <2>9, Acquires
<1>3. CASE RestoreRegisters
  <2>1. /\ lane.pc = "reading" /\ native' = native
        /\ session' = [session EXCEPT ![lane.fresh] = lane.fresh] /\ current' = lane.fresh
    BY <1>3 DEF RestoreRegisters, Register
  <2>2. PICK f \in Session : f = lane.fresh /\ native[f] = "open"
    BY <1>a, <2>1 DEF IInv, Sessions, Unregistered, Reading, Fresh, Lanes
  <2>3. Writer = f
    BY <1>b, <2>2 DEF Live
  <2>4. Loaded = None /\ Loaded' = f
    BY <1>a, <1>c, <2>1, <2>2 DEF Loaded, Types
  <2> QED
    BY <1>a, <1>e, <2>1, <2>3, <2>4, Publishes
<1>4. CASE ReviveInstalls
  <2>1. lane.pc = "reviveReading" /\ current = lane.owner /\ current' = current
    BY <1>c, <1>4 DEF ReviveInstalls
  <2>2. lane.pc \in Revives /\ lane.pc \in Reading
    BY <2>1 DEF Revives, Reading
  <2>3. current \in Owner /\ current # None /\ Released(session[current])
    BY <2>1, <2>2, RevivingLane DEF HasSession
  <2>4. PICK f \in Session : f = lane.fresh /\ native[f] = "open"
    BY <1>a, <2>2 DEF IInv, Sessions, Unregistered, Fresh, Lanes
  <2>5. native' = native /\ session' = [session EXCEPT ![current] = f]
    BY <1>4, <2>1, <2>4 DEF ReviveInstalls
  <2>6. Writer = f
    BY <1>b, <2>4 DEF Live
  <2>7. Loaded \in Spent /\ Loaded' = f
    BY <1>a, <2>1, <2>3, <2>5 DEF Loaded, Spent, Released, Types
  <2> QED
    BY <1>a, <1>e, <2>5, <2>6, <2>7, Publishes
<1>5. CASE DropRetired \/ Deleted
  <2>1. native' = native /\ session' = session /\ current' \in {current, None}
    BY <1>5 DEF DropRetired, Deleted, sessionVars, ownerVars
  <2>2. CASE current' = current
    BY <1>d, <2>1, <2>2
  <2>3. CASE current # None /\ current' = None
    BY <1>f, <2>1, <2>3, Forgets
  <2> QED
    BY <2>1, <2>2, <2>3
<1>6. LaneStep => \/ RestoreOpens \/ ReviveOpens \/ RestoreRegisters \/ ReviveInstalls \/ DropRetired \/ Deleted
                  \/ /\ native' = native \/ \E x : native' = AfterClose(x)
                     /\ UNCHANGED <<session, current>>
  BY DEF LaneStep, Start, ReleaseConfirmed, ReleaseFails, Dropped, AfterDrop, Resolve, RestoreOpenFails,
         RestoreReadFails, Failed, Refresh, ReviveRetired, ReviveOpenFails, ReviveReadFails, ReviveDrops, Delete, Discard,
         Drop, Revive, Release, sessionVars, ownerVars
<1>7. CASE IdleCloses
  BY <1>d, <1>7 DEF IdleCloses, ownerVars
<1>8. CASE IdleEnds
  <2>1. native' = native /\ session' = session /\ current' \in {current, None}
    BY <1>8 DEF IdleEnds, IdleReleases, IdleFails, sessionVars
  <2>2. CASE current' = current
    BY <1>d, <2>1, <2>2
  <2>3. CASE current # None /\ current' = None
    BY <1>f, <2>1, <2>3, Forgets
  <2> QED
    BY <2>1, <2>2, <2>3
<1>9. ASSUME NEW r \in Request, RequestStep(r) PROVE UNCHANGED Ownership!vars
  <2>1. ~RollbackOpens(r) /\ ~RollbackCommits(r) /\ ~RollbackAborts(r) /\ ~Replace(r) /\ ~Replaced(r)
    BY <1>a, <1>c DEF RollbackOpens, RollbackCommits, RollbackAborts, Replace, Replaced, Replacing, Types
  <2>2. UNCHANGED <<native, session, current>>
    BY <1>9, <2>1 DEF RequestStep, Call, CallRefresh, Finish, StartTurn, TurnAccepted, TurnRefused, sessionVars, ownerVars
  <2> QED
    BY <1>d, <2>2
<1>10. ASSUME NEW s \in Session, CloseResolves(s) PROVE Ownership!Next
  <2>1. /\ native[s] = "closing" /\ native' = [native EXCEPT ![s] = "closed"]
        /\ UNCHANGED <<session, current>>
    BY <1>10 DEF CloseResolves, ownerVars
  <2>2. Writer = s /\ s # None
    BY <1>a, <1>b, <2>1 DEF Live
  <2>3. \A x \in Session : Live(x) => x = s
    BY <1>b, <2>2
  <2>4. LiveSessions' = {}
    BY <1>a, <2>1, <2>3 DEF LiveSessions, Live, Types
  <2>5. Writer' = None
    BY <2>4 DEF Writer
  <2>6. Spent' = Spent \cup {s}
    BY <1>a, <2>1 DEF Spent, Types
  <2>7. Loaded' = Loaded
    BY <2>1 DEF Loaded
  <2> QED
    BY <2>2, <2>5, <2>6, <2>7, Spends
<1>11. ASSUME NEW s \in Session, CloseRejects(s) \/ OutputEnds(s) PROVE UNCHANGED Ownership!vars
  <2>1. UNCHANGED <<session, current>>
    BY <1>11 DEF CloseRejects, OutputEnds, ownerVars
  <2>2. \A x \in Session : (Live(x)' <=> Live(x)) /\ (native'[x] = "closed" <=> native[x] = "closed")
    BY <1>a, <1>11 DEF CloseRejects, OutputEnds, Live, Types
  <2> QED
    BY <2>1, <2>2, SameSessions, Stutters DEF Loaded
<1>12. ASSUME NEW o \in Owner, OwnerStep(o) PROVE UNCHANGED Ownership!vars
  <2>1. /\ UNCHANGED <<session, current>>
        /\ native' = native \/ \E x : native' = AfterClose(x)
    BY <1>12 DEF OwnerStep, OutputBreaks, Fault, TurnEnds, sessionVars
  <2> QED
    BY <1>d, <2>1
<1> QED
  BY <1>d, <1>1, <1>2, <1>3, <1>4, <1>5, <1>6, <1>7, <1>8, <1>9, <1>10, <1>11, <1>12 DEF Next, SessionStep

\* Without rollbacks the lifecycle implements ThreadOwnership: one writer, and a Session replaces the
\* published one only when that is closed.
THEOREM LifecycleImplementsOwnership == MaxRollbacks = 0 => (Spec => OneWriter)
<1> SUFFICES ASSUME MaxRollbacks = 0 PROVE Spec => OneWriter
  OBVIOUS
<1>1. IInv /\ OneLives /\ [Next]_vars => [Ownership!Next]_(Ownership!vars)
  BY StepImplements
<1>2. Ownership!Spec <=> Ownership!Init /\ [][Ownership!Next]_(Ownership!vars)
  BY DEF Ownership!Spec
<1> QED
  BY <1>1, <1>2, InitImplements, OneLivesHolds, PTL DEF Spec, OneWriter

=============================================================================
