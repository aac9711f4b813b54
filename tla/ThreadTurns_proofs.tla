-------------------------- MODULE ThreadTurns_proofs --------------------------
(***************************************************************************)
(* The proofs of the Turns of an external Thread, for any number of        *)
(* steers, messages, submissions and starts.                               *)
(*                                                                         *)
(* First Core: a native Turn that runs, or is being started, is the active *)
(* Turn, whatever starts, steers, follow-ups and delegated calls do        *)
(* between their awaits.  Then Whole, which says of each caller where it   *)
(* is: what a steer has with the Harness at each of its states, which      *)
(* steer carries a message, what the consumer knows of an insertion, and   *)
(* in which one place a follow-up is.  Last Looked: who still looks at the *)
(* queue after a Turn that completed.  A step is about one caller or none, *)
(* so each part has a lemma for what it leaves alone.                      *)
(***************************************************************************)
EXTENDS ThreadTurns, FiniteSetTheorems, SequenceTheorems, TLAPS

\* Turns and the consumer's event are records: nothing is said of their fields.
Shaped ==
    /\ turn = [t \in Turn |-> turn[t]]
    /\ \A t \in Turn : turn[t] = [native |-> turn[t].native, by |-> turn[t].by,
                                  open |-> turn[t].open, ordinary |-> turn[t].ordinary]
    /\ consumer = [turn |-> consumer.turn, stage |-> consumer.stage, waits |-> consumer.waits]

\* While the consumer waits to publish a terminal event, its Turn is active and
\* has ended natively, so nothing else can be started.
EventIsActive ==
    consumer.stage = "waiting" =>
        /\ consumer.turn \in Turn /\ active = consumer.turn
        /\ turn[consumer.turn].native \in Ended

Core == Shaped /\ OneNativeTurn /\ EventIsActive

\* What the Host says of the Thread, and what it overlooked.
StatusTypes == stopping \in BOOLEAN /\ subagents \in BOOLEAN /\ overlooked \in BOOLEAN

IInv == Core /\ StatusTypes

-----------------------------------------------------------------------------
\* Turns are numbered from 1.
LEMMA NoTurnIsNoTurn == \A t \in Turn : t # NoTurn
<1>1. Cardinality(Steer) \in Nat
  BY FS_CardinalityType, TurnsAssumption
<1> QED
  BY <1>1, TurnsAssumption DEF Turn, NoTurn

\* At first nothing was started.
LEMMA InitHolds == Init => IInv
<1> SUFFICES ASSUME Init PROVE IInv
  OBVIOUS
<1>1. Shaped
  BY DEF Init, Shaped, Unmade, NoEvent
<1>2. OneNativeTurn
  BY DEF Init, OneNativeTurn, Unmade
<1>3. EventIsActive
  BY DEF Init, EventIsActive, NoEvent
<1>4. StatusTypes
  BY DEF Init, StatusTypes
<1> QED
  BY <1>1, <1>2, <1>3, <1>4 DEF IInv, Core

\* A step that is not of the consumer leaves it, and its last one empties it.
ConsumerRests == consumer' = consumer \/ consumer' = NoEvent

\* Steps that touch neither the Turns nor a waiting event.
LEMMA FrameKeeps ==
    ASSUME Core, UNCHANGED <<turn, active>>, ConsumerRests
    PROVE  Core'
<1>1. Shaped'
  BY DEF Core, Shaped, ConsumerRests, NoEvent
<1>2. OneNativeTurn'
  BY DEF Core, OneNativeTurn
<1>3. EventIsActive'
  BY DEF Core, EventIsActive, ConsumerRests, NoEvent
<1> QED
  BY <1>1, <1>2, <1>3 DEF Core

\* Beginning a Turn while none is active.
LEMMA BeginKeeps ==
    ASSUME Core, NEW by, NEW ordinary, NEW open,
           active = NoTurn, MakeTurn(by, ordinary, open), ConsumerRests
    PROVE  Core'
<1> DEFINE made == [native |-> "starting", by |-> by, open |-> open, ordinary |-> ordinary]
<1>1. turn' = [t \in Turn |-> IF t = turns + 1 THEN made ELSE turn[t]]
  BY DEF Core, Shaped, MakeTurn
<1>2. Shaped'
  <2>1. consumer' = [turn |-> consumer'.turn, stage |-> consumer'.stage,
                     waits |-> consumer'.waits]
    BY DEF Core, Shaped, ConsumerRests, NoEvent
  <2> QED
    BY <1>1, <2>1 DEF Core, Shaped
<1>3. OneNativeTurn'
  <2> SUFFICES ASSUME NEW t \in Turn, turn'[t].native \in {"starting", "running"}
               PROVE  active' = t
    BY DEF OneNativeTurn
  <2>1. CASE t = turns + 1
    BY <2>1 DEF MakeTurn
  <2>2. CASE t # turns + 1
    <3>1. turn[t].native \in {"starting", "running"}
      BY <1>1, <2>2
    <3> QED
      BY <3>1, NoTurnIsNoTurn DEF Core, OneNativeTurn
  <2> QED
    BY <2>1, <2>2
<1>4. EventIsActive'
  BY NoTurnIsNoTurn DEF Core, EventIsActive, ConsumerRests, NoEvent
<1> QED
  BY <1>2, <1>3, <1>4 DEF Core

\* A change of native states and gates that ends Turns or leaves them.
Softer(native) ==
    \A t \in Turn :
        /\ native[t] \in {"starting", "running"} => turn[t].native \in {"starting", "running"}
        /\ turn[t].native \in Ended => native[t] \in Ended

\* Turns that end or stay keep the invariant.
LEMMA UpdateKeeps ==
    ASSUME Core, NEW native, NEW open,
           turn' = [t \in Turn |-> TurnAs(t, native[t], open[t])],
           Softer(native), UNCHANGED <<active, consumer>>
    PROVE  Core'
<1>1. \A t \in Turn : turn'[t].native = native[t]
  BY DEF TurnAs
<1>2. Shaped'
  BY DEF Core, Shaped, TurnAs
<1>3. OneNativeTurn'
  BY <1>1 DEF Core, OneNativeTurn, Softer
<1>4. EventIsActive'
  BY <1>1 DEF Core, EventIsActive, Softer
<1> QED
  BY <1>2, <1>3, <1>4 DEF Core

\* One Turn goes on, or its gate opens.
LEMMA OneKeeps ==
    ASSUME Core, NEW t \in Turn, NEW native, NEW open,
           turn' = [turn EXCEPT ![t] = TurnAs(t, native, open)],
           native \in {"starting", "running"} => turn[t].native \in {"starting", "running"},
           turn[t].native \in Ended => native \in Ended,
           UNCHANGED <<active, consumer>>
    PROVE  Core'
<1> DEFINE natives == [u \in Turn |-> IF u = t THEN native ELSE turn[u].native]
           opens == [u \in Turn |-> IF u = t THEN open ELSE turn[u].open]
<1>1. turn' = [u \in Turn |-> IF u = t THEN TurnAs(t, native, open) ELSE turn[u]]
  BY DEF Core, Shaped
<1>2. \A u \in Turn : turn[u] = TurnAs(u, turn[u].native, turn[u].open)
  BY DEF Core, Shaped, TurnAs
<1>3. turn' = [u \in Turn |-> TurnAs(u, natives[u], opens[u])]
  BY <1>1, <1>2
<1>4. Softer(natives)
  BY DEF Softer
<1> HIDE DEF natives, opens
<1> QED
  BY <1>3, <1>4, UpdateKeeps

\* A start that looks again begins a Turn only when none is active.
LEMMA TryKeeps ==
    ASSUME Core, NEW x, NEW isCommand \in BOOLEAN, TryInput(x, isCommand),
           ConsumerRests
    PROVE  Core'
<1>1. CASE UNCHANGED turnVars
  BY <1>1, FrameKeeps DEF turnVars
<1>2. CASE ~Refused /\ MakeTurn(x, TRUE, FALSE)
  BY <1>2, BeginKeeps DEF Refused
<1> QED
  BY <1>1, <1>2 DEF TryInput, BeginInput

\* The same of a follow-up,
LEMMA SubmissionKeeps ==
    ASSUME Core, NEW i, active = NoTurn, StartSubmission(i), ConsumerRests
    PROVE  Core'
<1>1. CASE UNCHANGED turnVars
  BY <1>1, FrameKeeps DEF turnVars
<1>2. CASE MakeTurn(queue[i], TRUE, FALSE)
  BY <1>2, BeginKeeps
<1> QED
  BY <1>1, <1>2 DEF StartSubmission, BeginInput

\* and of the drain of the queue.
LEMMA DrainKeeps ==
    ASSUME Core, Drain, ConsumerRests
    PROVE  Core'
<1>1. CASE MayDrain
  BY <1>1, SubmissionKeeps DEF Drain, MayDrain, Busy
<1>2. CASE ~MayDrain
  BY <1>2, FrameKeeps DEF Drain, NoDrain
<1> QED
  BY <1>1, <1>2

\* The start that was awaited failed: no Turn is active any more.
LEMMA RejectedKeeps ==
    ASSUME Core, NEW t \in Turn, Rejected(t)
    PROVE  Core'
<1>1. turn' = [u \in Turn |-> IF u = t THEN TurnAs(t, "rejected", TRUE) ELSE turn[u]]
  BY DEF Core, Shaped, Rejected
<1>2. active = t /\ active' = NoTurn
  BY DEF Core, OneNativeTurn, Rejected
<1>3. Shaped'
  <2>1. consumer' = consumer
    BY DEF Rejected
  <2>2. \A u \in Turn : turn'[u] = IF u = t THEN TurnAs(t, "rejected", TRUE) ELSE turn[u]
    BY <1>1
  <2>3. turn' = [u \in Turn |-> turn'[u]]
    BY <1>1
  <2>4. \A u \in Turn : turn'[u] = [native |-> turn'[u].native, by |-> turn'[u].by,
                                   open |-> turn'[u].open, ordinary |-> turn'[u].ordinary]
    BY <2>2 DEF Core, Shaped, TurnAs
  <2> QED
    BY <2>1, <2>3, <2>4 DEF Core, Shaped
<1>4. OneNativeTurn'
  BY <1>1, <1>2 DEF Core, OneNativeTurn, TurnAs
<1>5. EventIsActive'
  BY <1>2 DEF Core, EventIsActive, Rejected, Ended
<1> QED
  BY <1>3, <1>4, <1>5 DEF Core

\* Opening the gates of some Turns.
LEMMA OpenKeeps ==
    ASSUME Core, NEW opened,
           turn' = [t \in Turn |-> IF t \in opened THEN TurnAs(t, turn[t].native, TRUE)
                                  ELSE turn[t]],
           UNCHANGED <<active, consumer>>
    PROVE  Core'
<1> DEFINE natives == [u \in Turn |-> turn[u].native]
           opens == [u \in Turn |-> IF u \in opened THEN TRUE ELSE turn[u].open]
<1>1. \A u \in Turn : turn[u] = TurnAs(u, turn[u].native, turn[u].open)
  BY DEF Core, Shaped, TurnAs
<1>2. turn' = [u \in Turn |-> TurnAs(u, natives[u], opens[u])]
  BY <1>1
<1>3. Softer(natives)
  BY DEF Softer
<1> HIDE DEF natives, opens
<1> QED
  BY <1>2, <1>3, UpdateKeeps

\* The consumer publishes the terminal event of the active Turn.
LEMMA PublishKeeps ==
    ASSUME Core, Publish PROVE Core'
<1>1. Shaped'
  BY DEF Core, Shaped, Publish
<1>2. OneNativeTurn'
  BY DEF Core, OneNativeTurn, EventIsActive, Publish, Ended
<1>3. EventIsActive'
  BY DEF Publish, EventIsActive
<1> QED
  BY <1>1, <1>2, <1>3 DEF Core

\* The consumer takes the terminal event of the active Turn.
LEMMA EventKeeps ==
    ASSUME Core, NEW t \in Turn, EventArrives(t) PROVE Core'
<1>1. Shaped'
  BY DEF Core, Shaped, EventArrives, turnVars
<1>2. OneNativeTurn'
  BY DEF Core, OneNativeTurn, EventArrives, turnVars
<1>3. EventIsActive'
  BY DEF EventArrives, EventIsActive, turnVars
<1> QED
  BY <1>1, <1>2, <1>3 DEF Core

\* The published Turn becomes idle.
LEMMA IdleKeeps ==
    ASSUME Core, BecomesIdle PROVE Core'
<1>1. Shaped'
  BY DEF Core, Shaped, BecomesIdle
<1>2. OneNativeTurn'
  BY DEF Core, OneNativeTurn, BecomesIdle
<1>3. EventIsActive'
  BY DEF BecomesIdle, EventIsActive
<1> QED
  BY <1>1, <1>2, <1>3 DEF Core

\* The Turn is settled, and the next follow-up starts when the Thread is free.
LEMMA SettleKeeps ==
    ASSUME Core, Settle PROVE Core'
<1>1. ConsumerRests
  BY DEF Settle, ConsumerRests
<1>2. Drain \/ UNCHANGED <<turn, active>>
  BY DEF Settle, NoDrain
<1> QED
  BY <1>1, <1>2, DrainKeeps, FrameKeeps

-----------------------------------------------------------------------------
\* What the starts do: Desktop's, Delegation's and the catalog's answers.
LEMMA BeginsKeep ==
    ASSUME Core, Begins \/ \E x \in Caller : Lookup(x) PROVE Core'
<1>1. ASSUME NEW c \in BOOLEAN, StartTurn(c) PROVE Core'
  <2>1. ConsumerRests /\ active = NoTurn
    BY <1>1 DEF StartTurn, ConsumerRests, Busy
  <2>2. UNCHANGED turnVars \/ MakeTurn(User, TRUE, FALSE)
    BY <1>1 DEF StartTurn, BeginInput
  <2> QED
    BY <2>1, <2>2, BeginKeeps, FrameKeeps DEF turnVars
<1>2. ASSUME NEW c \in BOOLEAN, ModelSelected(c) PROVE Core'
  BY <1>2, TryKeeps DEF ModelSelected, ConsumerRests
<1>3. CASE SelectModel \/ SelectionFails
  BY <1>3, FrameKeeps DEF SelectModel, SelectionFails, turnVars, ConsumerRests
<1>4. CASE StartDelegated
  BY <1>4, BeginKeeps DEF StartDelegated, Busy, ConsumerRests
<1>5. ASSUME NEW x \in Caller, NEW c \in BOOLEAN, Found(x, c) PROVE Core'
  <2>1. ConsumerRests
    BY <1>5 DEF Found, ConsumerRests
  <2>2. UNCHANGED turnVars \/ (active = NoTurn /\ MakeTurn(x, ~c, FALSE))
    BY <1>5 DEF Found
  <2> QED
    BY <2>1, <2>2, BeginKeeps, FrameKeeps DEF turnVars
<1>6. ASSUME NEW x \in Caller, NotFound(x) PROVE Core'
  BY <1>6, FrameKeeps DEF NotFound, turnVars, ConsumerRests
<1> QED
  BY <1>1, <1>2, <1>3, <1>4, <1>5, <1>6 DEF Begins, Lookup

\* What the follow-up requests do.
LEMMA QueueKeeps ==
    ASSUME Core, QueueRequest \/ \E s \in Submission : CheckAfterAdd(s) PROVE Core'
<1>1. ASSUME NEW s \in Submission,
             AddSubmission(s) \/ DeleteSubmission(s) \/ MoveToFront(s)
      PROVE  Core'
  BY <1>1, FrameKeeps
     DEF AddSubmission, DeleteSubmission, MoveToFront, turnVars, ConsumerRests
<1>2. ASSUME NEW i, StartQueued(i) PROVE Core'
  BY <1>2, SubmissionKeeps DEF StartQueued, Busy, ConsumerRests
<1>3. ASSUME NEW s \in Submission, CheckAfterAdd(s) PROVE Core'
  <2>1. ConsumerRests
    BY <1>3 DEF CheckAfterAdd, ConsumerRests
  <2>2. Drain \/ UNCHANGED <<turn, active>>
    BY <1>3 DEF CheckAfterAdd, NoDrain
  <2> QED
    BY <2>1, <2>2, DrainKeeps, FrameKeeps
<1> QED
  BY <1>1, <1>2, <1>3 DEF QueueRequest

\* What a steer does.
SteerSteps(r) ==
    \/ Arrives(r) \/ ReadAnswers(r) \/ InsertAnswers(r)
    \/ Cancels(r) \/ Timeout(r) \/ Advances(r)

\* Every step of a steer keeps the invariant.
LEMMA SteersKeep ==
    ASSUME Core, NEW r \in Steer, SteerSteps(r) PROVE Core'
<1>1. CASE Arrives(r)
  BY <1>1, FrameKeeps DEF Arrives, SteerJoins, SteerBegins, turnVars, ConsumerRests
<1>2. CASE ReadAnswers(r)
  BY <1>2, FrameKeeps DEF ReadAnswers, ReadFails, CapabilityRead, turnVars, ConsumerRests
<1>3. CASE Inserted(r) \/ InsertLost(r)
  BY <1>3, FrameKeeps DEF Inserted, InsertLost, turnVars, ConsumerRests
<1>4. CASE InsertRefused(r)
  <2>1. ConsumerRests
    BY <1>4 DEF InsertRefused, ConsumerRests
  <2>2. UNCHANGED turnVars \/ TryInput(r, FALSE)
    BY <1>4 DEF InsertRefused
  <2> QED
    BY <2>1, <2>2, TryKeeps, FrameKeeps DEF turnVars
<1>5. CASE Cancels(r) \/ Timeout(r)
  BY <1>5, FrameKeeps
     DEF Cancels, CancelAnswered, CancelRefused, Timeout, turnVars, ConsumerRests
<1>6. CASE Projected(r) \/ GivesUp(r)
  BY <1>6, FrameKeeps DEF Projected, GivesUp, turnVars, ConsumerRests
<1>7. CASE Proceeds(r)
  <2>1. ConsumerRests
    BY <1>7 DEF Proceeds, ConsumerRests
  <2>2. UNCHANGED turnVars \/ TryInput(r, steer[r].message \in Command)
    BY <1>7 DEF Proceeds
  <2>3. (steer[r].message \in Command) \in BOOLEAN
    OBVIOUS
  <2> QED
    BY <2>1, <2>2, <2>3, TryKeeps, FrameKeeps DEF turnVars
<1>8. CASE Replies(r)
  <2> DEFINE opened == {t \in Turn : turn[t].by = r}
  <2>1. turn' = [t \in Turn |-> IF t \in opened THEN TurnAs(t, turn[t].native, TRUE)
                               ELSE turn[t]]
    BY <1>8 DEF Replies
  <2> HIDE DEF opened
  <2> QED
    BY <1>8, <2>1, OpenKeeps DEF Replies
<1>9. CASE Joins(r)
  <2> DEFINE d == steer[r].leader
             opened == {t \in Turn : turn[t].by = d /\ steer[d].pc # "failed"}
  <2>1. turn' = [t \in Turn |-> IF t \in opened THEN TurnAs(t, turn[t].native, TRUE)
                               ELSE turn[t]]
    BY <1>9 DEF Joins
  <2> HIDE DEF opened
  <2> QED
    BY <1>9, <2>1, OpenKeeps DEF Joins
<1> QED
  BY <1>1, <1>2, <1>3, <1>4, <1>5, <1>6, <1>7, <1>8, <1>9
     DEF SteerSteps, InsertAnswers, Advances

\* What happens to one Turn.
LEMMA TurnsKeep ==
    ASSUME Core, NEW t \in Turn,
           StartAnswers(t) \/ GateOpens(t) \/ Ends(t) \/ EventArrives(t)
    PROVE  Core'
<1>1. CASE Accepted(t)
  BY <1>1, OneKeeps DEF Accepted, Ended
<1>2. CASE Rejected(t)
  BY <1>2, RejectedKeeps
<1>6. CASE DelegatedStartThrows(t)
  BY <1>6, OneKeeps DEF DelegatedStartThrows, Ended
<1>3. CASE GateOpens(t)
  BY <1>3, OneKeeps DEF GateOpens
<1>4. ASSUME NEW how \in Ended, NativeEnds(t, how) PROVE Core'
  BY <1>4, OneKeeps DEF NativeEnds, Ended
<1>5. CASE EventArrives(t)
  BY <1>5, EventKeeps
<1> QED
  BY <1>1, <1>2, <1>3, <1>4, <1>5, <1>6 DEF StartAnswers, Ends

\* Every step keeps it.
LEMMA CoreKeeps == Core /\ [Next]_vars => Core'
<1> SUFFICES ASSUME Core, [Next]_vars PROVE Core'
  OBVIOUS
<1>1. CASE Begins \/ \E x \in Caller : Lookup(x)
  BY <1>1, BeginsKeep
<1>2. CASE QueueRequest \/ \E s \in Submission : CheckAfterAdd(s)
  BY <1>2, QueueKeeps
<1>3. CASE Stops
  BY <1>3, FrameKeeps
     DEF Stops, Interrupt, InterruptAnswered, SteeringFault, Close, turnVars, ConsumerRests
<1>4. CASE Publish \/ BecomesIdle \/ Settle \/ SubagentsEnd
  BY <1>4, PublishKeeps, IdleKeeps, SettleKeeps, FrameKeeps DEF SubagentsEnd, ConsumerRests
<1>5. ASSUME NEW r \in Steer, SteerSteps(r) PROVE Core'
  BY <1>5, SteersKeep
<1>6. ASSUME NEW t \in Turn,
             StartAnswers(t) \/ GateOpens(t) \/ Ends(t) \/ EventArrives(t)
      PROVE  Core'
  BY <1>6, TurnsKeep
<1>7. CASE UNCHANGED vars
  BY <1>7, FrameKeeps DEF vars, turnVars, ConsumerRests
<1> QED
  BY <1>1, <1>2, <1>3, <1>4, <1>5, <1>6, <1>7 DEF Next, SteerSteps

\* A start touches the status as MakeTurn does or not at all,
LEMMA BeginInputStatus ==
    ASSUME StatusTypes, NEW x, NEW c, BeginInput(x, c) PROVE StatusTypes'
  BY DEF BeginInput, MakeTurn, turnVars, statusVars, StatusTypes

\* and so does one that looks again.
LEMMA TryStatus ==
    ASSUME StatusTypes, NEW x, NEW c, TryInput(x, c) PROVE StatusTypes'
  BY BeginInputStatus DEF TryInput, turnVars, statusVars, StatusTypes

\* The look at the queue.
LEMMA LookStatus ==
    ASSUME StatusTypes, Drain \/ (\E h \in BOOLEAN : NoDrain(h)) PROVE StatusTypes'
<1>1. ASSUME NEW h \in BOOLEAN, NoDrain(h) PROVE StatusTypes'
  BY <1>1 DEF NoDrain, StatusTypes
<1>2. CASE MayDrain /\ Drain
  BY <1>2, BeginInputStatus DEF Drain, StartSubmission
<1>3. CASE ~MayDrain /\ Drain
  <2>1. NoDrain(pending # Free \/ commandPending)
    BY <1>3 DEF Drain
  <2> QED
    BY <2>1 DEF NoDrain, StatusTypes
<1> QED
  BY <1>1, <1>2, <1>3

\* Every step keeps the status Boolean.
LEMMA StatusStays == ASSUME StatusTypes, [Next]_vars PROVE StatusTypes'
<1>1. CASE Begins \/ QueueRequest
  <2>1. ASSUME NEW c \in BOOLEAN, StartTurn(c) \/ ModelSelected(c) PROVE StatusTypes'
    BY <2>1, BeginInputStatus, TryStatus DEF StartTurn, ModelSelected
  <2>2. CASE SelectModel \/ SelectionFails
    BY <2>2 DEF SelectModel, SelectionFails, turnVars, statusVars, StatusTypes
  <2>3. CASE StartDelegated
    BY <2>3 DEF StartDelegated, MakeTurn, StatusTypes
  <2>4. ASSUME NEW s \in Submission, AddSubmission(s) \/ DeleteSubmission(s) \/ MoveToFront(s)
        PROVE  StatusTypes'
    BY <2>4 DEF AddSubmission, DeleteSubmission, MoveToFront, turnVars, statusVars, StatusTypes
  <2>5. ASSUME NEW i, StartQueued(i) PROVE StatusTypes'
    BY <2>5, BeginInputStatus DEF StartQueued, StartSubmission
  <2> QED
    BY <1>1, <2>1, <2>2, <2>3, <2>4, <2>5 DEF Begins, QueueRequest
<1>2. CASE Stops
  BY <1>2 DEF Stops, Interrupt, InterruptAnswered, SteeringFault, Close, turnVars,
     statusVars, StatusTypes
<1>3. CASE Publish \/ SubagentsEnd
  BY <1>3 DEF Publish, SubagentsEnd, StatusTypes
<1>4. CASE BecomesIdle
  BY <1>4, TurnsAssumption DEF BecomesIdle, StatusTypes
<1>5. CASE Settle
  <2>1. \/ Drain \/ NoDrain(FALSE)
        \/ /\ overlooked' = (overlooked \/ queue # <<>>)
           /\ UNCHANGED <<stopping, subagents>>
    BY <1>5 DEF Settle
  <2> QED
    BY <2>1, LookStatus DEF StatusTypes
<1>6. ASSUME NEW r \in Steer, SteerSteps(r) PROVE StatusTypes'
  <2>1. CASE InsertRefused(r) \/ Proceeds(r)
    BY <2>1, TryStatus DEF InsertRefused, Proceeds, turnVars, statusVars, StatusTypes
  <2>2. CASE ~(InsertRefused(r) \/ Proceeds(r))
    <3>1. UNCHANGED statusVars
      BY <1>6, <2>2 DEF SteerSteps, Arrives, SteerJoins, SteerBegins, ReadAnswers, ReadFails,
         CapabilityRead, InsertAnswers, Inserted, InsertLost, Cancels, CancelAnswered,
         CancelRefused, Timeout, Advances, Projected, GivesUp, Replies, Joins, turnVars
    <3> QED
      BY <3>1 DEF statusVars, StatusTypes
  <2> QED
    BY <2>1, <2>2
<1>7. ASSUME NEW x \in Caller, Lookup(x) PROVE StatusTypes'
  <2>1. CASE NotFound(x)
    BY <2>1 DEF NotFound, StatusTypes
  <2>2. ASSUME NEW c \in BOOLEAN, Found(x, c) PROVE StatusTypes'
    BY <2>2 DEF Found, MakeTurn, turnVars, statusVars, StatusTypes
  <2> QED
    BY <1>7, <2>1, <2>2 DEF Lookup
<1>8. ASSUME NEW t \in Turn, StartAnswers(t) \/ GateOpens(t) \/ Ends(t) \/ EventArrives(t)
      PROVE  StatusTypes'
  BY <1>8 DEF StartAnswers, Accepted, Rejected, DelegatedStartThrows, GateOpens, Ends,
     NativeEnds, EventArrives, turnVars, statusVars, StatusTypes
<1>9. ASSUME NEW s \in Submission, CheckAfterAdd(s) PROVE StatusTypes'
  <2>1. Drain \/ NoDrain(subagents)
    BY <1>9 DEF CheckAfterAdd
  <2> QED
    BY <2>1, LookStatus DEF StatusTypes
<1>10. CASE UNCHANGED vars
  BY <1>10 DEF vars, turnVars, statusVars, StatusTypes
<1> QED
  BY <1>1, <1>2, <1>3, <1>4, <1>5, <1>6, <1>7, <1>8, <1>9, <1>10 DEF Next, SteerSteps

\* Every step keeps both.
LEMMA NextKeeps == IInv /\ [Next]_vars => IInv'
  BY CoreKeeps, StatusStays DEF IInv

\* While a native Turn runs or is being started the Host's active Turn is that
\* one: no start, steer, command lookup or follow-up ever begins a second.
THEOREM HostKnowsItsTurn == Spec => []OneNativeTurn
<1>1. IInv => OneNativeTurn
  BY DEF IInv, Core
<1> QED
  BY <1>1, InitHolds, NextKeeps, PTL DEF Spec

-----------------------------------------------------------------------------
(* Records of the model, and what the steps make of them.                  *)

\* A record of a Turn: how one is made and what is in it.
LEMMA TurnFields ==
    /\ \A n, b, o, d :
          [native |-> n, by |-> b, open |-> o, ordinary |-> d] \in TurnRecord <=>
             /\ n \in {"unmade", "starting", "running", "rejected"} \cup Ended
             /\ b \in Caller \cup {NoOne} /\ o \in BOOLEAN /\ d \in BOOLEAN
    /\ \A u \in TurnRecord :
          /\ u = [native |-> u.native, by |-> u.by, open |-> u.open, ordinary |-> u.ordinary]
          /\ u.native \in {"unmade", "starting", "running", "rejected"} \cup Ended
          /\ u.by \in Caller \cup {NoOne} /\ u.open \in BOOLEAN /\ u.ordinary \in BOOLEAN
  BY DEF TurnRecord

\* A record of a steer, with the state it is given.
LEMMA SteerFields ==
    \A s \in SteerRecord, pc \in SteerState :
        /\ s.pc \in SteerState /\ s.message \in Message \cup {NoOne}
        /\ s.target \in Turn \cup {NoTurn} /\ s.leader \in Steer \cup {NoOne}
        /\ s.presented \in {"none", "activeTurn", "newTurn"}
        /\ [s EXCEPT !.pc = pc] \in SteerRecord
        /\ [s EXCEPT !.pc = pc, !.halted = FALSE] \in SteerRecord
        /\ [s EXCEPT !.halted = TRUE] \in SteerRecord
        /\ \A has \in BOOLEAN : [s EXCEPT !.pc = pc, !.inserted = has] \in SteerRecord
  BY DEF SteerRecord

\* A record of the reservation.
LEMMA PendingFields ==
    /\ \A r \in Steer \cup {NoOne} : Reservation(r) \in PendingRecord
    /\ \A p \in PendingRecord :
        /\ p.steer \in Steer \cup {NoOne}
        /\ [p EXCEPT !.rejected = TRUE] \in PendingRecord
        /\ \A o \in Ended : [p EXCEPT !.outcome = o] \in PendingRecord
  BY DEF PendingRecord, Reservation

-----------------------------------------------------------------------------
(* The invariant.                                                          *)

\* How far the start of a Turn came: unmade, starting, taken or rejected.
Stage(t) == IF HasInput(t) THEN "taken" ELSE turn[t].native
Begun(x) == \E t \in Turn : turn[t].by = x
Waiting(x) == x \in looking

\* Turns are begun in order.
Numbered ==
    \A t \in Turn : /\ t > turns <=> Stage(t) = "unmade"
                    /\ t > turns <=> turn[t].by = NoOne

\* The Turn of the event the consumer handles has ended.
EventEnded ==
    consumer.stage # "none" =>
        /\ consumer.turn \in Turn /\ consumer.turn <= turns
        /\ turn[consumer.turn].native \in Ended

Early == {"new", "joined", "reading", "inserting", "projecting", "cancelling", "waiting"}
Reserving == {"reading", "cancelling", "waiting"}

\* What a steer has with the Harness at each of its states.
TurnFits(q, t) ==
    /\ steer[q].pc = "starting" => Stage(t) = "starting"
    /\ steer[q].pc \in {"replying", "done"} => Stage(t) = "taken"
    /\ steer[q].pc = "failed" => Stage(t) = "rejected"

Fit(q) ==
    /\ steer[q].pc \in Early => ~Waiting(q) /\ ~Begun(q)
    /\ steer[q].pc = "starting" => (Waiting(q) <=> ~Begun(q))
    /\ steer[q].pc \in {"replying", "done", "failed"} => ~Waiting(q)
    /\ \A t \in Turn : turn[t].by = q => TurnFits(q, t)
    /\ \A t, u \in Turn : turn[t].by = q /\ turn[u].by = q => t = u
    /\ steer[q].pc \in Reserving \/ Waiting(q) => Reserved(q)
    /\ Reserved(q) => steer[q].pc \in Reserving \cup {"starting"}
    /\ steer[q].inserted =>
          /\ ~Begun(q)
          /\ steer[q].pc \in {"projecting", "replying", "done", "failed"}
          /\ steer[q].pc = "failed" => LostAnswers
    /\ steer[q].leader # NoOne =>
          ~Begun(q) /\ ~steer[q].inserted /\ steer[q].pc \in {"joined", "done", "failed"}
    /\ steer[q].pc = "joined" => steer[q].leader # NoOne

Fits == \A q \in Steer : Fit(q)

\* Input in a running Turn is known to the consumer before it ends the Turn.
Shown(q) ==
    /\ steer[q].pc = "projecting" =>
          /\ active = steer[q].target /\ steer[q].target \in Turn
          /\ \A t \in Turn : t = steer[q].target => Stage(t) = "taken"
          /\ q \in inserts
          /\ consumer.stage = "waiting" => q \in consumer.waits
    /\ steer[q].pc = "inserting" =>
          /\ steer[q].target \in Turn /\ steer[q].target <= turns
          /\ \/ q \in inserts
             \/ turn[steer[q].target].native \notin {"starting", "running"}
    /\ steer[q].pc = "reading" => steer[q].target \in Turn
AllShown == \A q \in Steer : Shown(q)

\* One steer carries a message, and while Desktop is there its receipt says so.
Carrier(q) == steer[q].leader = NoOne /\ steer[q].pc \notin {"new", "failed"}
Carried ==
    /\ \A q \in Steer : steer[q].pc # "new" => steer[q].message \in Message
    /\ \A q \in Steer : Carrier(q) /\ closed = "no" => receipt[steer[q].message] = q
    /\ \A q, r \in Steer : Carrier(q) /\ Carrier(r) /\ steer[q].message = steer[r].message
                              => q = r

\* Without insertion, a steer that was stopped holds a rejected reservation.
Stopped(q) ==
    /\ steer[q].pc \notin {"inserting", "projecting"}
    /\ steer[q].halted => Reserved(q) /\ pending.rejected /\ ~Begun(q)
AllStopped == ~Native => \A q \in Steer : Stopped(q)

\* A follow-up is in one place, and a start of it that did not fail is the only one.
Rests(s) == \A t \in Turn : turn[t].by = s => Stage(t) = "rejected"
Place(s) ==
    /\ s \notin added => ~InQueue(s) /\ ~Waiting(s) /\ ~Begun(s) /\ s \notin deleted
    /\ InQueue(s) \/ Waiting(s) \/ s \in deleted => Rests(s)
    /\ InQueue(s) => ~Waiting(s) /\ s \notin deleted
    /\ Waiting(s) => s \notin deleted
    /\ \A t, u \in Turn :
          (turn[t].by = s /\ turn[u].by = s /\ Stage(t) # "rejected" /\ Stage(u) # "rejected")
             => t = u
    /\ s \in added => InQueue(s) \/ Waiting(s) \/ s \in deleted \/ ~Rests(s)
    /\ Waiting(s) => taken[s] # 0
    /\ \A t \in Turn : turn[t].by = s /\ Stage(t) = "starting" => taken[s] # 0
Distinct == \A i, j \in 1 .. Len(queue) : queue[i] = queue[j] => i = j
Placed == Distinct /\ \A s \in Submission : Place(s)

\* Starts that were admitted and have no Turn yet, and steers that have one.
Waits == (looking \ Steer) \cup (IF starter = "selecting" THEN {User} ELSE {})
Began == {r \in Steer : Begun(r)}
Room == turns + Cardinality(Waits) <= starts + Cardinality(Began)
Counted ==
    /\ Room
    /\ Waiting(User) => starter = "looking"
    /\ \A t \in Turn : turn[t].by = User /\ Stage(t) = "starting" => starter = "off"

Base == IInv /\ TypeOK /\ Numbered /\ EventEnded
Whole == Base /\ Fits /\ AllShown /\ Carried /\ AllStopped /\ Placed /\ Counted

-----------------------------------------------------------------------------
(* What a step may do to the Turns.                                        *)

\* A Turn that ended stays so, and one that does not run does not run again.
EndsStay(t) ==
    /\ turn[t].native \in Ended => turn'[t].native \in Ended
    /\ turn'[t].native \in {"starting", "running"} => turn[t].native \in {"starting", "running"}
SameTurn(t) == turn'[t].by = turn[t].by /\ Stage(t)' = Stage(t) /\ EndsStay(t)

\* No start is begun, accepted or rejected.
Stays == turns' = turns /\ \A t \in Turn : SameTurn(t)

\* Caller x begins a Turn.
Makes(x) ==
    /\ turns + 1 \in Turn /\ turns' = turns + 1
    /\ \A t \in Turn : t = turns + 1 => turn'[t].by = x /\ Stage(t)' = "starting"
    /\ \A t \in Turn : t # turns + 1 => SameTurn(t)

\* The start of Turn u is answered.
Answers(u, stage) ==
    /\ turns' = turns /\ Stage(u) = "starting" /\ Stage(u)' = stage
    /\ \A t \in Turn : turn'[t].by = turn[t].by /\ EndsStay(t)
    /\ \A t \in Turn : t # u => Stage(t)' = Stage(t)

Natives == {"unmade", "starting", "running", "rejected"} \cup Ended

\* A step that leaves the Turns alone answers no start.
LEMMA UnchangedStays ==
    ASSUME UNCHANGED <<turn, turns>> PROVE Stays
  BY DEF Stays, SameTurn, EndsStay, Stage, HasInput

\* MakeTurn begins the Turn of its caller, and touches no other.
LEMMA MakeDoes ==
    ASSUME Base, NEW x \in Caller, NEW ordinary \in BOOLEAN, NEW open \in BOOLEAN,
           turns + 1 \in Turn, MakeTurn(x, ordinary, open)
    PROVE  /\ Makes(x)
           /\ turn' \in [Turn -> TurnRecord]
<1> DEFINE made == [native |-> "starting", by |-> x, open |-> open, ordinary |-> ordinary]
<1>1. made \in TurnRecord
  BY TurnFields
<1>2. turn' = [turn EXCEPT ![turns + 1] = made]
  BY DEF MakeTurn
<1>3. turn \in [Turn -> TurnRecord]
  BY DEF Base, TypeOK
<1>4. made.native = "starting" /\ made.by = x
  OBVIOUS
<1> HIDE DEF made
<1>5. turn' \in [Turn -> TurnRecord] /\ turn'[turns + 1] = made
  BY <1>1, <1>2, <1>3
<1>6. \A t \in Turn : t # turns + 1 => turn'[t] = turn[t]
  BY <1>2, <1>3
<1>7. \A t \in Turn : t # turns + 1 => SameTurn(t)
  BY <1>6 DEF SameTurn, EndsStay, Stage, HasInput
<1>8. \A t \in Turn : t = turns + 1 => turn'[t].by = x /\ Stage(t)' = "starting"
  BY <1>4, <1>5 DEF Stage, HasInput, Ended
<1> QED
  BY <1>4, <1>5, <1>7, <1>8 DEF Makes, MakeTurn

\* TurnAs replaces the native state and keeps the caller.
LEMMA TurnAsFields ==
    ASSUME Base
    PROVE  \A t \in Turn, n \in Natives, o \in BOOLEAN :
              /\ TurnAs(t, n, o) \in TurnRecord
              /\ TurnAs(t, n, o).native = n /\ TurnAs(t, n, o).by = turn[t].by
<1> SUFFICES ASSUME NEW t \in Turn, NEW n \in Natives, NEW o \in BOOLEAN
             PROVE  /\ TurnAs(t, n, o) \in TurnRecord
                    /\ TurnAs(t, n, o).native = n /\ TurnAs(t, n, o).by = turn[t].by
  OBVIOUS
<1>1. turn[t].by \in Caller \cup {NoOne} /\ turn[t].ordinary \in BOOLEAN
  BY TurnFields DEF Base, TypeOK
<1>2. TurnAs(t, n, o) \in TurnRecord
  BY <1>1, TurnFields DEF TurnAs, Natives
<1> QED
  BY <1>2 DEF TurnAs

\* One Turn gets another native state or gate.
LEMMA SetDoes ==
    ASSUME Base, NEW t \in Turn, NEW native \in Natives, NEW open \in BOOLEAN,
           turn' = [turn EXCEPT ![t] = TurnAs(t, native, open)]
    PROVE  /\ turn' \in [Turn -> TurnRecord]
           /\ turn'[t].native = native
           /\ \A u \in Turn : turn'[u].by = turn[u].by
           /\ \A u \in Turn : u # t => turn'[u] = turn[u]
<1> DEFINE made == TurnAs(t, native, open)
<1>1. turn \in [Turn -> TurnRecord]
  BY DEF Base, TypeOK
<1>2. made \in TurnRecord /\ made.native = native /\ made.by = turn[t].by
  BY TurnAsFields
<1>3. turn' = [turn EXCEPT ![t] = made]
  OBVIOUS
<1> HIDE DEF made
<1> QED
  BY <1>1, <1>2, <1>3

\* The gates of some Turns open.
LEMMA GatesDo ==
    ASSUME Base, turns' = turns, NEW opened,
           turn' = [t \in Turn |-> IF t \in opened THEN TurnAs(t, turn[t].native, TRUE)
                                  ELSE turn[t]]
    PROVE  Stays /\ turn' \in [Turn -> TurnRecord]
<1>1. turn \in [Turn -> TurnRecord]
  BY DEF Base, TypeOK
<1>2. \A t \in Turn : /\ TurnAs(t, turn[t].native, TRUE) \in TurnRecord
                      /\ TurnAs(t, turn[t].native, TRUE).native = turn[t].native
                      /\ TurnAs(t, turn[t].native, TRUE).by = turn[t].by
  <2>1. \A t \in Turn : turn[t].native \in Natives
    BY <1>1, TurnFields DEF Natives
  <2>2. TRUE \in BOOLEAN
    OBVIOUS
  <2> QED
    BY <2>1, <2>2, TurnAsFields, Zenon
<1>3. turn' \in [Turn -> TurnRecord]
  BY <1>1, <1>2
<1>4. \A t \in Turn : turn'[t].native = turn[t].native /\ turn'[t].by = turn[t].by
  BY <1>1, <1>2
<1> QED
  BY <1>3, <1>4 DEF Stays, SameTurn, EndsStay, Stage, HasInput

\* An accepted start: the Harness has taken its input.
LEMMA AcceptedDoes ==
    ASSUME Base, NEW t \in Turn, Accepted(t)
    PROVE  Answers(t, "taken") /\ turn' \in [Turn -> TurnRecord]
<1>1. turn[t].open \in BOOLEAN
  BY TurnFields DEF Base, TypeOK
<1>2. turn' = [turn EXCEPT ![t] = TurnAs(t, "running", turn[t].open)]
  BY DEF Accepted
<1>3. /\ turn' \in [Turn -> TurnRecord] /\ turn'[t].native = "running"
      /\ \A u \in Turn : turn'[u].by = turn[u].by
      /\ \A u \in Turn : u # t => turn'[u] = turn[u]
  BY <1>1, <1>2, SetDoes DEF Natives
<1>4. turns' = turns /\ turn[t].native = "starting"
  BY DEF Accepted
<1> QED
  BY <1>3, <1>4 DEF Answers, EndsStay, Stage, HasInput, Ended

\* A rejected start: the Harness has nothing.
LEMMA RejectedDoes ==
    ASSUME Base, NEW t \in Turn, Rejected(t) \/ DelegatedStartThrows(t)
    PROVE  Answers(t, "rejected") /\ turn' \in [Turn -> TurnRecord]
<1>4. turn[t].open \in BOOLEAN
  BY TurnFields DEF Base, TypeOK
<1>1. PICK open \in BOOLEAN : turn' = [turn EXCEPT ![t] = TurnAs(t, "rejected", open)]
  BY <1>4 DEF Rejected, DelegatedStartThrows
<1>2. /\ turn' \in [Turn -> TurnRecord] /\ turn'[t].native = "rejected"
      /\ \A u \in Turn : turn'[u].by = turn[u].by
      /\ \A u \in Turn : u # t => turn'[u] = turn[u]
  BY <1>1, SetDoes DEF Natives
<1>3. turns' = turns /\ turn[t].native = "starting"
  BY DEF Rejected, DelegatedStartThrows
<1> QED
  BY <1>2, <1>3 DEF Answers, EndsStay, Stage, HasInput, Ended

\* The native Turn ends.
LEMMA EndsDo ==
    ASSUME Base, NEW t \in Turn, NEW how \in Ended, NativeEnds(t, how)
    PROVE  Stays /\ turn' \in [Turn -> TurnRecord]
<1>1. turn[t].open \in BOOLEAN
  BY TurnFields DEF Base, TypeOK
<1>2. turn' = [turn EXCEPT ![t] = TurnAs(t, how, turn[t].open)]
  BY DEF NativeEnds
<1>3. /\ turn' \in [Turn -> TurnRecord] /\ turn'[t].native = how
      /\ \A u \in Turn : turn'[u].by = turn[u].by
      /\ \A u \in Turn : u # t => turn'[u] = turn[u]
  BY <1>1, <1>2, SetDoes DEF Natives
<1>4. turns' = turns /\ turn[t].native = "running"
  BY DEF NativeEnds
<1> QED
  BY <1>3, <1>4 DEF Stays, SameTurn, EndsStay, Stage, HasInput, Ended

\* An opened gate changes no start and no end.
LEMMA GateDoes ==
    ASSUME Base, NEW t \in Turn, GateOpens(t)
    PROVE  Stays /\ turn' \in [Turn -> TurnRecord]
<1>1. turn[t].native \in Natives
  BY TurnFields DEF Base, TypeOK, Natives
<1>2. turn' = [turn EXCEPT ![t] = TurnAs(t, turn[t].native, TRUE)]
  BY DEF GateOpens
<1>3. /\ turn' \in [Turn -> TurnRecord] /\ turn'[t].native = turn[t].native
      /\ \A u \in Turn : turn'[u].by = turn[u].by
      /\ \A u \in Turn : u # t => turn'[u] = turn[u]
  BY <1>1, <1>2, SetDoes
<1>4. turns' = turns
  BY DEF GateOpens
<1> QED
  BY <1>3, <1>4 DEF Stays, SameTurn, EndsStay, Stage, HasInput

-----------------------------------------------------------------------------
(* There is room for the Turns of all that were admitted.                  *)

\* What waits and what has begun can be counted.
LEMMA WaitsAreFinite ==
    ASSUME looking \subseteq Caller
    PROVE  /\ IsFiniteSet(Waits) /\ Cardinality(Waits) \in Nat
           /\ IsFiniteSet(Began) /\ Cardinality(Began) \in Nat
           /\ Cardinality(Began) <= Cardinality(Steer)
<1>1. IsFiniteSet(Submission \cup {User} \cup {Delegate})
  BY FS_AddElement, TurnsAssumption
<1>2. Waits \in SUBSET (Submission \cup {User} \cup {Delegate})
  BY DEF Waits, Caller
<1>3. Began \in SUBSET Steer
  BY DEF Began
<1> QED
  BY <1>1, <1>2, <1>3, FS_Subset, FS_CardinalityType, TurnsAssumption

\* The bound on the Turns is a number.
LEMMA SteersAreCounted == Cardinality(Steer) \in Nat /\ MaxStarts \in Nat
  BY FS_CardinalityType, TurnsAssumption

\* A start finds its Turn among those of the model.
LEMMA RoomForOne ==
    ASSUME Base, Room,
           \/ starts < MaxStarts
           \/ Waits # {}
           \/ \E r \in Steer : ~Begun(r)
    PROVE  turns + 1 \in Turn
<1>1. /\ turns \in Nat /\ starts \in Nat /\ starts <= MaxStarts
      /\ MaxStarts \in Nat /\ Cardinality(Steer) \in Nat
      /\ looking \subseteq Caller
  BY SteersAreCounted DEF Base, TypeOK
<1>2. /\ IsFiniteSet(Waits) /\ Cardinality(Waits) \in Nat
      /\ IsFiniteSet(Began) /\ Cardinality(Began) \in Nat
      /\ Cardinality(Began) <= Cardinality(Steer)
  BY <1>1, WaitsAreFinite
<1>3. ASSUME Waits # {} PROVE Cardinality(Waits) > 0
  BY <1>2, <1>3, FS_EmptySet
<1>4. ASSUME NEW r \in Steer, ~Begun(r) PROVE Cardinality(Began) < Cardinality(Steer)
  <2>1. Began \in SUBSET Steer /\ Began # Steer
    BY <1>4 DEF Began
  <2>2. Cardinality(Began) # Cardinality(Steer)
    BY <2>1, FS_Subset, TurnsAssumption
  <2> QED
    BY <1>1, <1>2, <2>2
<1>5. turns < MaxStarts + Cardinality(Steer)
  BY <1>1, <1>2, <1>3, <1>4 DEF Room
<1> QED
  BY <1>1, <1>5 DEF Turn

\* A part of a finite set has no more elements.
LEMMA Fewer ==
    ASSUME NEW S, NEW T, IsFiniteSet(S), T \subseteq S
    PROVE  IsFiniteSet(T) /\ Cardinality(T) <= Cardinality(S)
  BY FS_Subset

\* What is begun and what waits is paid for by an admission, or was before.
LEMMA RoomKeeps ==
    ASSUME Base, Room, looking' \subseteq Caller, NEW x,
           \/ turns' = turns /\ starts' = starts /\ Waits' \subseteq Waits /\ Began' = Began
           \/ /\ turns' = turns /\ starts' = starts + 1
              /\ Waits' \subseteq Waits \cup {x} /\ Began' = Began
           \/ /\ turns' = turns + 1 /\ starts' = starts + 1
              /\ Waits' \subseteq Waits /\ Began \subseteq Began'
           \/ /\ turns' = turns + 1 /\ starts' = starts /\ x \in Waits
              /\ Waits' \subseteq Waits \ {x} /\ Began \subseteq Began'
           \/ /\ turns' = turns + 1 /\ starts' = starts /\ x \notin Began
              /\ Waits' \subseteq Waits /\ Began' = Began \cup {x}
    PROVE  Room'
<1>1. turns \in Nat /\ starts \in Nat /\ looking \subseteq Caller
  BY DEF Base, TypeOK
<1>2. /\ IsFiniteSet(Waits) /\ Cardinality(Waits) \in Nat
      /\ IsFiniteSet(Began) /\ Cardinality(Began) \in Nat
  BY <1>1, WaitsAreFinite
<1>3. /\ IsFiniteSet(Waits') /\ Cardinality(Waits') \in Nat
      /\ IsFiniteSet(Began') /\ Cardinality(Began') \in Nat
  <2>1. Waits' \in SUBSET (Submission \cup {User} \cup {Delegate})
    BY DEF Waits, Caller
  <2>2. Began' \in SUBSET Steer
    BY DEF Began
  <2>3. IsFiniteSet(Submission \cup {User} \cup {Delegate})
    BY FS_AddElement, TurnsAssumption
  <2> QED
    BY <2>1, <2>2, <2>3, FS_Subset, FS_CardinalityType, TurnsAssumption
<1>4. Waits' \subseteq Waits => Cardinality(Waits') <= Cardinality(Waits)
  BY <1>2, Fewer
<1>5. Waits' \subseteq Waits \cup {x} => Cardinality(Waits') <= Cardinality(Waits) + 1
  <2>1. /\ IsFiniteSet(Waits \cup {x})
        /\ Cardinality(Waits \cup {x}) = IF x \in Waits THEN Cardinality(Waits)
                                         ELSE Cardinality(Waits) + 1
    BY <1>2, FS_AddElement
  <2>2. Waits' \subseteq Waits \cup {x} => Cardinality(Waits') <= Cardinality(Waits \cup {x})
    BY <2>1, Fewer
  <2> QED
    BY <1>2, <1>3, <2>1, <2>2
<1>6. x \in Waits /\ Waits' \subseteq Waits \ {x} => Cardinality(Waits') + 1 <= Cardinality(Waits)
  <2>1. /\ IsFiniteSet(Waits \ {x})
        /\ x \in Waits => Cardinality(Waits \ {x}) = Cardinality(Waits) - 1
    BY <1>2, FS_RemoveElement
  <2>2. Waits' \subseteq Waits \ {x} => Cardinality(Waits') <= Cardinality(Waits \ {x})
    BY <2>1, Fewer
  <2> QED
    BY <1>2, <1>3, <2>1, <2>2
<1>7. Began \subseteq Began' => Cardinality(Began) <= Cardinality(Began')
  BY <1>3, Fewer
<1>8. x \notin Began /\ Began' = Began \cup {x} => Cardinality(Began') = Cardinality(Began) + 1
  BY <1>2, FS_AddElement
<1>9. Began' = Began => Cardinality(Began') = Cardinality(Began)
  OBVIOUS
<1> DEFINE w == Cardinality(Waits)
           v == Cardinality(Waits')
           b == Cardinality(Began)
           a == Cardinality(Began')
<1>10. w \in Nat /\ v \in Nat /\ b \in Nat /\ a \in Nat /\ turns + w <= starts + b
  BY <1>2, <1>3 DEF Room
<1>11. \/ turns' = turns /\ starts' = starts /\ v <= w /\ a = b
       \/ turns' = turns /\ starts' = starts + 1 /\ v <= w + 1 /\ a = b
       \/ turns' = turns + 1 /\ starts' = starts + 1 /\ v <= w /\ b <= a
       \/ turns' = turns + 1 /\ starts' = starts /\ v + 1 <= w /\ b <= a
       \/ turns' = turns + 1 /\ starts' = starts /\ v <= w /\ a = b + 1
  BY <1>4, <1>5, <1>6, <1>7, <1>8, <1>9
<1> HIDE DEF w, v, b, a
<1>12. turns' + v <= starts' + a
  BY <1>1, <1>10, <1>11
<1> QED
  BY <1>12 DEF Room, v, a

-----------------------------------------------------------------------------
(* Whom a step leaves alone.                                               *)

TurnsKept(y) ==
    \A t \in Turn : /\ turn'[t].by = y <=> turn[t].by = y
                    /\ turn[t].by = y => Stage(t)' = Stage(t)
Kept(y) == TurnsKept(y) /\ (Waiting(y)' <=> Waiting(y))

SteerKept(q) ==
    /\ Kept(q)
    /\ steer'[q].pc = steer[q].pc /\ steer'[q].leader = steer[q].leader
    /\ steer'[q].inserted <=> steer[q].inserted
    /\ pending'.steer = q <=> pending.steer = q

SubmissionKept(s) ==
    /\ Kept(s)
    /\ InQueue(s)' <=> InQueue(s)
    /\ s \in added' <=> s \in added
    /\ s \in deleted' <=> s \in deleted
    /\ taken'[s] = taken[s]

\* A step that answers nothing keeps the Turns of everybody,
LEMMA StaysKeep == ASSUME Stays, NEW y PROVE TurnsKept(y)
  BY DEF Stays, SameTurn, TurnsKept

\* a start those of all other callers,
LEMMA MakesKeep ==
    ASSUME Numbered, NEW x, Makes(x), NEW y, y # x, y # NoOne, turns \in Nat
    PROVE  TurnsKept(y)
<1>1. turn[turns + 1].by = NoOne /\ turns + 1 \in Turn
  BY DEF Numbered, Makes
<1>2. \A t \in Turn : t = turns + 1 => turn'[t].by # y /\ turn[t].by # y
  BY <1>1 DEF Makes
<1>3. \A t \in Turn : t # turns + 1 => SameTurn(t)
  BY DEF Makes
<1> QED
  BY <1>2, <1>3 DEF SameTurn, TurnsKept

\* and so does an answer.
LEMMA AnswersKeep ==
    ASSUME NEW u \in Turn, NEW stage, Answers(u, stage), NEW y, y # turn[u].by
    PROVE  TurnsKept(y)
  BY DEF Answers, TurnsKept

\* A caller whose Turns are kept has begun one or has not, as before.
LEMMA BegunStays == ASSUME NEW y, TurnsKept(y) PROVE Begun(y)' <=> Begun(y)
  BY DEF TurnsKept, Begun

\* A steer that is left alone fits as before.
LEMMA FitStays ==
    ASSUME NEW q \in Steer, Fit(q), SteerKept(q)
    PROVE  Fit(q)'
<1>1. Begun(q)' <=> Begun(q)
  BY BegunStays DEF SteerKept, Kept
<1>2. \A t \in Turn : turn'[t].by = q => turn[t].by = q /\ Stage(t)' = Stage(t)
  BY DEF SteerKept, Kept, TurnsKept
<1>3. \A t \in Turn : turn'[t].by = q => TurnFits(q, t)'
  BY <1>2 DEF Fit, TurnFits, SteerKept
<1>4. \A t, u \in Turn : turn'[t].by = q /\ turn'[u].by = q => t = u
  BY <1>2 DEF Fit
<1> QED
  BY <1>1, <1>3, <1>4 DEF Fit, SteerKept, Kept, Reserved

\* A follow-up that is left alone keeps its place.
LEMMA PlaceStays ==
    ASSUME NEW s \in Submission, Place(s), SubmissionKept(s)
    PROVE  Place(s)'
<1>1. Begun(s)' <=> Begun(s)
  BY BegunStays DEF SubmissionKept, Kept
<1>2. \A t \in Turn : (turn'[t].by = s <=> turn[t].by = s)
                      /\ (turn[t].by = s => Stage(t)' = Stage(t))
  BY DEF SubmissionKept, Kept, TurnsKept
<1>3. Rests(s)' <=> Rests(s)
  BY <1>2 DEF Rests
<1>4. \A t, u \in Turn :
        (turn'[t].by = s /\ turn'[u].by = s /\ Stage(t)' # "rejected" /\ Stage(u)' # "rejected")
           => t = u
  BY <1>2 DEF Place
<1>5. \A t \in Turn : turn'[t].by = s /\ Stage(t)' = "starting" => taken'[s] # 0
  BY <1>2 DEF Place, SubmissionKept
<1> QED
  BY <1>1, <1>3, <1>4, <1>5 DEF Place, SubmissionKept, Kept

\* Turns stay numbered.
LEMMA NumbersStay ==
    ASSUME Base,
           \/ Stays
           \/ \E x \in Caller : Makes(x)
           \/ \E u \in Turn : Answers(u, "taken") \/ Answers(u, "rejected")
    PROVE  Numbered'
<1>1. CASE Stays
  BY <1>1 DEF Base, Numbered, Stays, SameTurn
<1>2. ASSUME NEW x \in Caller, Makes(x) PROVE Numbered'
  <2>1. turns \in Nat
    BY DEF Base, TypeOK
  <2>2. \A t \in Turn : t \in Int
    BY SteersAreCounted DEF Turn
  <2>3. \A t \in Turn : t = turns + 1 => Stage(t)' = "starting" /\ ~(t > turns')
                                         /\ turn'[t].by # NoOne
    BY <1>2, <2>1, TurnsAssumption DEF Makes, Caller, User, Delegate
  <2>4. \A t \in Turn : t # turns + 1 => /\ t > turns' <=> t > turns
                                         /\ turn'[t].by = turn[t].by
                                         /\ Stage(t)' = Stage(t)
    BY <1>2, <2>1, <2>2 DEF Makes, SameTurn
  <2> QED
    BY <2>3, <2>4 DEF Base, Numbered
<1>3. ASSUME NEW u \in Turn, NEW stage \in {"taken", "rejected"}, Answers(u, stage)
      PROVE  Numbered'
  BY <1>3 DEF Base, Numbered, Answers
<1> QED
  BY <1>1, <1>2, <1>3

\* The event of the consumer stays true.
LEMMA EventStays ==
    ASSUME Base, ConsumerRests,
           \/ Stays
           \/ \E x \in Caller : Makes(x)
           \/ \E u \in Turn : Answers(u, "taken") \/ Answers(u, "rejected")
    PROVE  EventEnded'
<1>1. CASE consumer' = NoEvent
  BY <1>1 DEF EventEnded, NoEvent
<1>2. CASE consumer' = consumer
  <2>1. turns \in Nat /\ \A t \in Turn : t \in Int
    BY SteersAreCounted DEF Base, TypeOK, Turn
  <2>2. \A t \in Turn : t <= turns => t <= turns' /\ EndsStay(t)
    BY <2>1 DEF Stays, SameTurn, Makes, Answers
  <2>3. EventEnded
    BY DEF Base
  <2> QED
    BY <1>2, <2>2, <2>3 DEF EventEnded, EndsStay
<1> QED
  BY <1>1, <1>2 DEF ConsumerRests

-----------------------------------------------------------------------------
(* What is left of each part of the invariant when a step touches one      *)
(* caller, or none.                                                        *)

\* All steers fit when the one that moved does.
LEMMA FitsStay ==
    ASSUME Fits, NEW x, \A q \in Steer : q # x => SteerKept(q), x \in Steer => Fit(x)'
    PROVE  Fits'
  BY FitStays DEF Fits

\* All follow-ups are placed when the one that moved is.
LEMMA PlacesStay ==
    ASSUME Placed, NEW x, Distinct',
           \A s \in Submission : s # x => SubmissionKept(s), x \in Submission => Place(x)'
    PROVE  Placed'
  BY PlaceStays DEF Placed

\* The consumer waits for an insertion it knows, the Turn of which stays active.
LEMMA ShownStays ==
    ASSUME Base, NEW q \in Steer, Shown(q), ConsumerRests,
           \/ Stays /\ active' = active
           \/ active = NoTurn /\ \E x \in Caller : Makes(x)
           \/ \E u \in Turn : Answers(u, "taken") /\ active' = active
           \/ \E u \in Turn : Answers(u, "rejected") /\ active = u,
           steer'[q].pc \in {"projecting", "inserting", "reading"} =>
              /\ steer'[q].pc = steer[q].pc /\ steer'[q].target = steer[q].target
              /\ q \in inserts => q \in inserts'
    PROVE  Shown(q)'
<1>1. turns \in Nat /\ \A t \in Turn : t \in Int /\ t # NoTurn
  BY SteersAreCounted, NoTurnIsNoTurn DEF Base, TypeOK, Turn
<1>2. consumer'.stage = "waiting" => consumer'.waits = consumer.waits /\ consumer.stage = "waiting"
  BY DEF ConsumerRests, NoEvent
<1>3. ASSUME steer'[q].pc = "projecting"
      PROVE  /\ active' = steer'[q].target /\ steer'[q].target \in Turn
             /\ \A t \in Turn : t = steer'[q].target => Stage(t)' = "taken"
             /\ q \in inserts'
             /\ consumer'.stage = "waiting" => q \in consumer'.waits
  <2>1. /\ active = steer[q].target /\ steer[q].target \in Turn
        /\ Stage(steer[q].target) = "taken" /\ q \in inserts
        /\ consumer.stage = "waiting" => q \in consumer.waits
        /\ steer'[q].target = steer[q].target /\ q \in inserts'
    BY <1>3 DEF Shown
  <2> DEFINE t == steer[q].target
  <2>2. t \in Turn /\ active = t /\ Stage(t) = "taken"
    BY <2>1
  <2>3. active' = active /\ \A u \in Turn : u = t => Stage(u)' = "taken"
    <3>1. CASE Stays /\ active' = active
      BY <2>2, <3>1 DEF Stays, SameTurn
    <3>2. ASSUME NEW u \in Turn, Answers(u, "taken"), active' = active
          PROVE  \A v \in Turn : v = t => Stage(v)' = "taken"
      BY <2>2, <3>2 DEF Answers
    <3>3. ~(\E u \in Turn : Answers(u, "rejected") /\ active = u)
      BY <2>2 DEF Answers
    <3>4. active # NoTurn
      BY <1>1, <2>2
    <3> QED
      BY <3>1, <3>2, <3>3, <3>4
  <2> HIDE DEF t
  <2>4. steer'[q].target = t
    BY <2>1 DEF t
  <2> QED
    BY <1>2, <2>1, <2>2, <2>3, <2>4 DEF t
<1>4. ASSUME steer'[q].pc = "inserting"
      PROVE  /\ steer'[q].target \in Turn /\ steer'[q].target <= turns'
             /\ \/ q \in inserts'
                \/ turn'[steer'[q].target].native \notin {"starting", "running"}
  <2>1. /\ steer[q].target \in Turn /\ steer[q].target <= turns
        /\ q \in inserts \/ turn[steer[q].target].native \notin {"starting", "running"}
        /\ steer'[q].target = steer[q].target /\ (q \in inserts => q \in inserts')
    BY <1>4 DEF Shown
  <2>2. steer[q].target <= turns' /\ EndsStay(steer[q].target)
    BY <1>1, <2>1 DEF Stays, SameTurn, Makes, Answers
  <2> QED
    BY <2>1, <2>2 DEF EndsStay
<1> QED
  BY <1>3, <1>4 DEF Shown

\* No step but an arrival makes a carrier, or takes its receipt away.
LEMMA CarriedStays ==
    ASSUME Carried,
           \A q \in Steer : /\ steer'[q].message = steer[q].message
                            /\ steer'[q].pc # "new" => steer[q].pc # "new"
                            /\ Carrier(q)' => Carrier(q),
           closed' = "no" => /\ closed = "no"
                             /\ \A q \in Steer : Carrier(q)' =>
                                   receipt'[steer[q].message] = receipt[steer[q].message]
    PROVE  Carried'
  BY DEF Carried

\* A steer that is not stopped now stays as it is.
LEMMA StoppedStays ==
    ASSUME NEW q, Stopped(q), Begun(q)' => Begun(q),
           steer'[q].halted => steer[q].halted,
           steer[q].halted /\ steer'[q].halted => (Reserved(q) /\ pending.rejected =>
                                                   Reserved(q)' /\ pending'.rejected),
           steer'[q].pc \in {"inserting", "projecting"} =>
              steer[q].pc \in {"inserting", "projecting"}
    PROVE  Stopped(q)'
  BY DEF Stopped

\* Nothing is begun, answered, queued or looked up.
Quiet == Stays /\ UNCHANGED <<starts, lookVars, queueVars>>

\* Quiet steps keep the numbers, the places and the count.
LEMMA QuietKeeps ==
    ASSUME Whole, Quiet
    PROVE  Numbered' /\ Placed' /\ Counted' /\ \A y : Kept(y) /\ (Begun(y)' <=> Begun(y))
<1>1. \A y : Kept(y) /\ (Begun(y)' <=> Begun(y))
  BY StaysKeep, BegunStays DEF Quiet, Kept, Waiting, lookVars
<1>2. Numbered'
  BY NumbersStay DEF Whole, Quiet
<1>3. Placed'
  <2>1. Distinct'
    BY DEF Whole, Placed, Distinct, Quiet, queueVars
  <2>2. \A s \in Submission : SubmissionKept(s)
    BY <1>1 DEF SubmissionKept, Quiet, queueVars, InQueue
  <2> QED
    BY <2>1, <2>2, PlaceStays DEF Whole, Placed
<1>4. Counted'
  <2>1. Waits' = Waits /\ looking' \subseteq Caller
    BY DEF Waits, Quiet, lookVars, Whole, Base, TypeOK
  <2>2. Began' = Began
    BY <1>1 DEF Began
  <2>3. Room'
    BY <2>1, <2>2, RoomKeeps DEF Whole, Counted, Quiet, Stays
  <2>4. \A t \in Turn : turn'[t].by = User /\ Stage(t)' = "starting" => starter' = "off"
    BY DEF Whole, Counted, Quiet, Stays, SameTurn, lookVars
  <2> QED
    BY <2>3, <2>4 DEF Whole, Counted, Quiet, lookVars, Waiting
<1> QED
  BY <1>1, <1>2, <1>3, <1>4

-----------------------------------------------------------------------------
(* Steers that go on without a start.                                      *)

SteerTypes ==
    /\ steer \in [Steer -> SteerRecord]
    /\ pending \in PendingRecord
    /\ Reserved(NoOne) => pending = Free
    /\ receipt \in [Message -> Steer \cup {NoOne}]

OthersReserve(r) ==
    \A q \in Steer : q # r => /\ steer'[q] = steer[q]
                              /\ pending'.steer = q <=> pending.steer = q
                              /\ Reserved(q) /\ pending.rejected => pending'.rejected

\* Steer r goes on to pc with what it delivers.
Moved(r, pc) ==
    /\ \A q \in Steer : q # r => steer'[q] = steer[q]
    /\ steer'[r].pc = pc /\ steer'[r].message = steer[r].message
    /\ steer'[r].target = steer[r].target /\ steer'[r].leader = steer[r].leader
    /\ steer'[r].inserted <=> steer[r].inserted
    /\ steer'[r].halted => steer[r].halted

\* At moves one steer to another state.
LEMMA AtMoves ==
    ASSUME Base, NEW r \in Steer, NEW pc \in SteerState, steer' = At(r, pc)
    PROVE  Moved(r, pc) /\ steer' \in [Steer -> SteerRecord]
<1>1. steer \in [Steer -> SteerRecord]
  BY DEF Base, TypeOK
<1> DEFINE s == [steer[r] EXCEPT !.pc = pc]
<1>2. s \in SteerRecord
  BY <1>1, SteerFields
<1>3. /\ s.pc = pc /\ s.message = steer[r].message /\ s.target = steer[r].target
      /\ s.leader = steer[r].leader
      /\ s.inserted <=> steer[r].inserted
      /\ s.halted <=> steer[r].halted
  BY <1>1 DEF SteerRecord
<1>4. steer' = [steer EXCEPT ![r] = s]
  BY DEF At
<1> HIDE DEF s
<1> QED
  BY <1>1, <1>2, <1>3, <1>4 DEF Moved

\* The reservation of a steer that fails is gone, those of others are not.
LEMMA FailMoves ==
    ASSUME Base, NEW r \in Steer, SteerFails(r)
    PROVE  /\ Moved(r, "failed") /\ ~steer'[r].halted
           /\ SteerTypes' /\ ~Reserved(r)' /\ OthersReserve(r)
           /\ \A m \in Message : receipt[m] # r => receipt'[m] = receipt[m]
<1>1. SteerTypes
  BY DEF Base, TypeOK, SteerTypes
<1> DEFINE s == [steer[r] EXCEPT !.pc = "failed", !.halted = FALSE]
<1>2. s \in SteerRecord
  BY <1>1, SteerFields DEF SteerTypes, SteerState
<1>3. /\ s.pc = "failed" /\ s.message = steer[r].message /\ s.target = steer[r].target
      /\ s.leader = steer[r].leader
      /\ s.inserted <=> steer[r].inserted
      /\ ~s.halted
  BY <1>1 DEF SteerRecord, SteerTypes
<1>4. steer' = [steer EXCEPT ![r] = s]
  BY DEF SteerFails
<1> HIDE DEF s
<1>5. Moved(r, "failed") /\ ~steer'[r].halted /\ steer' \in [Steer -> SteerRecord]
  BY <1>1, <1>2, <1>3, <1>4 DEF Moved, SteerTypes
<1>6. pending' = IF Reserved(r) THEN Free ELSE pending
  BY DEF SteerFails
<1>7. Free \in PendingRecord /\ Free.steer = NoOne /\ NoOne # r
  BY PendingFields, TurnsAssumption DEF Free, Reservation
<1>8. /\ pending' \in PendingRecord
      /\ pending'.steer = NoOne => pending' = Free
      /\ pending'.steer # r
  BY <1>1, <1>6, <1>7 DEF SteerTypes, Reserved
<1>9. \A q \in Steer : q # r => /\ pending'.steer = q <=> pending.steer = q
                                /\ Reserved(q) => pending' = pending
  BY <1>6, <1>7, TurnsAssumption DEF Reserved
<1>10. receipt' = [m \in Message |-> IF receipt[m] = r THEN NoOne ELSE receipt[m]]
  BY DEF SteerFails
<1>11. receipt' \in [Message -> Steer \cup {NoOne}]
  BY <1>1, <1>10 DEF SteerTypes
<1>12. OthersReserve(r)
  BY <1>5, <1>9 DEF OthersReserve, Moved
<1>13. SteerTypes' /\ ~Reserved(r)'
  BY <1>5, <1>8, <1>11 DEF SteerTypes, Reserved, Free, Reservation
<1> QED
  BY <1>5, <1>10, <1>12, <1>13

\* A quiet step of steer r keeps the invariant when r itself comes out right.
LEMMA SteerStepKeeps ==
    ASSUME Whole, IInv', TypeOK', Quiet, ConsumerRests, NEW r,
           active' = active, OthersReserve(r),
           \A q \in Steer : q # r /\ q \in inserts => q \in inserts',
           r \in Steer => Fit(r)' /\ Shown(r)' /\ (~Native => Stopped(r)'), Carried'
    PROVE  Whole'
<1>1. Numbered' /\ Placed' /\ Counted' /\ \A y : Kept(y) /\ (Begun(y)' <=> Begun(y))
  BY QuietKeeps
<1>2. EventEnded'
  BY EventStays DEF Whole, Quiet
<1>3. Fits'
  <2>1. \A q \in Steer : q # r => SteerKept(q)
    BY <1>1 DEF SteerKept, OthersReserve
  <2> QED
    BY <2>1, FitsStay DEF Whole
<1>4. AllShown'
  <2>1. ASSUME NEW q \in Steer, q # r PROVE Shown(q)'
    <3>1. Shown(q)
      BY DEF Whole, AllShown
    <3>2. steer'[q].pc = steer[q].pc /\ steer'[q].target = steer[q].target
          /\ (q \in inserts => q \in inserts')
      BY <2>1 DEF OthersReserve
    <3>3. Base /\ Stays
      BY DEF Whole, Quiet
    <3> QED
      BY <3>1, <3>2, <3>3, ShownStays
  <2> QED
    BY <2>1 DEF AllShown
<1>5. AllStopped'
  <2>1. ASSUME ~Native, NEW q \in Steer, q # r PROVE Stopped(q)'
    <3>1. Stopped(q)
      BY <2>1 DEF Whole, AllStopped
    <3>2. /\ steer'[q] = steer[q]
          /\ Reserved(q)' <=> Reserved(q)
          /\ Reserved(q) /\ pending.rejected => pending'.rejected
      BY <2>1 DEF OthersReserve, Reserved
    <3> QED
      BY <1>1, <3>1, <3>2 DEF Stopped
  <2> QED
    BY <2>1 DEF AllStopped
<1> QED
  BY <1>1, <1>2, <1>3, <1>4, <1>5 DEF Whole, Base

\* The types after a step of a steer.
LEMMA SteerTypesSuffice ==
    ASSUME Base, IInv', SteerTypes', turn' \in [Turn -> TurnRecord], consumer' \in EventRecord,
           inserts' \subseteq Steer, closed' \in {"no", "steering", "host"},
           UNCHANGED <<turns, starts, active, projected, lookVars, queueVars>>
    PROVE  TypeOK'
  BY DEF Base, TypeOK, SteerTypes, lookVars, queueVars, IInv, StatusTypes

\* The types before a step.
LEMMA BaseTypes ==
    ASSUME Base
    PROVE  /\ SteerTypes /\ turn \in [Turn -> TurnRecord] /\ consumer \in EventRecord
           /\ inserts \subseteq Steer /\ closed \in {"no", "steering", "host"}
           /\ \A q \in Steer : steer[q] \in SteerRecord /\ steer[q].pc \in SteerState
<1>1. /\ SteerTypes /\ turn \in [Turn -> TurnRecord] /\ consumer \in EventRecord
      /\ inserts \subseteq Steer /\ closed \in {"no", "steering", "host"}
  BY DEF Base, TypeOK, SteerTypes
<1>2. \A q \in Steer : steer[q] \in SteerRecord
  BY <1>1 DEF SteerTypes
<1>3. \A s \in SteerRecord : s.pc \in SteerState
  BY DEF SteerRecord
<1> QED
  BY <1>1, <1>2, <1>3

\* A delivery that has not reached the Harness fails.
LEMMA FailKeeps ==
    ASSUME Whole, IInv', NEW r \in Steer, SteerFails(r),
           steer[r].pc \in {"reading", "inserting", "cancelling", "waiting"},
           inserts' \in {inserts, inserts \ {r}},
           UNCHANGED <<turnVars, starts, consumer, lookVars, queueVars, closed>>
    PROVE  Whole'
<1>1. Quiet /\ ConsumerRests /\ Base
  BY UnchangedStays DEF Quiet, ConsumerRests, turnVars, Whole
<1>2. /\ Moved(r, "failed") /\ ~steer'[r].halted
      /\ SteerTypes' /\ ~Reserved(r)' /\ OthersReserve(r)
      /\ \A m \in Message : receipt[m] # r => receipt'[m] = receipt[m]
  BY <1>1, FailMoves
<1>3. TypeOK'
  BY <1>1, <1>2, BaseTypes, SteerTypesSuffice DEF turnVars
<1>4. Kept(r) /\ (Begun(r)' <=> Begun(r)) /\ Fit(r)
  BY QuietKeeps, <1>1 DEF Whole, Fits
<1>5. Fit(r)'
  <2>1. ~Begun(r) /\ ~Waiting(r) /\ ~steer[r].inserted /\ steer[r].leader = NoOne
    BY <1>4 DEF Fit, Early
  <2>2. ~Begun(r)' /\ ~Waiting(r)' /\ ~steer'[r].inserted /\ steer'[r].leader = NoOne
        /\ steer'[r].pc = "failed"
    BY <1>2, <1>4, <2>1 DEF Moved, Kept
  <2>3. \A t \in Turn : turn'[t].by # r
    BY <2>2 DEF Begun
  <2> QED
    BY <1>2, <2>2, <2>3 DEF Fit, Early, Reserving
<1>6. Shown(r)' /\ (~Native => Stopped(r)')
  BY <1>2 DEF Shown, Stopped, Moved
<1>7. Carried'
  <2>1. Carried
    BY DEF Whole
  <2>2. \A q \in Steer : /\ steer'[q].message = steer[q].message
                         /\ steer'[q].pc # "new" => steer[q].pc # "new"
                         /\ Carrier(q)' => Carrier(q) /\ q # r
    BY <1>2 DEF Moved, Carrier
  <2>3. closed = "no" => \A q \in Steer : Carrier(q)' =>
                            receipt'[steer[q].message] = receipt[steer[q].message]
    BY <1>2, <2>1, <2>2 DEF Carried, Carrier
  <2> QED
    BY <2>1, <2>2, <2>3, CarriedStays
<1> QED
  BY <1>1, <1>2, <1>3, <1>5, <1>6, <1>7, SteerStepKeeps DEF turnVars

\* A steer goes on to its answer.
LEMMA GoesOnKeeps ==
    ASSUME Whole, IInv', Quiet, NEW r \in Steer, NEW pc \in SteerState, Moved(r, pc),
           turn' \in [Turn -> TurnRecord], steer' \in [Steer -> SteerRecord],
           UNCHANGED <<active, projected, consumer, pending, receipt, closed>>,
           inserts' \in {inserts, inserts \ {r}},
           \/ steer[r].pc = "cancelling" /\ pc = "waiting"
           \/ steer[r].pc = "projecting" /\ pc = "replying"
           \/ steer[r].pc = "replying" /\ pc = "done"
           \/ steer[r].pc = "joined" /\ pc \in {"done", "failed"}
    PROVE  Whole'
<1>1. Base /\ Stays
  BY DEF Whole, Quiet
<1>2. TypeOK'
  <2>1. SteerTypes'
    BY <1>1, BaseTypes DEF SteerTypes, Reserved, Free, Reservation
  <2> QED
    BY <1>1, <2>1, BaseTypes, SteerTypesSuffice DEF Quiet, Stays
<1>3. Kept(r) /\ (Begun(r)' <=> Begun(r)) /\ Fit(r)
  BY QuietKeeps DEF Whole, Fits
<1>4. /\ \A t \in Turn : turn'[t].by = r => turn[t].by = r /\ Stage(t)' = Stage(t)
      /\ Waiting(r)' <=> Waiting(r)
      /\ Reserved(r)' <=> Reserved(r)
  BY <1>3 DEF Kept, TurnsKept, Reserved
<1>5. Fit(r)'
  <2>1. \A t \in Turn : turn'[t].by = r => TurnFits(r, t)'
    BY <1>3, <1>4 DEF Fit, TurnFits, Moved, Early, Begun
  <2>2. \A t, u \in Turn : turn'[t].by = r /\ turn'[u].by = r => t = u
    BY <1>3, <1>4 DEF Fit
  <2>3. steer[r].pc # "starting" /\ pc # "starting" /\ ~Waiting(r) /\ steer'[r].pc = pc
        /\ steer'[r].leader = steer[r].leader /\ (steer'[r].inserted <=> steer[r].inserted)
    BY <1>3 DEF Fit, Moved, Early
  <2> QED
    BY <1>3, <1>4, <2>1, <2>2, <2>3 DEF Fit, Early, Reserving
<1>6. Shown(r)' /\ (~Native => Stopped(r)')
  <2>1. pc \notin {"projecting", "inserting"} /\ steer'[r].pc = pc
    BY DEF Moved
  <2>2. steer'[r].halted => steer[r].halted
    BY DEF Moved
  <2>3. ~Native => Stopped(r)
    BY DEF Whole, AllStopped
  <2> QED
    BY <1>3, <1>4, <2>1, <2>2, <2>3 DEF Shown, Stopped
<1>7. Carried'
  <2>1. \A q \in Steer : /\ steer'[q].message = steer[q].message
                         /\ steer'[q].pc # "new" => steer[q].pc # "new"
                         /\ Carrier(q)' => Carrier(q)
    BY DEF Moved, Carrier
  <2> QED
    BY <2>1, CarriedStays DEF Whole
<1>8. OthersReserve(r)
  BY DEF OthersReserve, Moved
<1> QED
  BY <1>2, <1>5, <1>6, <1>7, <1>8, SteerStepKeeps DEF ConsumerRests

\* Steers that go on without a start: a cancel is answered, an insertion is
\* projected, an answer is written, a retry has its result.
LEMMA AnswersStep ==
    ASSUME Whole, IInv', NEW r \in Steer,
           CancelAnswered(r) \/ Projected(r) \/ Replies(r) \/ Joins(r)
    PROVE  Whole'
<1>1. Base
  BY DEF Whole
<1>2. {"waiting", "replying", "done", "failed"} \subseteq SteerState
  BY DEF SteerState
<1>3. turn \in [Turn -> TurnRecord]
  BY <1>1, BaseTypes
<1>4. CASE CancelAnswered(r)
  <2>1. Quiet
    BY <1>4, UnchangedStays DEF Quiet, CancelAnswered, turnVars
  <2>2. Moved(r, "waiting") /\ steer' \in [Steer -> SteerRecord]
    BY <1>1, <1>2, <1>4, AtMoves DEF CancelAnswered
  <2> QED
    BY <1>2, <1>3, <1>4, <2>1, <2>2, GoesOnKeeps DEF CancelAnswered, turnVars
<1>5. CASE Projected(r)
  <2>1. Quiet
    BY <1>5, UnchangedStays DEF Quiet, Projected, turnVars
  <2>2. Moved(r, "replying") /\ steer' \in [Steer -> SteerRecord]
    BY <1>1, <1>2, <1>5, AtMoves DEF Projected
  <2> QED
    BY <1>2, <1>3, <1>5, <2>1, <2>2, GoesOnKeeps DEF Projected, turnVars
<1>6. CASE Replies(r)
  <2> DEFINE opened == {t \in Turn : turn[t].by = r}
  <2>1. turn' = [t \in Turn |-> IF t \in opened THEN TurnAs(t, turn[t].native, TRUE)
                               ELSE turn[t]]
    BY <1>6 DEF Replies
  <2> HIDE DEF opened
  <2>2. Stays /\ turn' \in [Turn -> TurnRecord]
    BY <1>1, <1>6, <2>1, GatesDo DEF Replies
  <2>3. Moved(r, "done") /\ steer' \in [Steer -> SteerRecord]
    BY <1>1, <1>2, <1>6, AtMoves DEF Replies
  <2> QED
    BY <1>2, <1>6, <2>2, <2>3, GoesOnKeeps DEF Quiet, Replies
<1>7. CASE Joins(r)
  <2> DEFINE d == steer[r].leader
             opened == {t \in Turn : turn[t].by = d /\ steer[d].pc # "failed"}
             pc == IF steer[d].pc = "failed" THEN "failed" ELSE "done"
  <2>1. turn' = [t \in Turn |-> IF t \in opened THEN TurnAs(t, turn[t].native, TRUE)
                               ELSE turn[t]]
    BY <1>7 DEF Joins
  <2>2. steer' = At(r, pc) /\ pc \in {"done", "failed"}
    BY <1>7 DEF Joins
  <2> HIDE DEF opened, pc, d
  <2>3. Stays /\ turn' \in [Turn -> TurnRecord]
    BY <1>1, <1>7, <2>1, GatesDo DEF Joins
  <2>4. Moved(r, pc) /\ steer' \in [Steer -> SteerRecord] /\ pc \in SteerState
    BY <1>1, <1>2, <2>2, AtMoves
  <2> QED
    BY <1>7, <2>2, <2>3, <2>4, GoesOnKeeps DEF Quiet, Joins
<1> QED
  BY <1>4, <1>5, <1>6, <1>7

\* A reservation that is rejected stays with its steer.
LEMMA RejectingKeepsTypes ==
    ASSUME Base, pending # Free, pending' = [pending EXCEPT !.rejected = TRUE]
    PROVE  /\ pending' \in PendingRecord /\ pending'.steer = pending.steer
           /\ pending'.rejected /\ pending.steer # NoOne
<1>1. pending \in PendingRecord /\ (pending.steer = NoOne => pending = Free)
  BY BaseTypes DEF SteerTypes, Reserved
<1>2. pending' \in PendingRecord
  BY <1>1, PendingFields
<1> QED
  BY <1>1, <1>2 DEF PendingRecord

\* A timer, a fault or an end of steering rejects what is reserved.
LEMMA RejectKeeps ==
    ASSUME Whole, IInv', UNCHANGED <<steer, turnVars, starts, inserts, consumer, lookVars, queueVars>>,
           \/ pending' = pending
           \/ pending # Free /\ pending' = [pending EXCEPT !.rejected = TRUE],
           receipt' \in [Message -> Steer \cup {NoOne}],
           closed' \in {"no", "steering", "host"},
           closed' = "no" => closed = "no" /\ receipt' = receipt
    PROVE  Whole'
<1>1. Quiet /\ ConsumerRests /\ Base
  BY UnchangedStays DEF Quiet, ConsumerRests, turnVars, Whole
<1>2. /\ pending' \in PendingRecord /\ pending'.steer = pending.steer
      /\ pending.rejected => pending'.rejected
      /\ pending.steer = NoOne => pending' = pending
  <2>1. CASE pending' = pending
    BY <1>1, <2>1, BaseTypes DEF SteerTypes
  <2>2. CASE pending # Free /\ pending' = [pending EXCEPT !.rejected = TRUE]
    BY <1>1, <2>2, RejectingKeepsTypes
  <2> QED
    BY <2>1, <2>2
<1>3. TypeOK'
  <2>1. SteerTypes'
    BY <1>1, <1>2, BaseTypes DEF SteerTypes, Reserved, Free, Reservation
  <2> QED
    BY <1>1, <2>1, BaseTypes, SteerTypesSuffice DEF turnVars
<1>4. OthersReserve(NoOne)
  BY <1>2 DEF OthersReserve, Reserved
<1>5. Carried'
  BY CarriedStays DEF Whole, Carrier
<1> QED
  BY <1>1, <1>3, <1>4, <1>5, SteerStepKeeps, TurnsAssumption DEF turnVars

\* The timer rejects a reservation.
LEMMA TimeoutKeeps ==
    ASSUME Whole, IInv', NEW r \in Steer, Timeout(r) PROVE Whole'
<1>1. Reserved(r) /\ Base
  BY DEF Timeout, Whole, Fits, Fit, Reserving
<1>2. pending # Free
  BY <1>1, TurnsAssumption DEF Reserved, Free, Reservation
<1>3. receipt' \in [Message -> Steer \cup {NoOne}] /\ closed' \in {"no", "steering", "host"}
  BY <1>1, BaseTypes DEF Timeout, SteerTypes
<1> QED
  BY <1>2, <1>3, RejectKeeps DEF Timeout

\* A fault, or the end of steering or of the Host, rejects a reservation.
LEMMA FaultKeeps ==
    ASSUME Whole, IInv', SteeringFault \/ \E how \in {"steering", "host"} : Close(how)
    PROVE  Whole'
<1>1. Base
  BY DEF Whole
<1>2. receipt \in [Message -> Steer \cup {NoOne}] /\ closed \in {"no", "steering", "host"}
  BY <1>1, BaseTypes DEF SteerTypes
<1>3. CASE SteeringFault
  <2>1. pending # Free /\ pending' = [pending EXCEPT !.rejected = TRUE]
    BY <1>3 DEF SteeringFault, RejectPending
  <2>2. receipt' = receipt /\ closed' = closed
    BY <1>3 DEF SteeringFault
  <2> QED
    BY <1>2, <1>3, <2>1, <2>2, RejectKeeps DEF SteeringFault
<1>4. ASSUME NEW how \in {"steering", "host"}, Close(how) PROVE Whole'
  <2>1. \/ pending' = pending
        \/ pending # Free /\ pending' = [pending EXCEPT !.rejected = TRUE]
    BY <1>4 DEF Close, RejectPending
  <2>2. receipt' \in [Message -> Steer \cup {NoOne}]
    BY <1>4 DEF Close
  <2>3. closed' \in {"steering", "host"}
    BY <1>4 DEF Close
  <2> QED
    BY <1>4, <2>1, <2>2, <2>3, RejectKeeps DEF Close
<1> QED
  BY <1>3, <1>4

\* The Harness has the input: its Turn runs, so the consumer knows the insertion.
LEMMA InsertedKeeps ==
    ASSUME Whole, IInv', NEW r \in Steer, Inserted(r) PROVE Whole'
<1>1. Quiet /\ ConsumerRests /\ Base
  BY UnchangedStays DEF Quiet, ConsumerRests, turnVars, Whole, Inserted
<1> DEFINE s == [steer[r] EXCEPT !.pc = "projecting", !.inserted = TRUE]
<1>2. s \in SteerRecord
  <2>1. TRUE \in BOOLEAN /\ "projecting" \in SteerState
    BY DEF SteerState
  <2> QED
    BY <1>1, <2>1, BaseTypes, SteerFields, Zenon
<1>3. /\ s.pc = "projecting" /\ s.message = steer[r].message /\ s.target = steer[r].target
      /\ s.leader = steer[r].leader /\ (s.halted <=> steer[r].halted)
  BY <1>1, BaseTypes DEF SteerRecord
<1>4. steer' = [steer EXCEPT ![r] = s]
  BY DEF Inserted
<1> HIDE DEF s
<1>5. steer \in [Steer -> SteerRecord]
  BY <1>1, BaseTypes DEF SteerTypes
<1>6. /\ steer' \in [Steer -> SteerRecord] /\ steer'[r] = s
      /\ \A q \in Steer : q # r => steer'[q] = steer[q]
  BY <1>2, <1>4, <1>5
<1>7. TypeOK'
  <2>1. SteerTypes'
    BY <1>1, <1>6, BaseTypes DEF SteerTypes, Inserted, Reserved, Free, Reservation
  <2> QED
    BY <1>1, <2>1, BaseTypes, SteerTypesSuffice DEF Inserted, turnVars
<1>8. Kept(r) /\ (Begun(r)' <=> Begun(r)) /\ Fit(r) /\ Shown(r)
  BY <1>1, QuietKeeps DEF Whole, Fits, AllShown
<1>9. steer[r].pc = "inserting" /\ steer[r].target \in Turn
      /\ turn[steer[r].target].native = "running" /\ r \in inserts
  BY <1>8 DEF Inserted, Shown
<1>10. ~Begun(r)' /\ ~Waiting(r)' /\ ~Reserved(r)' /\ steer'[r].leader = NoOne
  BY <1>3, <1>6, <1>8, <1>9 DEF Fit, Early, Kept, Reserved, Inserted, Reserving
<1>11. Fit(r)'
  <2>1. \A t \in Turn : turn'[t].by # r
    BY <1>10 DEF Begun
  <2> QED
    BY <1>3, <1>6, <1>10, <2>1 DEF Fit, Early, Reserving
<1>12. Shown(r)'
  <2>1. active = steer[r].target /\ consumer.stage # "waiting"
    BY <1>1, <1>9 DEF Base, IInv, Core, OneNativeTurn, EventIsActive, Ended
  <2>2. \A t \in Turn : t = steer[r].target => Stage(t)' = "taken"
    BY <1>9 DEF Stage, HasInput, Inserted, turnVars
  <2> QED
    BY <1>3, <1>6, <1>9, <2>1, <2>2 DEF Shown, Inserted, turnVars
<1>13. ~Native => Stopped(r)'
  BY <1>9 DEF Whole, AllStopped, Stopped
<1>14. Carried'
  <2>1. \A q \in Steer : /\ steer'[q].message = steer[q].message
                         /\ steer'[q].pc # "new" => steer[q].pc # "new"
                         /\ Carrier(q)' => Carrier(q)
    BY <1>3, <1>6, <1>9 DEF Carrier
  <2> QED
    BY <2>1, CarriedStays DEF Whole, Inserted
<1>15. OthersReserve(r)
  BY <1>6 DEF OthersReserve, Inserted
<1> QED
  BY <1>1, <1>7, <1>11, <1>12, <1>13, <1>14, <1>15, SteerStepKeeps DEF Inserted, turnVars

\* The answer is lost: the steer fails, with or without the Harness having it.
LEMMA LostKeeps ==
    ASSUME Whole, IInv', NEW r \in Steer, InsertLost(r) PROVE Whole'
<1>1. Quiet /\ ConsumerRests /\ Base
  BY UnchangedStays DEF Quiet, ConsumerRests, turnVars, Whole, InsertLost
<1>2. PICK has \in BOOLEAN :
         steer' = [steer EXCEPT ![r] = [@ EXCEPT !.pc = "failed", !.inserted = has]]
  BY DEF InsertLost
<1> DEFINE s == [steer[r] EXCEPT !.pc = "failed", !.inserted = has]
<1>3. s \in SteerRecord
  BY <1>1, BaseTypes, SteerFields DEF SteerState
<1>4. s.pc = "failed" /\ s.message = steer[r].message /\ s.leader = steer[r].leader
      /\ (s.halted <=> steer[r].halted)
  BY <1>1, BaseTypes DEF SteerRecord
<1>5. steer' = [steer EXCEPT ![r] = s]
  BY <1>2
<1> HIDE DEF s
<1>6. steer \in [Steer -> SteerRecord]
  BY <1>1, BaseTypes DEF SteerTypes
<1>7. /\ steer' \in [Steer -> SteerRecord] /\ steer'[r] = s
      /\ \A q \in Steer : q # r => steer'[q] = steer[q]
  BY <1>3, <1>5, <1>6
<1>8. receipt' = [m \in Message |-> IF receipt[m] = r THEN NoOne ELSE receipt[m]]
  BY DEF InsertLost
<1>9. TypeOK'
  <2>1. SteerTypes'
    BY <1>1, <1>7, <1>8, BaseTypes DEF SteerTypes, InsertLost, Reserved, Free, Reservation
  <2> QED
    BY <1>1, <2>1, BaseTypes, SteerTypesSuffice DEF InsertLost, turnVars
<1>10. Kept(r) /\ (Begun(r)' <=> Begun(r)) /\ Fit(r) /\ steer[r].pc = "inserting" /\ LostAnswers
  BY <1>1, QuietKeeps DEF Whole, Fits, InsertLost
<1>11. ~Begun(r)' /\ ~Waiting(r)' /\ ~Reserved(r)' /\ steer'[r].leader = NoOne
  BY <1>4, <1>7, <1>10 DEF Fit, Early, Kept, Reserved, InsertLost, Reserving
<1>12. Fit(r)'
  <2>1. \A t \in Turn : turn'[t].by # r
    BY <1>11 DEF Begun
  <2> QED
    BY <1>4, <1>7, <1>10, <1>11, <2>1 DEF Fit, Early, Reserving
<1>13. Shown(r)' /\ (~Native => Stopped(r)')
  BY <1>4, <1>7, <1>10 DEF Shown, Whole, AllStopped, Stopped
<1>14. Carried'
  <2>1. \A q \in Steer : /\ steer'[q].message = steer[q].message
                         /\ steer'[q].pc # "new" => steer[q].pc # "new"
                         /\ Carrier(q)' => Carrier(q) /\ q # r
    BY <1>4, <1>7, <1>10 DEF Carrier
  <2>2. closed = "no" => \A q \in Steer : Carrier(q)' =>
                            receipt'[steer[q].message] = receipt[steer[q].message]
    BY <1>8, <2>1 DEF Whole, Carried, Carrier
  <2> QED
    BY <2>1, <2>2, CarriedStays DEF Whole, InsertLost
<1>15. OthersReserve(r)
  BY <1>7 DEF OthersReserve, InsertLost
<1> QED
  BY <1>1, <1>9, <1>12, <1>13, <1>14, <1>15, SteerStepKeeps DEF InsertLost, turnVars

-----------------------------------------------------------------------------
(* Deliveries that begin.                                                  *)

PcOf(mode) == CASE mode = "newTurn" -> "cancelling"
                [] mode = "activeTurn" -> "inserting"
                [] mode = "read" -> "reading"

\* What deliver leaves behind before its first await.
LEMMA DeliverDoes ==
    ASSUME Base, NEW r \in Steer, NEW as \in SteerRecord,
           NEW mode \in {"newTurn", "activeTurn", "read"},
           pending.steer \in {NoOne, r}, Deliver(r, as, mode)
    PROVE  /\ steer' \in [Steer -> SteerRecord] /\ pending' \in PendingRecord
           /\ Reserved(NoOne)' => pending' = Free
           /\ steer'[r].pc = PcOf(mode)
           /\ steer'[r].message = as.message /\ steer'[r].target = as.target
           /\ steer'[r].leader = as.leader
           /\ steer'[r].inserted <=> as.inserted
           /\ steer'[r].halted <=> as.halted
           /\ Reserved(r)' <=> mode # "activeTurn"
           /\ OthersReserve(r)
<1> DEFINE s == [as EXCEPT !.pc = PcOf(mode)]
<1>1. PcOf(mode) \in SteerState
  BY DEF PcOf, SteerState
<1>2. s \in SteerRecord
  BY <1>1, SteerFields
<1>3. s.pc = PcOf(mode) /\ s.message = as.message /\ s.target = as.target
      /\ s.leader = as.leader /\ (s.inserted <=> as.inserted) /\ (s.halted <=> as.halted)
  BY DEF SteerRecord
<1>4. steer' = [steer EXCEPT ![r] = s]
  BY DEF Deliver, PcOf
<1>5. pending' = IF mode # "activeTurn" THEN Reservation(r)
                 ELSE IF Reserved(r) THEN Free ELSE pending
  BY DEF Deliver
<1> HIDE DEF s
<1>6. SteerTypes
  BY BaseTypes
<1>7. /\ steer' \in [Steer -> SteerRecord] /\ steer'[r] = s
      /\ \A q \in Steer : q # r => steer'[q] = steer[q]
  BY <1>2, <1>4, <1>6 DEF SteerTypes
<1>8. /\ Reservation(r) \in PendingRecord /\ Reservation(r).steer = r
      /\ Free \in PendingRecord /\ Free.steer = NoOne /\ r # NoOne
  BY PendingFields, TurnsAssumption DEF Reservation, Free
<1>9. /\ pending' \in PendingRecord
      /\ pending'.steer = NoOne => pending' = Free
      /\ pending'.steer = r <=> mode # "activeTurn"
      /\ pending'.steer \in {NoOne, r}
  BY <1>5, <1>6, <1>8 DEF SteerTypes, Reserved
<1>10. OthersReserve(r)
  BY <1>7, <1>9, TurnsAssumption DEF OthersReserve, Reserved
<1> QED
  BY <1>3, <1>7, <1>9, <1>10 DEF Reserved, Free, Reservation

\* A delivery begins or is sent on.
LEMMA DeliverKeeps ==
    ASSUME Whole, IInv', NEW r \in Steer, NEW as \in SteerRecord,
           NEW mode \in {"newTurn", "activeTurn", "read"},
           pending.steer \in {NoOne, r}, Deliver(r, as, mode), TrackInsert(r),
           steer[r].pc \in {"new", "reading", "inserting"},
           as.target = active, active # NoTurn, as.leader = NoOne, ~as.inserted,
           Native \/ (~as.halted /\ mode # "activeTurn"),
           receipt' \in [Message -> Steer \cup {NoOne}], Carried',
           UNCHANGED <<starts, turnVars, consumer, lookVars, queueVars, closed>>
    PROVE  Whole'
<1>1. Quiet /\ ConsumerRests /\ Base
  BY UnchangedStays DEF Quiet, ConsumerRests, turnVars, Whole
<1>2. /\ steer' \in [Steer -> SteerRecord] /\ pending' \in PendingRecord
      /\ Reserved(NoOne)' => pending' = Free
      /\ steer'[r].pc = PcOf(mode) /\ steer'[r].target = active
      /\ steer'[r].leader = NoOne /\ ~steer'[r].inserted
      /\ Native \/ ~steer'[r].halted
      /\ Reserved(r)' <=> mode # "activeTurn"
      /\ OthersReserve(r)
  <2>1. /\ steer' \in [Steer -> SteerRecord] /\ pending' \in PendingRecord
        /\ Reserved(NoOne)' => pending' = Free
        /\ steer'[r].pc = PcOf(mode)
        /\ steer'[r].message = as.message /\ steer'[r].target = as.target
        /\ steer'[r].leader = as.leader
        /\ steer'[r].inserted <=> as.inserted
        /\ steer'[r].halted <=> as.halted
        /\ Reserved(r)' <=> mode # "activeTurn"
        /\ OthersReserve(r)
    BY <1>1, DeliverDoes, ZenonT(40)
  <2> QED
    BY <2>1
<1>3. inserts' = IF steer'[r].pc = "inserting" THEN inserts \cup {r} ELSE inserts \ {r}
  BY DEF TrackInsert
<1>4. TypeOK'
  <2>1. SteerTypes'
    BY <1>2 DEF SteerTypes, Reserved, Free, Reservation
  <2>2. inserts' \subseteq Steer
    BY <1>1, <1>3, BaseTypes
  <2> QED
    BY <1>1, <2>1, <2>2, BaseTypes, SteerTypesSuffice DEF turnVars
<1>5. Kept(r) /\ (Begun(r)' <=> Begun(r)) /\ Fit(r)
  BY <1>1, QuietKeeps DEF Whole, Fits
<1>6. ~Begun(r)' /\ ~Waiting(r)'
  BY <1>5 DEF Fit, Early, Kept
<1>7. steer'[r].pc \in {"cancelling", "inserting", "reading"}
      /\ (steer'[r].pc = "inserting" <=> mode = "activeTurn")
  BY <1>2 DEF PcOf
<1>8. Fit(r)'
  <2>1. \A t \in Turn : turn'[t].by # r
    BY <1>6 DEF Begun
  <2> QED
    BY <1>2, <1>6, <1>7, <2>1 DEF Fit, Early, Reserving
<1>9. Shown(r)'
  <2>1. active \in Turn /\ active <= turns
    BY <1>1, SteersAreCounted DEF Base, TypeOK, Turn, NoTurn
  <2>2. steer'[r].target = active /\ turns' = turns
        /\ (steer'[r].pc = "inserting" => r \in inserts')
    BY <1>2, <1>3 DEF turnVars
  <2> QED
    BY <1>7, <2>1, <2>2 DEF Shown
<1>10. ~Native => Stopped(r)'
  BY <1>2, <1>7 DEF Stopped
<1>11. \A q \in Steer : q # r /\ q \in inserts => q \in inserts'
  BY <1>3
<1> QED
  BY <1>1, <1>2, <1>4, <1>8, <1>9, <1>10, <1>11, SteerStepKeeps DEF turnVars

\* A retry joins the delivery of its message.
LEMMA JoinKeeps ==
    ASSUME Whole, IInv', NEW r \in Steer, NEW m \in Message, SteerJoins(r, m)
    PROVE  Whole'
<1>1. Quiet /\ ConsumerRests /\ Base
  BY UnchangedStays DEF Quiet, ConsumerRests, turnVars, Whole, SteerJoins
<1>2. SteerTypes /\ receipt[m] \in Steer /\ steer[r].pc = "new"
  BY <1>1, BaseTypes DEF SteerTypes, SteerJoins
<1> DEFINE s == [steer[r] EXCEPT !.pc = "joined", !.message = m,
                    !.target = steer[receipt[m]].target, !.leader = receipt[m]]
<1>3. s \in SteerRecord
  BY <1>2 DEF SteerRecord, SteerTypes, SteerState
<1>4. s.pc = "joined" /\ s.message = m /\ s.leader = receipt[m] /\ s.leader # NoOne
      /\ (s.inserted <=> steer[r].inserted) /\ (s.halted <=> steer[r].halted)
  BY <1>2, TurnsAssumption DEF SteerRecord, SteerTypes
<1>5. steer' = [steer EXCEPT ![r] = s]
  BY DEF SteerJoins
<1> HIDE DEF s
<1>6. /\ steer' \in [Steer -> SteerRecord] /\ steer'[r] = s
      /\ \A q \in Steer : q # r => steer'[q] = steer[q]
  BY <1>2, <1>3, <1>5 DEF SteerTypes
<1>7. TypeOK'
  <2>1. SteerTypes'
    BY <1>2, <1>6 DEF SteerTypes, SteerJoins, Reserved, Free, Reservation
  <2> QED
    BY <1>1, <2>1, BaseTypes, SteerTypesSuffice DEF SteerJoins, turnVars
<1>8. Kept(r) /\ (Begun(r)' <=> Begun(r)) /\ Fit(r)
  BY <1>1, QuietKeeps DEF Whole, Fits
<1>9. ~Begun(r)' /\ ~Waiting(r)' /\ ~Reserved(r)' /\ ~steer'[r].inserted
  BY <1>2, <1>4, <1>6, <1>8 DEF Fit, Early, Kept, Reserved, SteerJoins, Reserving
<1>10. Fit(r)'
  <2>1. \A t \in Turn : turn'[t].by # r
    BY <1>9 DEF Begun
  <2> QED
    BY <1>4, <1>6, <1>9, <2>1 DEF Fit, Early, Reserving
<1>11. Shown(r)' /\ (~Native => Stopped(r)')
  <2>1. ~Native => Stopped(r)
    BY DEF Whole, AllStopped
  <2>2. ~Reserved(r)
    BY <1>2, <1>8 DEF Fit, Reserving
  <2> QED
    BY <1>4, <1>6, <2>1, <2>2 DEF Shown, Stopped
<1>12. Carried'
  <2>1. \A q \in Steer : Carrier(q)' => Carrier(q) /\ steer'[q].message = steer[q].message
    BY <1>4, <1>6 DEF Carrier
  <2>2. \A q \in Steer : steer'[q].pc # "new" => steer'[q].message \in Message
    BY <1>4, <1>6 DEF Whole, Carried
  <2> QED
    BY <2>1, <2>2 DEF Whole, Carried, SteerJoins
<1>13. OthersReserve(r)
  BY <1>6 DEF OthersReserve, SteerJoins
<1> QED
  BY <1>1, <1>7, <1>10, <1>11, <1>12, <1>13, SteerStepKeeps DEF SteerJoins, turnVars

\* A steer with a message nobody delivers begins its delivery.
LEMMA BeginSteerKeeps ==
    ASSUME Whole, IInv', NEW r \in Steer, NEW m \in Message,
           NEW presented \in {"none"} \cup Mode, NEW mode \in Mode \cup {"read"},
           SteerBegins(r, m, presented, mode)
    PROVE  Whole'
<1>1. Base /\ SteerTypes
  BY BaseTypes DEF Whole
<1> DEFINE as == [NewSteer EXCEPT !.message = m, !.target = active, !.presented = presented]
<1>2. active \in Turn /\ active # NoTurn
  BY <1>1, SteersAreCounted, NoTurnIsNoTurn
     DEF SteerBegins, Base, TypeOK, Turn, NoTurn
<1>3. /\ mode \in {"newTurn", "activeTurn", "read"}
      /\ presented \in {"none", "activeTurn", "newTurn"}
      /\ mode = "activeTurn" => Native
  BY DEF Mode
<1>4. as \in SteerRecord
  BY <1>2, <1>3 DEF NewSteer, SteerRecord, SteerState
<1>5. as.message = m /\ as.target = active /\ as.leader = NoOne /\ ~as.inserted /\ ~as.halted
  BY DEF NewSteer
<1>6. Deliver(r, as, mode)
  BY DEF SteerBegins
<1> HIDE DEF as
<1>7. /\ pending.steer = NoOne /\ steer[r].pc = "new" /\ closed = "no" /\ receipt[m] = NoOne
      /\ TrackInsert(r) /\ receipt' = [receipt EXCEPT ![m] = r]
      /\ UNCHANGED <<starts, turnVars, consumer, lookVars, queueVars, closed>>
  BY DEF SteerBegins, Free, Reservation
<1>8. /\ \A q \in Steer : q # r => steer'[q] = steer[q]
      /\ steer'[r].pc = PcOf(mode) /\ steer'[r].message = m /\ steer'[r].leader = NoOne
  BY <1>1, <1>3, <1>4, <1>5, <1>6, <1>7, DeliverDoes DEF OthersReserve
<1>9. receipt' \in [Message -> Steer \cup {NoOne}]
      /\ \A n \in Message : receipt'[n] = IF n = m THEN r ELSE receipt[n]
  BY <1>1, <1>7 DEF SteerTypes
<1>10. Carried'
  <2>1. Carried /\ r # NoOne
    BY TurnsAssumption DEF Whole
  <2>2. \A q \in Steer : Carrier(q) => steer[q].message # m /\ steer[q].message \in Message
    BY <1>7, <2>1, TurnsAssumption DEF Carried, Carrier
  <2>3. \A q \in Steer : Carrier(q)' /\ q # r => Carrier(q) /\ steer'[q].message = steer[q].message
    BY <1>8 DEF Carrier
  <2>4. \A q \in Steer : steer'[q].pc # "new" => steer'[q].message \in Message
    BY <1>8, <2>1 DEF Carried
  <2>5. \A q \in Steer : Carrier(q)' => receipt'[steer'[q].message] = q
    BY <1>7, <1>8, <1>9, <2>1, <2>2, <2>3 DEF Carried
  <2>6. \A p, q \in Steer : Carrier(p)' /\ Carrier(q)' /\ steer'[p].message = steer'[q].message
                              => p = q
    BY <2>5
  <2> QED
    BY <2>4, <2>5, <2>6 DEF Carried
<1> QED
  BY <1>2, <1>3, <1>4, <1>5, <1>6, <1>7, <1>9, <1>10, DeliverKeeps

\* A delivery goes on after an await with the target it has.
LEMMA RedeliverKeeps ==
    ASSUME Whole, IInv', NEW r \in Steer, NEW mode \in Mode,
           steer[r].pc \in {"reading", "inserting"}, Redeliver(r, mode), TrackInsert(r),
           \/ steer[r].pc = "reading" /\ ~pending.rejected
           \/ steer[r].pc = "inserting" /\ active # NoTurn,
           UNCHANGED <<starts, turnVars, consumer, lookVars, queueVars, closed>>
    PROVE  Whole'
<1>1. Base /\ SteerTypes /\ Fit(r) /\ Shown(r)
  BY BaseTypes DEF Whole, Fits, AllShown
<1>2. CASE SteerFails(r)
  <2>1. steer'[r].pc # "inserting"
    BY <1>1, <1>2, FailMoves DEF Moved
  <2>2. inserts' = inserts \ {r}
    BY <2>1 DEF TrackInsert
  <2> QED
    BY <1>2, <2>2, FailKeeps
<1>3. CASE /\ active = steer[r].target /\ pending.steer \in {NoOne, r}
           /\ Deliver(r, steer[r], mode) /\ UNCHANGED receipt
  <2>1. steer[r] \in SteerRecord
    BY <1>1 DEF SteerTypes
  <2>2. mode \in {"newTurn", "activeTurn", "read"} /\ (mode = "activeTurn" => Native)
    BY DEF Mode
  <2>3. active # NoTurn
    BY <1>1, <1>3, NoTurnIsNoTurn DEF Shown
  <2>4. steer[r].leader = NoOne /\ ~steer[r].inserted
    BY <1>1 DEF Fit
  <2>5. Native \/ ~steer[r].halted
    BY DEF Whole, AllStopped, Stopped
  <2>6. Carried'
    <3>1. /\ \A q \in Steer : q # r => steer'[q] = steer[q]
          /\ steer'[r].message = steer[r].message /\ steer'[r].leader = steer[r].leader
      BY <1>1, <1>3, <2>1, <2>2, DeliverDoes DEF OthersReserve
    <3>2. \A q \in Steer : /\ steer'[q].message = steer[q].message
                           /\ steer'[q].pc # "new" => steer[q].pc # "new"
                           /\ Carrier(q)' => Carrier(q)
      BY <3>1, <2>4 DEF Carrier
    <3> QED
      BY <1>3, <3>2, CarriedStays DEF Whole
  <2>7. receipt' \in [Message -> Steer \cup {NoOne}]
    BY <1>1, <1>3 DEF SteerTypes
  <2> QED
    BY <1>3, <2>1, <2>2, <2>3, <2>4, <2>5, <2>6, <2>7, DeliverKeeps
<1> QED
  BY <1>2, <1>3 DEF Redeliver

\* The capability read answers or fails.
LEMMA ReadsKeep ==
    ASSUME Whole, IInv', NEW r \in Steer, ReadAnswers(r) PROVE Whole'
<1>1. CASE ReadFails(r)
  BY <1>1, FailKeeps DEF ReadFails
<1>2. ASSUME NEW mode \in Mode, CapabilityRead(r, mode) PROVE Whole'
  BY <1>2, RedeliverKeeps DEF CapabilityRead
<1> QED
  BY <1>1, <1>2 DEF ReadAnswers

\* A turn/steer request arrives.
LEMMA ArrivesKeeps ==
    ASSUME Whole, IInv', NEW r \in Steer, Arrives(r) PROVE Whole'
  BY JoinKeeps, BeginSteerKeeps DEF Arrives

\* A cancel is refused, or a rejected reservation ends its steer.
LEMMA CancelsKeep ==
    ASSUME Whole, IInv', NEW r \in Steer, CancelRefused(r) \/ GivesUp(r) PROVE Whole'
  BY FailKeeps DEF CancelRefused, GivesUp

-----------------------------------------------------------------------------
(* The consumer and the stops.                                             *)

\* Steps of the consumer keep what is not about the event.
LEMMA ConsumerKeeps ==
    ASSUME Whole, IInv', TypeOK', EventEnded', AllShown',
           UNCHANGED <<turn, turns, starts, steerVars, lookVars, queueVars, closed>>
    PROVE  Whole'
<1>1. Quiet
  BY UnchangedStays DEF Quiet
<1>2. Numbered' /\ Placed' /\ Counted' /\ \A y : Kept(y) /\ (Begun(y)' <=> Begun(y))
  BY <1>1, QuietKeeps
<1>3. Fits'
  <2>1. \A q \in Steer : q # NoOne => SteerKept(q)
    BY <1>2 DEF SteerKept, steerVars
  <2> QED
    BY <2>1, FitsStay, TurnsAssumption DEF Whole
<1>4. Carried'
  BY CarriedStays DEF Whole, Carrier, steerVars
<1>5. AllStopped'
  BY <1>2 DEF Whole, AllStopped, Stopped, steerVars, Reserved
<1> QED
  BY <1>2, <1>3, <1>4, <1>5 DEF Whole, Base

\* The record of the event.
LEMMA EventFields ==
    \A t \in Turn \cup {NoTurn}, w \in SUBSET Steer,
       g \in {"none", "waiting", "published", "idle"} :
          /\ [turn |-> t, stage |-> g, waits |-> w] \in EventRecord
          /\ [turn |-> t, stage |-> g, waits |-> w].turn = t
          /\ [turn |-> t, stage |-> g, waits |-> w].stage = g
          /\ [turn |-> t, stage |-> g, waits |-> w].waits = w
  BY DEF EventRecord

\* The consumer takes the terminal event, with the insertions it sees.
LEMMA ArrivalKeeps ==
    ASSUME Whole, IInv', NEW t \in Turn, EventArrives(t) PROVE Whole'
<1>1. Base
  BY DEF Whole
<1>2. /\ consumer' \in EventRecord /\ consumer'.turn = t
      /\ consumer'.stage = "waiting" /\ consumer'.waits = inserts
  BY <1>1, BaseTypes, EventFields DEF EventArrives
<1>3. turn[t].native \in Ended /\ t <= turns
  <2>1. turns \in Nat /\ t \in Int
    BY <1>1, SteersAreCounted DEF Base, TypeOK, Turn
  <2>2. turn[t].native \in Ended /\ Stage(t) = "taken"
    BY DEF EventArrives, Stage, HasInput
  <2> QED
    BY <1>1, <2>1, <2>2 DEF Base, Numbered
<1>4. EventEnded'
  BY <1>2, <1>3 DEF EventEnded, EventArrives, turnVars
<1>5. AllShown'
  <2>1. \A u \in Turn : Stage(u)' = Stage(u)
    BY DEF Stage, HasInput, EventArrives, turnVars
  <2> QED
    BY <1>2, <2>1 DEF Whole, AllShown, Shown, EventArrives, turnVars, steerVars
<1>6. TypeOK'
  BY <1>1, <1>2, BaseTypes, SteerTypesSuffice
     DEF EventArrives, turnVars, steerVars, SteerTypes, Reserved, Free, Reservation
<1> QED
  BY <1>4, <1>5, <1>6, ConsumerKeeps DEF EventArrives, turnVars

\* The Thread becomes idle for Desktop.
LEMMA IdlingKeeps ==
    ASSUME Whole, IInv', BecomesIdle PROVE Whole'
<1>1. Base
  BY DEF Whole
<1>2. consumer.turn \in Turn \cup {NoTurn} /\ consumer.waits \in SUBSET Steer
      /\ consumer.stage = "published"
  BY <1>1, BaseTypes DEF EventRecord, BecomesIdle
<1>3. consumer' \in EventRecord /\ consumer'.turn = consumer.turn /\ consumer'.stage = "idle"
  BY <1>2, EventFields DEF BecomesIdle
<1>4. EventEnded'
  BY <1>1, <1>2, <1>3 DEF Base, EventEnded, BecomesIdle
<1>5. AllShown'
  <2>1. \A u \in Turn : Stage(u)' = Stage(u)
    BY DEF Stage, HasInput, BecomesIdle
  <2> QED
    BY <1>3, <2>1 DEF Whole, AllShown, Shown, BecomesIdle, steerVars
<1>6. TypeOK'
  BY <1>1, <1>3, BaseTypes, SteerTypesSuffice
     DEF BecomesIdle, steerVars, SteerTypes, Reserved, Free, Reservation
<1> QED
  BY <1>4, <1>5, <1>6, ConsumerKeeps DEF BecomesIdle

\* The Turn ends for the Host when the insertions it waited for are shown.
LEMMA PublicationKeeps ==
    ASSUME Whole, IInv', Publish PROVE Whole'
<1>1. Base
  BY DEF Whole
<1>2. /\ consumer.turn \in Turn /\ consumer.waits \in SUBSET Steer
      /\ consumer.stage = "waiting" /\ active = consumer.turn
      /\ turn[consumer.turn].native \in Ended
  BY <1>1, BaseTypes DEF EventRecord, Publish, Base, IInv, Core, EventIsActive
<1>3. consumer' \in EventRecord /\ consumer'.turn = consumer.turn
      /\ consumer'.stage = "published"
  BY <1>2, EventFields DEF Publish
<1>4. EventEnded'
  BY <1>1, <1>2, <1>3 DEF Base, EventEnded, Publish
<1>5. AllShown'
  <2> SUFFICES ASSUME NEW q \in Steer PROVE Shown(q)'
    BY DEF AllShown
  <2>1. Shown(q)
    BY DEF Whole, AllShown
  <2>2. steer[q].pc # "projecting"
    BY <1>2, <2>1 DEF Shown, Publish
  <2>3. steer[q].pc = "inserting" =>
           turn[steer[q].target].native \notin {"starting", "running"}
    <3>1. CASE steer[q].target = consumer.turn
      BY <1>2, <3>1 DEF Ended
    <3>2. CASE steer[q].target # consumer.turn
      BY <1>1, <1>2, <2>1, <3>2 DEF Shown, Base, IInv, Core, OneNativeTurn
    <3> QED
      BY <3>1, <3>2
  <2> QED
    BY <2>1, <2>2, <2>3 DEF Shown, Publish, steerVars
<1>6. TypeOK'
  <2>1. active' \in 0 .. turns'
    BY <1>1 DEF Publish, Base, TypeOK, NoTurn
  <2>2. projected' \in 0 .. turns'
    BY <1>1, <1>2 DEF Publish, Base, TypeOK
  <2> QED
    BY <1>1, <1>3, <2>1, <2>2
       DEF Base, TypeOK, Publish, steerVars, lookVars, queueVars, Reserved, Free, Reservation,
           IInv, StatusTypes
<1> QED
  BY <1>4, <1>5, <1>6, ConsumerKeeps DEF Publish

\* The steers a stop comes upon: they reserve the Thread, which is rejected.
LEMMA InterruptKeeps ==
    ASSUME Whole, IInv', NEW t \in Turn, Interrupt(t) PROVE Whole'
<1>1. Quiet /\ ConsumerRests /\ Base /\ SteerTypes
  BY UnchangedStays, BaseTypes DEF Quiet, ConsumerRests, turnVars, Whole, Interrupt
<1> DEFINE halts(q) == InFlight(q) /\ steer[q].target = t
<1>2. steer' = [q \in Steer |-> IF halts(q) THEN [steer[q] EXCEPT !.halted = TRUE] ELSE steer[q]]
  BY DEF Interrupt
<1>3. \A q \in Steer :
         LET s == [steer[q] EXCEPT !.halted = TRUE] IN
            /\ s \in SteerRecord /\ s.pc = steer[q].pc /\ s.message = steer[q].message
            /\ s.target = steer[q].target /\ s.leader = steer[q].leader
            /\ (s.inserted <=> steer[q].inserted)
  BY <1>1 DEF SteerTypes, SteerRecord
<1> HIDE DEF halts
<1>4. \A q \in Steer :
         /\ steer'[q] \in SteerRecord /\ steer'[q].pc = steer[q].pc
         /\ steer'[q].message = steer[q].message
         /\ steer'[q].target = steer[q].target /\ steer'[q].leader = steer[q].leader
         /\ (steer'[q].inserted <=> steer[q].inserted)
         /\ ~halts(q) => steer'[q] = steer[q]
  <2> SUFFICES ASSUME NEW q \in Steer
               PROVE  /\ steer'[q] \in SteerRecord /\ steer'[q].pc = steer[q].pc
                      /\ steer'[q].message = steer[q].message
                      /\ steer'[q].target = steer[q].target /\ steer'[q].leader = steer[q].leader
                      /\ (steer'[q].inserted <=> steer[q].inserted)
                      /\ ~halts(q) => steer'[q] = steer[q]
    OBVIOUS
  <2>1. steer[q] \in SteerRecord
    BY <1>1 DEF SteerTypes
  <2>2. CASE halts(q)
    BY <1>2, <1>3, <2>2
  <2>3. CASE ~halts(q)
    BY <1>2, <2>1, <2>3
  <2> QED
    BY <2>2, <2>3
<1>5. steer' \in [Steer -> SteerRecord]
  BY <1>2, <1>4
<1>6. /\ pending' \in PendingRecord /\ pending'.steer = pending.steer
      /\ pending.rejected => pending'.rejected
      /\ pending.steer = NoOne => pending' = pending
      /\ pending # Free /\ steer[pending.steer].target = t => pending'.rejected
  <2>1. CASE pending # Free /\ steer[pending.steer].target = t
    <3>1. pending' = [pending EXCEPT !.rejected = TRUE]
      BY <2>1 DEF Interrupt, RejectPending
    <3> QED
      BY <1>1, <2>1, <3>1, RejectingKeepsTypes
  <2>2. CASE ~(pending # Free /\ steer[pending.steer].target = t)
    <3>1. pending' = pending
      BY <2>2 DEF Interrupt, RejectPending
    <3> QED
      BY <1>1, <2>2, <3>1 DEF SteerTypes
  <2> QED
    BY <2>1, <2>2
<1>7. TypeOK'
  <2>1. SteerTypes'
    BY <1>1, <1>5, <1>6 DEF SteerTypes, Reserved, Free, Reservation, Interrupt
  <2> QED
    BY <1>1, <2>1, BaseTypes, SteerTypesSuffice DEF Interrupt, turnVars
<1>8. Numbered' /\ Placed' /\ Counted' /\ \A y : Kept(y) /\ (Begun(y)' <=> Begun(y))
  BY <1>1, QuietKeeps
<1>9. EventEnded'
  BY <1>1, EventStays DEF Quiet
<1>10. Fits'
  <2>1. \A q \in Steer : q # NoOne => SteerKept(q)
    BY <1>4, <1>6, <1>8 DEF SteerKept
  <2> QED
    BY <2>1, FitsStay, TurnsAssumption DEF Whole
<1>11. AllShown'
  <2> SUFFICES ASSUME NEW q \in Steer PROVE Shown(q)'
    BY DEF AllShown
  <2>1. Shown(q) /\ Stays /\ active' = active /\ inserts' = inserts
    BY <1>1 DEF Whole, AllShown, Quiet, Interrupt, turnVars
  <2> QED
    BY <1>1, <1>4, <2>1, ShownStays
<1>12. Carried'
  BY <1>4, CarriedStays DEF Whole, Carrier, Interrupt
<1>13. AllStopped'
  <2> SUFFICES ASSUME ~Native, NEW q \in Steer PROVE Stopped(q)'
    BY DEF AllStopped
  <2>1. Stopped(q) /\ Fit(q)
    BY DEF Whole, AllStopped, Fits
  <2>2. CASE ~halts(q)
    BY <1>4, <1>6, <1>8, <2>1, <2>2 DEF Stopped, Reserved
  <2>3. CASE halts(q)
    <3>1. steer[q].pc \in Reserving \cup {"inserting"} \/ Waiting(q)
      BY <2>3 DEF halts, InFlight, Reserving, Waiting
    <3>2. Reserved(q) /\ ~Begun(q)
      BY <2>1, <3>1 DEF Fit, Early, Reserving, Stopped
    <3>3. pending'.rejected
      BY <1>6, <2>3, <3>2, TurnsAssumption DEF halts, Reserved, Free, Reservation
    <3> QED
      BY <1>4, <1>6, <1>8, <2>1, <3>2, <3>3 DEF Stopped, Reserved
  <2> QED
    BY <2>2, <2>3
<1> QED
  BY <1>7, <1>8, <1>9, <1>10, <1>11, <1>12, <1>13 DEF Whole, Base

\* A gate opens, or a native Turn ends: nobody's start is touched.
LEMMA TurnStepKeeps ==
    ASSUME Whole, IInv', Stays, turn' \in [Turn -> TurnRecord],
           UNCHANGED <<starts, active, projected, inserts, consumer, steerVars, lookVars,
                       queueVars, closed>>
    PROVE  Whole'
<1>1. Base /\ Quiet /\ ConsumerRests
  BY DEF Whole, Quiet, ConsumerRests
<1>2. TypeOK'
  <2>1. SteerTypes'
    BY <1>1, BaseTypes DEF SteerTypes, steerVars, Reserved, Free, Reservation
  <2> QED
    BY <1>1, <2>1, BaseTypes, SteerTypesSuffice DEF Stays
<1>3. OthersReserve(NoOne)
  BY DEF OthersReserve, steerVars, Reserved
<1>4. Carried'
  BY CarriedStays DEF Whole, Carrier, steerVars
<1> QED
  BY <1>1, <1>2, <1>3, <1>4, SteerStepKeeps, TurnsAssumption

-----------------------------------------------------------------------------
(* Starts.                                                                 *)

\* What a step that is about caller x leaves to the others.
OthersQueue(x) ==
    \A s \in Submission : s # x => /\ InQueue(s)' <=> InQueue(s)
                                   /\ s \in added' <=> s \in added
                                   /\ s \in deleted' <=> s \in deleted
                                   /\ taken'[s] = taken[s]
OthersLook(x) == \A y \in Caller : y # x => (Waiting(y)' <=> Waiting(y))

\* How the Turns change when caller x starts, is answered or fails.
StartMoves(x) ==
    \/ Stays /\ active' = active
    \/ Makes(x) /\ active = NoTurn
    \/ \E u \in Turn : turn[u].by = x /\ Answers(u, "taken") /\ active' = active
    \/ \E u \in Turn : turn[u].by = x /\ Answers(u, "rejected") /\ active = u

\* What happens to the start of x happens to no other caller.
LEMMA MovesKeepOthers ==
    ASSUME Base, NEW x \in Caller, StartMoves(x), NEW y, y # x, y # NoOne
    PROVE  TurnsKept(y)
<1>1. turns \in Nat /\ Numbered
  BY DEF Base, TypeOK
<1> QED
  BY <1>1, StaysKeep, MakesKeep, AnswersKeep DEF StartMoves

\* A step of the start of x keeps the invariant when x itself comes out right.
LEMMA StartKeeps ==
    ASSUME Whole, IInv', TypeOK', NEW x \in Caller, StartMoves(x), ConsumerRests,
           OthersLook(x), OthersReserve(x), OthersQueue(x), Distinct',
           \A q \in Steer : q \in inserts /\ q # x => q \in inserts',
           x \in Steer => /\ Fit(x)' /\ (~Native => Stopped(x)')
                          /\ steer'[x].pc \in {"starting", "replying", "failed"},
           x \in Submission => Place(x)',
           Carried', Counted'
    PROVE  Whole'
<1>1. Base /\ Steer \subseteq Caller /\ Submission \subseteq Caller
  BY DEF Whole, Caller
<1>2. \A y \in Steer \cup Submission : y # x => Kept(y) /\ (Begun(y)' <=> Begun(y))
  BY <1>1, MovesKeepOthers, BegunStays, TurnsAssumption DEF Kept, OthersLook
<1>3. Numbered' /\ EventEnded'
  BY <1>1, NumbersStay, EventStays DEF StartMoves
<1>4. Fits'
  <2>1. \A q \in Steer : q # x => SteerKept(q)
    BY <1>2 DEF SteerKept, OthersReserve
  <2> QED
    BY <2>1, FitsStay DEF Whole
<1>5. AllShown'
  <2> SUFFICES ASSUME NEW q \in Steer PROVE Shown(q)'
    BY DEF AllShown
  <2>1. Shown(q)
    BY DEF Whole, AllShown
  <2>2. CASE q = x
    BY <2>2 DEF Shown
  <2>3. CASE q # x
    <3>1. steer'[q].pc = steer[q].pc /\ steer'[q].target = steer[q].target
          /\ (q \in inserts => q \in inserts')
      BY <2>3 DEF OthersReserve
    <3>2. \/ Stays /\ active' = active
          \/ active = NoTurn /\ \E y \in Caller : Makes(y)
          \/ \E u \in Turn : Answers(u, "taken") /\ active' = active
          \/ \E u \in Turn : Answers(u, "rejected") /\ active = u
      BY DEF StartMoves
    <3> QED
      BY <1>1, <2>1, <3>1, <3>2, ShownStays
  <2> QED
    BY <2>2, <2>3
<1>6. AllStopped'
  <2> SUFFICES ASSUME ~Native, NEW q \in Steer, q # x PROVE Stopped(q)'
    BY DEF AllStopped
  <2>1. Stopped(q) /\ steer'[q] = steer[q] /\ (Reserved(q)' <=> Reserved(q))
        /\ (Reserved(q) /\ pending.rejected => pending'.rejected)
    BY DEF Whole, AllStopped, OthersReserve, Reserved
  <2> QED
    BY <1>2, <2>1 DEF Stopped
<1>7. Placed'
  <2>1. \A s \in Submission : s # x => SubmissionKept(s)
    BY <1>2 DEF SubmissionKept, OthersQueue
  <2> QED
    BY <2>1, PlacesStay DEF Whole
<1> QED
  BY <1>1, <1>3, <1>4, <1>5, <1>6, <1>7 DEF Whole, Base

-----------------------------------------------------------------------------
(* The queue as a sequence without repetition.                             *)

Unique(q) == \A i, j \in 1 .. Len(q) : q[i] = q[j] => i = j

\* RemoveAt, entry by entry.
LEMMA RemoveDoes ==
    ASSUME NEW S, NEW q \in Seq(S), NEW i \in 1 .. Len(q)
    PROVE  /\ RemoveAt(q, i) \in Seq(S)
           /\ Len(RemoveAt(q, i)) = Len(q) - 1
           /\ \A j \in 1 .. Len(q) - 1 : RemoveAt(q, i)[j] = IF j < i THEN q[j] ELSE q[j + 1]
<1> DEFINE a == SubSeq(q, 1, i - 1)
           b == SubSeq(q, i + 1, Len(q))
<1>1. Len(q) \in Nat /\ i \in Int /\ 1 <= i /\ i <= Len(q) /\ \A j \in 1 .. Len(q) : q[j] \in S
  BY LenProperties, ElementOfSeq
<1>2. /\ a \in Seq(S) /\ Len(a) = i - 1
      /\ \A j \in 1 .. i - 1 : a[j] = q[j]
  <2>1. \A j \in 1 .. i - 1 : q[j] \in S
    BY <1>1
  <2>2. 1 \in Int /\ i - 1 \in Int
    BY <1>1
  <2>3. /\ SubSeq(q, 1, i - 1) \in Seq(S)
        /\ Len(SubSeq(q, 1, i - 1)) = IF 1 <= i - 1 THEN (i - 1) - 1 + 1 ELSE 0
        /\ \A j \in 1 .. (i - 1) - 1 + 1 : SubSeq(q, 1, i - 1)[j] = q[1 + j - 1]
    BY <2>1, <2>2, SubSeqProperties
  <2> QED
    BY <1>1, <2>3
<1>3. /\ b \in Seq(S) /\ Len(b) = Len(q) - i
      /\ \A j \in 1 .. Len(q) - i : b[j] = q[i + j]
  <2>1. \A j \in i + 1 .. Len(q) : q[j] \in S
    BY <1>1
  <2>2. i + 1 \in Int /\ Len(q) \in Int
    BY <1>1
  <2>3. /\ SubSeq(q, i + 1, Len(q)) \in Seq(S)
        /\ Len(SubSeq(q, i + 1, Len(q))) = IF i + 1 <= Len(q) THEN Len(q) - (i + 1) + 1 ELSE 0
        /\ \A j \in 1 .. Len(q) - (i + 1) + 1 : SubSeq(q, i + 1, Len(q))[j] = q[(i + 1) + j - 1]
    BY <2>1, <2>2, SubSeqProperties
  <2> QED
    BY <1>1, <2>3
<1> HIDE DEF a, b
<1>4. /\ a \o b \in Seq(S) /\ Len(a \o b) = Len(a) + Len(b)
      /\ \A j \in 1 .. Len(a) + Len(b) : (a \o b)[j] = IF j <= Len(a) THEN a[j] ELSE b[j - Len(a)]
  BY <1>2, <1>3, ConcatProperties
<1>5. RemoveAt(q, i) = a \o b
  BY DEF RemoveAt, a, b
<1>6. Len(a) + Len(b) = Len(q) - 1
  BY <1>1, <1>2, <1>3
<1>7. ASSUME NEW j \in 1 .. Len(q) - 1
      PROVE  (a \o b)[j] = IF j < i THEN q[j] ELSE q[j + 1]
  <2>1. CASE j < i
    BY <1>1, <1>2, <1>4, <1>6, <2>1
  <2>2. CASE ~(j < i)
    <3>1. j - Len(a) \in 1 .. Len(q) - i /\ i + (j - Len(a)) = j + 1 /\ ~(j <= Len(a))
      BY <1>1, <1>2, <2>2
    <3> QED
      BY <1>3, <1>4, <1>6, <2>2, <3>1
  <2> QED
    BY <2>1, <2>2
<1> QED
  BY <1>4, <1>5, <1>6, <1>7

\* r is q with e put in before its entry i, entry by entry.
WithEntry(r, S, q, i, e) ==
    /\ r \in Seq(S) /\ Len(r) = Len(q) + 1
    /\ \A j \in 1 .. Len(q) + 1 :
          r[j] = IF j < i THEN q[j] ELSE IF j = i THEN e ELSE q[j - 1]

\* InsertAt does this.
LEMMA InsertDoes ==
    ASSUME NEW S, NEW q \in Seq(S), NEW i \in 1 .. Len(q) + 1, NEW e \in S
    PROVE  WithEntry(InsertAt(q, i, e), S, q, i, e)
<1> DEFINE a == SubSeq(q, 1, i - 1)
           b == SubSeq(q, i, Len(q))
           c == a \o <<e>>
<1>1. Len(q) \in Nat /\ i \in Int /\ 1 <= i /\ i <= Len(q) + 1 /\ \A j \in 1 .. Len(q) : q[j] \in S
  BY LenProperties, ElementOfSeq
<1>2. /\ a \in Seq(S) /\ Len(a) = i - 1
      /\ \A j \in 1 .. i - 1 : a[j] = q[j]
  <2>1. \A j \in 1 .. i - 1 : q[j] \in S
    BY <1>1
  <2>2. 1 \in Int /\ i - 1 \in Int
    BY <1>1
  <2>3. /\ SubSeq(q, 1, i - 1) \in Seq(S)
        /\ Len(SubSeq(q, 1, i - 1)) = IF 1 <= i - 1 THEN (i - 1) - 1 + 1 ELSE 0
        /\ \A j \in 1 .. (i - 1) - 1 + 1 : SubSeq(q, 1, i - 1)[j] = q[1 + j - 1]
    BY <2>1, <2>2, SubSeqProperties
  <2> QED
    BY <1>1, <2>3
<1>3. /\ b \in Seq(S) /\ Len(b) = Len(q) - i + 1
      /\ \A j \in 1 .. Len(q) - i + 1 : b[j] = q[i + j - 1]
  <2>1. \A j \in i .. Len(q) : q[j] \in S
    BY <1>1
  <2>2. i \in Int /\ Len(q) \in Int
    BY <1>1
  <2>3. /\ SubSeq(q, i, Len(q)) \in Seq(S)
        /\ Len(SubSeq(q, i, Len(q))) = IF i <= Len(q) THEN Len(q) - i + 1 ELSE 0
        /\ \A j \in 1 .. Len(q) - i + 1 : SubSeq(q, i, Len(q))[j] = q[i + j - 1]
    BY <2>1, <2>2, SubSeqProperties
  <2> QED
    BY <1>1, <2>3
<1> HIDE DEF a, b
<1>4. <<e>> \in Seq(S) /\ Len(<<e>>) = 1 /\ <<e>>[1] = e
  OBVIOUS
<1>5. /\ c \in Seq(S) /\ Len(c) = i
      /\ \A j \in 1 .. i : c[j] = IF j < i THEN q[j] ELSE e
  <2>1. /\ c \in Seq(S) /\ Len(c) = Len(a) + 1
        /\ \A j \in 1 .. Len(a) + 1 : c[j] = IF j <= Len(a) THEN a[j] ELSE <<e>>[j - Len(a)]
    BY <1>2, <1>4, ConcatProperties
  <2> QED
    BY <1>1, <1>2, <1>4, <2>1
<1> HIDE DEF c
<1>6. /\ c \o b \in Seq(S) /\ Len(c \o b) = Len(c) + Len(b)
      /\ \A j \in 1 .. Len(c) + Len(b) : (c \o b)[j] = IF j <= Len(c) THEN c[j] ELSE b[j - Len(c)]
  BY <1>3, <1>5, ConcatProperties
<1>7. WithEntry(c \o b, S, q, i, e)
  BY <1>1, <1>3, <1>5, <1>6 DEF WithEntry
<1>8. InsertAt(q, i, e) = c \o b
  BY DEF InsertAt, a, b, c
<1> QED
  BY <1>7, <1>8

\* Taking the entry at i out.
LEMMA RemoveHolds ==
    ASSUME NEW S, NEW q \in Seq(S), NEW i \in 1 .. Len(q), Unique(q)
    PROVE  /\ RemoveAt(q, i) \in Seq(S) /\ Unique(RemoveAt(q, i))
           /\ \A s : Contains(RemoveAt(q, i), s) <=> Contains(q, s) /\ s # q[i]
<1> DEFINE r == RemoveAt(q, i)
           n == Len(q)
<1>1. /\ r \in Seq(S) /\ Len(r) = n - 1 /\ n \in Nat /\ i \in 1 .. n
      /\ \A j \in 1 .. n - 1 : r[j] = IF j < i THEN q[j] ELSE q[j + 1]
  BY RemoveDoes, LenProperties
<1> HIDE DEF r
<1>2. Unique(r)
  <2> SUFFICES ASSUME NEW j \in 1 .. n - 1, NEW k \in 1 .. n - 1, r[j] = r[k] PROVE j = k
    BY <1>1 DEF Unique
  <2>1. \A u \in 1 .. n - 1 : \E v \in 1 .. n : v = (IF u < i THEN u ELSE u + 1) /\ r[u] = q[v]
    BY <1>1
  <2>2. PICK v \in 1 .. n : v = (IF j < i THEN j ELSE j + 1) /\ r[j] = q[v]
    BY <2>1
  <2>3. PICK w \in 1 .. n : w = (IF k < i THEN k ELSE k + 1) /\ r[k] = q[w]
    BY <2>1
  <2>4. v = w
    BY <2>2, <2>3 DEF Unique
  <2> QED
    BY <1>1, <2>2, <2>3, <2>4
<1>3. ASSUME NEW s, Contains(r, s) PROVE Contains(q, s) /\ s # q[i]
  <2>1. PICK j \in 1 .. n - 1 : r[j] = s
    BY <1>1, <1>3 DEF Contains
  <2>2. PICK v \in 1 .. n : v = (IF j < i THEN j ELSE j + 1) /\ q[v] = s
    BY <1>1, <2>1
  <2>3. v # i
    BY <1>1, <2>2
  <2> QED
    BY <1>1, <2>2, <2>3 DEF Contains, Unique
<1>4. ASSUME NEW s, Contains(q, s), s # q[i] PROVE Contains(r, s)
  <2>1. PICK v \in 1 .. n : q[v] = s
    BY <1>4 DEF Contains
  <2>2. v # i
    BY <1>4, <2>1
  <2>3. CASE v < i
    <3>1. v \in 1 .. n - 1 /\ r[v] = s
      BY <1>1, <2>1, <2>3
    <3> QED
      BY <1>1, <3>1 DEF Contains
  <2>4. CASE v > i
    <3>1. v - 1 \in 1 .. n - 1 /\ ~(v - 1 < i) /\ (v - 1) + 1 = v
      BY <1>1, <2>4
    <3>2. r[v - 1] = s
      BY <1>1, <2>1, <3>1
    <3> QED
      BY <1>1, <3>1, <3>2 DEF Contains
  <2> QED
    BY <1>1, <2>2, <2>3, <2>4
<1> QED
  BY <1>1, <1>2, <1>3, <1>4 DEF r

\* Putting an entry in that is not there.
LEMMA InsertHolds ==
    ASSUME NEW S, NEW q \in Seq(S), NEW i \in 1 .. Len(q) + 1, NEW e \in S,
           Unique(q), ~Contains(q, e)
    PROVE  /\ InsertAt(q, i, e) \in Seq(S) /\ Unique(InsertAt(q, i, e))
           /\ \A s : Contains(InsertAt(q, i, e), s) <=> Contains(q, s) \/ s = e
<1> DEFINE r == InsertAt(q, i, e)
           n == Len(q)
<1>1. /\ r \in Seq(S) /\ Len(r) = n + 1 /\ n \in Nat /\ i \in 1 .. n + 1
      /\ \A j \in 1 .. n + 1 : r[j] = IF j < i THEN q[j] ELSE IF j = i THEN e ELSE q[j - 1]
  <2>1. WithEntry(r, S, q, i, e)
    BY InsertDoes
  <2>2. Len(q) \in Nat
    BY LenProperties
  <2> HIDE DEF r
  <2> QED
    BY <2>1, <2>2 DEF WithEntry
<1> HIDE DEF r
<1>2. \A j \in 1 .. n + 1 : j # i => \E v \in 1 .. n : v = (IF j < i THEN j ELSE j - 1) /\ r[j] = q[v]
  BY <1>1
<1>3. r[i] = e /\ \A j \in 1 .. n + 1 : j # i => r[j] # e
  BY <1>1, <1>2 DEF Contains
<1>4. Unique(r)
  <2> SUFFICES ASSUME NEW j \in 1 .. n + 1, NEW k \in 1 .. n + 1, r[j] = r[k] PROVE j = k
    BY <1>1 DEF Unique
  <2>1. CASE j = i \/ k = i
    BY <1>3, <2>1
  <2>2. CASE j # i /\ k # i
    <3>1. PICK v \in 1 .. n : v = (IF j < i THEN j ELSE j - 1) /\ r[j] = q[v]
      BY <1>2, <2>2
    <3>2. PICK w \in 1 .. n : w = (IF k < i THEN k ELSE k - 1) /\ r[k] = q[w]
      BY <1>2, <2>2
    <3>3. v = w
      BY <3>1, <3>2 DEF Unique
    <3> QED
      BY <1>1, <2>2, <3>1, <3>2, <3>3
  <2> QED
    BY <2>1, <2>2
<1>5. ASSUME NEW s, Contains(r, s) PROVE Contains(q, s) \/ s = e
  <2>1. PICK j \in 1 .. n + 1 : r[j] = s
    BY <1>1, <1>5 DEF Contains
  <2> QED
    BY <1>2, <1>3, <2>1 DEF Contains
<1>6. ASSUME NEW s, Contains(q, s) PROVE Contains(r, s)
  <2>1. PICK v \in 1 .. n : q[v] = s
    BY <1>6 DEF Contains
  <2>2. CASE v < i
    <3>1. v \in 1 .. n + 1 /\ r[v] = s
      BY <1>1, <2>1, <2>2
    <3> QED
      BY <1>1, <3>1 DEF Contains
  <2>3. CASE ~(v < i)
    <3>1. v + 1 \in 1 .. n + 1 /\ ~(v + 1 < i) /\ v + 1 # i /\ (v + 1) - 1 = v
      BY <1>1, <2>3
    <3>2. r[v + 1] = s
      BY <1>1, <2>1, <3>1
    <3> QED
      BY <1>1, <3>1, <3>2 DEF Contains
  <2> QED
    BY <2>2, <2>3
<1>7. Contains(r, e)
  BY <1>1, <1>3 DEF Contains
<1> QED
  BY <1>1, <1>4, <1>5, <1>6, <1>7 DEF r

-----------------------------------------------------------------------------
(* The start of a caller fails, waits for the Harness, or for the catalog. *)

QueueTypes ==
    /\ queue \in Seq(Submission) /\ taken \in [Submission -> Nat]
    /\ added \subseteq Submission /\ deleted \subseteq Submission
    /\ unchecked \subseteq added

\* What every start leaves of the types.
LEMMA TypesHold ==
    ASSUME IInv', SteerTypes', QueueTypes', turn' \in [Turn -> TurnRecord],
           turns' \in 0 .. MaxStarts + Cardinality(Steer), starts' \in 0 .. MaxStarts,
           active' \in 0 .. turns', projected' \in 0 .. turns',
           inserts' \subseteq Steer, consumer' \in EventRecord,
           looking' \subseteq Caller, commandPending' \in BOOLEAN,
           starter' \in {"off", "selecting", "looking"},
           closed' \in {"no", "steering", "host"}
    PROVE  TypeOK'
  BY DEF TypeOK, SteerTypes, QueueTypes, IInv, StatusTypes

\* A steer that fails takes its own receipt away, and no other.
LEMMA CarriedAfterFail ==
    ASSUME Carried, NEW r \in Steer, Moved(r, "failed"), steer[r].pc # "new",
           closed' = closed,
           \A m \in Message : receipt[m] # r => receipt'[m] = receipt[m]
    PROVE  Carried'
<1>1. \A q \in Steer : /\ steer'[q].message = steer[q].message
                       /\ steer'[q].pc # "new" => steer[q].pc # "new"
                       /\ Carrier(q)' => Carrier(q) /\ q # r
  BY DEF Moved, Carrier
<1>2. closed = "no" => \A q \in Steer : Carrier(q)' =>
                          receipt'[steer[q].message] = receipt[steer[q].message]
  BY <1>1 DEF Carried, Carrier
<1> QED
  BY <1>1, <1>2, CarriedStays

\* restore: a follow-up whose start failed is in the queue again.
LEMMA RestoreDoes ==
    ASSUME Base, Placed, NEW x \in Submission, Restore(x),
           Waiting(x) \/ \E u \in Turn : turn[u].by = x /\ Stage(u) = "starting",
           UNCHANGED <<added, deleted, unchecked>>
    PROVE  /\ QueueTypes' /\ Distinct' /\ OthersQueue(x)
           /\ InQueue(x)' /\ x \in added' /\ x \notin deleted'
<1>1. Place(x) /\ Distinct
  BY DEF Placed
<1>2. ~Rests(x) \/ Waiting(x)
  BY DEF Rests
<1>3. ~InQueue(x) /\ x \in added /\ x \notin deleted /\ taken[x] # 0
  BY <1>1, <1>2 DEF Place, Begun
<1>4. /\ queue \in Seq(Submission) /\ taken \in [Submission -> Nat]
      /\ added \subseteq Submission /\ deleted \subseteq Submission
      /\ unchecked \subseteq added
  BY DEF Base, TypeOK
<1>5. Len(queue) \in Nat
  BY <1>4, LenProperties
<1> DEFINE n == Len(queue) + 1
           i == IF taken[x] < n THEN taken[x] ELSE n
<1>6. i \in 1 .. Len(queue) + 1
  BY <1>3, <1>4, <1>5
<1>7. queue' = InsertAt(queue, i, x) /\ taken' = [taken EXCEPT ![x] = 0]
  BY <1>3 DEF Restore, InQueue
<1> HIDE DEF i
<1>8. Unique(queue) /\ ~Contains(queue, x)
  BY <1>1, <1>3 DEF Distinct, Unique, InQueue
<1>9. /\ queue' \in Seq(Submission) /\ Unique(queue')
      /\ \A s : Contains(queue', s) <=> Contains(queue, s) \/ s = x
  BY <1>4, <1>6, <1>7, <1>8, InsertHolds
<1>10. QueueTypes'
  BY <1>4, <1>7, <1>9 DEF QueueTypes
<1>11. OthersQueue(x)
  BY <1>4, <1>7, <1>9 DEF OthersQueue, InQueue
<1>12. Distinct' /\ InQueue(x)'
  BY <1>9 DEF Distinct, Unique, InQueue
<1> QED
  BY <1>3, <1>10, <1>11, <1>12

\* The Turns of the others, and of the caller, when its start ends without one.
FailMovesTurns(x) ==
    /\ turn' \in [Turn -> TurnRecord] /\ UNCHANGED <<turns, projected>>
    /\ \/ Stays /\ active' = active
       \/ \E u \in Turn : /\ turn[u].by = x /\ Answers(u, "rejected")
                          /\ active = u /\ active' \in {NoTurn, active}
    /\ \A t \in Turn : x \in Steer \cup Submission /\ turn[t].by = x => Stage(t)' = "rejected"

\* The start of caller x fails.
LEMMA CallerFailKeeps ==
    ASSUME Whole, IInv', NEW x \in Caller, CallerFails(x), FailMovesTurns(x),
           UNCHANGED <<starts, consumer, closed>>,
           inserts' \in {inserts, inserts \ {x}},
           looking' \in {looking, looking \ {x}}, x # Delegate => x \notin looking',
           commandPending' \in BOOLEAN,
           x \in Steer => steer[x].pc \in {"waiting", "inserting", "starting"},
           x \in Submission => \/ Waiting(x)
                               \/ \E u \in Turn : turn[u].by = x /\ Stage(u) = "starting"
    PROVE  Whole'
<1>1. Base /\ Steer \subseteq Caller /\ Submission \subseteq Caller
  BY DEF Whole, Caller
<1>2. StartMoves(x) /\ ConsumerRests
  BY DEF FailMovesTurns, StartMoves, ConsumerRests
<1>3. OthersLook(x) /\ looking' \subseteq Caller
  BY <1>1 DEF OthersLook, Waiting, Base, TypeOK
<1>4. \A t \in Turn : turn'[t].by = turn[t].by
  BY DEF FailMovesTurns, Stays, SameTurn, Answers
<1>5. /\ SteerTypes' /\ OthersReserve(x) /\ Carried'
      /\ x \in Steer => Moved(x, "failed") /\ ~steer'[x].halted /\ ~Reserved(x)'
  <2>1. CASE x \in Steer
    <3>1. SteerFails(x)
      BY <2>1 DEF CallerFails
    <3> QED
      BY <1>1, <2>1, <3>1, FailMoves, CarriedAfterFail DEF Whole
  <2>2. CASE x \notin Steer
    <3>1. UNCHANGED steerVars
      BY <2>2 DEF CallerFails
    <3>2. SteerTypes'
      BY <1>1, <3>1, BaseTypes DEF SteerTypes, steerVars, Reserved, Free, Reservation
    <3>3. Carried'
      BY <3>1, CarriedStays DEF Whole, Carrier, steerVars
    <3> QED
      BY <2>2, <3>1, <3>2, <3>3 DEF OthersReserve, steerVars, Reserved
  <2> QED
    BY <2>1, <2>2
<1>6. /\ QueueTypes' /\ Distinct' /\ OthersQueue(x)
      /\ x \in Submission => InQueue(x)' /\ x \in added' /\ x \notin deleted'
  <2>1. CASE x \in Submission
    <3>1. Restore(x) /\ UNCHANGED <<added, deleted, unchecked>>
      BY <2>1 DEF CallerFails
    <3> QED
      BY <1>1, <2>1, <3>1, RestoreDoes DEF Whole
  <2>2. CASE x \notin Submission
    <3>1. UNCHANGED queueVars
      BY <2>2 DEF CallerFails, queueVars
    <3> QED
      BY <1>1, <2>2, <3>1
         DEF Whole, Base, TypeOK, QueueTypes, queueVars, Placed, Distinct, OthersQueue, InQueue
  <2> QED
    BY <2>1, <2>2
<1>7. x \in Submission => Place(x)'
  <2> SUFFICES ASSUME x \in Submission PROVE Place(x)'
    OBVIOUS
  <2>1. Rests(x)' /\ ~Waiting(x)'
    BY <1>4, TurnsAssumption DEF Rests, FailMovesTurns, Waiting, Delegate
  <2>2. \A t \in Turn : turn'[t].by = x => Stage(t)' = "rejected"
    BY <1>4 DEF FailMovesTurns
  <2> QED
    BY <1>6, <2>1, <2>2 DEF Place
<1>8. x \in Steer => Fit(x)' /\ Stopped(x)' /\ steer'[x].pc = "failed"
  <2> SUFFICES ASSUME x \in Steer PROVE Fit(x)' /\ Stopped(x)' /\ steer'[x].pc = "failed"
    OBVIOUS
  <2>1. Fit(x)
    BY DEF Whole, Fits
  <2>2. ~steer[x].inserted /\ steer[x].leader = NoOne
    BY <2>1 DEF Fit
  <2>3. steer'[x].pc = "failed" /\ ~steer'[x].inserted /\ steer'[x].leader = NoOne
        /\ ~steer'[x].halted /\ ~Reserved(x)'
    BY <1>5, <2>2 DEF Moved
  <2>4. \A t \in Turn : turn'[t].by = x => Stage(t)' = "rejected"
    BY <1>4 DEF FailMovesTurns
  <2>5. \A t, u \in Turn : turn'[t].by = x /\ turn'[u].by = x => t = u
    BY <1>4, <2>1 DEF Fit
  <2>6. ~Waiting(x)'
    BY TurnsAssumption DEF Waiting, Delegate
  <2>7. Fit(x)'
    BY <2>3, <2>4, <2>5, <2>6 DEF Fit, TurnFits, Early, Reserving
  <2> QED
    BY <2>3, <2>7 DEF Stopped
<1>9. starter' = IF x = User THEN "off" ELSE starter
  BY DEF CallerFails
<1>10. Counted'
  <2>1. Waits' \subseteq Waits
    BY <1>9 DEF Waits
  <2>2. Began' = Began
    BY <1>4 DEF Began, Begun
  <2>3. Room'
    BY <1>1, <1>3, <2>1, <2>2, RoomKeeps DEF Whole, Counted, FailMovesTurns
  <2>4. Waiting(User)' => starter' = "looking"
    BY <1>9 DEF Whole, Counted, Waiting, User, Delegate
  <2>5. \A t \in Turn : Stage(t)' = "starting" => Stage(t) = "starting"
    BY DEF FailMovesTurns, Stays, SameTurn, Answers
  <2>6. \A t \in Turn : turn'[t].by = User /\ Stage(t)' = "starting" => starter' = "off"
    BY <1>4, <1>9, <2>5 DEF Whole, Counted
  <2> QED
    BY <2>3, <2>4, <2>6 DEF Counted
<1>11. TypeOK'
  <2>1. active' \in 0 .. turns' /\ projected' \in 0 .. turns'
    BY <1>1 DEF FailMovesTurns, Base, TypeOK, NoTurn
  <2>2. inserts' \subseteq Steer /\ starter' \in {"off", "selecting", "looking"}
    BY <1>1, <1>9 DEF Base, TypeOK
  <2>3. consumer' \in EventRecord /\ closed' \in {"no", "steering", "host"}
        /\ turns' \in 0 .. MaxStarts + Cardinality(Steer) /\ starts' \in 0 .. MaxStarts
    BY <1>1 DEF Base, TypeOK, FailMovesTurns
  <2>4. turn' \in [Turn -> TurnRecord]
    BY DEF FailMovesTurns
  <2> QED
    BY <1>3, <1>5, <1>6, <2>1, <2>2, <2>3, <2>4, TypesHold
<1> QED
  BY <1>2, <1>3, <1>5, <1>6, <1>7, <1>8, <1>10, <1>11, StartKeeps

\* A steer that waits for its start carries what it carried.
LEMMA WaitMoves ==
    ASSUME Base, Carried, NEW x \in Steer, steer' = At(x, "starting"),
           steer[x].pc \in {"waiting", "inserting", "starting"},
           UNCHANGED <<pending, receipt, closed>>
    PROVE  Moved(x, "starting") /\ SteerTypes' /\ OthersReserve(x) /\ Carried'
<1>1. Moved(x, "starting") /\ steer' \in [Steer -> SteerRecord]
  BY AtMoves DEF SteerState
<1>2. SteerTypes'
  BY <1>1, BaseTypes DEF SteerTypes, Reserved, Free, Reservation
<1>3. OthersReserve(x)
  BY <1>1 DEF OthersReserve, Moved
<1>4. Carried'
  BY <1>1, CarriedStays DEF Moved, Carrier
<1> QED
  BY <1>1, <1>2, <1>3, <1>4

\* What is known of a caller that is about to start.
MayStart(x) ==
    /\ x \in Steer => /\ steer[x].pc \in {"waiting", "inserting", "starting"}
                      /\ ~Begun(x)
                      /\ ~Native => ~steer[x].halted

\* The Turn of caller x is begun.
LEMMA CallerBeginKeeps ==
    ASSUME Whole, IInv', NEW x \in Caller, NEW ordinary \in BOOLEAN, NEW open \in BOOLEAN,
           active = NoTurn, turns + 1 \in Turn, MakeTurn(x, ordinary, open),
           UNCHANGED closed, ConsumerRests, consumer' \in EventRecord,
           steer' = IF x \in Steer THEN At(x, "starting") ELSE steer,
           UNCHANGED <<pending, receipt>>,
           starter' = IF x = User THEN "off" ELSE starter,
           inserts' \in {inserts, inserts \ {x}},
           looking' \in {looking, looking \ {x}}, x # Delegate => x \notin looking',
           commandPending' \in BOOLEAN, starts' \in 0 .. MaxStarts,
           Room', MayStart(x),
           QueueTypes', Distinct', OthersQueue(x),
           x \in Submission => Place(x)'
    PROVE  Whole'
<1>1. Base /\ Steer \subseteq Caller /\ Submission \subseteq Caller
      /\ turns \in Nat /\ turns' = turns + 1 /\ active' = turns + 1 /\ projected' = NoTurn
  BY DEF Whole, Base, TypeOK, Caller, MakeTurn
<1>2. Makes(x) /\ turn' \in [Turn -> TurnRecord]
  BY <1>1, MakeDoes
<1>3. StartMoves(x) /\ OthersLook(x) /\ looking' \subseteq Caller
  BY <1>1, <1>2 DEF StartMoves, OthersLook, Waiting, Base, TypeOK
<1>4. /\ SteerTypes' /\ OthersReserve(x) /\ Carried'
      /\ x \in Steer => Moved(x, "starting")
  <2>1. CASE x \in Steer
    BY <1>1, <2>1, WaitMoves DEF Whole, MayStart
  <2>2. CASE x \notin Steer
    <3>1. steer' = steer
      BY <2>2
    <3>2. SteerTypes'
      BY <1>1, <3>1, BaseTypes DEF SteerTypes, Reserved, Free, Reservation
    <3>3. Carried'
      BY <3>1, CarriedStays DEF Whole, Carrier
    <3> QED
      BY <2>2, <3>1, <3>2, <3>3 DEF OthersReserve, Reserved
  <2> QED
    BY <2>1, <2>2
<1>5. x \in Steer => Fit(x)' /\ (~Native => Stopped(x)') /\ steer'[x].pc = "starting"
  <2> SUFFICES ASSUME x \in Steer
               PROVE  Fit(x)' /\ (~Native => Stopped(x)') /\ steer'[x].pc = "starting"
    OBVIOUS
  <2>1. Fit(x) /\ ~Begun(x) /\ x # NoOne
    BY TurnsAssumption DEF Whole, Fits, MayStart
  <2>2. ~steer[x].inserted /\ steer[x].leader = NoOne
    BY <2>1 DEF Fit, MayStart
  <2>3. steer'[x].pc = "starting" /\ ~steer'[x].inserted /\ steer'[x].leader = NoOne
        /\ (~Native => ~steer'[x].halted)
    BY <1>4, <2>2 DEF Moved, MayStart
  <2>4. \A t \in Turn : turn'[t].by = x => t = turns + 1 /\ Stage(t)' = "starting"
    BY <1>2, <2>1 DEF Makes, SameTurn, Begun
  <2>5. Begun(x)' /\ ~Waiting(x)'
    BY <1>2, TurnsAssumption DEF Makes, Begun, Waiting, Delegate
  <2>6. Fit(x)'
    BY <2>3, <2>4, <2>5 DEF Fit, TurnFits, Early, Reserving
  <2> QED
    BY <2>3, <2>6 DEF Stopped
<1>6. Counted'
  <2>1. Waiting(User)' => starter' = "looking"
    BY DEF Whole, Counted, Waiting, User, Delegate
  <2>2. \A t \in Turn : turn'[t].by = User /\ Stage(t)' = "starting" => starter' = "off"
    <3> SUFFICES ASSUME NEW t \in Turn, turn'[t].by = User, Stage(t)' = "starting", x # User
                 PROVE  FALSE
      OBVIOUS
    <3>1. t # turns + 1
      BY <1>2 DEF Makes
    <3>2. Stage(t) = "starting"
      BY <1>2, <3>1 DEF Makes, SameTurn
    <3>3. turn[t].native = "starting"
      BY <3>2 DEF Stage, HasInput
    <3> QED
      BY <1>1, <3>3, NoTurnIsNoTurn DEF Base, IInv, Core, OneNativeTurn
  <2> QED
    BY <2>1, <2>2 DEF Counted
<1>7. TypeOK'
  <2>1. active' \in 0 .. turns' /\ projected' \in 0 .. turns'
        /\ turns' \in 0 .. MaxStarts + Cardinality(Steer)
    BY <1>1, SteersAreCounted DEF NoTurn, Turn
  <2>2. inserts' \subseteq Steer /\ starter' \in {"off", "selecting", "looking"}
        /\ closed' \in {"no", "steering", "host"}
    BY <1>1 DEF Base, TypeOK
  <2> QED
    BY <1>2, <1>3, <1>4, <2>1, <2>2, TypesHold
<1> QED
  BY <1>3, <1>4, <1>5, <1>6, <1>7, StartKeeps

\* Caller x waits for the catalog of commands.
LEMMA CallerLookKeeps ==
    ASSUME Whole, IInv', NEW x \in Caller,
           UNCHANGED <<turn, turns, active, projected, pending, receipt, closed, inserts>>,
           ConsumerRests, consumer' \in EventRecord,
           steer' = IF x \in Steer THEN At(x, "starting") ELSE steer,
           starter' = IF x = User THEN "looking" ELSE starter,
           looking' = looking \cup {x}, commandPending' \in BOOLEAN,
           starts' \in 0 .. MaxStarts,
           Room', MayStart(x), x \in Steer => Reserved(x),
           x = User => \A t \in Turn : turn[t].by = User => Stage(t) # "starting",
           QueueTypes', Distinct', OthersQueue(x),
           x \in Submission => Place(x)'
    PROVE  Whole'
<1>1. Base /\ Steer \subseteq Caller /\ Submission \subseteq Caller
  BY DEF Whole, Caller
<1>2. Stays /\ \A t \in Turn : turn'[t] = turn[t] /\ Stage(t)' = Stage(t)
  BY UnchangedStays DEF Stage, HasInput
<1>3. StartMoves(x) /\ OthersLook(x) /\ looking' \subseteq Caller /\ Waiting(x)'
  BY <1>1, <1>2 DEF StartMoves, OthersLook, Waiting, Base, TypeOK
<1>4. /\ SteerTypes' /\ OthersReserve(x) /\ Carried'
      /\ x \in Steer => Moved(x, "starting")
  <2>1. CASE x \in Steer
    BY <1>1, <2>1, WaitMoves DEF Whole, MayStart
  <2>2. CASE x \notin Steer
    <3>1. steer' = steer
      BY <2>2
    <3>2. SteerTypes'
      BY <1>1, <3>1, BaseTypes DEF SteerTypes, Reserved, Free, Reservation
    <3>3. Carried'
      BY <3>1, CarriedStays DEF Whole, Carrier
    <3> QED
      BY <2>2, <3>1, <3>2, <3>3 DEF OthersReserve, Reserved
  <2> QED
    BY <2>1, <2>2
<1>5. x \in Steer => Fit(x)' /\ (~Native => Stopped(x)') /\ steer'[x].pc = "starting"
  <2> SUFFICES ASSUME x \in Steer
               PROVE  Fit(x)' /\ (~Native => Stopped(x)') /\ steer'[x].pc = "starting"
    OBVIOUS
  <2>1. Fit(x) /\ ~Begun(x) /\ Reserved(x)
    BY DEF Whole, Fits, MayStart
  <2>2. ~steer[x].inserted /\ steer[x].leader = NoOne
    BY <2>1 DEF Fit, MayStart
  <2>3. steer'[x].pc = "starting" /\ ~steer'[x].inserted /\ steer'[x].leader = NoOne
        /\ (~Native => ~steer'[x].halted)
    BY <1>4, <2>2 DEF Moved, MayStart
  <2>4. ~Begun(x)' /\ Reserved(x)' /\ \A t \in Turn : turn'[t].by # x
    BY <1>2, <2>1 DEF Begun, Reserved
  <2>5. Fit(x)'
    BY <1>3, <2>3, <2>4 DEF Fit, Early, Reserving
  <2> QED
    BY <2>3, <2>5 DEF Stopped
<1>6. Counted'
  <2>1. Waiting(User)' => starter' = "looking"
    BY DEF Whole, Counted, Waiting
  <2>2. \A t \in Turn : turn'[t].by = User /\ Stage(t)' = "starting" => starter' = "off"
    BY <1>2 DEF Whole, Counted
  <2> QED
    BY <2>1, <2>2 DEF Counted
<1>7. TypeOK'
  <2>1. /\ active' \in 0 .. turns' /\ projected' \in 0 .. turns'
        /\ turns' \in 0 .. MaxStarts + Cardinality(Steer)
        /\ turn' \in [Turn -> TurnRecord]
        /\ inserts' \subseteq Steer /\ starter' \in {"off", "selecting", "looking"}
        /\ closed' \in {"no", "steering", "host"}
    BY <1>1 DEF Base, TypeOK
  <2> QED
    BY <1>3, <1>4, <2>1, TypesHold
<1> QED
  BY <1>3, <1>4, <1>5, <1>6, <1>7, StartKeeps

\* A caller that waits for the catalog has no start under way.
LEMMA WaitersHaveNoStart ==
    ASSUME Whole, NEW x \in Caller, Waiting(x)
    PROVE  /\ \A t \in Turn : x \in Steer \cup Submission /\ turn[t].by = x => Stage(t) = "rejected"
           /\ x \in Steer => steer[x].pc = "starting" /\ ~Begun(x) /\ Reserved(x)
<1>1. ASSUME x \in Steer
      PROVE  steer[x].pc = "starting" /\ ~Begun(x) /\ Reserved(x)
  <2>1. Fit(x) /\ steer[x].pc \in SteerState
    BY <1>1, BaseTypes DEF Whole, Fits
  <2> QED
    BY <2>1 DEF Fit, SteerState, Early
<1>2. ASSUME x \in Submission PROVE Rests(x)
  BY <1>2 DEF Whole, Placed, Place
<1> QED
  BY <1>1, <1>2 DEF Rests, Begun

\* The lookup of x ended without a start.
LEMMA LookupFailKeeps ==
    ASSUME Whole, IInv', NEW x \in Caller, Waiting(x), CallerFails(x),
           looking' = looking \ {x}, commandPending' \in BOOLEAN,
           UNCHANGED <<starts, turn, turns, active, projected, inserts, consumer, closed>>
    PROVE  Whole'
<1>1. /\ \A t \in Turn : x \in Steer \cup Submission /\ turn[t].by = x => Stage(t) = "rejected"
      /\ x \in Steer => steer[x].pc = "starting"
  BY WaitersHaveNoStart
<1>2. FailMovesTurns(x)
  <2>1. turn' = turn /\ turns' = turns /\ active' = active /\ projected' = projected
    OBVIOUS
  <2>2. Stays /\ \A t \in Turn : Stage(t)' = Stage(t)
    BY <2>1, UnchangedStays DEF Stage, HasInput
  <2>3. turn' \in [Turn -> TurnRecord]
    BY <2>1, BaseTypes DEF Whole
  <2> QED
    BY <1>1, <2>1, <2>2, <2>3 DEF FailMovesTurns
<1> QED
  BY <1>1, <1>2, CallerFailKeeps DEF Waiting

\* The catalog does not know the command of x.
LEMMA NotFoundKeeps ==
    ASSUME Whole, IInv', NEW x \in Caller, NotFound(x) PROVE Whole'
  BY LookupFailKeeps DEF NotFound, Waiting

\* Whose start is under way, and that it is the only one.
LEMMA StarterOf ==
    ASSUME Whole, NEW t \in Turn, Stage(t) = "starting"
    PROVE  LET x == turn[t].by IN
           /\ x \in Caller /\ active = t
           /\ x # Delegate => ~Waiting(x)
           /\ x \in Steer => steer[x].pc = "starting"
           /\ \A u \in Turn : x \in Steer \cup Submission /\ turn[u].by = x /\ u # t
                                 => x \in Submission /\ Stage(u) = "rejected"
<1> DEFINE x == turn[t].by
<1>1. x \in Caller
  <2>1. turn[t].by \in Caller \cup {NoOne}
    BY TurnFields DEF Whole, Base, TypeOK
  <2>2. turn[t].by # NoOne
    BY DEF Whole, Base, Numbered
  <2> QED
    BY <2>1, <2>2
<1>2. turn[t].native = "starting"
  BY DEF Stage, HasInput
<1>3. active = t
  BY <1>2 DEF Whole, Base, IInv, Core, OneNativeTurn
<1>4. ASSUME x \in Steer
      PROVE  /\ steer[x].pc = "starting" /\ ~Waiting(x)
             /\ \A u \in Turn : turn[u].by = x => u = t
  <2>1. Fit(x) /\ steer[x].pc \in SteerState /\ Begun(x) /\ TurnFits(x, t)
    BY <1>4, BaseTypes DEF Whole, Fits, Begun, Fit
  <2>2. steer[x].pc = "starting"
    BY <2>1 DEF Fit, TurnFits, SteerState, Early
  <2> QED
    BY <2>1, <2>2 DEF Fit
<1>5. ASSUME x \in Submission
      PROVE  /\ ~Waiting(x)
             /\ \A u \in Turn : turn[u].by = x /\ u # t => Stage(u) = "rejected"
  <2>1. Place(x) /\ ~Rests(x)
    BY <1>5 DEF Whole, Placed, Rests
  <2> QED
    BY <2>1 DEF Place
<1>6. x = User => ~Waiting(x)
  BY DEF Whole, Counted
<1> QED
  BY <1>1, <1>3, <1>4, <1>5, <1>6, TurnsAssumption DEF Caller

\* What the answer to a start does to the pending lookup.
LEMMA LookupEndsDoes ==
    ASSUME Base, NEW t, LookupEnds(t) PROVE commandPending' \in BOOLEAN
<1>1. commandPending' = FALSE \/ commandPending' = commandPending
  BY DEF LookupEnds
<1> QED
  BY <1>1 DEF Base, TypeOK

\* turn.start fails: the caller learns it.
LEMMA RejectionKeeps ==
    ASSUME Whole, IInv', NEW t \in Turn, Rejected(t) \/ DelegatedStartThrows(t)
    PROVE  Whole'
<1>1. Answers(t, "rejected") /\ turn' \in [Turn -> TurnRecord] /\ Base
  BY RejectedDoes DEF Whole
<1>2. Stage(t) = "starting"
  BY <1>1 DEF Answers
<1> PICK x \in Caller : x = turn[t].by
  BY <1>2, StarterOf
<1>3. /\ active = t
      /\ x # Delegate => ~Waiting(x)
      /\ x \in Steer => steer[x].pc = "starting"
      /\ \A u \in Turn : x \in Steer \cup Submission /\ turn[u].by = x /\ u # t
                            => x \in Submission /\ Stage(u) = "rejected"
  BY <1>2, StarterOf
<1>4. FailMovesTurns(x)
  <2>1. turns' = turns /\ projected' = projected /\ active' \in {NoTurn, active}
    BY DEF Rejected, DelegatedStartThrows
  <2>2. \A u \in Turn : u # t => Stage(u)' = Stage(u)
    BY <1>1 DEF Answers
  <2>3. \A u \in Turn : u = t => Stage(u)' = "rejected"
    BY <1>1 DEF Answers
  <2> QED
    BY <1>1, <1>3, <2>1, <2>2, <2>3 DEF FailMovesTurns
<1>5. commandPending' \in BOOLEAN /\ CallerFails(x)
  <2>1. CASE Rejected(t)
    BY <1>1, <2>1, LookupEndsDoes DEF Rejected
  <2>2. CASE DelegatedStartThrows(t)
    <3>1. x = Delegate /\ x \notin Steer /\ x \notin Submission /\ x # User
      BY <2>2, TurnsAssumption DEF DelegatedStartThrows, Delegate, User
    <3> QED
      BY <1>1, <2>2, <3>1
         DEF DelegatedStartThrows, CallerFails, lookVars, queueVars, Base, TypeOK
  <2> QED
    BY <2>1, <2>2
<1>6. UNCHANGED <<starts, consumer, closed, inserts, looking>>
  BY DEF Rejected, DelegatedStartThrows, lookVars
<1>7. \E u \in Turn : turn[u].by = x /\ Stage(u) = "starting"
  BY <1>2
<1> QED
  BY <1>3, <1>4, <1>5, <1>6, <1>7, CallerFailKeeps DEF Waiting

\* turn.start succeeds: the caller answers, and nothing is reserved any more.
LEMMA AcceptanceKeeps ==
    ASSUME Whole, IInv', NEW t \in Turn, Accepted(t) PROVE Whole'
<1>1. Answers(t, "taken") /\ turn' \in [Turn -> TurnRecord] /\ Base
  BY AcceptedDoes DEF Whole
<1>2. Stage(t) = "starting"
  BY <1>1 DEF Answers
<1> PICK x \in Caller : x = turn[t].by
  BY <1>2, StarterOf
<1>3. /\ active = t
      /\ x # Delegate => ~Waiting(x)
      /\ x \in Steer => steer[x].pc = "starting"
      /\ \A u \in Turn : x \in Steer \cup Submission /\ turn[u].by = x /\ u # t
                            => x \in Submission /\ Stage(u) = "rejected"
  BY <1>2, StarterOf
<1>4. /\ UNCHANGED <<starts, turns, active, projected, inserts, consumer, receipt,
                     looking, starter, queue, added, deleted, unchecked, closed>>
      /\ commandPending' \in BOOLEAN
      /\ taken' = [s \in Submission |-> IF s = x THEN 0 ELSE taken[s]]
      /\ steer' = IF x \in Steer THEN At(x, "replying") ELSE steer
      /\ pending' = IF Reserved(x) THEN Free ELSE pending
  BY <1>1, LookupEndsDoes DEF Accepted
<1>5. /\ \A u \in Turn : turn'[u].by = turn[u].by
      /\ \A u \in Turn : u # t => Stage(u)' = Stage(u)
      /\ \A u \in Turn : u = t => Stage(u)' = "taken" /\ turn[u].by = x
  BY <1>1 DEF Answers
<1>6. \E u \in Turn : turn[u].by = x /\ Answers(u, "taken")
  BY <1>1
<1>7. Begun(x)
  BY DEF Begun
<1>9. x # NoOne /\ (x \in Steer \cup Submission => x # Delegate)
  BY TurnsAssumption DEF Caller, Delegate, User
<1>10. /\ pending' \in PendingRecord /\ (pending'.steer = NoOne => pending' = Free)
       /\ pending'.steer = x => x = NoOne
       /\ \A q \in Steer : q # x => /\ pending'.steer = q <=> pending.steer = q
                                    /\ Reserved(q) => pending' = pending
  <2>1. Free \in PendingRecord /\ Free.steer = NoOne
    BY PendingFields DEF Free, Reservation
  <2>2. pending \in PendingRecord /\ (pending.steer = NoOne => pending = Free)
    BY <1>1, BaseTypes DEF SteerTypes, Reserved
  <2> QED
    BY <1>4, <2>1, <2>2, TurnsAssumption DEF Reserved
<1>11. /\ x \in Steer => Moved(x, "replying")
       /\ x \notin Steer => steer' = steer
       /\ steer' \in [Steer -> SteerRecord]
  <2>1. steer \in [Steer -> SteerRecord]
    BY <1>1, BaseTypes DEF SteerTypes
  <2>2. CASE x \in Steer
    BY <1>1, <1>4, <2>2, AtMoves DEF SteerState
  <2> QED
    BY <1>4, <2>1, <2>2
<1>12. SteerTypes'
  BY <1>1, <1>4, <1>10, <1>11, BaseTypes DEF SteerTypes, Reserved
<1>13. OthersReserve(x)
  BY <1>10, <1>11 DEF OthersReserve, Moved
<1>14. Carried'
  <2>1. \A q \in Steer : /\ steer'[q].message = steer[q].message
                         /\ steer'[q].pc # "new" => steer[q].pc # "new"
                         /\ Carrier(q)' => Carrier(q)
    BY <1>3, <1>11 DEF Moved, Carrier
  <2> QED
    BY <1>4, <2>1, CarriedStays DEF Whole
<1>15. QueueTypes'
  BY <1>1, <1>4 DEF Base, TypeOK, QueueTypes
<1>16. OthersQueue(x) /\ Distinct'
  BY <1>4 DEF OthersQueue, InQueue, Distinct, Whole, Placed
<1>17. x \in Steer => Fit(x)' /\ (~Native => Stopped(x)') /\ steer'[x].pc = "replying"
  <2> SUFFICES ASSUME x \in Steer
               PROVE  Fit(x)' /\ (~Native => Stopped(x)') /\ steer'[x].pc = "replying"
    OBVIOUS
  <2>1. Fit(x) /\ ~Waiting(x)
    BY <1>3, <1>9 DEF Whole, Fits
  <2>2. ~steer[x].inserted /\ steer[x].leader = NoOne
    BY <1>3, <2>1 DEF Fit
  <2>3. steer'[x].pc = "replying" /\ ~steer'[x].inserted /\ steer'[x].leader = NoOne
        /\ (steer'[x].halted => steer[x].halted) /\ ~Waiting(x)' /\ ~Reserved(x)'
    BY <1>4, <1>9, <1>10, <1>11, <2>1, <2>2, TurnsAssumption DEF Moved, Waiting, Reserved
  <2>4. \A u \in Turn : turn'[u].by = x => u = t /\ Stage(u)' = "taken"
    BY <1>3, <1>5, TurnsAssumption
  <2>5. Fit(x)'
    BY <2>3, <2>4 DEF Fit, TurnFits, Early, Reserving
  <2>6. ~Native => ~steer[x].halted
    BY <1>7 DEF Whole, AllStopped, Stopped
  <2> QED
    BY <2>3, <2>5, <2>6 DEF Stopped
<1>18. x \in Submission => Place(x)'
  <2> SUFFICES ASSUME x \in Submission PROVE Place(x)'
    OBVIOUS
  <2>1. Place(x) /\ ~Rests(x) /\ ~Waiting(x)
    BY <1>2, <1>3, <1>9 DEF Whole, Placed, Rests
  <2>2. ~InQueue(x)' /\ ~Waiting(x)' /\ x \notin deleted' /\ x \in added'
    BY <1>4, <2>1, <1>7 DEF Place, InQueue, Waiting
  <2>3. ~Rests(x)'
    BY <1>5 DEF Rests
  <2>4. \A u, v \in Turn : turn'[u].by = x /\ turn'[v].by = x
            /\ Stage(u)' # "rejected" /\ Stage(v)' # "rejected" => u = v
    BY <1>3, <1>5
  <2>5. \A u \in Turn : turn'[u].by = x => Stage(u)' # "starting"
    BY <1>3, <1>5
  <2> QED
    BY <2>2, <2>3, <2>4, <2>5 DEF Place
<1>19. OthersLook(x) /\ looking' \subseteq Caller
  BY <1>1, <1>4 DEF OthersLook, Waiting, Base, TypeOK
<1>20. Counted'
  <2>1. Waits' = Waits /\ Began' = Began
    BY <1>4, <1>5 DEF Waits, Began, Begun
  <2>2. Room'
    BY <1>1, <1>4, <1>19, <2>1, RoomKeeps DEF Whole, Counted
  <2>3. \A u \in Turn : Stage(u)' = "starting" => Stage(u) = "starting"
    BY <1>5
  <2> QED
    BY <1>4, <1>5, <2>2, <2>3 DEF Whole, Counted, Waiting
<1>21. TypeOK'
  <2>1. /\ active' \in 0 .. turns' /\ projected' \in 0 .. turns'
        /\ turns' \in 0 .. MaxStarts + Cardinality(Steer) /\ starts' \in 0 .. MaxStarts
        /\ inserts' \subseteq Steer /\ starter' \in {"off", "selecting", "looking"}
        /\ closed' \in {"no", "steering", "host"} /\ consumer' \in EventRecord
        /\ commandPending' \in BOOLEAN
    BY <1>1, <1>4 DEF Base, TypeOK
  <2> QED
    BY <1>1, <1>12, <1>15, <1>19, <2>1, TypesHold
<1>22. StartMoves(x) /\ ConsumerRests
  BY <1>4, <1>6 DEF StartMoves, ConsumerRests
<1> QED
  BY <1>3, <1>4, <1>13, <1>14, <1>16, <1>17, <1>18, <1>19, <1>20, <1>21, <1>22, StartKeeps

\* A model is selected before the start, or the selection fails.
LEMMA SelectKeeps ==
    ASSUME Whole, IInv', SelectModel \/ SelectionFails PROVE Whole'
<1>1. Base /\ Stays /\ ConsumerRests
  BY UnchangedStays DEF Whole, SelectModel, SelectionFails, turnVars, ConsumerRests
<1>2. /\ UNCHANGED <<turnVars, inserts, consumer, steerVars, looking, commandPending,
                     queueVars, closed>>
      /\ \/ starter = "off" /\ starter' = "selecting" /\ starts < MaxStarts /\ starts' = starts + 1
            /\ active = NoTurn
         \/ starter = "selecting" /\ starter' = "off" /\ starts' = starts
  BY DEF SelectModel, SelectionFails, Admit, Busy
<1>3. TypeOK'
  <2>1. SteerTypes'
    BY <1>1, <1>2, BaseTypes DEF SteerTypes, steerVars, Reserved, Free, Reservation
  <2>2. QueueTypes'
    BY <1>1, <1>2 DEF Base, TypeOK, QueueTypes, queueVars
  <2>3. starts' \in 0 .. MaxStarts /\ starter' \in {"off", "selecting", "looking"}
    BY <1>1, <1>2, SteersAreCounted DEF Base, TypeOK
  <2>4. /\ active' \in 0 .. turns' /\ projected' \in 0 .. turns'
        /\ turns' \in 0 .. MaxStarts + Cardinality(Steer)
        /\ inserts' \subseteq Steer /\ turn' \in [Turn -> TurnRecord]
        /\ closed' \in {"no", "steering", "host"} /\ consumer' \in EventRecord
        /\ commandPending' \in BOOLEAN /\ looking' \subseteq Caller
    BY <1>1, <1>2 DEF Base, TypeOK, turnVars
  <2> QED
    BY <2>1, <2>2, <2>3, <2>4, TypesHold
<1>4. Carried'
  BY <1>2, CarriedStays DEF Whole, Carrier, steerVars
<1>5. Distinct' /\ OthersReserve(User) /\ OthersQueue(User) /\ OthersLook(User)
  BY <1>2 DEF Whole, Placed, Distinct, OthersReserve, OthersQueue, OthersLook, queueVars, steerVars,
              InQueue, Waiting, Reserved
<1>6. Counted'
  <2>1. Began' = Began
    BY <1>2 DEF Began, Begun, turnVars
  <2>2. Room'
    <3>1. CASE starter = "off" /\ starter' = "selecting" /\ starts < MaxStarts /\ starts' = starts + 1
      <4>1. Waits' \subseteq Waits \cup {User}
        BY <1>2 DEF Waits
      <4> QED
        BY <1>1, <1>2, <1>3, <2>1, <3>1, <4>1, RoomKeeps DEF Whole, Counted, turnVars, TypeOK
    <3>2. CASE starter = "selecting" /\ starter' = "off" /\ starts' = starts
      <4>1. Waits' \subseteq Waits
        BY <1>2, <3>2 DEF Waits
      <4> QED
        BY <1>1, <1>2, <1>3, <2>1, <3>2, <4>1, RoomKeeps DEF Whole, Counted, turnVars, TypeOK
    <3> QED
      BY <1>2, <3>1, <3>2
  <2>3. Waiting(User)' => starter' = "looking"
    BY <1>2 DEF Whole, Counted, Waiting
  <2>4. \A t \in Turn : turn'[t].by = User /\ Stage(t)' = "starting" => starter' = "off"
    <3> SUFFICES ASSUME NEW t \in Turn, Stage(t) = "starting" PROVE active # NoTurn
      BY <1>2 DEF Stage, HasInput, turnVars
    <3>1. turn[t].native = "starting"
      BY DEF Stage, HasInput
    <3> QED
      BY <1>1, <3>1, NoTurnIsNoTurn DEF Base, IInv, Core, OneNativeTurn
  <2> QED
    BY <2>2, <2>3, <2>4 DEF Counted
<1>7. User \in Caller /\ User \notin Steer /\ User \notin Submission
  BY TurnsAssumption DEF Caller, User
<1>8. StartMoves(User)
  BY <1>1, <1>2 DEF StartMoves, turnVars
<1> QED
  BY <1>1, <1>2, <1>3, <1>4, <1>5, <1>6, <1>7, <1>8, StartKeeps

\* Steps that leave the queue leave it to everybody.
LEMMA QueueLeft ==
    ASSUME Whole, NEW x, UNCHANGED queueVars
    PROVE  QueueTypes' /\ Distinct' /\ OthersQueue(x)
  BY DEF Whole, Base, TypeOK, QueueTypes, queueVars, Placed, Distinct, OthersQueue, InQueue

\* The start of x that ended before it touched a Turn.
LEMMA NoMoveFails ==
    ASSUME Whole, NEW x \in Caller, UNCHANGED turnVars,
           x \in Steer \cup Submission => ~Begun(x)
    PROVE  FailMovesTurns(x)
<1>1. turn' = turn /\ turns' = turns /\ active' = active /\ projected' = projected
  BY DEF turnVars
<1>2. Stays /\ turn' \in [Turn -> TurnRecord]
  BY <1>1, UnchangedStays, BaseTypes DEF Whole
<1> QED
  BY <1>1, <1>2 DEF FailMovesTurns, Begun

\* Who has begun a Turn after x began one.
LEMMA MakeBegins ==
    ASSUME Whole, NEW x \in Caller, NEW ordinary \in BOOLEAN, NEW open \in BOOLEAN,
           turns + 1 \in Turn, MakeTurn(x, ordinary, open)
    PROVE  /\ Makes(x) /\ turns' = turns + 1
           /\ Began' = IF x \in Steer THEN Began \cup {x} ELSE Began
<1>1. Base /\ Numbered /\ turns \in Nat
  BY DEF Whole, Base, TypeOK
<1>2. Makes(x)
  BY <1>1, MakeDoes
<1>3. \A y \in Steer : y # x => (Begun(y)' <=> Begun(y))
  BY <1>1, <1>2, MakesKeep, BegunStays, TurnsAssumption
<1>4. Begun(x)'
  BY <1>2 DEF Makes, Begun
<1> QED
  BY <1>2, <1>3, <1>4 DEF Began, Makes

\* A Turn that is being started is active.
LEMMA NoneStarts ==
    ASSUME Whole, active = NoTurn PROVE \A t \in Turn : Stage(t) # "starting"
<1> SUFFICES ASSUME NEW t \in Turn, Stage(t) = "starting" PROVE FALSE
  OBVIOUS
<1>1. turn[t].native = "starting"
  BY DEF Stage, HasInput
<1> QED
  BY <1>1, NoTurnIsNoTurn DEF Whole, Base, IInv, Core, OneNativeTurn

\* A follow-up that rested nowhere but with its caller is being started.
LEMMA PlaceBegun ==
    ASSUME Whole, NEW x \in Submission, Makes(x), Rests(x),
           ~InQueue(x)', ~Waiting(x)', x \notin deleted', x \in added', taken'[x] # 0
    PROVE  Place(x)'
<1>1. \A t \in Turn : t = turns + 1 => turn'[t].by = x /\ Stage(t)' = "starting"
  BY DEF Makes
<1>2. \A t \in Turn : t # turns + 1 => turn'[t].by = turn[t].by /\ Stage(t)' = Stage(t)
  BY DEF Makes, SameTurn
<1>3. \A t \in Turn : turn'[t].by = x /\ Stage(t)' # "rejected" => t = turns + 1
  BY <1>1, <1>2 DEF Rests
<1>4. ~Rests(x)'
  BY <1>1 DEF Rests, Makes
<1>5. \A t, u \in Turn : (turn'[t].by = x /\ turn'[u].by = x
                            /\ Stage(t)' # "rejected" /\ Stage(u)' # "rejected") => t = u
  BY <1>3
<1> QED
  BY <1>4, <1>5 DEF Place

\* turn/start of Desktop, when the Thread is free.
LEMMA StartTurnKeeps ==
    ASSUME Whole, IInv', NEW c \in BOOLEAN, StartTurn(c) PROVE Whole'
<1>1. /\ starter = "off" /\ starts < MaxStarts /\ starts' = starts + 1
      /\ active = NoTurn /\ BeginInput(User, c)
      /\ UNCHANGED <<inserts, consumer, queueVars, closed>>
  BY DEF StartTurn, Admit, Busy
<1>2. Base /\ Room /\ User \in Caller /\ User \notin Steer /\ User \notin Submission
      /\ ~Waiting(User)
  BY <1>1, TurnsAssumption DEF Whole, Counted, Caller, User
<1>3. QueueTypes' /\ Distinct' /\ OthersQueue(User) /\ MayStart(User)
  BY <1>1, <1>2, QueueLeft DEF MayStart
<1>4. consumer' \in EventRecord /\ ConsumerRests /\ starts' \in 0 .. MaxStarts
      /\ looking \subseteq Caller
  BY <1>1, <1>2, SteersAreCounted DEF ConsumerRests, Base, TypeOK
<1>5. CASE c
  <2>1. /\ looking' = looking \cup {User} /\ commandPending' = TRUE
        /\ starter' = "looking" /\ steer' = steer
        /\ UNCHANGED <<turnVars, pending, receipt>>
    BY <1>1, <1>2, <1>5 DEF BeginInput
  <2>2. Began' = Began /\ Waits' \subseteq Waits \cup {User} /\ looking' \subseteq Caller
    BY <1>2, <1>4, <2>1 DEF Began, Begun, Waits, turnVars
  <2>3. Room'
    BY <1>1, <1>2, <2>1, <2>2, RoomKeeps DEF turnVars
  <2>4. \A t \in Turn : turn[t].by = User => Stage(t) # "starting"
    BY <1>1, NoneStarts
  <2> QED
    BY <1>1, <1>2, <1>3, <1>4, <2>1, <2>3, <2>4, CallerLookKeeps DEF turnVars
<1>6. CASE ~c
  <2>1. /\ MakeTurn(User, TRUE, FALSE) /\ steer' = steer /\ starter' = "off"
        /\ UNCHANGED <<pending, receipt, looking, commandPending>>
    BY <1>1, <1>2, <1>6 DEF BeginInput, CallerWaits
  <2>2. turns + 1 \in Turn
    BY <1>1, <1>2, RoomForOne
  <2>3. Began' = Began /\ turns' = turns + 1
    BY <1>2, <2>1, <2>2, MakeBegins
  <2>4. Waits' \subseteq Waits /\ commandPending' \in BOOLEAN
    BY <1>2, <2>1 DEF Waits, Base, TypeOK
  <2>5. Room'
    BY <1>1, <1>2, <1>4, <2>1, <2>3, <2>4, RoomKeeps
  <2>6. User # Delegate => User \notin looking'
    BY <1>2, <2>1 DEF Waiting
  <2> QED
    BY <1>1, <1>2, <1>3, <1>4, <2>1, <2>2, <2>4, <2>5, <2>6, CallerBeginKeeps
<1> QED
  BY <1>5, <1>6

\* The start after the model selection looks again.
LEMMA ModelSelectedKeeps ==
    ASSUME Whole, IInv', NEW c \in BOOLEAN, ModelSelected(c) PROVE Whole'
<1>1. /\ starter = "selecting" /\ TryInput(User, c)
      /\ UNCHANGED <<starts, inserts, consumer, closed>>
  BY DEF ModelSelected
<1>2. Base /\ Room /\ User \in Caller /\ User \notin Steer /\ User \notin Submission
      /\ ~Waiting(User)
  BY <1>1, TurnsAssumption DEF Whole, Counted, Caller, User
<1>3. consumer' \in EventRecord /\ ConsumerRests /\ starts' \in 0 .. MaxStarts
      /\ looking \subseteq Caller
  BY <1>1, <1>2 DEF ConsumerRests, Base, TypeOK
<1>4. CASE ~c /\ Refused
  <2>1. CallerFails(User) /\ UNCHANGED <<turnVars, looking, commandPending>>
    BY <1>1, <1>4 DEF TryInput
  <2>2. FailMovesTurns(User)
    BY <1>2, <2>1, NoMoveFails
  <2>3. commandPending' \in BOOLEAN /\ User \notin looking'
    BY <1>2, <2>1 DEF Base, TypeOK, Waiting
  <2> QED
    BY <1>1, <1>2, <2>1, <2>2, <2>3, CallerFailKeeps
<1>5. CASE c
  <2>1. /\ looking' = looking \cup {User} /\ commandPending' = TRUE
        /\ starter' = "looking" /\ steer' = steer
        /\ UNCHANGED <<turnVars, pending, receipt, queueVars>>
    BY <1>1, <1>2, <1>5 DEF BeginInput, TryInput
  <2>2. Began' = Began /\ Waits' \subseteq Waits /\ looking' \subseteq Caller
    BY <1>1, <1>2, <1>3, <2>1 DEF Began, Begun, Waits, turnVars
  <2>3. Room'
    BY <1>1, <1>2, <2>1, <2>2, RoomKeeps DEF turnVars
  <2>4. \A t \in Turn : turn[t].by = User => Stage(t) # "starting"
    BY <1>1 DEF Whole, Counted
  <2>5. QueueTypes' /\ Distinct' /\ OthersQueue(User) /\ MayStart(User)
    BY <1>2, <2>1, QueueLeft DEF MayStart
  <2> QED
    BY <1>1, <1>2, <1>3, <2>1, <2>3, <2>4, <2>5, CallerLookKeeps DEF turnVars
<1>6. CASE ~c /\ ~Refused
  <2>1. /\ MakeTurn(User, TRUE, FALSE) /\ steer' = steer /\ starter' = "off"
        /\ active = NoTurn
        /\ UNCHANGED <<pending, receipt, looking, commandPending, queueVars>>
    BY <1>1, <1>2, <1>6 DEF BeginInput, CallerWaits, TryInput, Refused
  <2>2. User \in Waits /\ turns + 1 \in Turn
    <3>1. User \in Waits
      BY <1>1 DEF Waits
    <3> QED
      BY <1>2, <3>1, RoomForOne
  <2>3. Began' = Began /\ turns' = turns + 1
    BY <1>2, <2>1, <2>2, MakeBegins
  <2>4. Waits' \subseteq Waits \ {User} /\ commandPending' \in BOOLEAN
    BY <1>2, <2>1 DEF Waits, Base, TypeOK, Waiting
  <2>5. Room'
    BY <1>1, <1>2, <1>3, <2>1, <2>2, <2>3, <2>4, RoomKeeps
  <2>6. User # Delegate => User \notin looking'
    BY <1>2, <2>1 DEF Waiting
  <2>7. QueueTypes' /\ Distinct' /\ OthersQueue(User) /\ MayStart(User)
    BY <1>2, <2>1, QueueLeft DEF MayStart
  <2> QED
    BY <1>1, <1>2, <1>3, <2>1, <2>2, <2>4, <2>5, <2>6, <2>7, CallerBeginKeeps
<1> QED
  BY <1>4, <1>5, <1>6

\* Delegation starts a Turn of the Thread when it is free.
LEMMA DelegatedKeeps ==
    ASSUME Whole, IInv', StartDelegated PROVE Whole'
<1>1. /\ active = NoTurn /\ starts < MaxStarts /\ starts' = starts + 1
      /\ MakeTurn(Delegate, TRUE, TRUE)
      /\ UNCHANGED <<inserts, consumer, steerVars, lookVars, queueVars, closed>>
  BY DEF StartDelegated, Admit, Busy
<1>2. Base /\ Room /\ Delegate \in Caller /\ Delegate \notin Steer /\ Delegate \notin Submission
      /\ Delegate # User
  BY TurnsAssumption DEF Whole, Counted, Caller, User, Delegate
<1>3. consumer' \in EventRecord /\ ConsumerRests /\ starts' \in 0 .. MaxStarts
      /\ looking \subseteq Caller /\ commandPending \in BOOLEAN
  BY <1>1, <1>2, SteersAreCounted DEF ConsumerRests, Base, TypeOK
<1>4. turns + 1 \in Turn
  BY <1>1, <1>2, RoomForOne
<1>5. Began' = Began /\ turns' = turns + 1
  BY <1>1, <1>2, <1>4, MakeBegins
<1>6. Waits' \subseteq Waits /\ looking' = looking
  BY <1>1 DEF Waits, lookVars
<1>7. Room'
  BY <1>1, <1>2, <1>3, <1>5, <1>6, RoomKeeps
<1>8. QueueTypes' /\ Distinct' /\ OthersQueue(Delegate) /\ MayStart(Delegate)
  BY <1>1, <1>2, QueueLeft DEF MayStart
<1> QED
  BY <1>1, <1>2, <1>3, <1>4, <1>6, <1>7, <1>8, CallerBeginKeeps DEF steerVars, lookVars

\* The catalog answers: x starts, unless the Thread was taken or x was stopped.
LEMMA FoundKeeps ==
    ASSUME Whole, IInv', NEW x \in Caller, NEW c \in BOOLEAN, Found(x, c) PROVE Whole'
<1> DEFINE stopped == x \in Steer /\ ((Reserved(x) /\ pending.rejected) \/ closed # "no")
           blocked == stopped \/ closed = "host" \/ active # NoTurn
<1>1. /\ Waiting(x) /\ looking' = looking \ {x}
      /\ commandPending' = (c /\ ~blocked)
      /\ UNCHANGED <<starts, inserts, consumer, closed>>
  BY DEF Found, Waiting
<1>2. blocked => CallerFails(x) /\ UNCHANGED turnVars
  BY DEF Found
<1>3. ~blocked => /\ MakeTurn(x, ~c, FALSE) /\ CallerWaits(x) /\ UNCHANGED queueVars
  BY DEF Found
<1>4. commandPending' \in BOOLEAN
  BY <1>1
<1>5. ~blocked => active = NoTurn /\ (x \in Steer => ~(Reserved(x) /\ pending.rejected))
  OBVIOUS
<1> HIDE DEF stopped, blocked
<1>6. CASE blocked
  BY <1>1, <1>2, <1>4, <1>6, LookupFailKeeps DEF turnVars
<1>7. CASE ~blocked
  <2>1. /\ MakeTurn(x, ~c, FALSE) /\ active = NoTurn
        /\ steer' = (IF x \in Steer THEN At(x, "starting") ELSE steer)
        /\ starter' = IF x = User THEN "off" ELSE starter
        /\ UNCHANGED <<pending, receipt, queueVars>>
    BY <1>3, <1>5, <1>7 DEF CallerWaits
  <2>2. Base /\ Room /\ User \notin Steer
    BY TurnsAssumption DEF Whole, Counted, User
  <2>3. /\ \A t \in Turn : x \in Steer \cup Submission /\ turn[t].by = x => Stage(t) = "rejected"
        /\ x \in Steer => steer[x].pc = "starting" /\ ~Begun(x) /\ Reserved(x)
    BY <1>1, WaitersHaveNoStart
  <2>4. MayStart(x)
    <3>1. ASSUME x \in Steer, ~Native PROVE ~steer[x].halted
      BY <1>5, <1>7, <3>1 DEF Whole, AllStopped, Stopped
    <3> QED
      BY <2>3, <3>1 DEF MayStart
  <2>5. x \notin Steer => x \in Waits
    BY <1>1 DEF Waits, Waiting
  <2>6. turns + 1 \in Turn
    BY <2>2, <2>3, <2>5, RoomForOne
  <2>7. (~c) \in BOOLEAN /\ FALSE \in BOOLEAN
    OBVIOUS
  <2>8. Makes(x) /\ turns' = turns + 1
        /\ Began' = IF x \in Steer THEN Began \cup {x} ELSE Began
    BY <2>1, <2>6, <2>7, MakeBegins
  <2>9. looking' \subseteq Caller /\ consumer' \in EventRecord /\ ConsumerRests
        /\ starts' \in 0 .. MaxStarts
    BY <1>1, <2>2 DEF Base, TypeOK, ConsumerRests
  <2>10. Waits' \subseteq Waits /\ (x \notin Steer => Waits' \subseteq Waits \ {x})
    BY <1>1, <2>1 DEF Waits
  <2>11. Room'
    <3>1. CASE x \in Steer
      <4>1. x \notin Began
        BY <2>3, <3>1 DEF Began
      <4> QED
        BY <1>1, <2>2, <2>8, <2>9, <2>10, <3>1, <4>1, RoomKeeps
    <3>2. CASE x \notin Steer
      BY <1>1, <2>2, <2>5, <2>8, <2>9, <2>10, <3>2, RoomKeeps
    <3> QED
      BY <3>1, <3>2
  <2>12. QueueTypes' /\ Distinct' /\ OthersQueue(x)
    BY <2>1, QueueLeft
  <2>13. ASSUME x \in Submission PROVE Place(x)'
    <3>1. Place(x) /\ Rests(x)
      BY <2>3, <2>13 DEF Whole, Placed, Rests
    <3>2. ~InQueue(x) /\ x \notin deleted /\ x \in added /\ taken[x] # 0
      BY <1>1, <3>1 DEF Place
    <3>3. ~InQueue(x)' /\ x \notin deleted' /\ x \in added' /\ taken'[x] # 0
      BY <2>1, <3>2 DEF queueVars, InQueue
    <3>4. ~Waiting(x)'
      BY <1>1 DEF Waiting
    <3> QED
      BY <2>8, <2>13, <3>1, <3>3, <3>4, PlaceBegun
  <2>14. inserts' \in {inserts, inserts \ {x}} /\ looking' \in {looking, looking \ {x}}
         /\ x \notin looking'
    BY <1>1
  <2> QED
    BY <1>1, <1>4, <2>1, <2>4, <2>6, <2>7, <2>9, <2>11, <2>12, <2>13, <2>14, CallerBeginKeeps
<1> QED
  BY <1>6, <1>7

\* A steer whose delivery comes to a start: it begins a Turn, looks its command
\* up, or fails.
LEMMA SteerStartKeeps ==
    ASSUME Whole, IInv', NEW r \in Steer, NEW c \in BOOLEAN, TryInput(r, c),
           steer[r].pc \in {"waiting", "inserting"}, ~Native => ~steer[r].halted,
           c => Reserved(r) /\ inserts' = inserts,
           inserts' \in {inserts, inserts \ {r}},
           UNCHANGED <<starts, consumer, closed>>
    PROVE  Whole'
<1>1. Base /\ Room /\ r \in Caller /\ r # User /\ r \notin Submission /\ r # Delegate
  BY TurnsAssumption DEF Whole, Counted, Caller, User, Delegate
<1>2. ~Waiting(r) /\ ~Begun(r)
  BY DEF Whole, Fits, Fit, Early
<1>3. consumer' \in EventRecord /\ ConsumerRests /\ starts' \in 0 .. MaxStarts
      /\ looking \subseteq Caller /\ MayStart(r)
  BY <1>1, <1>2 DEF ConsumerRests, Base, TypeOK, MayStart
<1>4. CASE ~c /\ Refused
  <2>1. CallerFails(r) /\ UNCHANGED <<turnVars, looking, commandPending>>
    BY <1>4 DEF TryInput
  <2>2. FailMovesTurns(r)
    BY <1>1, <1>2, <2>1, NoMoveFails
  <2>3. commandPending' \in BOOLEAN /\ r \notin looking'
    BY <1>1, <1>2, <2>1 DEF Base, TypeOK, Waiting
  <2> QED
    BY <1>1, <2>1, <2>2, <2>3, CallerFailKeeps
<1>5. CASE c
  <2>1. /\ looking' = looking \cup {r} /\ commandPending' = TRUE
        /\ starter' = starter /\ steer' = At(r, "starting")
        /\ UNCHANGED <<turnVars, pending, receipt, queueVars>>
    BY <1>1, <1>5 DEF BeginInput, TryInput
  <2>2. Began' = Began /\ Waits' \subseteq Waits /\ looking' \subseteq Caller
    BY <1>1, <1>3, <2>1 DEF Began, Begun, Waits, turnVars
  <2>3. Room'
    BY <1>1, <2>1, <2>2, RoomKeeps DEF turnVars
  <2>4. QueueTypes' /\ Distinct' /\ OthersQueue(r)
    BY <2>1, QueueLeft
  <2> QED
    BY <1>1, <1>3, <1>5, <2>1, <2>3, <2>4, CallerLookKeeps DEF turnVars
<1>6. CASE ~c /\ ~Refused
  <2>1. /\ MakeTurn(r, TRUE, FALSE) /\ steer' = At(r, "starting") /\ starter' = starter
        /\ active = NoTurn
        /\ UNCHANGED <<pending, receipt, looking, commandPending, queueVars>>
    BY <1>1, <1>6 DEF BeginInput, CallerWaits, TryInput, Refused
  <2>2. turns + 1 \in Turn
    BY <1>1, <1>2, RoomForOne
  <2>3. Began' = Began \cup {r} /\ turns' = turns + 1 /\ r \notin Began
    BY <1>1, <1>2, <2>1, <2>2, MakeBegins DEF Began
  <2>4. Waits' \subseteq Waits /\ commandPending' \in BOOLEAN
    BY <1>1, <2>1 DEF Waits, Base, TypeOK
  <2>5. Room'
    BY <1>1, <1>3, <2>1, <2>3, <2>4, RoomKeeps
  <2>6. r \notin looking'
    BY <1>2, <2>1 DEF Waiting
  <2>7. QueueTypes' /\ Distinct' /\ OthersQueue(r)
    BY <2>1, QueueLeft
  <2> QED
    BY <1>1, <1>3, <2>1, <2>2, <2>4, <2>5, <2>6, <2>7, CallerBeginKeeps
<1> QED
  BY <1>4, <1>5, <1>6

\* The steer whose Turn ended begins its own, or fails.
LEMMA ProceedsKeeps ==
    ASSUME Whole, IInv', NEW r \in Steer, Proceeds(r) PROVE Whole'
<1>1. /\ steer[r].pc = "waiting" /\ ~pending.rejected
      /\ UNCHANGED <<starts, inserts, consumer, closed>>
      /\ \/ SteerFails(r) /\ UNCHANGED <<turnVars, lookVars, queueVars>>
         \/ TryInput(r, steer[r].message \in Command)
  BY DEF Proceeds
<1>2. CASE SteerFails(r) /\ UNCHANGED <<turnVars, lookVars, queueVars>>
  BY <1>1, <1>2, FailKeeps
<1>3. CASE TryInput(r, steer[r].message \in Command)
  <2>1. Reserved(r)
    BY <1>1 DEF Whole, Fits, Fit, Reserving
  <2>2. ~Native => ~steer[r].halted
    BY <1>1 DEF Whole, AllStopped, Stopped
  <2> DEFINE isCommand == steer[r].message \in Command
  <2>3. \E c \in BOOLEAN : c = isCommand
    <3>1. isCommand \in BOOLEAN
      OBVIOUS
    <3> HIDE DEF isCommand
    <3> QED
      BY <3>1
  <2> PICK c \in BOOLEAN : c = isCommand
    BY <2>3
  <2>4. TryInput(r, c)
    BY <1>3
  <2> QED
    BY <1>1, <2>1, <2>2, <2>4, SteerStartKeeps
<1> QED
  BY <1>1, <1>2, <1>3

\* The Harness refused the insertion: the steer falls back or fails.
LEMMA RefusedKeeps ==
    ASSUME Whole, IInv', NEW r \in Steer, InsertRefused(r) PROVE Whole'
<1>1. /\ steer[r].pc = "inserting" /\ TrackInsert(r)
      /\ UNCHANGED <<starts, consumer, closed>>
      /\ \/ SteerFails(r) /\ UNCHANGED <<turnVars, lookVars, queueVars>>
         \/ /\ active # NoTurn
            /\ Redeliver(r, "newTurn") /\ UNCHANGED <<turnVars, lookVars, queueVars>>
         \/ TryInput(r, FALSE)
  BY DEF InsertRefused
<1>2. Base /\ "newTurn" \in Mode
  BY DEF Whole, Mode
<1>3. CASE SteerFails(r) /\ UNCHANGED <<turnVars, lookVars, queueVars>>
  <2>1. steer'[r].pc = "failed"
    BY <1>2, <1>3, FailMoves DEF Moved
  <2>2. inserts' = inserts \ {r}
    BY <1>1, <2>1 DEF TrackInsert
  <2> QED
    BY <1>1, <1>3, <2>2, FailKeeps
<1>4. CASE /\ active # NoTurn
           /\ Redeliver(r, "newTurn") /\ UNCHANGED <<turnVars, lookVars, queueVars>>
  BY <1>1, <1>2, <1>4, RedeliverKeeps
<1>5. CASE TryInput(r, FALSE)
  <2>1. Native
    BY <1>1 DEF Whole, AllStopped, Stopped
  <2>2. steer'[r].pc \in {"starting", "failed"}
    <3>1. SteerFails(r) \/ steer' = At(r, "starting")
      BY <1>5 DEF TryInput, CallerFails, BeginInput, CallerWaits
    <3> QED
      BY <1>2, <3>1, FailMoves, AtMoves DEF Moved, SteerState
  <2>3. inserts' = inserts \ {r}
    BY <1>1, <2>2 DEF TrackInsert
  <2>4. PICK c \in BOOLEAN : c = FALSE
    OBVIOUS
  <2>5. TryInput(r, c)
    BY <1>5, <2>4
  <2> QED
    BY <1>1, <2>1, <2>3, <2>4, <2>5, SteerStartKeeps
<1> QED
  BY <1>1, <1>3, <1>4, <1>5


-----------------------------------------------------------------------------
(* The queue.                                                              *)

\* A follow-up leaves the queue and is started, or looks its command up.
LEMMA SubmissionStartKeeps ==
    ASSUME Whole, IInv', NEW i \in 1 .. Len(queue), StartSubmission(i), active = NoTurn,
           ConsumerRests, consumer' \in EventRecord, unchecked' \subseteq unchecked,
           UNCHANGED <<inserts, closed>>
    PROVE  Whole'
<1>1. Base /\ Room /\ queue \in Seq(Submission) /\ taken \in [Submission -> Nat]
  BY DEF Whole, Counted, Base, TypeOK
<1>2. queue[i] \in Submission
  BY <1>1, ElementOfSeq
<1> PICK x \in Submission : x = queue[i]
  BY <1>2
<1>3. /\ starts < MaxStarts /\ starts' = starts + 1
      /\ queue' = RemoveAt(queue, i)
      /\ taken' = [taken EXCEPT ![x] = i]
      /\ BeginInput(x, x \in Command)
      /\ UNCHANGED <<added, deleted>>
  BY DEF StartSubmission, Admit
<1>4. x \in Caller /\ x \notin Steer /\ x # User /\ x # Delegate /\ User \notin Steer
  BY TurnsAssumption DEF Caller, User, Delegate
<1>5. Distinct /\ Place(x) /\ InQueue(x)
  <2>1. InQueue(x)
    BY DEF InQueue, Contains
  <2> QED
    BY <2>1 DEF Whole, Placed
<1>6. Rests(x) /\ ~Waiting(x) /\ x \notin deleted /\ x \in added
  BY <1>5 DEF Place
<1>7. /\ queue' \in Seq(Submission) /\ Unique(queue')
      /\ \A s : Contains(queue', s) <=> Contains(queue, s) /\ s # x
  BY <1>1, <1>3, <1>5, RemoveHolds DEF Distinct, Unique
<1>8. i \in Nat /\ i # 0
  BY <1>1, LenProperties
<1>9. /\ taken' \in [Submission -> Nat] /\ taken'[x] # 0
      /\ \A s \in Submission : s # x => taken'[s] = taken[s]
  BY <1>1, <1>3, <1>8
<1>10. QueueTypes' /\ Distinct' /\ OthersQueue(x) /\ ~InQueue(x)'
  <2>1. added \subseteq Submission /\ deleted \subseteq Submission /\ unchecked \subseteq added
    BY <1>1 DEF Base, TypeOK
  <2>2. QueueTypes'
    BY <1>3, <1>7, <1>9, <2>1 DEF QueueTypes
  <2>3. Distinct'
    BY <1>7 DEF Distinct, Unique
  <2> QED
    BY <1>3, <1>7, <1>9, <2>2, <2>3 DEF OthersQueue, InQueue
<1>11. /\ starts' \in 0 .. MaxStarts /\ looking \subseteq Caller /\ MayStart(x)
  BY <1>1, <1>3, <1>4, SteersAreCounted DEF Base, TypeOK, MayStart
<1>12. CASE x \in Command
  <2>1. /\ looking' = looking \cup {x} /\ commandPending' = TRUE
        /\ starter' = starter /\ steer' = steer
        /\ UNCHANGED <<turnVars, pending, receipt>>
    BY <1>3, <1>4, <1>12 DEF BeginInput
  <2>2. Began' = Began /\ Waits' \subseteq Waits \cup {x} /\ looking' \subseteq Caller
    BY <1>4, <1>11, <2>1 DEF Began, Begun, Waits, turnVars
  <2>3. Room'
    BY <1>1, <1>3, <2>1, <2>2, RoomKeeps DEF turnVars
  <2>4. \A t \in Turn : turn'[t] = turn[t] /\ Stage(t)' = Stage(t)
    BY <2>1 DEF turnVars, Stage, HasInput
  <2>5. Place(x)'
    <3>1. Rests(x)'
      BY <1>6, <2>4 DEF Rests
    <3>2. Waiting(x)'
      BY <2>1 DEF Waiting
    <3>3. \A t \in Turn : turn'[t].by = x => Stage(t)' = "rejected"
      BY <3>1 DEF Rests
    <3> QED
      BY <1>3, <1>6, <1>9, <1>10, <3>1, <3>2, <3>3 DEF Place
  <2> QED
    BY <1>1, <1>3, <1>4, <1>10, <1>11, <2>1, <2>3, <2>5, CallerLookKeeps DEF turnVars
<1>13. CASE x \notin Command
  <2>1. /\ MakeTurn(x, TRUE, FALSE) /\ steer' = steer /\ starter' = starter
        /\ UNCHANGED <<pending, receipt, looking, commandPending>>
    BY <1>3, <1>4, <1>13 DEF BeginInput, CallerWaits
  <2>2. turns + 1 \in Turn
    BY <1>1, <1>3, RoomForOne
  <2>3. Began' = Began /\ turns' = turns + 1 /\ Makes(x)
    BY <1>4, <2>1, <2>2, MakeBegins
  <2>4. Waits' \subseteq Waits /\ commandPending' \in BOOLEAN
    BY <1>1, <2>1 DEF Waits, Base, TypeOK
  <2>5. Room'
    BY <1>1, <1>3, <1>11, <2>1, <2>3, <2>4, RoomKeeps
  <2>6. x \notin looking' /\ ~Waiting(x)'
    BY <1>6, <2>1 DEF Waiting
  <2>7. Place(x)'
    BY <1>3, <1>6, <1>9, <1>10, <2>3, <2>6, PlaceBegun
  <2> QED
    BY <1>1, <1>3, <1>4, <1>10, <1>11, <2>1, <2>2, <2>4, <2>5, <2>6, <2>7, CallerBeginKeeps
<1> QED
  BY <1>12, <1>13

\* A request to the queue moves follow-ups, and at most one goes or comes.
LEMMA QueueStepKeeps ==
    ASSUME Whole, IInv', NEW x \in Submission, QueueTypes', Distinct', OthersQueue(x), Place(x)',
           UNCHANGED <<turn, turns, active, projected, starts, inserts, consumer, steerVars,
                       lookVars, closed>>
    PROVE  Whole'
<1>1. Base /\ Stays /\ ConsumerRests /\ x \in Caller /\ x \notin Steer
  BY UnchangedStays, TurnsAssumption DEF Whole, ConsumerRests, Caller
<1>2. TypeOK'
  <2>1. SteerTypes'
    BY <1>1, BaseTypes DEF SteerTypes, steerVars, Reserved, Free, Reservation
  <2>2. /\ active' \in 0 .. turns' /\ projected' \in 0 .. turns' /\ starts' \in 0 .. MaxStarts
        /\ turns' \in 0 .. MaxStarts + Cardinality(Steer)
        /\ inserts' \subseteq Steer /\ turn' \in [Turn -> TurnRecord]
        /\ closed' \in {"no", "steering", "host"} /\ consumer' \in EventRecord
        /\ commandPending' \in BOOLEAN /\ looking' \subseteq Caller
        /\ starter' \in {"off", "selecting", "looking"}
    BY <1>1 DEF Base, TypeOK, lookVars
  <2> QED
    BY <2>1, <2>2, TypesHold
<1>3. Carried'
  BY CarriedStays DEF Whole, Carrier, steerVars
<1>4. OthersReserve(x) /\ OthersLook(x)
  BY DEF OthersReserve, OthersLook, steerVars, lookVars, Waiting, Reserved
<1>5. Counted'
  <2>1. Began' = Began /\ Waits' = Waits
    BY DEF Began, Begun, Waits, lookVars
  <2>2. Room'
    BY <1>1, <1>2, <2>1, RoomKeeps DEF Whole, Counted, TypeOK
  <2> QED
    BY <2>2 DEF Whole, Counted, Waiting, lookVars, Stage, HasInput
<1>6. StartMoves(x)
  BY <1>1 DEF StartMoves
<1> QED
  BY <1>1, <1>2, <1>3, <1>4, <1>5, <1>6, StartKeeps

\* Putting an entry that is not there at the end or at the front.
LEMMA AppendHolds ==
    ASSUME NEW S, NEW q \in Seq(S), NEW e \in S, Unique(q), ~Contains(q, e)
    PROVE  /\ Append(q, e) \in Seq(S) /\ Unique(Append(q, e))
           /\ \A s : Contains(Append(q, e), s) <=> Contains(q, s) \/ s = e
<1> DEFINE r == Append(q, e)
           n == Len(q)
<1>1. /\ r \in Seq(S) /\ Len(r) = n + 1 /\ n \in Nat
      /\ \A j \in 1 .. n : r[j] = q[j]
      /\ r[n + 1] = e
  BY AppendProperties, LenProperties
<1> HIDE DEF r
<1>2. \A j \in 1 .. n + 1 : j = n + 1 \/ (j \in 1 .. n /\ r[j] = q[j] /\ r[j] # e)
  BY <1>1 DEF Contains
<1>3. Unique(r)
  <2> SUFFICES ASSUME NEW j \in 1 .. n + 1, NEW k \in 1 .. n + 1, r[j] = r[k] PROVE j = k
    BY <1>1 DEF Unique
  <2> QED
    BY <1>1, <1>2 DEF Unique
<1>4. ASSUME NEW s, Contains(r, s) PROVE Contains(q, s) \/ s = e
  BY <1>1, <1>2, <1>4 DEF Contains
<1>5. ASSUME NEW s, Contains(q, s) PROVE Contains(r, s)
  <2>1. PICK v \in 1 .. n : q[v] = s
    BY <1>5 DEF Contains
  <2>2. v \in 1 .. n + 1 /\ r[v] = s
    BY <1>1, <2>1
  <2> QED
    BY <1>1, <2>2 DEF Contains
<1>6. Contains(r, e)
  <2>1. n + 1 \in 1 .. n + 1
    BY <1>1
  <2> QED
    BY <1>1, <2>1 DEF Contains
<1> QED
  BY <1>1, <1>3, <1>4, <1>5, <1>6 DEF r

\* Putting it at the front.
LEMMA FrontHolds ==
    ASSUME NEW S, NEW q \in Seq(S), NEW e \in S, Unique(q), ~Contains(q, e)
    PROVE  /\ <<e>> \o q \in Seq(S) /\ Unique(<<e>> \o q)
           /\ \A s : Contains(<<e>> \o q, s) <=> Contains(q, s) \/ s = e
<1> DEFINE r == <<e>> \o q
           n == Len(q)
<1>1. /\ r \in Seq(S) /\ Len(r) = n + 1 /\ n \in Nat
      /\ \A j \in 1 .. n + 1 : r[j] = IF j = 1 THEN e ELSE q[j - 1]
  <2>1. <<e>> \in Seq(S) /\ Len(<<e>>) = 1 /\ <<e>>[1] = e
    OBVIOUS
  <2>2. n \in Nat
    BY LenProperties
  <2>3. /\ r \in Seq(S) /\ Len(r) = 1 + n
        /\ \A j \in 1 .. 1 + n : r[j] = IF j <= 1 THEN <<e>>[j] ELSE q[j - 1]
    BY <2>1, ConcatProperties
  <2> QED
    BY <2>1, <2>2, <2>3
<1> HIDE DEF r
<1>2. \A j \in 1 .. n + 1 : j = 1 \/ (j - 1 \in 1 .. n /\ r[j] = q[j - 1] /\ r[j] # e)
  BY <1>1 DEF Contains
<1>3. 1 \in 1 .. n + 1 /\ r[1] = e
  BY <1>1
<1>4. Unique(r)
  <2> SUFFICES ASSUME NEW j \in 1 .. n + 1, NEW k \in 1 .. n + 1, r[j] = r[k] PROVE j = k
    BY <1>1 DEF Unique
  <2>1. CASE j = 1 \/ k = 1
    BY <1>2, <1>3, <2>1
  <2>2. CASE j # 1 /\ k # 1
    <3>1. j - 1 = k - 1
      BY <1>2, <2>2 DEF Unique
    <3> QED
      BY <1>1, <3>1
  <2> QED
    BY <2>1, <2>2
<1>5. ASSUME NEW s, Contains(r, s) PROVE Contains(q, s) \/ s = e
  BY <1>1, <1>2, <1>3, <1>5 DEF Contains
<1>6. ASSUME NEW s, Contains(q, s) PROVE Contains(r, s)
  <2>1. PICK v \in 1 .. n : q[v] = s
    BY <1>6 DEF Contains
  <2>2. v + 1 \in 1 .. n + 1 /\ v + 1 # 1 /\ (v + 1) - 1 = v
    BY <1>1
  <2>3. r[v + 1] = s
    BY <1>1, <2>1, <2>2
  <2> QED
    BY <1>1, <2>2, <2>3 DEF Contains
<1>7. Contains(r, e)
  BY <1>1, <1>3 DEF Contains
<1> QED
  BY <1>1, <1>4, <1>5, <1>6, <1>7 DEF r

\* Desktop adds a follow-up, deletes one, or moves one to the front.
LEMMA RequestKeeps ==
    ASSUME Whole, IInv', NEW x \in Submission,
           AddSubmission(x) \/ DeleteSubmission(x) \/ MoveToFront(x)
    PROVE  Whole'
<1>1. /\ queue \in Seq(Submission) /\ taken \in [Submission -> Nat]
      /\ added \subseteq Submission /\ deleted \subseteq Submission
      /\ unchecked \subseteq added
  BY DEF Whole, Base, TypeOK
<1>2. Unique(queue) /\ Place(x)
  BY DEF Whole, Placed, Distinct, Unique
<1>3. /\ UNCHANGED <<turnVars, starts, inserts, consumer, steerVars, lookVars, closed>>
      /\ taken' = taken
  BY DEF AddSubmission, DeleteSubmission, MoveToFront
<1>4. \A t \in Turn : turn'[t] = turn[t] /\ Stage(t)' = Stage(t)
  BY <1>3 DEF turnVars, Stage, HasInput
<1>5. (Rests(x)' <=> Rests(x)) /\ (Begun(x)' <=> Begun(x)) /\ (Waiting(x)' <=> Waiting(x))
  BY <1>3, <1>4 DEF Rests, Begun, Waiting, lookVars
<1>6. /\ \A t, u \in Turn :
            (turn'[t].by = x /\ turn'[u].by = x /\ Stage(t)' # "rejected" /\ Stage(u)' # "rejected")
               => t = u
      /\ Waiting(x)' => taken'[x] # 0
      /\ \A t \in Turn : turn'[t].by = x /\ Stage(t)' = "starting" => taken'[x] # 0
  BY <1>2, <1>3, <1>4, <1>5 DEF Place
<1>7. CASE AddSubmission(x)
  <2>1. /\ x \notin added /\ queue' = Append(queue, x) /\ added' = added \cup {x}
        /\ unchecked' = unchecked \cup {x} /\ deleted' = deleted
    BY <1>7 DEF AddSubmission
  <2>2. ~InQueue(x) /\ ~Waiting(x) /\ ~Begun(x) /\ x \notin deleted
    BY <1>2, <2>1 DEF Place
  <2>3. /\ queue' \in Seq(Submission) /\ Unique(queue')
        /\ \A s : Contains(queue', s) <=> Contains(queue, s) \/ s = x
    BY <1>1, <1>2, <2>1, <2>2, AppendHolds DEF InQueue
  <2>4. QueueTypes' /\ Distinct' /\ OthersQueue(x) /\ InQueue(x)'
    BY <1>1, <1>3, <2>1, <2>3 DEF QueueTypes, Distinct, Unique, OthersQueue, InQueue
  <2>5. Rests(x)
    BY <2>2 DEF Rests, Begun
  <2>6. Place(x)'
    BY <1>5, <1>6, <2>1, <2>2, <2>4, <2>5 DEF Place
  <2> QED
    BY <1>3, <2>4, <2>6, QueueStepKeeps DEF turnVars
<1>8. CASE DeleteSubmission(x)
  <2>1. PICK i \in 1 .. Len(queue) : queue[i] = x /\ queue' = RemoveAt(queue, i)
    BY <1>8 DEF DeleteSubmission
  <2>2. deleted' = deleted \cup {x} /\ added' = added /\ unchecked' = unchecked
    BY <1>8 DEF DeleteSubmission
  <2>3. InQueue(x)
    BY <2>1 DEF InQueue, Contains
  <2>4. ~Waiting(x) /\ Rests(x) /\ x \in added
    BY <1>2, <2>3 DEF Place
  <2>5. /\ queue' \in Seq(Submission) /\ Unique(queue')
        /\ \A s : Contains(queue', s) <=> Contains(queue, s) /\ s # x
    BY <1>1, <1>2, <2>1, RemoveHolds
  <2>6. QueueTypes' /\ Distinct' /\ OthersQueue(x) /\ ~InQueue(x)'
    BY <1>1, <1>3, <2>2, <2>5 DEF QueueTypes, Distinct, Unique, OthersQueue, InQueue
  <2>7. Place(x)'
    BY <1>5, <1>6, <2>2, <2>4, <2>6 DEF Place
  <2> QED
    BY <1>3, <2>6, <2>7, QueueStepKeeps DEF turnVars
<1>9. CASE MoveToFront(x)
  <2>1. PICK i \in 2 .. Len(queue) : queue[i] = x /\ queue' = <<x>> \o RemoveAt(queue, i)
    BY <1>9 DEF MoveToFront
  <2>2. i \in 1 .. Len(queue)
    BY <1>1, LenProperties
  <2>3. deleted' = deleted /\ added' = added /\ unchecked' = unchecked
    BY <1>9 DEF MoveToFront
  <2>4. InQueue(x)
    BY <2>1, <2>2 DEF InQueue, Contains
  <2>5. ~Waiting(x) /\ Rests(x) /\ x \in added /\ x \notin deleted
    BY <1>2, <2>4 DEF Place
  <2> DEFINE r == RemoveAt(queue, i)
  <2>6. /\ r \in Seq(Submission) /\ Unique(r)
        /\ \A s : Contains(r, s) <=> Contains(queue, s) /\ s # x
    BY <1>1, <1>2, <2>1, <2>2, RemoveHolds
  <2>7. queue' = <<x>> \o r
    BY <2>1
  <2> HIDE DEF r
  <2>8. /\ queue' \in Seq(Submission) /\ Unique(queue')
        /\ \A s : Contains(queue', s) <=> Contains(r, s) \/ s = x
    BY <2>6, <2>7, FrontHolds
  <2>9. \A s : Contains(queue', s) <=> Contains(queue, s) \/ s = x
    BY <2>6, <2>8
  <2>10. QueueTypes' /\ Distinct' /\ OthersQueue(x) /\ InQueue(x)'
    BY <1>1, <1>3, <2>3, <2>8, <2>9 DEF QueueTypes, Distinct, Unique, OthersQueue, InQueue
  <2>11. Place(x)'
    BY <1>5, <1>6, <2>3, <2>5, <2>10 DEF Place
  <2> QED
    BY <1>3, <2>10, <2>11, QueueStepKeeps DEF turnVars
<1> QED
  BY <1>7, <1>8, <1>9

\* The first follow-up starts, if one can.
LEMMA MayDrainKeeps ==
    ASSUME Whole, IInv', MayDrain, Drain, ConsumerRests, consumer' \in EventRecord,
           unchecked' \subseteq unchecked, UNCHANGED <<inserts, closed>>
    PROVE  Whole'
<1>1. active = NoTurn /\ StartSubmission(1)
  BY DEF MayDrain, Busy, Drain
<1>2. 1 \in 1 .. Len(queue)
  <2>1. queue \in Seq(Submission) /\ queue # <<>>
    BY DEF Whole, Base, TypeOK, MayDrain
  <2>2. Len(queue) \in Nat /\ Len(queue) # 0
    BY <2>1, LenProperties, EmptySeq
  <2> QED
    BY <2>2
<1> QED
  BY <1>1, <1>2, SubmissionStartKeeps

\* Desktop starts a follow-up of the queue.
LEMMA StartQueuedKeeps ==
    ASSUME Whole, IInv', NEW i, StartQueued(i) PROVE Whole'
<1>1. i \in 1 .. Len(queue) /\ StartSubmission(i) /\ active = NoTurn
      /\ UNCHANGED <<inserts, consumer, unchecked, closed>>
  BY DEF StartQueued, Busy
<1>2. consumer' \in EventRecord /\ ConsumerRests /\ unchecked' \subseteq unchecked
  BY <1>1, BaseTypes DEF Whole, ConsumerRests
<1> QED
  BY <1>1, <1>2, SubmissionStartKeeps

\* Nobody starts.
Left == UNCHANGED <<turn, turns, active, projected, starts, steerVars, lookVars, queue,
                    taken, added, deleted>>

\* An add looks whether the Thread completed meanwhile.
LEMMA CheckKeeps ==
    ASSUME Whole, IInv', NEW x \in Submission, CheckAfterAdd(x) PROVE Whole'
<1>1. unchecked' = unchecked \ {x} /\ UNCHANGED <<inserts, consumer, closed>>
      /\ \/ Drain
         \/ Left
  BY DEF CheckAfterAdd, NoDrain, Left
<1>2. consumer' \in EventRecord /\ ConsumerRests
  BY <1>1, BaseTypes DEF Whole, ConsumerRests
<1>3. CASE MayDrain /\ Drain
  BY <1>1, <1>2, <1>3, MayDrainKeeps
<1>4. CASE Left
  <2>1. QueueTypes' /\ Distinct' /\ OthersQueue(x)
    BY <1>1, <1>4 DEF Left, Whole, Base, TypeOK, QueueTypes, Placed, Distinct, OthersQueue, InQueue
  <2>2. SubmissionKept(x)
    BY <1>4 DEF Left, SubmissionKept, Kept, TurnsKept, Waiting, InQueue, lookVars, Stage, HasInput
  <2>3. Place(x)'
    BY <2>2, PlaceStays DEF Whole, Placed
  <2> QED
    BY <1>1, <1>4, <2>1, <2>3, QueueStepKeeps DEF Left
<1> QED
  BY <1>1, <1>3, <1>4 DEF Drain, NoDrain, Left

\* The terminal event is handled: the waiting steer is told, or the queue drains.
LEMMA SettlementKeeps ==
    ASSUME Whole, IInv', Settle PROVE Whole'
<1>1. Base /\ EventEnded /\ consumer.stage = "idle"
  BY DEF Whole, Base, Settle
<1>2. turn[consumer.turn].native \in Ended
  BY <1>1 DEF EventEnded
<1>3. /\ consumer' = NoEvent /\ UNCHANGED <<inserts, unchecked, closed>>
      /\ \/ /\ pending # Free /\ pending' = [pending EXCEPT !.outcome = turn[consumer.turn].native]
            /\ UNCHANGED <<turn, turns, active, projected, starts, steer, receipt, lookVars,
                           queue, taken, added, deleted>>
         \/ Drain
         \/ Left
  BY DEF Settle, NoDrain, Left
<1>4. consumer' \in EventRecord /\ ConsumerRests
  BY <1>3, EventFields DEF NoEvent, ConsumerRests
<1>5. CASE MayDrain /\ Drain
  BY <1>3, <1>4, <1>5, MayDrainKeeps
<1>6. CASE /\ UNCHANGED <<turn, turns, active, projected, starts, steer, receipt, lookVars,
                          queue, taken, added, deleted>>
           /\ \/ pending' = pending
              \/ pending # Free /\ pending' = [pending EXCEPT !.outcome = turn[consumer.turn].native]
  <2>1. /\ pending' \in PendingRecord /\ pending'.steer = pending.steer
        /\ pending.rejected => pending'.rejected
        /\ pending.steer = NoOne => pending' = pending
    <3>1. pending \in PendingRecord /\ (pending.steer = NoOne => pending = Free)
      BY <1>1, BaseTypes DEF SteerTypes, Reserved
    <3>2. ASSUME pending # Free, NEW o \in Ended, pending' = [pending EXCEPT !.outcome = o]
          PROVE  /\ pending' \in PendingRecord /\ pending'.steer = pending.steer
                 /\ pending.rejected => pending'.rejected
                 /\ pending.steer # NoOne
      <4>1. pending' \in PendingRecord
        BY <3>1, <3>2, PendingFields
      <4> QED
        BY <3>1, <3>2, <4>1 DEF PendingRecord
    <3> QED
      BY <1>2, <1>6, <3>1, <3>2
  <2>2. SteerTypes'
    BY <1>1, <1>6, <2>1, BaseTypes DEF SteerTypes, Reserved, Free, Reservation
  <2>3. Quiet
    BY <1>3, <1>6, UnchangedStays DEF Quiet, queueVars
  <2>4. TypeOK'
    BY <1>1, <1>3, <1>4, <1>6, <2>2, BaseTypes, SteerTypesSuffice DEF queueVars
  <2>5. OthersReserve(NoOne)
    BY <1>6, <2>1 DEF OthersReserve, Reserved
  <2>6. Carried'
    BY <1>3, <1>6, CarriedStays DEF Whole, Carrier
  <2> QED
    BY <1>3, <1>4, <1>6, <2>3, <2>4, <2>5, <2>6, SteerStepKeeps, TurnsAssumption
<1> QED
  BY <1>3, <1>5, <1>6 DEF Drain, NoDrain, Left, steerVars


-----------------------------------------------------------------------------
(* The whole invariant.                                                    *)

\* The invariant holds at first,
LEMMA WholeAtFirst == Init => Whole
<1> SUFFICES ASSUME Init PROVE Whole
  OBVIOUS
<1>1. /\ turn = [t \in Turn |-> Unmade]
      /\ turns = 0 /\ starts = 0 /\ active = NoTurn /\ projected = NoTurn
      /\ inserts = {} /\ consumer = NoEvent
      /\ steer = [r \in Steer |-> NewSteer]
      /\ pending = Free
      /\ receipt = [m \in Message |-> NoOne]
      /\ looking = {} /\ commandPending = FALSE /\ starter = "off"
      /\ queue = <<>> /\ taken = [s \in Submission |-> 0]
      /\ added = {} /\ deleted = {} /\ unchecked = {}
      /\ closed = "no"
  BY DEF Init
<1>2. IInv
  BY InitHolds
<1>3. \A t \in Turn : turn[t].native = "unmade" /\ turn[t].by = NoOne /\ Stage(t) = "unmade"
  BY <1>1 DEF Unmade, Stage, HasInput, Ended
<1>4. /\ \A y : y # NoOne => ~Begun(y)
      /\ \A y : ~Waiting(y) /\ ~InQueue(y)
  BY <1>1, <1>3 DEF Begun, Waiting, InQueue, Contains
<1>5. TypeOK
  <2>1. FALSE \in BOOLEAN /\ TRUE \in BOOLEAN
    OBVIOUS
  <2>2. Unmade \in TurnRecord
    BY <2>1, TurnFields, Zenon DEF Unmade
  <2>3. NewSteer \in SteerRecord
    BY DEF NewSteer, SteerRecord, SteerState
  <2>4. SteerTypes
    BY <1>1, <2>3, PendingFields DEF SteerTypes, Free, Reserved, Reservation
  <2>5. QueueTypes
    BY <1>1 DEF QueueTypes
  <2>6. consumer \in EventRecord
    BY <1>1, EventFields DEF NoEvent
  <2>7. /\ turns \in 0 .. MaxStarts + Cardinality(Steer) /\ starts \in 0 .. MaxStarts
        /\ active \in 0 .. turns /\ projected \in 0 .. turns
    BY <1>1, SteersAreCounted DEF NoTurn
  <2>8. turn \in [Turn -> TurnRecord]
    BY <1>1, <2>2
  <2>9. /\ inserts \subseteq Steer /\ looking \subseteq Caller /\ commandPending \in BOOLEAN
        /\ starter \in {"off", "selecting", "looking"} /\ closed \in {"no", "steering", "host"}
    BY <1>1
  <2> QED
    BY <1>2, <2>4, <2>5, <2>6, <2>7, <2>8, <2>9
       DEF TypeOK, SteerTypes, QueueTypes, IInv, StatusTypes
<1>6. Numbered
  <2>1. \A t \in Turn : t > 0
    BY SteersAreCounted DEF Turn
  <2> QED
    BY <1>1, <1>3, <2>1 DEF Numbered
<1>7. EventEnded
  BY <1>1 DEF EventEnded, NoEvent
<1>8. \A q \in Steer : /\ steer[q].pc = "new" /\ steer[q].leader = NoOne
                       /\ ~steer[q].inserted /\ ~steer[q].halted
                       /\ q # NoOne
  BY <1>1, TurnsAssumption DEF NewSteer
<1>9. Fits
  <2>1. \A q \in Steer : ~Reserved(q) /\ ~Begun(q) /\ ~Waiting(q) /\ \A t \in Turn : turn[t].by # q
    BY <1>1, <1>3, <1>4, <1>8 DEF Reserved, Free, Reservation
  <2> QED
    BY <1>8, <2>1 DEF Fits, Fit, Early, Reserving
<1>10. AllShown /\ Carried /\ AllStopped
  BY <1>8 DEF AllShown, Shown, Carried, Carrier, AllStopped, Stopped
<1>11. Placed
  <2>1. \A s \in Submission : s # NoOne
    BY TurnsAssumption
  <2>2. \A s \in Submission : Place(s)
    BY <1>1, <1>3, <1>4, <2>1 DEF Place, Rests
  <2> QED
    BY <1>1, <2>2 DEF Placed, Distinct
<1>12. Counted
  <2>1. Waits = {}
    BY <1>1 DEF Waits
  <2>2. Began = {}
    BY <1>4, <1>8 DEF Began
  <2> QED
    BY <1>1, <1>4, <1>3, <2>1, <2>2, FS_EmptySet DEF Counted, Room
<1> QED
  BY <1>2, <1>5, <1>6, <1>7, <1>9, <1>10, <1>11, <1>12 DEF Whole, Base

\* after every step,
LEMMA StepsKeepWhole ==
    ASSUME Whole, IInv', Next PROVE Whole'
<1>1. CASE Begins
  BY <1>1, StartTurnKeeps, ModelSelectedKeeps, SelectKeeps, DelegatedKeeps DEF Begins
<1>2. CASE QueueRequest
  BY <1>2, RequestKeeps, StartQueuedKeeps DEF QueueRequest
<1>3. CASE Stops
  <2>1. CASE InterruptAnswered
    <3>1. Stays /\ turn' \in [Turn -> TurnRecord]
      BY <2>1, UnchangedStays, BaseTypes DEF InterruptAnswered, Whole
    <3> QED
      BY <2>1, <3>1, TurnStepKeeps DEF InterruptAnswered
  <2> QED
    BY <1>3, <2>1, InterruptKeeps, FaultKeeps DEF Stops
<1>9. CASE SubagentsEnd
  <2>1. Stays /\ turn' \in [Turn -> TurnRecord]
    BY <1>9, UnchangedStays, BaseTypes DEF SubagentsEnd, Whole
  <2> QED
    BY <1>9, <2>1, TurnStepKeeps DEF SubagentsEnd
<1>4. CASE Publish \/ BecomesIdle \/ Settle
  BY <1>4, PublicationKeeps, IdlingKeeps, SettlementKeeps
<1>5. ASSUME NEW r \in Steer,
             \/ Arrives(r) \/ ReadAnswers(r) \/ InsertAnswers(r)
             \/ Cancels(r) \/ Timeout(r) \/ Advances(r)
      PROVE  Whole'
  BY <1>5, ArrivesKeeps, ReadsKeep, InsertedKeeps, RefusedKeeps, LostKeeps, AnswersStep,
     CancelsKeep, TimeoutKeeps, ProceedsKeeps DEF InsertAnswers, Cancels, Advances
<1>6. ASSUME NEW x \in Caller, Lookup(x) PROVE Whole'
  BY <1>6, NotFoundKeeps, FoundKeeps DEF Lookup
<1>7. ASSUME NEW t \in Turn,
             StartAnswers(t) \/ GateOpens(t) \/ Ends(t) \/ EventArrives(t)
      PROVE  Whole'
  <2>1. CASE StartAnswers(t)
    BY <2>1, AcceptanceKeeps, RejectionKeeps DEF StartAnswers
  <2>2. CASE GateOpens(t)
    <3>1. Stays /\ turn' \in [Turn -> TurnRecord]
      BY <2>2, GateDoes DEF Whole
    <3> QED
      BY <2>2, <3>1, TurnStepKeeps DEF GateOpens
  <2>3. ASSUME NEW how \in Ended, NativeEnds(t, how) PROVE Whole'
    <3>1. Stays /\ turn' \in [Turn -> TurnRecord]
      BY <2>3, EndsDo DEF Whole
    <3> QED
      BY <2>3, <3>1, TurnStepKeeps DEF NativeEnds
  <2>4. CASE EventArrives(t)
    BY <2>4, ArrivalKeeps
  <2> QED
    BY <1>7, <2>1, <2>2, <2>3, <2>4 DEF Ends
<1>8. ASSUME NEW x \in Submission, CheckAfterAdd(x) PROVE Whole'
  BY <1>8, CheckKeeps
<1> QED
  BY <1>1, <1>2, <1>3, <1>4, <1>5, <1>6, <1>7, <1>8, <1>9 DEF Next

\* and when nothing happens.
LEMMA StutterKeepsWhole ==
    ASSUME Whole, IInv', UNCHANGED vars PROVE Whole'
<1>1. Stays /\ turn' \in [Turn -> TurnRecord]
  BY UnchangedStays, BaseTypes DEF vars, turnVars, Whole
<1> QED
  BY <1>1, TurnStepKeeps DEF vars, turnVars

\* So it holds always.
LEMMA WholeAlways == Spec => []Whole
<1>1. Whole /\ [Next]_vars => Whole'
  <2>1. Whole => IInv
    BY DEF Whole, Base
  <2> QED
    BY <2>1, NextKeeps, StepsKeepWhole, StutterKeepsWhole
<1> QED
  BY <1>1, WholeAtFirst, PTL DEF Spec

\* Every part of the state keeps its type; no start finds the Turns used up.
THEOREM TurnTypes == Spec => []TypeOK
<1>1. Whole => TypeOK
  BY DEF Whole, Base
<1> QED
  BY <1>1, WholeAlways, PTL

\* Input the Harness took into a running Turn is projected before Desktop is told
\* that the Turn ended: the consumer waits for every insertion that can succeed.
THEOREM InputIsShown == Spec => []ShownBeforeTerminal
<1>1. Whole => ShownBeforeTerminal
  BY DEF Whole, AllShown, Shown, ShownBeforeTerminal
<1> QED
  BY <1>1, WholeAlways, PTL

\* While no answer to an insertion is lost, a steer that was reported as failed
\* left nothing with the Harness, and no late answer starts it.
THEOREM FailedLeavesNoInput == ~LostAnswers => (Spec => []FailedSteerNotTaken)
<1> SUFFICES ASSUME ~LostAnswers PROVE Spec => []FailedSteerNotTaken
  OBVIOUS
<1>1. Whole => FailedSteerNotTaken
  <2> SUFFICES ASSUME Whole, NEW r \in Steer, steer[r].pc = "failed"
               PROVE  /\ ~steer[r].inserted /\ r \notin looking
                      /\ \A t \in BegunBy(r) : turn[t].native = "rejected"
    BY DEF FailedSteerNotTaken
  <2>1. Fit(r)
    BY DEF Whole, Fits
  <2>2. ~steer[r].inserted /\ r \notin looking
    BY <2>1 DEF Fit, Waiting
  <2>3. \A t \in BegunBy(r) : Stage(t) = "rejected"
    BY <2>1 DEF Fit, TurnFits, BegunBy
  <2> QED
    BY <2>2, <2>3 DEF Stage
<1> QED
  BY <1>1, WholeAlways, PTL

\* Without native insertion, a steer that the user's stop came upon begins no Turn.
THEOREM StoppedSteersBeginNothing == ~Native => (Spec => []StopIsFinal)
<1> SUFFICES ASSUME ~Native PROVE Spec => []StopIsFinal
  OBVIOUS
<1>1. Whole => StopIsFinal
  BY DEF Whole, AllStopped, Stopped, StopIsFinal, Begun, BegunBy
<1> QED
  BY <1>1, WholeAlways, PTL

\* A set without two elements.
LEMMA AtMostOne ==
    ASSUME NEW S, \A x, y \in S : x = y
    PROVE  S = {} \/ \E x \in S : S = {x}
  OBVIOUS

\* So it has one element or none.
LEMMA OneOrNone ==
    ASSUME NEW S, \A x, y \in S : x = y
    PROVE  Cardinality(S) \in {0, 1} /\ (Cardinality(S) = 1 => S # {})
<1>1. CASE S = {}
  BY <1>1, FS_EmptySet
<1>2. ASSUME NEW x \in S, S = {x} PROVE Cardinality(S) = 1
  BY <1>2, FS_Singleton
<1> QED
  BY <1>1, <1>2, AtMostOne

\* While no answer to an insertion is lost, the Harness has a message once at
\* most, by insertion or by a start, and a follow-up once at most.
THEOREM MessagesTakenOnce == ~LostAnswers => (Spec => []TakenOnce)
<1> SUFFICES ASSUME ~LostAnswers PROVE Spec => []TakenOnce
  OBVIOUS
<1>1. ASSUME Whole, NEW m \in Message
      PROVE  Cardinality(Inserters(m)) + Cardinality(Starters(m)) <= 1
  <2>1. \A r \in Inserters(m) : r \in Steer /\ Carrier(r) /\ steer[r].message = m /\ ~Begun(r)
    BY <1>1 DEF Inserters, Whole, Fits, Fit, Carrier
  <2>2. \A t \in Starters(m) : \E r \in Steer :
           turn[t].by = r /\ Carrier(r) /\ steer[r].message = m /\ Begun(r)
    <3> SUFFICES ASSUME NEW t \in Starters(m)
                 PROVE  \E r \in Steer : turn[t].by = r /\ Carrier(r) /\ steer[r].message = m
                                         /\ Begun(r)
      OBVIOUS
    <3>1. PICK r \in Steer : turn[t].by = r /\ steer[r].message = m
      BY DEF Starters
    <3>2. t \in Turn /\ Stage(t) = "taken"
      BY DEF Starters, Stage
    <3>3. Fit(r) /\ Begun(r) /\ TurnFits(r, t)
      BY <1>1, <3>1, <3>2 DEF Whole, Fits, Fit, Begun
    <3>4. Carrier(r)
      BY <3>2, <3>3 DEF Fit, TurnFits, Carrier, Early
    <3> QED
      BY <3>1, <3>3, <3>4
  <2>3. \A q, r \in Steer : Carrier(q) /\ Carrier(r) /\ steer[q].message = steer[r].message
                              => q = r
    BY <1>1 DEF Whole, Carried
  <2>4. \A q, r \in Inserters(m) : q = r
    BY <2>1, <2>3
  <2>5. \A t, u \in Starters(m) : t = u
    <3> SUFFICES ASSUME NEW t \in Starters(m), NEW u \in Starters(m) PROVE t = u
      OBVIOUS
    <3>1. PICK r \in Steer : turn[t].by = r /\ Carrier(r) /\ steer[r].message = m
      BY <2>2
    <3>2. turn[u].by = r
      BY <2>2, <2>3, <3>1
    <3>3. t \in Turn /\ u \in Turn /\ Fit(r)
      BY <1>1 DEF Starters, Whole, Fits
    <3> QED
      BY <3>1, <3>2, <3>3 DEF Fit
  <2>6. Inserters(m) = {} \/ Starters(m) = {}
    BY <2>1, <2>2, <2>3
  <2> QED
    BY <2>4, <2>5, <2>6, OneOrNone
<1>2. ASSUME Whole, NEW s \in Submission
      PROVE  Cardinality({t \in BegunBy(s) : HasInput(t)}) <= 1
  <2>1. \A t \in BegunBy(s) : HasInput(t) =>
           t \in Turn /\ turn[t].by = s /\ Stage(t) = "taken"
    BY DEF BegunBy, Stage
  <2>2. Place(s)
    BY <1>2 DEF Whole, Placed
  <2>3. \A t, u \in {v \in BegunBy(s) : HasInput(v)} : t = u
    BY <2>1, <2>2 DEF Place
  <2> QED
    BY <2>3, OneOrNone
<1>3. Whole => TakenOnce
  BY <1>1, <1>2 DEF TakenOnce
<1> QED
  BY <1>3, WholeAlways, PTL

\* A follow-up that was added is in one place: queued, being started, deleted, or
\* with the Harness.
THEOREM FollowUpsAreKept == Spec => []FollowUpsKept
<1>1. ASSUME Whole, NEW s \in added
      PROVE  Cardinality({p \in 1 .. 4 : \/ p = 1 /\ InQueue(s)
                                         \/ p = 2 /\ BeingStarted(s)
                                         \/ p = 3 /\ Arrived(s)
                                         \/ p = 4 /\ s \in deleted}) = 1
  <2> DEFINE P == {p \in 1 .. 4 : \/ p = 1 /\ InQueue(s)
                                  \/ p = 2 /\ BeingStarted(s)
                                  \/ p = 3 /\ Arrived(s)
                                  \/ p = 4 /\ s \in deleted}
  <2>1. s \in Submission /\ s # NoOne
    BY <1>1, TurnsAssumption DEF Whole, Base, TypeOK
  <2>2. Place(s)
    BY <1>1, <2>1 DEF Whole, Placed
  <2>3. \A t \in Turn : turn[t].by = s => Stage(t) \in {"starting", "taken", "rejected"}
    <3> SUFFICES ASSUME NEW t \in Turn, turn[t].by = s
                 PROVE  Stage(t) \in {"starting", "taken", "rejected"}
      OBVIOUS
    <3>1. Stage(t) # "unmade"
      BY <1>1, <2>1 DEF Whole, Base, Numbered
    <3>2. turn[t].native \in {"unmade", "starting", "running", "rejected"} \cup Ended
      BY <1>1, TurnFields DEF Whole, Base, TypeOK
    <3> QED
      BY <3>1, <3>2 DEF Stage, HasInput
  <2>4. BeingStarted(s) <=> Waiting(s) \/ \E t \in Turn : turn[t].by = s /\ Stage(t) = "starting"
    BY DEF BeingStarted, BegunBy, Waiting, Stage, HasInput, Ended
  <2>5. Arrived(s) <=> \E t \in Turn : turn[t].by = s /\ Stage(t) = "taken"
    <3>1. \A t \in Turn : turn[t].native # "taken"
      BY <1>1, TurnFields DEF Whole, Base, TypeOK, Ended
    <3>2. \A t \in Turn : HasInput(t) <=> Stage(t) = "taken"
      BY <3>1 DEF Stage
    <3> QED
      BY <3>2 DEF Arrived, BegunBy
  <2>6. \/ InQueue(s) /\ ~BeingStarted(s) /\ ~Arrived(s) /\ s \notin deleted
        \/ ~InQueue(s) /\ BeingStarted(s) /\ ~Arrived(s) /\ s \notin deleted
        \/ ~InQueue(s) /\ ~BeingStarted(s) /\ Arrived(s) /\ s \notin deleted
        \/ ~InQueue(s) /\ ~BeingStarted(s) /\ ~Arrived(s) /\ s \in deleted
    <3>1. CASE Rests(s)
      <4>1. ~Arrived(s) /\ (BeingStarted(s) <=> Waiting(s))
        BY <2>4, <2>5, <3>1 DEF Rests
      <4> QED
        BY <1>1, <2>2, <3>1, <4>1 DEF Place
    <3>2. CASE ~Rests(s)
      <4>1. ~InQueue(s) /\ ~Waiting(s) /\ s \notin deleted
        BY <2>2, <3>2 DEF Place
      <4>2. PICK t \in Turn : turn[t].by = s /\ Stage(t) \in {"starting", "taken"}
        BY <2>3, <3>2 DEF Rests
      <4>3. \A u \in Turn : turn[u].by = s /\ Stage(u) # "rejected" => u = t
        BY <2>2, <4>2 DEF Place
      <4> QED
        BY <2>4, <2>5, <4>1, <4>2, <4>3
    <3> QED
      BY <3>1, <3>2
  <2>7. P = {1} \/ P = {2} \/ P = {3} \/ P = {4}
    BY <2>6
  <2> HIDE DEF P
  <2>8. Cardinality(P) = 1
    BY <2>7, FS_Singleton
  <2> QED
    BY <2>8 DEF P
<1>2. Whole => FollowUpsKept
  BY <1>1 DEF FollowUpsKept
<1> QED
  BY <1>2, WholeAlways, PTL

-----------------------------------------------------------------------------
(* Follow-ups after a Turn that completed.                                 *)

\* Who still looks at the queue after a Turn that completed, or found it held.
Looker ==
    \/ unchecked # {} \/ consumer.stage # "none" \/ looking \cap Submission # {}
    \/ closed # "no" \/ starts = MaxStarts \/ overlooked
Drained ==
    queue # <<>> /\ projected # NoTurn /\ turn[projected].native = "completed" => Looker

\* The Turn that is projected as ended is the last one, and the consumer's.
LastEnded ==
    /\ active # NoTurn => projected = NoTurn
    /\ projected # NoTurn /\ consumer.stage \in {"published", "idle"} =>
          consumer.turn = projected /\ turn[projected].ordinary
Looked == Drained /\ LastEnded

\* At first no Turn has ended.
LEMMA LookedAtFirst == Init => Looked
  BY DEF Init, Looked, Drained, LastEnded, NoTurn

\* No Turn is projected as ended: nobody has to look.
LEMMA NothingEnded ==
    ASSUME projected' = NoTurn PROVE Looked'
  BY DEF Looked, Drained, LastEnded

\* A start that begins its Turn.
LEMMA MakeLooks ==
    ASSUME NEW x, NEW c, NEW o, MakeTurn(x, c, o) PROVE Looked'
  BY NothingEnded DEF MakeTurn

\* Who has to look stays.
LEMMA LookedStays ==
    ASSUME Looked, UNCHANGED <<active, projected, consumer>>,
           projected # NoTurn => /\ turn'[projected].native = turn[projected].native
                                 /\ turn'[projected].ordinary <=> turn[projected].ordinary,
           queue' # <<>> /\ queue = <<>> => Looker',
           unchecked # {} => Looker', looking \cap Submission # {} => Looker',
           overlooked => overlooked', closed # "no" => closed' # "no",
           starts = MaxStarts => starts' = MaxStarts
    PROVE  Looked'
<1>1. Drained'
  <2>1. Looker => Looker'
    BY DEF Looker
  <2> QED
    BY <2>1 DEF Looked, Drained
<1>2. LastEnded'
  BY DEF Looked, LastEnded
<1> QED
  BY <1>1, <1>2 DEF Looked

\* An admitted start finds one left.
LEMMA StartsLeft == ASSUME Whole, Admit PROVE starts # MaxStarts
  BY SteersAreCounted DEF Admit, Whole, Base, TypeOK

\* A follow-up that starts is begun at once, or its command is looked up.
LEMMA SubmissionBegins ==
    ASSUME Whole, Looked, NEW i \in 1 .. Len(queue), StartSubmission(i), closed' = closed,
           consumer' = consumer \/ consumer' = NoEvent
    PROVE  Looked'
<1> DEFINE s == queue[i]
<1>1. s \in Submission
  BY DEF Whole, Base, TypeOK
<1>2. CASE MakeTurn(s, TRUE, FALSE)
  BY <1>2, MakeLooks
<1>3. CASE looking' = looking \cup {s} /\ UNCHANGED turnVars
  <2>1. Looker'
    BY <1>1, <1>3 DEF Looker
  <2>2. LastEnded'
    BY <1>3 DEF Looked, LastEnded, turnVars, NoEvent
  <2> QED
    BY <2>1, <2>2 DEF Looked, Drained
<1> QED
  BY <1>2, <1>3 DEF StartSubmission, BeginInput

\* The first follow-up of a queue.
LEMMA HeadOfQueue == ASSUME Whole, queue # <<>> PROVE 1 \in 1 .. Len(queue)
<1>1. queue \in Seq(Submission)
  BY DEF Whole, Base, TypeOK
<1>2. Len(queue) \in Nat /\ Len(queue) # 0
  BY <1>1, LenProperties, EmptySeq
<1> QED
  BY <1>2

\* The queue was looked at after the Turn that is projected: the head starts, or
\* nothing may start, or the Thread was held.
LEMMA DrainLooks ==
    ASSUME Whole, Looked, Drain, closed' = closed,
           consumer' = consumer \/ consumer' = NoEvent
    PROVE  Looked'
<1>1. CASE MayDrain
  <2>1. StartSubmission(1) /\ queue # <<>>
    BY <1>1 DEF Drain, MayDrain
  <2> QED
    BY <2>1, HeadOfQueue, SubmissionBegins
<1>2. CASE ~MayDrain /\ projected = NoTurn
  <2>1. projected' = NoTurn
    BY <1>2 DEF Drain, NoDrain
  <2> QED
    BY <2>1, NothingEnded
<1>3. CASE ~MayDrain /\ projected # NoTurn
  <2>1. /\ UNCHANGED <<turn, active, projected, queue, starts>>
        /\ overlooked' = (overlooked \/ ((pending # Free \/ commandPending) /\ queue # <<>>))
    BY <1>3 DEF Drain, NoDrain
  <2>2. active = NoTurn
    BY <1>3 DEF Looked, LastEnded
  <2>3. starts \in 0 .. MaxStarts /\ MaxStarts \in Nat
    BY SteersAreCounted DEF Whole, Base, TypeOK
  <2>4. queue = <<>> \/ closed # "no" \/ starts = MaxStarts \/ overlooked'
    <3> SUFFICES ASSUME queue # <<>>, closed = "no", starts # MaxStarts PROVE overlooked'
      OBVIOUS
    <3>1. starts < MaxStarts
      BY <2>3
    <3>2. pending # Free \/ commandPending
      BY <1>3, <2>2, <3>1 DEF MayDrain, Busy
    <3> QED
      BY <2>1, <3>2
  <2>5. Drained'
    BY <2>1, <2>4 DEF Drained, Looker
  <2>6. LastEnded'
    BY <2>1 DEF Looked, LastEnded, NoEvent
  <2> QED
    BY <2>5, <2>6 DEF Looked
<1> QED
  BY <1>1, <1>2, <1>3

\* A start that fails, of Desktop or of a steer, or looks its command up.
LEMMA TryLooks ==
    ASSUME Whole, Looked, NEW x, x \notin Submission, NEW c, TryInput(x, c),
           UNCHANGED <<starts, consumer, closed>>
    PROVE  Looked'
<1>1. CASE MakeTurn(x, TRUE, FALSE)
  BY <1>1, MakeLooks
<1>2. CASE UNCHANGED <<turnVars, queue, unchecked>> /\ looking \subseteq looking'
  <2>1. looking \cap Submission # {} => Looker'
    BY <1>2 DEF Looker
  <2>2. unchecked # {} => Looker'
    BY <1>2 DEF Looker
  <2> QED
    BY <1>2, <2>1, <2>2, LookedStays DEF turnVars, statusVars
<1> QED
  BY <1>1, <1>2 DEF TryInput, BeginInput, CallerFails, queueVars

\* The starts of Desktop and of Delegation.
LEMMA StartsLook ==
    ASSUME Whole, Looked, Begins PROVE Looked'
<1>1. ASSUME NEW c \in BOOLEAN, StartTurn(c) PROVE Looked'
  <2>1. starts # MaxStarts
    BY <1>1, StartsLeft DEF StartTurn
  <2>2. CASE MakeTurn(User, TRUE, FALSE)
    BY <2>2, MakeLooks
  <2>3. CASE UNCHANGED turnVars /\ looking \subseteq looking'
    <3>1. looking \cap Submission # {} => Looker'
      BY <2>3 DEF Looker
    <3>2. UNCHANGED <<queue, unchecked, consumer, closed>>
      BY <1>1 DEF StartTurn, queueVars
    <3>3. unchecked # {} => Looker'
      BY <3>2 DEF Looker
    <3> QED
      BY <2>1, <2>3, <3>1, <3>2, <3>3, LookedStays DEF turnVars, statusVars
  <2> QED
    BY <1>1, <2>2, <2>3 DEF StartTurn, BeginInput
<1>2. ASSUME NEW c \in BOOLEAN, ModelSelected(c) PROVE Looked'
  <2>1. User \notin Submission
    BY TurnsAssumption DEF User
  <2> QED
    BY <1>2, <2>1, TryLooks DEF ModelSelected
<1>3. CASE SelectModel \/ SelectionFails
  <2>1. SelectModel => starts # MaxStarts
    BY StartsLeft DEF SelectModel
  <2>2. UNCHANGED <<turnVars, consumer, looking, queue, unchecked, closed>>
    BY <1>3 DEF SelectModel, SelectionFails, queueVars
  <2>3. starts = MaxStarts => starts' = MaxStarts
    BY <1>3, <2>1 DEF SelectionFails
  <2>4. /\ unchecked # {} => Looker'
        /\ looking \cap Submission # {} => Looker'
    BY <2>2 DEF Looker
  <2> QED
    BY <2>2, <2>3, <2>4, LookedStays DEF turnVars, statusVars
<1>4. CASE StartDelegated
  BY <1>4, MakeLooks DEF StartDelegated
<1> QED
  BY <1>1, <1>2, <1>3, <1>4 DEF Begins

\* The requests to the queue, and what ends steering.
LEMMA RequestsLook ==
    ASSUME Whole, Looked, QueueRequest \/ Stops \/ UNCHANGED vars
    PROVE  Looked'
<1>1. ASSUME NEW s \in Submission, AddSubmission(s) PROVE Looked'
  <2>1. unchecked' # {}
    BY <1>1 DEF AddSubmission
  <2>2. Looker'
    BY <2>1 DEF Looker
  <2> QED
    BY <1>1, <2>2, LookedStays DEF AddSubmission, turnVars, statusVars
<1>2. ASSUME NEW s \in Submission, DeleteSubmission(s) \/ MoveToFront(s) PROVE Looked'
  <2>1. queue # <<>>
    BY <1>2 DEF DeleteSubmission, MoveToFront
  <2>2. UNCHANGED <<turnVars, starts, consumer, lookVars, unchecked, closed>>
    BY <1>2 DEF DeleteSubmission, MoveToFront
  <2>3. /\ unchecked # {} => Looker'
        /\ looking \cap Submission # {} => Looker'
    BY <2>2 DEF Looker, lookVars
  <2> QED
    BY <2>1, <2>2, <2>3, LookedStays DEF turnVars, statusVars
<1>3. ASSUME NEW i, StartQueued(i) PROVE Looked'
  BY <1>3, SubmissionBegins DEF StartQueued
<1>4. CASE Stops \/ UNCHANGED vars
  <2>1. /\ UNCHANGED <<starts, turn, active, projected, overlooked, consumer, lookVars, queueVars>>
        /\ closed # "no" => closed' # "no"
    BY <1>4 DEF Stops, Interrupt, InterruptAnswered, SteeringFault, Close, turnVars,
       statusVars, vars
  <2>2. /\ unchecked # {} => Looker'
        /\ looking \cap Submission # {} => Looker'
    BY <2>1 DEF Looker, lookVars, queueVars
  <2> QED
    BY <2>1, <2>2, LookedStays DEF queueVars
<1> QED
  BY <1>1, <1>2, <1>3, <1>4 DEF QueueRequest

\* What happens to one Turn.
LEMMA TurnsLook ==
    ASSUME Whole, Looked, NEW t \in Turn,
           StartAnswers(t) \/ GateOpens(t) \/ Ends(t) \/ EventArrives(t)
    PROVE  Looked'
<1>1. OneNativeTurn /\ t # NoTurn
  BY NoTurnIsNoTurn DEF Whole, Base, IInv, Core
<1>2. active = t /\ projected' = projected => Looked'
  BY <1>1, NothingEnded DEF Looked, LastEnded
<1>3. CASE StartAnswers(t)
  BY <1>1, <1>2, <1>3
     DEF StartAnswers, Accepted, Rejected, DelegatedStartThrows, OneNativeTurn
<1>4. CASE EventArrives(t)
  BY <1>2, <1>4 DEF EventArrives, turnVars
<1>5. CASE Ends(t)
  BY <1>1, <1>2, <1>5 DEF Ends, NativeEnds, OneNativeTurn
<1>6. CASE GateOpens(t)
  <2>1. /\ turn' = [turn EXCEPT ![t] = TurnAs(t, turn[t].native, TRUE)]
        /\ turn \in [Turn -> TurnRecord]
    BY <1>6 DEF GateOpens, Whole, Base, TypeOK
  <2>2. \A u \in Turn : /\ turn'[u].native = turn[u].native
                        /\ turn'[u].ordinary <=> turn[u].ordinary
    BY <2>1 DEF TurnAs
  <2>3. projected # NoTurn => projected \in Turn
    BY SteersAreCounted DEF Whole, Base, TypeOK, Turn, NoTurn
  <2>4. /\ unchecked # {} => Looker'
        /\ looking \cap Submission # {} => Looker'
    BY <1>6 DEF Looker, lookVars, queueVars, GateOpens
  <2> QED
    BY <1>6, <2>2, <2>3, <2>4, LookedStays DEF GateOpens, lookVars, queueVars, statusVars
<1> QED
  BY <1>3, <1>4, <1>5, <1>6

\* The consumer: a Turn that completed is projected, and then the queue is looked at.
LEMMA ConsumerLooks ==
    ASSUME Whole, Looked, Publish \/ BecomesIdle \/ Settle \/ SubagentsEnd
    PROVE  Looked'
<1>1. CASE Publish
  <2>1. projected = NoTurn
    BY <1>1, NoTurnIsNoTurn DEF Publish, Whole, Base, IInv, Core, EventIsActive, Looked, LastEnded
  <2>2. /\ active' = NoTurn /\ turn' = turn
        /\ consumer'.stage = "published" /\ consumer'.turn = consumer.turn
        /\ projected' = IF turn[consumer.turn].ordinary THEN consumer.turn ELSE projected
    BY <1>1 DEF Publish
  <2> QED
    BY <2>1, <2>2 DEF Looked, Drained, Looker, LastEnded
<1>2. CASE BecomesIdle
  <2>1. /\ UNCHANGED <<turn, active, projected>>
        /\ consumer.stage = "published" /\ consumer'.stage = "idle"
        /\ consumer'.turn = consumer.turn
    BY <1>2 DEF BecomesIdle
  <2> QED
    BY <2>1 DEF Looked, Drained, Looker, LastEnded
<1>3. CASE SubagentsEnd
  <2>1. UNCHANGED <<turn, active, projected, overlooked, starts, consumer, lookVars, queueVars,
                    closed>>
    BY <1>3 DEF SubagentsEnd
  <2>2. /\ unchecked # {} => Looker'
        /\ looking \cap Submission # {} => Looker'
    BY <2>1 DEF Looker, lookVars, queueVars
  <2> QED
    BY <2>1, <2>2, LookedStays DEF queueVars
<1>4. CASE Settle
  <2>1. consumer.stage = "idle" /\ consumer' = NoEvent /\ closed' = closed
    BY <1>4 DEF Settle
  <2>2. CASE Drain
    BY <2>1, <2>2, DrainLooks
  <2>3. CASE projected = NoTurn /\ ~Drain
    <3>1. projected' = NoTurn
      BY <1>4, <2>3 DEF Settle, NoDrain
    <3> QED
      BY <3>1, NothingEnded
  <2>4. CASE projected # NoTurn /\ ~Drain
    <3>1. consumer.turn = projected /\ turn[projected].ordinary
      BY <2>1, <2>4 DEF Looked, LastEnded
    <3>2. /\ UNCHANGED <<turn, active, projected, queue>>
          /\ turn[projected].native # "completed" \/ overlooked' = (overlooked \/ queue # <<>>)
      BY <1>4, <2>4, <3>1 DEF Settle, NoDrain
    <3>3. Drained'
      BY <3>2 DEF Drained, Looker
    <3>4. LastEnded'
      BY <2>1, <3>2 DEF Looked, LastEnded, NoEvent
    <3> QED
      BY <3>3, <3>4 DEF Looked
  <2> QED
    BY <2>2, <2>3, <2>4
<1> QED
  BY <1>1, <1>2, <1>3, <1>4

\* An add looks at the Thread unless its Turn is still to be settled, or notes that
\* subagents hold it.
LEMMA CheckLooks ==
    ASSUME Whole, Looked, NEW s \in Submission, CheckAfterAdd(s)
    PROVE  Looked'
<1>1. consumer' = consumer /\ closed' = closed
  BY DEF CheckAfterAdd
<1>2. CASE Drain
  BY <1>1, <1>2, DrainLooks
<1>3. CASE NoDrain(subagents) /\ ~Drain
  <2>1. /\ UNCHANGED <<turn, active, projected, queue, starts>>
        /\ overlooked' = (overlooked \/ (subagents /\ queue # <<>>))
    BY <1>3 DEF NoDrain
  <2>2. \/ projected = NoTurn \/ turn[projected].native # "completed"
        \/ consumer.stage = "published" \/ subagents
    BY <1>3 DEF CheckAfterAdd
  <2>3. Drained'
    BY <1>1, <2>1, <2>2 DEF Drained, Looker
  <2>4. LastEnded'
    BY <1>1, <2>1 DEF Looked, LastEnded
  <2> QED
    BY <2>3, <2>4 DEF Looked
<1> QED
  BY <1>2, <1>3 DEF CheckAfterAdd

\* The catalog answers: a Turn begins, one is active, or a follow-up is put back.
LEMMA LookupsLook ==
    ASSUME Whole, Looked, NEW x \in Caller, Lookup(x) PROVE Looked'
<1>1. ASSUME UNCHANGED <<turn, active, projected, starts, consumer, closed>>,
             looking' = looking \ {x},
             CallerFails(x), overlooked => overlooked',
             x \in Submission => overlooked' \/ closed # "no" \/ active # NoTurn
      PROVE  Looked'
  <2>1. CASE x \in Submission
    <3>1. projected = NoTurn \/ Looker'
      BY <1>1, <2>1 DEF Looker, Looked, LastEnded
    <3>2. LastEnded'
      BY <1>1 DEF Looked, LastEnded
    <3> QED
      BY <1>1, <3>1, <3>2 DEF Looked, Drained
  <2>2. CASE x \notin Submission
    <3>1. UNCHANGED <<queue, unchecked>>
      BY <1>1, <2>2 DEF CallerFails
    <3>2. looking' \cap Submission = looking \cap Submission
      BY <1>1, <2>2
    <3>3. /\ unchecked # {} => Looker'
          /\ looking \cap Submission # {} => Looker'
      BY <3>1, <3>2 DEF Looker
    <3> QED
      BY <1>1, <3>1, <3>3, LookedStays
  <2> QED
    BY <2>1, <2>2
<1>2. CASE NotFound(x)
  BY <1>1, <1>2 DEF NotFound
<1>3. ASSUME NEW c \in BOOLEAN, Found(x, c) PROVE Looked'
  <2>1. CASE MakeTurn(x, ~c, FALSE)
    BY <2>1, MakeLooks
  <2>2. CASE ~MakeTurn(x, ~c, FALSE)
    <3>1. /\ UNCHANGED <<turn, active, projected, overlooked, starts, consumer, closed>>
          /\ looking' = looking \ {x} /\ CallerFails(x)
      BY <1>3, <2>2 DEF Found, turnVars, statusVars
    <3>2. x \in Submission => x \notin Steer
      BY TurnsAssumption
    <3>3. x \in Submission => closed # "no" \/ active # NoTurn
      BY <1>3, <2>2, <3>2 DEF Found
    <3> QED
      BY <1>1, <3>1, <3>3
  <2> QED
    BY <2>1, <2>2
<1> QED
  BY <1>2, <1>3 DEF Lookup

\* What a steer does leaves the queue alone.
LEMMA SteersLook ==
    ASSUME Whole, Looked, NEW r \in Steer, SteerSteps(r) PROVE Looked'
<1>1. r \notin Submission
  BY TurnsAssumption
<1>2. CASE InsertRefused(r) \/ Proceeds(r)
  <2>1. UNCHANGED <<starts, consumer, closed>>
    BY <1>2 DEF InsertRefused, Proceeds
  <2>2. ASSUME NEW c, TryInput(r, c) PROVE Looked'
    BY <1>1, <2>1, <2>2, TryLooks
  <2>3. CASE UNCHANGED <<turnVars, lookVars, queueVars>>
    <3>1. /\ unchecked # {} => Looker'
          /\ looking \cap Submission # {} => Looker'
      BY <2>3 DEF Looker, lookVars, queueVars
    <3> QED
      BY <2>1, <2>3, <3>1, LookedStays DEF turnVars, statusVars, queueVars
  <2> QED
    BY <1>2, <2>2, <2>3 DEF InsertRefused, Proceeds
<1>3. CASE Replies(r) \/ Joins(r)
  <2>1. UNCHANGED <<starts, active, projected, overlooked, consumer, lookVars, queueVars, closed>>
    BY <1>3 DEF Replies, Joins, statusVars
  <2>4. \A t \in Turn : turn'[t] \in {turn[t], TurnAs(t, turn[t].native, TRUE)}
    BY <1>3 DEF Replies, Joins
  <2>5. \A t \in Turn : LET u == TurnAs(t, turn[t].native, TRUE) IN
                          u.native = turn[t].native /\ u.ordinary = turn[t].ordinary
    BY DEF TurnAs
  <2>2. /\ unchecked # {} => Looker'
        /\ looking \cap Submission # {} => Looker'
    BY <2>1 DEF Looker, lookVars, queueVars
  <2>3. projected # NoTurn => projected \in Turn
    BY SteersAreCounted DEF Whole, Base, TypeOK, Turn, NoTurn
  <2> QED
    BY <2>1, <2>2, <2>3, <2>4, <2>5, LookedStays DEF queueVars
<1>4. CASE ~(InsertRefused(r) \/ Proceeds(r) \/ Replies(r) \/ Joins(r))
  <2>1. UNCHANGED <<starts, turnVars, consumer, lookVars, queueVars, closed>>
    BY <1>4 DEF SteerSteps, Arrives, SteerJoins, SteerBegins, ReadAnswers, ReadFails,
       CapabilityRead, InsertAnswers, Inserted, InsertLost, Cancels, CancelAnswered,
       CancelRefused, Timeout, Advances, Projected, GivesUp
  <2>2. /\ unchecked # {} => Looker'
        /\ looking \cap Submission # {} => Looker'
    BY <2>1 DEF Looker, lookVars, queueVars
  <2> QED
    BY <2>1, <2>2, LookedStays DEF turnVars, statusVars, queueVars
<1> QED
  BY <1>2, <1>3, <1>4

\* No follow-up waits for nothing after a Turn that completed: the completion, or
\* the add that came too late for it, looks at the queue, and where the Thread was
\* held then, by a steer, a command lookup or subagents, it is overlooked.
THEOREM FollowUpsGoOn == Spec => []NoFollowUpStalls
<1>1. Whole /\ Looked /\ [Next]_vars => Looked'
  BY StartsLook, RequestsLook, TurnsLook, ConsumerLooks, CheckLooks, LookupsLook, SteersLook
     DEF Next, SteerSteps
<1>2. Whole /\ Looked => NoFollowUpStalls
  <2>1. Whole => ~(starts = MaxStarts /\ starts < MaxStarts)
    BY SteersAreCounted DEF Whole, Base, TypeOK
  <2> QED
    BY <2>1 DEF Looked, Drained, Looker, NoFollowUpStalls
<1> QED
  BY <1>1, <1>2, LookedAtFirst, WholeAlways, PTL DEF Spec
==============================================================================
