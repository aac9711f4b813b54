----------------------------- MODULE ThreadTurns -----------------------------
(***************************************************************************)
(* The Turns of one loaded external Thread: how Turns start and end, how   *)
(* external-turn-steering.ts delivers input into a running Turn or in its  *)
(* place, and how external-thread-queue.ts keeps the follow-ups.           *)
(*                                                                         *)
(* turn/start, turn/steer and thread/queue/ requests are dispatched        *)
(* detached, so their awaits interleave with each other, with Turns that   *)
(* Delegation starts, and with the consumer of the native output.  Every   *)
(* await of the code is a step boundary here.  Turns are numbered in the   *)
(* order they are begun; 0 is none.                                        *)
(***************************************************************************)
EXTENDS Integers, FiniteSets, SequencesExt

CONSTANTS Steer,       \* turn/steer requests
          Message,     \* the client message identities steers carry
          Submission,  \* follow-ups Desktop may queue
          Command,     \* the messages and submissions that look like a command
          Native,      \* the Harness can take input into its running Turn
          LostAnswers, \* the answer to a native insertion can be lost
          Subagents,   \* the Harness runs subagents beside and after its Turns
          NoOne,
          MaxStarts    \* bound of the model: starts that are no steers

ASSUME TurnsAssumption ==
    /\ MaxStarts \in Nat
    /\ IsFiniteSet(Steer) /\ IsFiniteSet(Submission)
    /\ Native \in BOOLEAN /\ LostAnswers \in BOOLEAN /\ Subagents \in BOOLEAN
    /\ Command \subseteq Message \cup Submission
    /\ NoOne \notin Steer \cup Submission \cup Message \cup {"user", "delegate"}
    /\ Steer \cap Submission = {}
    /\ {"user", "delegate"} \cap (Steer \cup Submission) = {}

NoTurn == 0
Turn == 1 .. MaxStarts + Cardinality(Steer)
User == "user"
Delegate == "delegate"
Caller == Steer \cup Submission \cup {User, Delegate}
Ended == {"completed", "interrupted", "failed"}

VARIABLES
    turn,      \* the Turns: native state, caller, open response gate, ordinary
    turns,     \* Turns begun so far
    starts,    \* starts admitted so far that are no steers
    active,    \* thread.activeTurnId; running is active # NoTurn
    projected, \* thread.projectedTerminalTurnId
    stopping,  \* the active Turn's response gate waits for a turn/interrupt as well
    subagents, \* the Thread is idle, but active for Desktop: its subagents run
    overlooked, \* history: the last look at the queue came to a Thread that was held
    inserts,   \* thread.pendingSteerProjections
    consumer,  \* the terminal event the output consumer is handling
    steer,     \* the steer requests
    pending,   \* #pending.get(id): the steer that reserves the Thread, whether its
               \* wait was rejected, and the outcome it was told
    receipt,   \* #receipts: message -> the steer that delivers it
    looking,   \* callers that wait for the command catalog
    commandPending, \* #pendingExternalCommandRequests.has(id)
    starter,   \* Desktop's own turn/start: off, selecting, looking
    queue,     \* the queued submissions
    taken,     \* submission -> index it was taken from while it is being started
    added, deleted, \* submissions ever added, deleted by Desktop
    unchecked, \* submissions whose add has still to look for an idle Thread
    closed     \* no, steering (Desktop is gone), host

statusVars == <<stopping, subagents, overlooked>>
turnVars == <<turn, turns, active, projected, statusVars>>
queueVars == <<queue, taken, added, deleted, unchecked>>
steerVars == <<steer, pending, receipt>>
lookVars == <<looking, commandPending, starter>>
vars == <<turnVars, starts, inserts, consumer, steerVars, lookVars, queueVars, closed>>

Unmade == [native |-> "unmade", by |-> NoOne, open |-> FALSE, ordinary |-> TRUE]
NoEvent == [turn |-> NoTurn, stage |-> "none", waits |-> {}]
NewSteer == [pc |-> "new", message |-> NoOne, target |-> NoTurn, presented |-> "none",
             leader |-> NoOne, inserted |-> FALSE, halted |-> FALSE]
Reservation(r) == [steer |-> r, rejected |-> FALSE, outcome |-> "none"]
Free == Reservation(NoOne)
Reserved(r) == pending.steer = r

Init ==
    /\ turn = [t \in Turn |-> Unmade]
    /\ turns = 0 /\ starts = 0 /\ active = NoTurn /\ projected = NoTurn
    /\ stopping = FALSE /\ subagents = FALSE /\ overlooked = FALSE
    /\ inserts = {} /\ consumer = NoEvent
    /\ steer = [r \in Steer |-> NewSteer]
    /\ pending = Free
    /\ receipt = [m \in Message |-> NoOne]
    /\ looking = {} /\ commandPending = FALSE /\ starter = "off"
    /\ queue = <<>> /\ taken = [s \in Submission |-> 0]
    /\ added = {} /\ deleted = {} /\ unchecked = {}
    /\ closed = "no"

-----------------------------------------------------------------------------
(* Beginning a Turn.                                                       *)

Busy == active # NoTurn \/ pending # Free

Admit == starts < MaxStarts /\ starts' = starts + 1

\* What every start does before its first await.
MakeTurn(by, ordinary, open) ==
    /\ turns' = turns + 1
    /\ turn' = [turn EXCEPT ![turns + 1] = [native |-> "starting", by |-> by,
                                            open |-> open, ordinary |-> ordinary]]
    /\ active' = turns + 1
    /\ projected' = NoTurn
    /\ stopping' = FALSE /\ overlooked' = FALSE
    /\ UNCHANGED subagents

\* Turn t with its native state and its response gate replaced.
TurnAs(t, native, open) ==
    [native |-> native, by |-> turn[t].by, open |-> open, ordinary |-> turn[t].ordinary]

At(r, pc) == [steer EXCEPT ![r] = [@ EXCEPT !.pc = pc]]

\* The promise of steer r rejects: its reservation and its receipt go.
SteerFails(r) ==
    /\ steer' = [steer EXCEPT ![r] = [@ EXCEPT !.pc = "failed", !.halted = FALSE]]
    /\ pending' = IF Reserved(r) THEN Free ELSE pending
    /\ receipt' = [m \in Message |-> IF receipt[m] = r THEN NoOne ELSE receipt[m]]

\* restore: a submission that did not start returns to its place.
RestoreNothing(s) ==   \* Mutant: a failed start loses the submission.
    UNCHANGED queue /\ taken' = [taken EXCEPT ![s] = 0]
Restore(s) ==
    /\ queue' = IF Contains(queue, s) THEN queue
                ELSE LET n == Len(queue) + 1 IN
                     InsertAt(queue, IF taken[s] < n THEN taken[s] ELSE n, s)
    /\ taken' = [taken EXCEPT ![s] = 0]

\* The start of caller x ended without a Turn.
CallerFails(x) ==
    /\ IF x \in Steer THEN SteerFails(x) ELSE UNCHANGED steerVars
    /\ IF x \in Submission THEN Restore(x) ELSE UNCHANGED <<queue, taken>>
    /\ starter' = IF x = User THEN "off" ELSE starter
    /\ UNCHANGED <<added, deleted, unchecked>>

\* Caller x has a Turn that waits for the native start.
CallerWaits(x) ==
    /\ steer' = IF x \in Steer THEN At(x, "starting") ELSE steer
    /\ starter' = IF x = User THEN "off" ELSE starter
    /\ UNCHANGED <<pending, receipt>>

\* #beginExternalInputTurn: a command looks the catalog up, other text starts.
BeginInput(x, isCommand) ==
    IF isCommand
    THEN /\ looking' = looking \cup {x} /\ commandPending' = TRUE
         /\ starter' = IF x = User THEN "looking" ELSE starter
         /\ steer' = IF x \in Steer THEN At(x, "starting") ELSE steer
         /\ UNCHANGED <<turnVars, pending, receipt>>
    ELSE /\ MakeTurn(x, TRUE, FALSE) /\ CallerWaits(x)
         /\ UNCHANGED <<looking, commandPending>>

RefusedUnlessActive ==   \* Mutant: the start does not look for a Turn again.
    closed = "host" \/ commandPending
Refused == closed = "host" \/ active # NoTurn \/ commandPending

\* Begin x, or fail when the Thread cannot take a Turn now.
TryInput(x, isCommand) ==
    IF ~isCommand /\ Refused
    THEN CallerFails(x) /\ UNCHANGED <<turnVars, looking, commandPending>>
    ELSE BeginInput(x, isCommand) /\ UNCHANGED queueVars

-----------------------------------------------------------------------------
(* The starts of Desktop and of Delegation.                                *)

\* turn/start: the check, then the model selection or the start itself.
StartTurn(isCommand) ==
    /\ closed = "no" /\ starter = "off" /\ Admit
    /\ ~Busy /\ ~commandPending
    /\ isCommand => Command # {}
    /\ BeginInput(User, isCommand)
    /\ UNCHANGED <<inserts, consumer, queueVars, closed>>

SelectModel ==
    /\ closed = "no" /\ starter = "off" /\ Admit
    /\ ~Busy /\ ~commandPending
    /\ starter' = "selecting"
    /\ UNCHANGED <<turnVars, inserts, consumer, steerVars, looking, commandPending,
                   queueVars, closed>>

ModelSelected(isCommand) ==
    /\ starter = "selecting"
    /\ isCommand => Command # {}
    /\ TryInput(User, isCommand)
    /\ UNCHANGED <<starts, inserts, consumer, closed>>

SelectionFails ==
    /\ starter = "selecting"
    /\ starter' = "off"
    /\ UNCHANGED <<starts, turnVars, inserts, consumer, steerVars, looking,
                   commandPending,
                   queueVars, closed>>

\* #startDelegatedExternalTurn: its gate is open from the start, and it looks at
\* no pending command.
StartDelegated ==
    /\ closed # "host" /\ ~Busy /\ Admit
    /\ MakeTurn(Delegate, TRUE, TRUE)
    /\ UNCHANGED <<inserts, consumer, steerVars, lookVars, queueVars, closed>>

\* The catalog answers x: a command of the Harness, or ordinary text after all.
\* A steer checks first that nobody stopped it meanwhile.
FoundUnchecked(x, isCommand) ==   \* Mutant: no assertActive after the catalog.
    LET blocked == closed = "host" \/ active # NoTurn IN
    /\ x \in looking
    /\ looking' = looking \ {x}
    /\ commandPending' = (isCommand /\ ~blocked)
    /\ IF blocked
       THEN CallerFails(x) /\ UNCHANGED turnVars
       ELSE /\ MakeTurn(x, ~isCommand, FALSE) /\ CallerWaits(x)
            /\ UNCHANGED queueVars
    /\ UNCHANGED <<starts, inserts, consumer, closed>>
Found(x, isCommand) ==
    LET stopped == x \in Steer /\ ((Reserved(x) /\ pending.rejected) \/ closed # "no")
        blocked == stopped \/ closed = "host" \/ active # NoTurn IN
    /\ x \in looking
    /\ looking' = looking \ {x}
    /\ commandPending' = (isCommand /\ ~blocked)
    /\ IF blocked
       THEN CallerFails(x) /\ UNCHANGED turnVars
       ELSE /\ MakeTurn(x, ~isCommand, FALSE) /\ CallerWaits(x)
            /\ UNCHANGED queueVars
    /\ UNCHANGED <<starts, inserts, consumer, closed>>

NotFound(x) ==
    /\ x \in looking
    /\ looking' = looking \ {x} /\ commandPending' = FALSE
    /\ overlooked' = (overlooked \/ x \in Submission)
    /\ CallerFails(x)
    /\ UNCHANGED <<starts, turn, turns, active, projected, stopping, subagents, inserts,
                   consumer, closed>>

\* The lookup that began Turn t ends with its start.  Of Desktop's own input the
\* model does not remember whether it was looked up.
LookupEnds(t) ==
    LET x == turn[t].by
        looked == \/ ~turn[t].ordinary \/ x \in Command
                  \/ x \in Steer /\ steer[x].message \in Command IN
    commandPending' \in IF looked THEN {FALSE}
                        ELSE IF x = User THEN {FALSE, commandPending} ELSE {commandPending}

\* turn.start (or the command) answers: the Harness has the input.
Accepted(t) ==
    LET x == turn[t].by IN
    /\ turn[t].native = "starting"
    /\ turn' = [turn EXCEPT ![t] = TurnAs(t, "running", turn[t].open)]
    /\ LookupEnds(t)
    /\ taken' = [s \in Submission |-> IF s = x THEN 0 ELSE taken[s]]
    /\ steer' = IF x \in Steer THEN At(x, "replying") ELSE steer
    /\ pending' = IF Reserved(x) THEN Free ELSE pending
    /\ UNCHANGED <<starts, turns, active, projected, statusVars, inserts, consumer,
                   receipt, looking, starter,
                   queue, added, deleted, unchecked, closed>>

\* It refuses the Turn, or the start throws.
Rejected(t) ==
    /\ turn[t].native = "starting"
    /\ turn' = [turn EXCEPT ![t] = TurnAs(t, "rejected", TRUE)]
    /\ active' = NoTurn /\ stopping' = FALSE
    /\ LookupEnds(t)
    /\ CallerFails(turn[t].by)
    /\ UNCHANGED <<starts, turns, projected, subagents, overlooked, inserts, consumer,
                   looking, closed>>

\* Only a delegated start undoes nothing when it throws: the Thread stays busy.
DelegatedStartThrows(t) ==
    /\ turn[t].native = "starting" /\ turn[t].by = Delegate
    /\ turn' = [turn EXCEPT ![t] = TurnAs(t, "rejected", turn[t].open)]
    /\ UNCHANGED <<starts, turns, active, projected, statusVars, inserts, consumer,
                   steerVars, lookVars, queueVars, closed>>

\* The answer of turn/start, or the queue notification, is written: events flow.
GateOpens(t) ==
    /\ turn[t].native \in {"running"} \cup Ended
    /\ ~turn[t].open /\ turn[t].by \notin Steer
    /\ turn' = [turn EXCEPT ![t] = TurnAs(t, turn[t].native, TRUE)]
    /\ UNCHANGED <<starts, turns, active, projected, statusVars, inserts, consumer,
                   steerVars, lookVars, queueVars, closed>>

-----------------------------------------------------------------------------
(* Steering.                                                               *)

Mode == IF Native THEN {"activeTurn", "newTurn"} ELSE {"newTurn"}

\* What deliver does before its first await: a replacement reserves the Thread
\* before it cancels, an insertion reserves nothing.
Deliver(r, as, mode) ==
    LET pc == CASE mode = "newTurn" -> "cancelling"
                [] mode = "activeTurn" -> "inserting"
                [] mode = "read" -> "reading" IN
    /\ steer' = [steer EXCEPT ![r] = [as EXCEPT !.pc = pc]]
    /\ pending' = IF mode # "activeTurn" THEN Reservation(r)
                  ELSE IF Reserved(r) THEN Free ELSE pending

\* deliver after an await: the target is checked again.
Redeliver(r, mode) ==
    IF closed # "no" \/ active # steer[r].target \/ pending.steer \notin {NoOne, r}
    THEN SteerFails(r)
    ELSE Deliver(r, steer[r], mode) /\ UNCHANGED receipt

\* insertNativeSteer registers its projection before it executes, and ends it.
TrackInsert(r) ==
    inserts' = IF steer'[r].pc = "inserting" THEN inserts \cup {r} ELSE inserts \ {r}

\* The delivery of message m: what the Renderer presented, newTurn for a command,
\* else what the Session says, at once or after a read.
ModesOf(m, presented) ==
    IF m \in Command \/ presented = "newTurn" THEN {"newTurn"}
    ELSE IF presented = "activeTurn" THEN {"activeTurn"}
    ELSE Mode \cup {"read"}

\* run: a message that is being delivered, or was, joins that delivery; otherwise
\* the target is the active Turn of a Thread nobody reserves.  A steer that run
\* refuses (another target, a busy Thread) changes nothing and is left out.
SteerJoins(r, m) ==
    /\ closed = "no" /\ steer[r].pc = "new" /\ receipt[m] # NoOne
    /\ steer' = [steer EXCEPT ![r] = [@ EXCEPT !.pc = "joined", !.message = m,
                              !.target = steer[receipt[m]].target, !.leader = receipt[m]]]
    /\ UNCHANGED <<starts, turnVars, inserts, consumer, pending, receipt, lookVars,
                   queueVars, closed>>

SteerBeginsAgain(r, m, presented, mode) ==   \* Mutant: no look at the receipts.
    LET as == [NewSteer EXCEPT !.message = m, !.target = active,
                               !.presented = presented] IN
    /\ closed = "no" /\ steer[r].pc = "new"
    /\ pending = Free /\ active # NoTurn
    /\ mode \in ModesOf(m, presented)
    /\ Deliver(r, as, mode) /\ TrackInsert(r)
    /\ receipt' = [receipt EXCEPT ![m] = r]
    /\ UNCHANGED <<starts, turnVars, consumer, lookVars, queueVars, closed>>
SteerBegins(r, m, presented, mode) ==
    LET as == [NewSteer EXCEPT !.message = m, !.target = active,
                               !.presented = presented] IN
    /\ closed = "no" /\ steer[r].pc = "new" /\ receipt[m] = NoOne
    /\ pending = Free /\ active # NoTurn
    /\ mode \in ModesOf(m, presented)
    /\ Deliver(r, as, mode) /\ TrackInsert(r)
    /\ receipt' = [receipt EXCEPT ![m] = r]
    /\ UNCHANGED <<starts, turnVars, consumer, lookVars, queueVars, closed>>

\* The capability read answers; its reservation ends before deliver.
CapabilityRead(r, mode) ==
    /\ steer[r].pc = "reading" /\ ~pending.rejected
    /\ Redeliver(r, mode) /\ TrackInsert(r)
    /\ UNCHANGED <<starts, turnVars, consumer, lookVars, queueVars, closed>>

ReadFails(r) ==
    /\ steer[r].pc = "reading"
    /\ SteerFails(r)
    /\ UNCHANGED <<starts, turnVars, inserts, consumer, lookVars, queueVars, closed>>

\* turn.steer answers: the Harness has the input, and only while the Turn runs.
Inserted(r) ==
    /\ steer[r].pc = "inserting"
    /\ turn[steer[r].target].native = "running"
    /\ steer' = [steer EXCEPT ![r] = [@ EXCEPT !.pc = "projecting", !.inserted = TRUE]]
    /\ UNCHANGED <<starts, turnVars, inserts, consumer, pending, receipt, lookVars,
                   queueVars, closed>>

\* The answer is lost: nobody knows whether the Harness has the input.
InsertLost(r) ==
    /\ LostAnswers /\ steer[r].pc = "inserting"
    /\ \E has \in {FALSE, turn[steer[r].target].native = "running"} :
         steer' = [steer EXCEPT ![r] = [@ EXCEPT !.pc = "failed", !.inserted = has]]
    /\ receipt' = [m \in Message |-> IF receipt[m] = r THEN NoOne ELSE receipt[m]]
    /\ inserts' = inserts \ {r}
    /\ UNCHANGED <<starts, turnVars, consumer, pending, lookVars, queueVars, closed>>

\* Whether the events of Turn t flow: its start was answered, and so was every
\* turn/interrupt of it.
GateIsOpen(t) == turn[t].open /\ ~(stopping /\ active = t)

\* The item is projected into its Turn (a failure is only diagnosed).
ProjectedOrFails(r) ==   \* Mutant: a failed projection fails the steer.
    /\ steer[r].pc = "projecting" /\ GateIsOpen(steer[r].target)
    /\ steer' = At(r, "failed")
    /\ inserts' = inserts \ {r}
    /\ UNCHANGED <<starts, turnVars, consumer, pending, receipt, lookVars, queueVars,
                   closed>>
Projected(r) ==
    /\ steer[r].pc = "projecting" /\ GateIsOpen(steer[r].target)
    /\ steer' = At(r, "replying")
    /\ inserts' = inserts \ {r}
    /\ UNCHANGED <<starts, turnVars, consumer, pending, receipt, lookVars, queueVars,
                   closed>>

\* The Harness did not take the input.  A presented activeTurn fails; otherwise the
\* running Turn is replaced, and when none runs the input starts the next Turn.
InsertRefused(r) ==
    /\ steer[r].pc = "inserting"
    /\ IF steer[r].presented = "activeTurn" \/ (active = NoTurn /\ closed # "no")
       THEN SteerFails(r) /\ UNCHANGED <<turnVars, lookVars, queueVars>>
       ELSE IF active # NoTurn
       THEN Redeliver(r, "newTurn") /\ UNCHANGED <<turnVars, lookVars, queueVars>>
       ELSE TryInput(r, FALSE)
    /\ TrackInsert(r)
    /\ UNCHANGED <<starts, consumer, closed>>

\* turn.cancel answers: accepted, or refused because the Turn is already ending.
CancelAnswered(r) ==
    /\ steer[r].pc = "cancelling" /\ ~pending.rejected
    /\ steer' = At(r, "waiting")
    /\ UNCHANGED <<starts, turnVars, inserts, consumer, pending, receipt, lookVars,
                   queueVars, closed>>

CancelRefused(r) ==
    /\ steer[r].pc = "cancelling" /\ ~pending.rejected
    /\ turn[steer[r].target].native \in {"starting", "running"}
    /\ SteerFails(r)
    /\ UNCHANGED <<starts, turnVars, inserts, consumer, lookVars, queueVars, closed>>

\* The timer runs until the terminal event is here.
TimerNotCleared(r) ==   \* Mutant: the timer survives its steer.
    /\ steer[r].pc # "new" /\ ~pending.rejected
    /\ pending' = [pending EXCEPT !.rejected = TRUE]
    /\ UNCHANGED <<starts, turnVars, inserts, consumer, steer, receipt, lookVars,
                   queueVars, closed>>
TimerClearedEarly(r) ==   \* Mutant: the answer to the cancel clears the timer.
    /\ steer[r].pc = "cancelling" /\ ~pending.rejected
    /\ pending' = [pending EXCEPT !.rejected = TRUE]
    /\ UNCHANGED <<starts, turnVars, inserts, consumer, steer, receipt, lookVars,
                   queueVars, closed>>
Timeout(r) ==
    /\ steer[r].pc \in {"cancelling", "waiting"} /\ ~pending.rejected
    /\ pending' = [pending EXCEPT !.rejected = TRUE]
    /\ UNCHANGED <<starts, turnVars, inserts, consumer, steer, receipt, lookVars,
                   queueVars, closed>>

\* A rejected reservation ends its steer at the next race.
GivesUp(r) ==
    /\ steer[r].pc \in {"reading", "cancelling", "waiting"} /\ pending.rejected
    /\ SteerFails(r)
    /\ UNCHANGED <<starts, turnVars, inserts, consumer, lookVars, queueVars, closed>>

\* The terminal of the replaced Turn is here: check everything, then begin.
Proceeds(r) ==
    /\ steer[r].pc = "waiting" /\ pending.outcome # "none" /\ ~pending.rejected
    /\ IF closed # "no" \/ pending.outcome = "failed" \/ active # NoTurn
       THEN SteerFails(r) /\ UNCHANGED <<turnVars, lookVars, queueVars>>
       ELSE TryInput(r, steer[r].message \in Command)
    /\ UNCHANGED <<starts, inserts, consumer, closed>>

\* The answer is written; events of a Turn the steer began flow from here on.
Replies(r) ==
    /\ steer[r].pc = "replying"
    /\ steer' = At(r, "done")
    /\ turn' = [t \in Turn |-> IF turn[t].by = r THEN TurnAs(t, turn[t].native, TRUE)
                                ELSE turn[t]]
    /\ UNCHANGED <<starts, turns, active, projected, statusVars, inserts, consumer,
                   pending, receipt, lookVars, queueVars, closed>>

\* A retry has the result of the delivery it joined, and opens the same gate.
Joins(r) ==
    LET d == steer[r].leader IN
    /\ steer[r].pc = "joined" /\ steer[d].pc \in {"replying", "done", "failed"}
    /\ steer' = At(r, IF steer[d].pc = "failed" THEN "failed" ELSE "done")
    /\ turn' = [t \in Turn |-> IF turn[t].by = d /\ steer[d].pc # "failed"
                                THEN TurnAs(t, turn[t].native, TRUE) ELSE turn[t]]
    /\ UNCHANGED <<starts, turns, active, projected, statusVars, inserts, consumer,
                   pending, receipt, lookVars, queueVars, closed>>

-----------------------------------------------------------------------------
(* The follow-up queue.                                                    *)

\* take, then the start: the submission leaves the queue before any await.
StartSubmission(i) ==
    LET s == queue[i] IN
    /\ Admit
    /\ queue' = RemoveAt(queue, i)
    /\ taken' = [taken EXCEPT ![s] = i]
    /\ BeginInput(s, s \in Command)
    /\ UNCHANGED <<added, deleted>>

\* #drainExternalQueue, or nothing when the Thread is busy.
MayDrain ==
    /\ queue # <<>> /\ ~Busy /\ ~commandPending /\ closed # "host"
    /\ starts < MaxStarts
NoDrain(held) ==
    /\ overlooked' = (overlooked \/ (held /\ queue # <<>>))
    /\ UNCHANGED <<turn, turns, active, projected, stopping, subagents, starts,
                   steerVars, lookVars, queue, taken, added, deleted>>
Drain == IF MayDrain THEN StartSubmission(1)
         ELSE NoDrain(pending # Free \/ commandPending)

AddSubmission(s) ==
    /\ closed = "no" /\ s \notin added
    /\ queue' = Append(queue, s)
    /\ added' = added \cup {s} /\ unchecked' = unchecked \cup {s}
    /\ UNCHANGED <<starts, turnVars, inserts, consumer, steerVars, lookVars, taken,
                   deleted, closed>>

\* After its answer an add looks whether the Thread completed meanwhile and is idle
\* for Desktop: the consumer has said so, and no subagent runs on.
AddUnchecked(s) ==   \* Mutant: an add never looks at the Thread.
    /\ s \in unchecked
    /\ unchecked' = unchecked \ {s}
    /\ UNCHANGED <<turnVars, starts, inserts, consumer, steerVars, lookVars, queue,
                   taken,
                   added, deleted, closed>>
CheckAfterAdd(s) ==
    /\ s \in unchecked
    /\ unchecked' = unchecked \ {s}
    /\ IF /\ projected # NoTurn /\ turn[projected].native = "completed"
          /\ consumer.stage # "published" /\ ~subagents
       THEN Drain
       ELSE NoDrain(subagents)
    /\ UNCHANGED <<inserts, consumer, closed>>

DeleteSubmission(s) ==
    /\ closed = "no"
    /\ \E i \in 1 .. Len(queue) : queue[i] = s /\ queue' = RemoveAt(queue, i)
    /\ deleted' = deleted \cup {s}
    /\ UNCHANGED <<starts, turnVars, inserts, consumer, steerVars, lookVars, taken,
                   added,
                   unchecked, closed>>

\* reorder with one listed identity: it moves to the front.
MoveToFront(s) ==
    /\ closed = "no"
    /\ \E i \in 2 .. Len(queue) : queue[i] = s /\ queue' = <<s>> \o RemoveAt(queue, i)
    /\ UNCHANGED <<starts, turnVars, inserts, consumer, steerVars, lookVars, taken,
                   added, deleted,
                   unchecked, closed>>

\* thread/queue/start of the submission at place i.
StartQueued(i) ==
    /\ closed = "no" /\ i \in 1 .. Len(queue)
    /\ ~Busy /\ ~commandPending
    /\ StartSubmission(i)
    /\ UNCHANGED <<inserts, consumer, unchecked, closed>>

-----------------------------------------------------------------------------
(* The native Turn, its terminal event, and what ends steering.            *)

NativeEnds(t, how) ==
    /\ turn[t].native = "running"
    /\ turn' = [turn EXCEPT ![t] = TurnAs(t, how, turn[t].open)]
    /\ UNCHANGED <<starts, turns, active, projected, statusVars, inserts, consumer,
                   steerVars, lookVars, queueVars, closed>>

\* The consumer takes turn.completed: it waits for the insertions it sees now.
EventOvertakes(t) ==   \* Mutant: insertions are not waited for.
    /\ consumer.stage = "none" /\ active = t /\ turn[t].native \in Ended
    /\ consumer' = [turn |-> t, stage |-> "waiting", waits |-> {}]
    /\ UNCHANGED <<turnVars, starts, inserts, steerVars, lookVars, queueVars, closed>>
EventArrives(t) ==
    /\ consumer.stage = "none" /\ active = t /\ turn[t].native \in Ended
    /\ consumer' = [turn |-> t, stage |-> "waiting", waits |-> inserts]
    /\ UNCHANGED <<starts, turnVars, inserts, steerVars, lookVars, queueVars, closed>>

\* They are projected and the response gate is open: the Turn ends for the Host.
Publish ==
    LET t == consumer.turn IN
    /\ consumer.stage = "waiting" /\ GateIsOpen(t)
    /\ consumer.waits \cap inserts = {}
    /\ consumer' = [turn |-> t, stage |-> "published", waits |-> consumer.waits]
    /\ active' = NoTurn /\ stopping' = FALSE
    /\ projected' = IF turn[t].ordinary THEN t ELSE projected
    /\ inserts' = {}
    /\ UNCHANGED <<starts, turn, turns, subagents, overlooked, steerVars, lookVars,
                   queueVars, closed>>

\* The item notifications are written and the Thread is idle for Desktop, unless its
\* subagents still run.
BecomesIdle ==
    /\ consumer.stage = "published"
    /\ consumer' = [turn |-> consumer.turn, stage |-> "idle", waits |-> consumer.waits]
    /\ subagents' \in {FALSE, Subagents}
    /\ UNCHANGED <<turn, turns, active, projected, stopping, overlooked, starts,
                   inserts, steerVars, lookVars, queueVars, closed>>

\* The last subagent ends: the Thread is idle, and nobody looks at the queue.
SubagentsEnd ==
    /\ subagents /\ consumer.stage = "none" /\ active = NoTurn
    /\ subagents' = FALSE
    /\ UNCHANGED <<turn, turns, active, projected, stopping, overlooked, starts,
                   inserts, consumer, steerVars, lookVars, queueVars, closed>>

\* That is written too: the waiting steer learns the outcome, and a Turn that
\* completed lets the next follow-up start.
Settle ==
    LET t == consumer.turn
        tell == pending # Free /\ steer[pending.steer].target = t IN
    /\ consumer.stage = "idle"
    /\ consumer' = NoEvent
    /\ IF tell
       THEN /\ pending' = [pending EXCEPT !.outcome = turn[t].native]
            /\ overlooked' = (overlooked \/ queue # <<>>)
            /\ UNCHANGED <<turn, turns, active, projected, stopping, subagents, starts,
                           steer, receipt, lookVars, queue, taken, added, deleted>>
       ELSE IF turn[t].ordinary /\ turn[t].native = "completed" THEN Drain
       ELSE NoDrain(FALSE)
    /\ UNCHANGED <<inserts, unchecked, closed>>

\* fault: the reservation, if there is one and "which" holds for it, is rejected.
RejectPending(which) ==
    pending' = IF pending # Free /\ which THEN [pending EXCEPT !.rejected = TRUE]
               ELSE pending

InFlight(r) ==
    \/ steer[r].pc \in {"reading", "inserting", "cancelling", "waiting"}
    \/ r \in looking

\* turn/interrupt of Turn t: it stops a steer that waits for t, and cancels t (the
\* native Turn may end in any way).  Until the cancel is answered t's response gate
\* waits for it as well; who waits at the gate already knows the old one.  halted
\* remembers the steers it came upon.
Interrupt(t) ==
    /\ closed = "no" /\ t <= turns /\ (active = t \/ pending # Free)
    /\ RejectPending(steer[pending.steer].target = t)
    /\ steer' = [r \in Steer |-> IF InFlight(r) /\ steer[r].target = t
                                 THEN [steer[r] EXCEPT !.halted = TRUE] ELSE steer[r]]
    /\ stopping' \in IF active # t THEN {stopping}
                     ELSE IF turn[t].open THEN {TRUE} ELSE {TRUE, stopping}
    /\ UNCHANGED <<starts, turn, turns, active, projected, subagents, overlooked,
                   inserts, consumer, receipt, lookVars, queueVars, closed>>

\* turn.cancel answers the last turn/interrupt, which is answered in turn.  A
\* cancel that hangs or throws leaves the gate closed for good.
InterruptAnswered ==
    /\ stopping
    /\ stopping' = FALSE
    /\ UNCHANGED <<turn, turns, active, projected, subagents, overlooked, starts,
                   inserts, consumer, steerVars, lookVars, queueVars, closed>>

\* session.faulted, or the end of the output: the waiting steer is rejected.
SteeringFault ==
    /\ pending # Free
    /\ RejectPending(TRUE)
    /\ UNCHANGED <<starts, turnVars, inserts, consumer, steer, receipt, lookVars,
                   queueVars, closed>>

\* disconnect ends steering, close ends every start.
Close(how) ==
    /\ closed # "host" /\ closed # how
    /\ closed' = how
    /\ RejectPending(TRUE)
    /\ receipt' = [m \in Message |-> NoOne]
    /\ UNCHANGED <<starts, turnVars, inserts, consumer, steer, lookVars, queueVars>>

-----------------------------------------------------------------------------
Begins ==
    \/ \E c \in BOOLEAN : StartTurn(c) \/ ModelSelected(c)
    \/ SelectModel \/ SelectionFails
    \/ StartDelegated

Lookup(x) == NotFound(x) \/ \E c \in BOOLEAN : Found(x, c)
StartAnswers(t) == Accepted(t) \/ Rejected(t) \/ DelegatedStartThrows(t)

Arrives(r) ==
    \E m \in Message :
        \/ SteerJoins(r, m)
        \/ \E p \in {"none"} \cup Mode, mode \in Mode \cup {"read"} :
              SteerBegins(r, m, p, mode)

InsertAnswers(r) == Inserted(r) \/ InsertRefused(r) \/ InsertLost(r)
ReadAnswers(r) == ReadFails(r) \/ \E mode \in Mode : CapabilityRead(r, mode)
Advances(r) ==
    \/ Projected(r) \/ GivesUp(r) \/ Proceeds(r) \/ Replies(r) \/ Joins(r)
Cancels(r) == CancelAnswered(r) \/ CancelRefused(r)

QueueRequest ==
    \/ \E s \in Submission : AddSubmission(s) \/ DeleteSubmission(s) \/ MoveToFront(s)
    \/ \E i \in 1 .. Cardinality(Submission) : StartQueued(i)

Ends(t) == \E how \in Ended : NativeEnds(t, how)
Stops ==
    \/ \E t \in Turn : Interrupt(t)
    \/ InterruptAnswered \/ SteeringFault
    \/ \E how \in {"steering", "host"} : Close(how)

Next ==
    \/ Begins
    \/ QueueRequest
    \/ Stops
    \/ Publish \/ BecomesIdle \/ Settle \/ SubagentsEnd
    \/ \E r \in Steer : \/ Arrives(r) \/ ReadAnswers(r) \/ InsertAnswers(r)
                        \/ Cancels(r) \/ Timeout(r) \/ Advances(r)
    \/ \E x \in Caller : Lookup(x)
    \/ \E t \in Turn : StartAnswers(t) \/ GateOpens(t) \/ Ends(t) \/ EventArrives(t)
    \/ \E s \in Submission : CheckAfterAdd(s)

Spec == Init /\ [][Next]_vars

\* The adapter answers what it was asked, but a cancel, timers fire, and the Host
\* goes on when it can.  Who waits for an input to be projected holds on to the gate
\* it has read, so stops that come later do not hold it up (strong fairness).  A
\* native Turn may run for ever, and nobody has to ask for anything.
FairSpec ==
    /\ Spec
    /\ WF_vars(Publish) /\ WF_vars(BecomesIdle) /\ WF_vars(Settle)
    /\ \A r \in Steer :
         /\ WF_vars(ReadAnswers(r)) /\ WF_vars(InsertAnswers(r))
         /\ WF_vars(Timeout(r)) /\ WF_vars(Advances(r)) /\ SF_vars(Projected(r))
    /\ \A x \in Caller : WF_vars(Lookup(x))
    /\ \A t \in Turn :
         WF_vars(StartAnswers(t)) /\ WF_vars(GateOpens(t)) /\ WF_vars(EventArrives(t))
    /\ \A s \in Submission : WF_vars(CheckAfterAdd(s))

-----------------------------------------------------------------------------
(* Properties.                                                             *)

TurnRecord == [native : {"unmade", "starting", "running", "rejected"} \cup Ended,
               by : Caller \cup {NoOne}, open : BOOLEAN, ordinary : BOOLEAN]
SteerState == {"new", "joined", "reading", "inserting", "projecting", "cancelling",
               "waiting", "starting", "replying", "done", "failed"}
SteerRecord == [pc : SteerState, message : Message \cup {NoOne},
                target : Turn \cup {NoTurn},
                presented : {"none", "activeTurn", "newTurn"},
                leader : Steer \cup {NoOne}, inserted : BOOLEAN, halted : BOOLEAN]
PendingRecord == [steer : Steer \cup {NoOne}, rejected : BOOLEAN,
                  outcome : {"none"} \cup Ended]
EventRecord == [turn : Turn \cup {NoTurn}, waits : SUBSET Steer,
                stage : {"none", "waiting", "published", "idle"}]

TypeOK ==
    /\ turn \in [Turn -> TurnRecord]
    /\ turns \in 0 .. MaxStarts + Cardinality(Steer) /\ starts \in 0 .. MaxStarts
    /\ active \in 0 .. turns /\ projected \in 0 .. turns
    /\ stopping \in BOOLEAN /\ subagents \in BOOLEAN /\ overlooked \in BOOLEAN
    /\ inserts \subseteq Steer
    /\ consumer \in EventRecord
    /\ steer \in [Steer -> SteerRecord]
    /\ pending \in PendingRecord
    /\ Reserved(NoOne) => pending = Free
    /\ receipt \in [Message -> Steer \cup {NoOne}]
    /\ looking \subseteq Caller /\ commandPending \in BOOLEAN
    /\ starter \in {"off", "selecting", "looking"}
    /\ queue \in Seq(Submission)
    /\ taken \in [Submission -> Nat]
    /\ added \subseteq Submission /\ deleted \subseteq Submission
    /\ unchecked \subseteq added
    /\ closed \in {"no", "steering", "host"}

HasInput(t) == turn[t].native \in {"running"} \cup Ended
BegunBy(x) == {t \in Turn : turn[t].by = x}

\* The Host knows about the native Turn: while one runs or is being started it is
\* the active Turn, whoever began it and whatever was awaited in between.
OneNativeTurn ==
    \A t \in Turn : turn[t].native \in {"starting", "running"} => active = t

\* The Harness has a message at most once, whether it was inserted, restarted or
\* retried, and a follow-up at most once, however often its start failed.
Inserters(m) == {r \in Steer : steer[r].message = m /\ steer[r].inserted}
Starters(m) ==
    {t \in Turn : HasInput(t) /\ \E r \in Steer : turn[t].by = r /\ steer[r].message = m}
TakenOnce ==
    /\ \A m \in Message : Cardinality(Inserters(m)) + Cardinality(Starters(m)) <= 1
    /\ \A s \in Submission : Cardinality({t \in BegunBy(s) : HasInput(t)}) <= 1

\* A steer that is reported as failed left no input with the Harness, so that the
\* user may send it again: no late answer starts it afterwards.
FailedSteerNotTaken ==
    \A r \in Steer : steer[r].pc = "failed" =>
        /\ ~steer[r].inserted /\ r \notin looking
        /\ \A t \in BegunBy(r) : turn[t].native = "rejected"

\* A follow-up that was added is in the queue, is being started, was deleted or
\* is with the Harness: in one place only.
InQueue(s) == Contains(queue, s)
BeingStarted(s) == s \in looking \/ \E t \in BegunBy(s) : turn[t].native = "starting"
Arrived(s) == \E t \in BegunBy(s) : HasInput(t)
FollowUpsKept ==
    \A s \in added :
        Cardinality({p \in 1 .. 4 : \/ p = 1 /\ InQueue(s)
                                    \/ p = 2 /\ BeingStarted(s)
                                    \/ p = 3 /\ Arrived(s)
                                    \/ p = 4 /\ s \in deleted}) = 1

\* Input the Harness took into a running Turn is shown before the Turn ends for
\* Desktop, although the consumer and the insertion do not know each other.
ShownBeforeTerminal ==
    \A r \in Steer : steer[r].pc = "projecting" => active = steer[r].target

\* A steer that the user's stop of its Turn came upon begins no other Turn.
StopIsFinal ==
    \A r \in Steer : steer[r].halted => BegunBy(r) = {}

\* After a Turn that completed normally no follow-up waits for nothing: somebody
\* has still to look at the queue (the completion, the add, a command lookup of
\* another follow-up), or the last who looked found the Thread held by a steer, a
\* command lookup or running subagents, or that lookup failed.
NoFollowUpStalls ==
    ~ /\ queue # <<>> /\ projected # NoTurn /\ turn[projected].native = "completed"
      /\ consumer.stage = "none" /\ unchecked = {} /\ looking \cap Submission = {}
      /\ closed = "no" /\ starts < MaxStarts /\ ~overlooked

\* Every steer is answered, also when the native Turn it waits for never ends,
\* except an inserted one whose Turn the user stopped with a cancel that is never
\* answered.
StopHangs(r) ==
    stopping /\ active = steer[r].target /\ steer[r].pc \in {"projecting", "joined"}
SteersAnswered ==
    \A r \in Steer : steer[r].pc # "new" ~>
        steer[r].pc \in {"done", "failed"} \/ []StopHangs(r)
=============================================================================
