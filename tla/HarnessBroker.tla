--------------------------- MODULE HarnessBroker ---------------------------
(***************************************************************************)
(* The Aqua Harness broker (packages/harness-broker/src/server.ts): one    *)
(* process that owns the native Sessions of one Harness and serves several *)
(* Hosts over a Unix socket.                                               *)
(*                                                                         *)
(* The requests of one connection are run one after the other, those of    *)
(* several connections concurrently.  Every native Session kept is one     *)
(* record; nativeWriters leases a native identity to one record, and a     *)
(* created Session whose identity is not known yet holds the provisional   *)
(* lease.  A step of the model is the code between two awaits.  Clients    *)
(* are the environment: they send any request their Sessions allow and     *)
(* their socket may end at any time.  What a request of a live Session     *)
(* does inside the Harness (Turns, selections, reads) is left out.         *)
(***************************************************************************)
EXTENDS Naturals, FiniteSets

CONSTANTS Native,       \* identities of native Sessions
          Known,        \* those that exist before the broker starts
          None,
          MaxConns,     \* bound on connections
          MaxSessions   \* bound on native Sessions ever opened

ASSUME BrokerAssumption ==
    /\ Known \subseteq Native /\ None \notin Native \cup Nat
    /\ {MaxConns, MaxSessions} \subseteq Nat

Conn    == 1..MaxConns
Session == 1..MaxSessions

VARIABLES
    conn,         \* connections: none, open, closed
    task,         \* the request a connection's queue is working on
    record,       \* the Session records, named by their first native Session
    writers,      \* nativeWriters: identity -> record or reservation
    provisional,  \* provisionalNativeWriter, likewise
    creating,     \* openingCreate is set
    retiring,     \* the broker refuses requests and is about to exit
    native,       \* native Sessions; closed once their outputs have ended too
    history       \* native identities that exist

vars == <<conn, task, record, writers, provisional, creating, retiring, native, history>>

Task(pc, mode, ref, rec, session) ==
    [pc |-> pc, mode |-> mode, ref |-> ref, rec |-> rec, session |-> session]
NoTask == Task("idle", None, None, None, None)

Phase(phase, id) == [phase |-> phase, id |-> id]

\* closing is the native Session a record that left the map waits for.
Record(k, key, session) ==
    [conn |-> k, present |-> k # None, key |-> key, session |-> session,
     faulted |-> FALSE, closing |-> None]
NoRecord == Record(None, None, None)

Init ==
    /\ conn = [k \in Conn |-> "none"]
    /\ task = [k \in Conn |-> NoTask]
    /\ record = [r \in Session |-> NoRecord]
    /\ writers = [n \in Native |-> None]
    /\ provisional = None
    /\ creating = FALSE
    /\ retiring = FALSE
    /\ native = [s \in Session |-> Phase("none", None)]
    /\ history = Known

-----------------------------------------------------------------------------
(* Connections and the close of a record *)

\* A broker that retires no longer listens.
Connect(k) ==
    /\ conn[k] = "none" /\ \A j \in 1..(k - 1) : conn[j] # "none"
    /\ ~retiring
    /\ conn' = [conn EXCEPT ![k] = "open"]
    /\ UNCHANGED <<task, record, writers, provisional, creating, retiring, native, history>>

Closing(s) == IF native[s].phase = "open" THEN Phase("closing", native[s].id) ELSE native[s]

\* closeRecord takes the record from the map, then closes its native Session.
Dropped(r) ==
    [record[r] EXCEPT !.conn = None, !.present = FALSE, !.faulted = FALSE,
                      !.closing = record[r].session]

\* Mutant: the leases go before the native close is confirmed.
FinishCloseEarly(r) ==
    LET x == record[r] IN
    /\ x.closing # None
    /\ record' = [record EXCEPT ![r].closing = None]
    /\ writers' = [n \in Native |-> IF n = x.key /\ writers[n] = r THEN None ELSE writers[n]]
    /\ provisional' = IF provisional = r THEN None ELSE provisional
    /\ UNCHANGED <<conn, task, creating, retiring, native, history>>

\* The native Session is closed and its outputs have ended: the leases go.
FinishClose(r) ==
    LET x == record[r] IN
    /\ x.closing # None /\ native[x.closing].phase = "closed"
    /\ record' = [record EXCEPT ![r].closing = None]
    /\ writers' = [n \in Native |-> IF n = x.key /\ writers[n] = r THEN None ELSE writers[n]]
    /\ provisional' = IF provisional = r THEN None ELSE provisional
    /\ UNCHANGED <<conn, task, creating, retiring, native, history>>

\* A socket that ends closes its records; what its queue works on goes on.
SocketClosed(k) ==
    LET mine == {r \in Session : record[r].present /\ record[r].conn = k} IN
    /\ conn[k] = "open"
    /\ conn' = [conn EXCEPT ![k] = "closed"]
    /\ record' = [r \in Session |-> IF r \in mine THEN Dropped(r) ELSE record[r]]
    /\ native' = [s \in Session |-> IF \E r \in mine : record[r].session = s
                                    THEN Closing(s) ELSE native[s]]
    /\ UNCHANGED <<task, writers, provisional, creating, retiring, history>>

-----------------------------------------------------------------------------
(* adapter.open *)

Unused == {s \in Session : native[s].phase = "none"}
NextSession == CHOOSE s \in Unused : \A t \in Unused : s <= t

Idle(k) == task' = [task EXCEPT ![k] = NoTask]

\* A resume reserves its identity and a create the provisional lease before
\* the native open; a fork reads its source and reserves nothing.
OpenStart(k, mode, ref) ==
    LET s == NextSession
        busy == (mode = "resume" /\ writers[ref] # None) \/ provisional # None
    IN
    IF busy \/ Unused = {}
    THEN Idle(k) /\ UNCHANGED <<writers, provisional, creating, native>>
    ELSE /\ native' = [native EXCEPT ![s] = Phase("opening", None)]
         /\ writers' = [n \in Native |-> IF mode = "resume" /\ n = ref THEN s ELSE writers[n]]
         /\ provisional' = IF mode = "create" THEN s ELSE provisional
         /\ creating' = (creating \/ mode = "create")
         /\ task' = [task EXCEPT ![k] = Task("opening", mode, ref, None, s)]

\* An open that found a create in flight goes on when that is over.
OpenWaited(k) ==
    /\ task[k].pc = "waiting" /\ ~creating
    /\ IF conn[k] = "closed"
       THEN Idle(k) /\ UNCHANGED <<writers, provisional, creating, native>>
       ELSE OpenStart(k, task[k].mode, task[k].ref)
    /\ UNCHANGED <<conn, record, retiring, history>>

\* Mutant: a failed open keeps its reservation.
ReleasedNever(s) == writers

\* releaseOpenReservations
Released(s) == [n \in Native |-> IF writers[n] = s THEN None ELSE writers[n]]

Unprovisioned(s) == IF provisional = s THEN None ELSE provisional

OpenFails(k) ==
    LET s == task[k].session IN
    /\ task[k].pc = "opening"
    /\ native' = [native EXCEPT ![s] = Phase("closed", None)]
    /\ writers' = Released(s)
    /\ provisional' = Unprovisioned(s)
    /\ creating' = (creating /\ task[k].mode # "create")
    /\ Idle(k)
    /\ UNCHANGED <<conn, record, retiring, history>>

\* What the Harness may report as the identity of the Session it opened: a
\* create may not know it yet, and a Harness may report one in use.
Reported(k) ==
    LET new == {n \in Native : n \notin history \/ writers[n] # None} IN
    CASE task[k].mode = "resume" -> {task[k].ref}
      [] task[k].mode = "create" -> {None} \cup new
      [] OTHER                   -> new

Taken(id, s) == id # None /\ writers[id] \notin {None, s}

\* Mutant: the connection is not checked again after the native open.
RefusesOpen(k, id, mismatch) == mismatch \/ Taken(id, task[k].session)

\* An open Session is refused if the connection ended meanwhile, its identity
\* is not the requested one (mismatch) or another Session has it.
Refuses(k, id, mismatch) ==
    conn[k] = "closed" \/ mismatch \/ Taken(id, task[k].session)

\* Mutant: a Session of unknown identity gives up the provisional lease.
ClaimedBlindly(s, id) == Unprovisioned(s)

\* A Session that knows its identity needs the provisional lease no longer.
Claimed(s, id) == IF id = None THEN provisional ELSE Unprovisioned(s)

Seen(id) == history \cup ({id} \ {None})

\* The native open settles.  A refused Session is closed again, and its
\* reservations are released before that close.
OpenDone(k, id, mismatch) ==
    LET t == task[k]
        s == t.session
    IN
    /\ t.pc = "opening" /\ id \in Reported(k)
    /\ IF Refuses(k, id, mismatch)
       THEN /\ native' = [native EXCEPT ![s] = Phase("closing", id)]
            /\ writers' = Released(s)
            /\ provisional' = Unprovisioned(s)
            /\ task' = [task EXCEPT ![k] = Task("rejecting", t.mode, None, None, s)]
            /\ UNCHANGED <<record, creating>>
       ELSE /\ native' = [native EXCEPT ![s] = Phase("open", id)]
            /\ record' = [record EXCEPT ![s] = Record(k, id, s)]
            /\ writers' = [n \in Native |-> IF n = id THEN s ELSE writers[n]]
            /\ provisional' = Claimed(s, id)
            /\ creating' = (creating /\ t.mode # "create")
            /\ Idle(k)
    /\ history' = Seen(id)
    /\ UNCHANGED <<conn, retiring>>

\* A refused native Session is closed; then a create in flight is over.
Rejected(k) ==
    /\ task[k].pc = "rejecting" /\ native[task[k].session].phase = "closed"
    /\ creating' = (creating /\ task[k].mode # "create")
    /\ Idle(k)
    /\ UNCHANGED <<conn, record, writers, provisional, retiring, native, history>>

-----------------------------------------------------------------------------
(* session.close and session.reopen *)

CloseReq(k, r) ==
    /\ record' = [record EXCEPT ![r] = Dropped(r)]
    /\ native' = [native EXCEPT ![record[r].session] = Closing(record[r].session)]
    /\ task' = [task EXCEPT ![k] = Task("closing", None, None, r, None)]

Closed(k) ==
    /\ task[k].pc = "closing" /\ record[task[k].rec].closing = None
    /\ Idle(k)
    /\ UNCHANGED <<conn, record, writers, provisional, creating, retiring, native, history>>

\* Only a faulted Session of known identity is reopened: its old native
\* Session is closed first.
ReopenReq(k, r) ==
    LET s == record[r].session IN
    /\ record[r].faulted /\ record[r].key # None
    /\ native' = [native EXCEPT ![s] = Closing(s)]
    /\ task' = [task EXCEPT ![k] = Task("replacing", None, None, r, s)]
    /\ UNCHANGED record

\* The old native Session and its outputs have ended; the new one resumes.
ReopenOpen(k) ==
    LET t == task[k]
        s == NextSession
    IN
    /\ t.pc = "replacing" /\ native[t.session].phase = "closed"
    /\ IF Unused = {}
       THEN Idle(k) /\ UNCHANGED native
       ELSE /\ native' = [native EXCEPT ![s] = Phase("opening", None)]
            /\ task' = [task EXCEPT ![k] = Task("reopening", None, None, t.rec, s)]
    /\ UNCHANGED <<conn, record, writers, provisional, creating, retiring, history>>

ReopenFails(k) ==
    /\ task[k].pc = "reopening"
    /\ native' = [native EXCEPT ![task[k].session] = Phase("closed", None)]
    /\ Idle(k)
    /\ UNCHANGED <<conn, record, writers, provisional, creating, retiring, history>>

\* The record takes the new native Session, whether or not it is still in the
\* map; a changed identity or a failed selection closes it instead.
ReopenDone(k, refused) ==
    LET s == task[k].session
        r == task[k].rec
    IN
    /\ task[k].pc = "reopening"
    /\ IF refused
       THEN /\ native' = [native EXCEPT ![s] = Phase("closing", record[r].key)]
            /\ task' = [task EXCEPT ![k] = Task("rejecting", None, None, None, s)]
            /\ UNCHANGED record
       ELSE /\ native' = [native EXCEPT ![s] = Phase("open", record[r].key)]
            /\ record' = [record EXCEPT ![r].session = s, ![r].faulted = FALSE]
            /\ Idle(k)
    /\ UNCHANGED <<conn, writers, provisional, creating, retiring, history>>

-----------------------------------------------------------------------------
(* The queue of a connection takes its next request.  A queued request has *)
(* no effect before that, so the queue itself is left out; a broker that   *)
(* retires refuses it.                                                     *)

Ready(k) == conn[k] = "open" /\ task[k].pc = "idle" /\ ~retiring

HandleOpen(k, mode, ref) ==
    /\ Ready(k)
    /\ (mode = "create") <=> (ref = None)
    /\ IF creating
       THEN /\ task' = [task EXCEPT ![k] = Task("waiting", mode, ref, None, None)]
            /\ UNCHANGED <<writers, provisional, creating, native>>
       ELSE OpenStart(k, mode, ref)
    /\ UNCHANGED <<conn, record, retiring, history>>

HandleSession(k, r) ==
    /\ Ready(k)
    /\ record[r].present /\ record[r].conn = k
    /\ CloseReq(k, r) \/ ReopenReq(k, r)
    /\ UNCHANGED <<conn, writers, provisional, creating, retiring, history>>

-----------------------------------------------------------------------------
(* Outputs of the native Session of a record *)

Emits(r) == record[r].present /\ native[record[r].session].phase = "open"

\* session.state.changed tells the identity of a created Session: the record
\* leases it and gives up the provisional lease.
Announce(r, n) ==
    /\ Emits(r) /\ record[r].key = None /\ n \notin history
    /\ record' = [record EXCEPT ![r].key = n]
    /\ writers' = [writers EXCEPT ![n] = r]
    /\ provisional' = Unprovisioned(r)
    /\ native' = [native EXCEPT ![record[r].session] = Phase("open", n)]
    /\ history' = history \cup {n}
    /\ UNCHANGED <<conn, task, creating, retiring>>

\* session.faulted leaves the native Session open.  A terminal authentication
\* failure, an identity that changes and one another record has leased close it.
FaultOutput(r, fatal) ==
    LET s == record[r].session IN
    /\ Emits(r) /\ (record[r].faulted => fatal)
    /\ record' = [record EXCEPT ![r].faulted = TRUE]
    /\ provisional' = Unprovisioned(r)
    /\ native' = [native EXCEPT ![s] = IF fatal THEN Closing(s) ELSE @]
    /\ UNCHANGED <<conn, task, writers, creating, retiring, history>>

\* A native close settles and the outputs end.
NativeCloses(s) ==
    /\ native[s].phase = "closing"
    /\ native' = [native EXCEPT ![s] = Phase("closed", None)]
    /\ UNCHANGED <<conn, task, record, writers, provisional, creating, retiring, history>>

-----------------------------------------------------------------------------
(* Idle exit: the broker unpublishes itself and its process ends.  The     *)
(* next process starts with no Session.                                    *)

Busy ==
    \/ creating
    \/ \E r \in Session : record[r].present
    \/ \E k \in Conn : conn[k] = "open" /\ task[k].pc # "idle"

Retire ==
    /\ ~retiring /\ ~Busy
    /\ retiring' = TRUE
    /\ UNCHANGED <<conn, task, record, writers, provisional, creating, native, history>>

-----------------------------------------------------------------------------
Works(k) ==
    \/ OpenWaited(k) \/ OpenFails(k) \/ Rejected(k)
    \/ Closed(k) \/ ReopenOpen(k) \/ ReopenFails(k)
    \/ \E id \in Native \cup {None}, mismatch \in BOOLEAN : OpenDone(k, id, mismatch)
    \/ \E refused \in BOOLEAN : ReopenDone(k, refused)

Next ==
    \/ \E k \in Conn :
          \/ Connect(k) \/ SocketClosed(k) \/ Works(k)
          \/ \E mode \in {"create", "resume", "fork"}, ref \in history \cup {None} :
                HandleOpen(k, mode, ref)
          \/ \E r \in Session : HandleSession(k, r)
    \/ \E r \in Session :
          \/ FinishClose(r) \/ NativeCloses(r)
          \/ \E fatal \in BOOLEAN : FaultOutput(r, fatal)
          \/ \E n \in Native : Announce(r, n)
    \/ Retire

Spec == Init /\ [][Next]_vars

-----------------------------------------------------------------------------
(* Properties *)

\* A native Session may write until it is closed.
Writes(s) == native[s].phase \in {"open", "closing"} /\ native[s].id # None

SameNative(s, t) == Writes(s) /\ Writes(t) /\ native[s].id = native[t].id

\* A Session the broker opened and closes again without a record.
Refused(s) == \E k \in Conn : task[k].pc = "rejecting" /\ task[k].session = s

\* A native Session that was reopened for a record which had left the map:
\* nobody closes it.
Stray(s) ==
    \E r \in Session : /\ record[r].session = s /\ ~record[r].present
                       /\ native[s].phase = "open"

\* No two Sessions the broker opened for its clients write the same native
\* Session, except a refused or a stray one: the lease of a native identity
\* spans opens, reopens, announcements and the end of a close.
OneLeasedWriter ==
    \A s, t \in Session : SameNative(s, t) =>
        s = t \/ \E u \in {s, t} : Stray(u) \/ Refused(u)

Unknown(r) == Emits(r) /\ record[r].key = None /\ ~record[r].faulted

\* While one Session has not told its identity no second such Session runs: the
\* provisional lease spans the create, its announcement, faults and closes.
OneUnknown ==
    \A r, u \in Session : Unknown(r) /\ Unknown(u) => r = u

Held(r) == record[r].present \/ record[r].closing # None

\* No lease is left behind: every entry of nativeWriters and the provisional
\* lease belong to a Session kept, a close under way or an open in flight, so
\* an identity never stays busy for good.
LeasesHaveHolders ==
    /\ \A n \in Native : writers[n] # None =>
          \/ Held(writers[n]) /\ record[writers[n]].key = n
          \/ \E k \in Conn : /\ task[k].pc = "opening" /\ task[k].mode = "resume"
                              /\ task[k].session = writers[n] /\ task[k].ref = n
    /\ provisional # None =>
          \/ Held(provisional) /\ record[provisional].key = None
          \/ \E k \in Conn : /\ task[k].pc = "opening" /\ task[k].mode = "create"
                              /\ task[k].session = provisional

\* A native Session that is still being opened for a connection that ended.
Late(s) ==
    \E k \in Conn : /\ conn[k] = "closed" /\ task[k].pc \in {"opening", "reopening"}
                   /\ task[k].session = s

\* A broker that retires serves no Session and begins no work, whatever opens of
\* ended connections still settle.  Its exit leaves behind at most native Sessions
\* that are being closed, that are still being opened for an ended connection, or
\* that are stray.
RetiredStaysEmpty ==
    retiring =>
        /\ \A r \in Session : ~record[r].present
        /\ \A k \in Conn : conn[k] = "open" => task[k].pc = "idle"
        /\ \A s \in Session : native[s].phase \in {"opening", "open"} => Late(s) \/ Stray(s)
=============================================================================
