------------------------ MODULE HarnessBroker_proofs ------------------------
(***************************************************************************)
(* The leases of the broker: one writer of each native Session, no lease   *)
(* left behind, one Session of unknown identity, and a broker that retires *)
(* keeps none.  Proved for any native identities and any bounds on         *)
(* connections and Sessions.                                               *)
(***************************************************************************)
EXTENDS HarnessBroker, WellFoundedInduction, TLAPS

Tasks == [pc : {"idle", "waiting", "opening", "rejecting", "closing", "replacing", "reopening"},
          mode : {"create", "resume", "fork", None}, ref : Native \cup {None},
          rec : Session \cup {None}, session : Session \cup {None}]

Records == [conn : Conn \cup {None}, present : BOOLEAN, key : Native \cup {None},
            session : Session \cup {None}, faulted : BOOLEAN, closing : Session \cup {None}]

Phases == [phase : {"none", "opening", "open", "closing", "closed"}, id : Native \cup {None}]

TypeOK ==
    /\ conn \in [Conn -> {"none", "open", "closed"}]
    /\ task \in [Conn -> Tasks]
    /\ record \in [Session -> Records]
    /\ writers \in [Native -> Session \cup {None}]
    /\ provisional \in Session \cup {None}
    /\ native \in [Session -> Phases]
    /\ history \in SUBSET Native

\* A connection works on requests once it is made; a broker that retires has no
\* request left of a connection that is open.
RetiredIsIdle ==
    /\ \A k \in Conn : conn[k] = "none" => task[k].pc = "idle"
    /\ retiring => \A k \in Conn : conn[k] = "open" => task[k].pc = "idle"

-----------------------------------------------------------------------------
(* What a native Session, a task and a record have to do with each other *)

Opens(k) == task[k].pc \in {"opening", "reopening"}
Reopens(k) == task[k].pc \in {"replacing", "reopening"}

\* An open in flight has a native Session of its own, and no record is named by
\* a Session before it is open.
OpensAreFresh ==
    /\ \A s \in Session : native[s].phase \in {"none", "opening"} => record[s] = NoRecord
    /\ \A k \in Conn : Opens(k) =>
          task[k].session \in Session /\ native[task[k].session].phase = "opening"
    /\ \A j, k \in Conn : Opens(j) /\ Opens(k) /\ task[j].session = task[k].session => j = k
    /\ \A k \in Conn : task[k].pc = "rejecting" => task[k].session \in Session
    /\ \A k \in Conn : task[k].pc \in {"waiting", "opening"} /\ task[k].mode = "resume" =>
          task[k].ref \in Native

\* A record has a native Session that was opened for it alone.
RecordsHaveSessions ==
    /\ \A r \in Session : record[r].session # None =>
          native[record[r].session].phase \in {"open", "closing", "closed"}
    /\ \A q, r \in Session :
          record[q].session # None /\ record[q].session = record[r].session => q = r
    /\ \A r \in Session :
          /\ record[r].present => record[r].session # None /\ record[r].closing = None
          /\ record[r].key # None => record[r].key \in history

\* A record is reopened by the request of its own connection, and its old native
\* Session is closed before the new one is opened.
ReopensAreAlone ==
    /\ \A k \in Conn : Reopens(k) =>
          LET r == task[k].rec IN
          /\ r \in Session /\ record[r].key # None /\ record[r].session # None
          /\ record[r].conn \in {k, None}
          /\ task[k].pc = "replacing" => task[k].session = record[r].session
          /\ task[k].pc = "reopening" => native[record[r].session].phase = "closed"
    /\ \A j, k \in Conn : Reopens(j) /\ Reopens(k) /\ task[j].rec = task[k].rec => j = k

\* Sessions kept hold the lease of their identity, one that is created holds the
\* provisional lease, and so does one whose identity is not known.
HoldersHaveLeases ==
    /\ \A r \in Session : Held(r) /\ record[r].key # None => writers[record[r].key] = r
    /\ \A k \in Conn : task[k].pc = "opening" /\ task[k].mode = "create" =>
          provisional = task[k].session
    /\ \A r \in Session : Unknown(r) => provisional = r

\* A Session that may write, neither refused nor stray, is that of the record
\* which has leased its identity.
WritersAreLeased ==
    \A s \in Session : Writes(s) /\ ~Stray(s) /\ ~Refused(s) =>
        \E r \in Session :
            /\ record[r].session = s /\ record[r].key = native[s].id
            /\ writers[native[s].id] = r
            /\ record[r].present \/ record[r].closing = s

Structure == TypeOK /\ OpensAreFresh /\ RecordsHaveSessions /\ ReopensAreAlone

Leased == HoldersHaveLeases /\ LeasesHaveHolders /\ WritersAreLeased

IInv == Structure /\ Leased

-----------------------------------------------------------------------------
\* A Session that was never opened is there to take unless all were.
LEMMA NextIsUnused == Unused # {} => NextSession \in Unused
<1> DEFINE Less == OpToRel(<, Nat)
<1> SUFFICES ASSUME Unused # {} PROVE NextSession \in Unused
  OBVIOUS
<1>1. Unused \subseteq Nat
  BY BrokerAssumption DEF Unused, Session
<1>2. PICK s \in Unused : \A t \in Unused : <<t, s>> \notin Less
  <2> HIDE DEF Less
  <2>1. IsWellFoundedOn(Less, Nat)
    BY NatLessThanWellFounded DEF Less
  <2> QED
    BY <1>1, <2>1, WFMin
<1>3. \A t \in Unused : <<t, s>> \in Less <=> t < s
  BY <1>1 DEF OpToRel
<1> HIDE DEF Less
<1>4. ASSUME NEW t \in Unused PROVE s <= t
  <2>1. ~ t < s
    BY <1>2, <1>3
  <2>2. s \in Nat /\ t \in Nat
    BY <1>1, <1>2
  <2> QED
    BY <2>1, <2>2
<1> QED
  BY <1>2, <1>4 DEF NextSession

\* What the broker's own constants are not.
LEMMA NoneIsNone == None \notin Session /\ None \notin Conn /\ None \notin Native
BY BrokerAssumption DEF Session, Conn

\* A record that was never made is of nobody.
LEMMA NoRecordFields ==
    /\ ~NoRecord.present /\ NoRecord.closing = None
    /\ NoRecord.key = None /\ NoRecord.session = None
BY DEF NoRecord, Record

\* A record that leaves the map keeps its identity and waits for its Session.
LEMMA DroppedRecord ==
    ASSUME TypeOK, NEW r \in Session
    PROVE  /\ Dropped(r) \in Records
           /\ Dropped(r).conn = None /\ ~Dropped(r).present
           /\ Dropped(r).key = record[r].key /\ Dropped(r).session = record[r].session
           /\ Dropped(r).closing = record[r].session
BY DEF TypeOK, Records, Dropped

\* Closing an open native Session keeps its identity; any other is left alone.
LEMMA ClosingPhase ==
    ASSUME TypeOK, NEW s \in Session
    PROVE  /\ Closing(s) \in Phases /\ Closing(s).id = native[s].id
           /\ Closing(s).phase = native[s].phase
              \/ (native[s].phase = "open" /\ Closing(s).phase = "closing")
           /\ Closing(s).phase # "open"
BY DEF TypeOK, Phases, Closing, Phase

-----------------------------------------------------------------------------
\* Every variable keeps its type.
LEMMA TypeKeeps == TypeOK /\ ReopensAreAlone /\ [Next]_vars => TypeOK'
<1> SUFFICES ASSUME TypeOK, ReopensAreAlone, [Next]_vars PROVE TypeOK'
  OBVIOUS
<1> USE DEF TypeOK
<1>a. NoTask \in Tasks /\ NoRecord \in Records
  BY NoneIsNone DEF NoTask, Task, Tasks, NoRecord, Record, Records
<1>b. Unused # {} => NextSession \in Session
  BY NextIsUnused DEF Unused
<1>c. \A p \in {"none", "opening", "open", "closing", "closed"}, id \in Native \cup {None} :
         Phase(p, id) \in Phases
  BY DEF Phase, Phases
<1>d. \A p \in {"idle", "waiting", "opening", "rejecting", "closing", "replacing", "reopening"},
         m \in {"create", "resume", "fork", None}, ref \in Native \cup {None},
         rec \in Session \cup {None}, s \in Session \cup {None} : Task(p, m, ref, rec, s) \in Tasks
  BY DEF Task, Tasks
<1>e. \A k \in Conn : /\ task[k].mode \in {"create", "resume", "fork", None}
                      /\ task[k].ref \in Native \cup {None}
                      /\ task[k].rec \in Session \cup {None}
                      /\ task[k].session \in Session \cup {None}
  BY DEF Tasks
<1>f. \A r \in Session : record[r].key \in Native \cup {None} /\ record[r].session \in Session \cup {None}
  BY DEF Records
<1>o. ASSUME NEW k \in Conn, NEW mode \in {"create", "resume", "fork", None},
             NEW ref \in Native \cup {None}, OpenStart(k, mode, ref),
             UNCHANGED <<conn, record, history>>
      PROVE  TypeOK'
  <2>1. CASE Idle(k) /\ UNCHANGED <<writers, provisional, creating, native>>
    BY <1>o, <1>a, <2>1 DEF Idle
  <2>2. CASE /\ Unused # {}
             /\ native' = [native EXCEPT ![NextSession] = Phase("opening", None)]
             /\ writers' = [n \in Native |-> IF mode = "resume" /\ n = ref THEN NextSession ELSE writers[n]]
             /\ provisional' = IF mode = "create" THEN NextSession ELSE provisional
             /\ task' = [task EXCEPT ![k] = Task("opening", mode, ref, None, NextSession)]
    BY <1>o, <1>b, <1>c, <1>d, <2>2
  <2> QED
    BY <1>o, <2>1, <2>2 DEF OpenStart
<1>1. CASE UNCHANGED vars
  BY <1>1 DEF vars
<1>2. ASSUME NEW k \in Conn, Connect(k) PROVE TypeOK'
  BY <1>2 DEF Connect
<1>3. ASSUME NEW k \in Conn, SocketClosed(k) PROVE TypeOK'
  BY <1>3, DroppedRecord, ClosingPhase DEF SocketClosed
<1>4. ASSUME NEW k \in Conn, OpenWaited(k) PROVE TypeOK'
  BY <1>4, <1>a, <1>e, <1>o DEF OpenWaited, Idle
<1>5. ASSUME NEW k \in Conn, OpenFails(k) PROVE TypeOK'
  BY <1>5, <1>a, <1>c DEF OpenFails, Idle, Released, Unprovisioned
<1>6. ASSUME NEW k \in Conn, Rejected(k) \/ Closed(k) PROVE TypeOK'
  BY <1>6, <1>a DEF Rejected, Closed, Idle
<1>7. ASSUME NEW k \in Conn, ReopenOpen(k) PROVE TypeOK'
  <2>1. CASE Idle(k) /\ UNCHANGED native
    BY <1>7, <1>a, <2>1 DEF ReopenOpen, Idle
  <2>2. CASE /\ Unused # {}
             /\ native' = [native EXCEPT ![NextSession] = Phase("opening", None)]
             /\ task' = [task EXCEPT ![k] = Task("reopening", None, None, task[k].rec, NextSession)]
    BY <1>7, <1>b, <1>c, <1>d, <1>e, <2>2 DEF ReopenOpen
  <2> QED
    BY <1>7, <2>1, <2>2 DEF ReopenOpen
<1>8. ASSUME NEW k \in Conn, ReopenFails(k) PROVE TypeOK'
  BY <1>8, <1>a, <1>c DEF ReopenFails, Idle
<1>9. ASSUME NEW k \in Conn, NEW id \in Native \cup {None}, NEW mismatch \in BOOLEAN,
             OpenDone(k, id, mismatch)
      PROVE  TypeOK'
  <2> DEFINE s == task[k].session
  <2>1. history' \in SUBSET Native /\ UNCHANGED conn
    BY <1>9 DEF OpenDone, Seen
  <2>2. CASE /\ native' = [native EXCEPT ![s] = Phase("closing", id)]
             /\ writers' = Released(s) /\ provisional' = Unprovisioned(s)
             /\ task' = [task EXCEPT ![k] = Task("rejecting", task[k].mode, None, None, s)]
             /\ UNCHANGED record
    BY <1>c, <1>d, <1>e, <2>1, <2>2 DEF Released, Unprovisioned
  <2>3. CASE /\ native' = [native EXCEPT ![s] = Phase("open", id)]
             /\ record' = [record EXCEPT ![s] = Record(k, id, s)]
             /\ writers' = [n \in Native |-> IF n = id THEN s ELSE writers[n]]
             /\ provisional' = Claimed(s, id) /\ Idle(k)
    <3>1. s \in Session => Record(k, id, s) \in Records
      BY DEF Record, Records
    <3>2. record' \in [Session -> Records]
      BY <2>3, <3>1
    <3> QED
      BY <1>a, <1>c, <1>e, <2>1, <2>3, <3>2 DEF Claimed, Unprovisioned, Idle
  <2> QED
    BY <1>9, <2>2, <2>3 DEF OpenDone
<1>10. ASSUME NEW k \in Conn, NEW refused \in BOOLEAN, ReopenDone(k, refused) PROVE TypeOK'
  <2> DEFINE s == task[k].session
             r == task[k].rec
  <2>0. UNCHANGED <<conn, writers, provisional, history>>
    BY <1>10 DEF ReopenDone
  <2>1. r \in Session
    BY <1>10 DEF ReopenDone, ReopensAreAlone, Reopens
  <2>2. CASE /\ native' = [native EXCEPT ![s] = Phase("closing", record[r].key)]
             /\ task' = [task EXCEPT ![k] = Task("rejecting", None, None, None, s)]
             /\ UNCHANGED record
    BY <1>c, <1>d, <1>e, <1>f, <2>0, <2>1, <2>2
  <2>3. CASE /\ native' = [native EXCEPT ![s] = Phase("open", record[r].key)]
             /\ record' = [record EXCEPT ![r].session = s, ![r].faulted = FALSE]
             /\ Idle(k)
    <3>1. record' \in [Session -> Records]
      BY <1>e, <2>1, <2>3 DEF Records
    <3> QED
      BY <1>a, <1>c, <1>e, <1>f, <2>0, <2>1, <2>3, <3>1 DEF Idle
  <2> QED
    BY <1>10, <2>2, <2>3 DEF ReopenDone
<1>11. ASSUME NEW k \in Conn, NEW mode \in {"create", "resume", "fork"},
              NEW ref \in history \cup {None}, HandleOpen(k, mode, ref)
       PROVE  TypeOK'
  <2>1. ref \in Native \cup {None}
    OBVIOUS
  <2>2. CASE /\ task' = [task EXCEPT ![k] = Task("waiting", mode, ref, None, None)]
             /\ UNCHANGED <<writers, provisional, creating, native>>
    BY <1>11, <1>d, <2>1, <2>2 DEF HandleOpen
  <2>3. CASE OpenStart(k, mode, ref)
    BY <1>11, <1>o, <2>1, <2>3 DEF HandleOpen
  <2> QED
    BY <1>11, <2>2, <2>3 DEF HandleOpen
<1>12. ASSUME NEW k \in Conn, NEW r \in Session, HandleSession(k, r) PROVE TypeOK'
  <2>1. \A s \in Session : Closing(s) \in Phases
    BY ClosingPhase
  <2>2. native' \in [Session -> Phases] /\ UNCHANGED <<conn, writers, provisional, history>>
    BY <1>12, <2>1 DEF HandleSession, CloseReq, ReopenReq
  <2>3. record' \in [Session -> Records]
    BY <1>12, DroppedRecord DEF HandleSession, CloseReq, ReopenReq
  <2>4. \/ task' = [task EXCEPT ![k] = Task("closing", None, None, r, None)]
        \/ task' = [task EXCEPT ![k] = Task("replacing", None, None, r, record[r].session)]
    BY <1>12 DEF HandleSession, CloseReq, ReopenReq
  <2>5. task' \in [Conn -> Tasks]
    <3>1. Task("closing", None, None, r, None) \in Tasks
      BY DEF Task, Tasks
    <3>2. Task("replacing", None, None, r, record[r].session) \in Tasks
      BY <1>f DEF Task, Tasks
    <3> QED
      BY <2>4, <3>1, <3>2
  <2> QED
    BY <2>2, <2>3, <2>5
<1>13. ASSUME NEW r \in Session, FinishClose(r) PROVE TypeOK'
  <2>1. record' \in [Session -> Records]
    BY <1>13 DEF FinishClose, Records
  <2> QED
    BY <1>13, <2>1 DEF FinishClose
<1>14. ASSUME NEW s \in Session, NativeCloses(s) PROVE TypeOK'
  BY <1>14, <1>c DEF NativeCloses
<1>15. ASSUME NEW r \in Session, NEW fatal \in BOOLEAN, FaultOutput(r, fatal) PROVE TypeOK'
  <2>1. record' \in [Session -> Records]
    BY <1>15 DEF FaultOutput, Records
  <2>2. native' \in [Session -> Phases]
    BY <1>15, <1>f, ClosingPhase DEF FaultOutput
  <2> QED
    BY <1>15, <2>1, <2>2 DEF FaultOutput, Unprovisioned
<1>16. ASSUME NEW r \in Session, NEW n \in Native, Announce(r, n) PROVE TypeOK'
  <2>1. record' \in [Session -> Records]
    BY <1>16 DEF Announce, Records
  <2> QED
    BY <1>16, <1>c, <2>1 DEF Announce, Unprovisioned
<1>17. CASE Retire
  BY <1>17 DEF Retire
<1> HIDE DEF TypeOK
<1>18. ASSUME NEW k \in Conn, Works(k) PROVE TypeOK'
  BY <1>18, <1>4, <1>5, <1>6, <1>7, <1>8, <1>9, <1>10 DEF Works
<1> QED
  BY <1>1, <1>2, <1>3, <1>11, <1>12, <1>13, <1>14, <1>15, <1>16, <1>17, <1>18 DEF Next

-----------------------------------------------------------------------------
(* Each operation keeps the structure and the leases.  That it keeps the   *)
(* types is TypeKeeps.                                                     *)

\* Connections and retiring matter to neither.
LEMMA FrameKeeps ==
    ASSUME IInv, UNCHANGED <<task, record, writers, provisional, native, history>>, TypeOK'
    PROVE  IInv'
<1>1. OpensAreFresh' /\ RecordsHaveSessions' /\ ReopensAreAlone'
  BY DEF IInv, Structure, OpensAreFresh, RecordsHaveSessions, ReopensAreAlone, Opens, Reopens
<1>2. HoldersHaveLeases' /\ LeasesHaveHolders' /\ WritersAreLeased'
  BY DEF IInv, Leased, HoldersHaveLeases, LeasesHaveHolders, WritersAreLeased, Held, Unknown,
         Emits, Writes, Stray, Refused
<1> QED
  BY <1>1, <1>2 DEF IInv, Structure, Leased

\* A request ends, or waits, while nothing is opened for it; a Session that was
\* refused is closed by then.
LEMMA RequestEnds ==
    ASSUME IInv, NEW k \in Conn, task'[k].pc \in {"idle", "waiting"},
           \A j \in Conn : j # k => task'[j] = task[j], ~Opens(k),
           task'[k].pc = "waiting" /\ task'[k].mode = "resume" => task'[k].ref \in Native,
           task[k].pc = "rejecting" => native[task[k].session].phase = "closed",
           UNCHANGED <<record, writers, provisional, native, history>>, TypeOK'
    PROVE  IInv'
<1>2. OpensAreFresh' /\ RecordsHaveSessions'
  BY DEF IInv, Structure, OpensAreFresh, RecordsHaveSessions, Opens
<1>3. ReopensAreAlone'
  BY DEF IInv, Structure, ReopensAreAlone, Reopens
<1>4. HoldersHaveLeases'
  BY DEF IInv, Leased, HoldersHaveLeases, Held, Unknown, Emits
<1>5. LeasesHaveHolders'
  BY DEF IInv, Leased, LeasesHaveHolders, Held, Opens
<1>6. WritersAreLeased'
  <2>1. \A s \in Session : Writes(s) /\ Refused(s) => Refused(s)'
    BY DEF Writes, Refused
  <2> QED
    BY <2>1 DEF IInv, Leased, WritersAreLeased, Writes, Stray
<1> QED
  BY <1>2, <1>3, <1>4, <1>5, <1>6 DEF IInv, Structure, Leased

\* The queue of a connection has nothing to work on: the others work on.
LEMMA IdleTask ==
    ASSUME TypeOK, NEW k \in Conn, Idle(k)
    PROVE  task'[k] = NoTask /\ task'[k].pc = "idle" /\ \A j \in Conn : j # k => task'[j] = task[j]
BY DEF TypeOK, Idle, NoTask, Task

\* An open takes a Session nobody has seen, and its reservation.
LEMMA OpenStarts ==
    ASSUME IInv, NEW k \in Conn, NEW mode, NEW ref, OpenStart(k, mode, ref),
           task[k].pc \in {"idle", "waiting"}, mode = "resume" => ref \in Native,
           UNCHANGED <<record, history>>, TypeOK'
    PROVE  IInv'
<1>1. CASE Idle(k) /\ UNCHANGED <<writers, provisional, creating, native>>
  BY <1>1, IdleTask, RequestEnds DEF Opens, IInv, Structure
<1>2. CASE /\ Unused # {} /\ ~(mode = "resume" /\ writers[ref] # None) /\ provisional = None
           /\ native' = [native EXCEPT ![NextSession] = Phase("opening", None)]
           /\ writers' = [n \in Native |-> IF mode = "resume" /\ n = ref THEN NextSession ELSE writers[n]]
           /\ provisional' = IF mode = "create" THEN NextSession ELSE provisional
           /\ task' = [task EXCEPT ![k] = Task("opening", mode, ref, None, NextSession)]
  <2> DEFINE s == NextSession
  <2>1. s \in Session /\ native[s].phase = "none" /\ record[s] = NoRecord
    BY <1>2, NextIsUnused DEF Unused, IInv, Structure, OpensAreFresh
  <2> HIDE DEF s
  <2>2. /\ task'[k].pc = "opening" /\ task'[k].session = s
        /\ task'[k].mode = mode /\ task'[k].ref = ref
        /\ \A j \in Conn : j # k => task'[j] = task[j]
    BY <1>2 DEF IInv, Structure, TypeOK, Task, s
  <2>3. /\ native'[s].phase = "opening"
        /\ \A x \in Session : x # s => native'[x] = native[x]
    BY <1>2, <2>1 DEF IInv, Structure, TypeOK, Phase, s
  <2>4. \A n \in Native : writers'[n] = IF mode = "resume" /\ n = ref THEN s ELSE writers[n]
    BY <1>2 DEF s
  <2>5. \A r \in Session : record[r].session # s
    BY <2>1, NoneIsNone DEF IInv, Structure, RecordsHaveSessions
  <2>o. \A r \in Session : record[r].session # None => record[r].session \in Session
    BY DEF IInv, Structure, TypeOK, Records
  <2>6. OpensAreFresh'
    BY <2>1, <2>2, <2>3 DEF IInv, Structure, OpensAreFresh, Opens
  <2>7. RecordsHaveSessions'
    BY <2>3, <2>5, <2>o DEF IInv, Structure, RecordsHaveSessions
  <2>8. ReopensAreAlone'
    BY <2>2, <2>3, <2>5, <2>o DEF IInv, Structure, ReopensAreAlone, Reopens
  <2>9. HoldersHaveLeases'
    <3>1. \A r \in Session : Held(r) /\ record[r].key # None => writers'[record[r].key] = r
      BY <1>2, <2>4, NoneIsNone DEF IInv, Structure, Leased, TypeOK, Records, HoldersHaveLeases
    <3>2. \A j \in Conn : task'[j].pc = "opening" /\ task'[j].mode = "create" =>
            provisional' = task'[j].session
      BY <1>2, <2>1, <2>2, NoneIsNone DEF IInv, Structure, Leased, HoldersHaveLeases, OpensAreFresh, Opens, s
    <3>3. \A r \in Session : Unknown(r)' => Unknown(r)
      BY <2>3, <2>5 DEF Unknown, Emits, IInv, Structure, TypeOK, Records, RecordsHaveSessions
    <3>4. \A r \in Session : ~Unknown(r)
      BY <1>2, NoneIsNone DEF IInv, Leased, HoldersHaveLeases
    <3> QED
      BY <3>1, <3>2, <3>3, <3>4 DEF HoldersHaveLeases, Held
  <2>10. LeasesHaveHolders'
    BY <1>2, <2>1, <2>2, <2>4 DEF IInv, Leased, LeasesHaveHolders, Held, s
  <2>11. WritersAreLeased'
    <3>1. \A x \in Session : Writes(x)' => Writes(x) /\ native'[x] = native[x] /\ x # s
      BY <2>3 DEF Writes
    <3>2. \A x \in Session : x # s /\ Stray(x) => Stray(x)'
      BY <2>3 DEF Stray
    <3>3. \A x \in Session : Refused(x) => Refused(x)'
      BY <2>2 DEF Refused
    <3>4. \A n \in Native : writers[n] # None => writers'[n] = writers[n]
      BY <1>2, <2>4
    <3>5. \A x \in Session : Writes(x) => native[x].id \in Native
      BY DEF Writes, IInv, Structure, TypeOK, Phases
    <3> QED
      BY <3>1, <3>2, <3>3, <3>4, <3>5, NoneIsNone DEF IInv, Leased, WritersAreLeased
  <2> QED
    BY <2>6, <2>7, <2>8, <2>9, <2>10, <2>11 DEF IInv, Structure, Leased
<1> QED
  BY <1>1, <1>2 DEF OpenStart

\* What an open in flight has: a Session that no record has, and at most the
\* reservation it made.
LEMMA OpenInFlight ==
    ASSUME IInv, NEW k \in Conn, Opens(k), NEW s, s = task[k].session
    PROVE  /\ s \in Session /\ native[s].phase = "opening" /\ record[s] = NoRecord /\ ~Held(s)
           /\ \A r \in Session : record[r].session # s
           /\ \A j \in Conn : Opens(j) /\ task[j].session = s => j = k
           /\ \A n \in Native : writers[n] = s =>
                 task[k].pc = "opening" /\ task[k].mode = "resume" /\ task[k].ref = n
           /\ provisional = s => task[k].pc = "opening" /\ task[k].mode = "create"
<1>1. s \in Session /\ native[s].phase = "opening" /\ record[s] = NoRecord
  BY DEF IInv, Structure, OpensAreFresh
<1>2. ~Held(s)
  BY <1>1, NoRecordFields DEF Held
<1>3. \A r \in Session : record[r].session # s
  BY <1>1, NoneIsNone DEF IInv, Structure, RecordsHaveSessions
<1>4. \A j \in Conn : Opens(j) /\ task[j].session = s => j = k
  BY DEF IInv, Structure, OpensAreFresh
<1>5. \A n \in Native : writers[n] = s =>
         task[k].pc = "opening" /\ task[k].mode = "resume" /\ task[k].ref = n
  BY <1>1, <1>2, <1>4, NoneIsNone DEF IInv, Leased, LeasesHaveHolders, Opens
<1>6. provisional = s => task[k].pc = "opening" /\ task[k].mode = "create"
  BY <1>1, <1>2, <1>4, NoneIsNone DEF IInv, Leased, LeasesHaveHolders, Opens
<1> QED
  BY <1>1, <1>2, <1>3, <1>4, <1>5, <1>6

\* An open that failed, or whose Session is refused and closed again, leaves no
\* reservation.
LEMMA OpenIsLost ==
    ASSUME IInv, NEW k \in Conn, Opens(k), NEW s, s = task[k].session,
           \A x \in Session : x # s => native'[x] = native[x],
           \A j \in Conn : j # k => task'[j] = task[j],
           \/ native'[s].phase = "closed" /\ task'[k].pc = "idle"
           \/ /\ native'[s].phase = "closing"
              /\ task'[k].pc = "rejecting" /\ task'[k].session = s,
           \A n \in Native : writers'[n] = IF writers[n] = s THEN None ELSE writers[n],
           provisional' = Unprovisioned(s),
           record' = record, history \subseteq history', TypeOK'
    PROVE  IInv'
<1>1. /\ s \in Session /\ native[s].phase = "opening" /\ record[s] = NoRecord /\ ~Held(s)
      /\ \A r \in Session : record[r].session # s
      /\ \A j \in Conn : Opens(j) /\ task[j].session = s => j = k
  BY OpenInFlight
<1>2. native'[s].phase \in {"closing", "closed"} /\ ~Opens(k)' /\ ~Reopens(k)'
      /\ \A j \in Conn : j # k => (Opens(j)' <=> Opens(j)) /\ (Reopens(j)' <=> Reopens(j))
  BY DEF Opens, Reopens
<1>3. \A r \in Session : record[r].session # None => record[r].session \in Session
  BY DEF IInv, Structure, TypeOK, Records
<1>4. OpensAreFresh'
  BY <1>1, <1>2 DEF IInv, Structure, OpensAreFresh
<1>5. RecordsHaveSessions'
  BY <1>1, <1>2, <1>3 DEF IInv, Structure, RecordsHaveSessions
<1>6. ReopensAreAlone'
  BY <1>1, <1>2, <1>3 DEF IInv, Structure, ReopensAreAlone
<1>7. HoldersHaveLeases'
  <2>1. \A r \in Session : Held(r)' <=> Held(r)
    BY DEF Held
  <2>2. \A r \in Session : Held(r) /\ record[r].key # None => writers'[record[r].key] = r
    BY <1>1 DEF IInv, Structure, Leased, TypeOK, Records, HoldersHaveLeases
  <2>3. \A j \in Conn : task'[j].pc = "opening" /\ task'[j].mode = "create" =>
          provisional' = task'[j].session
    BY <1>1, <1>2 DEF IInv, Leased, HoldersHaveLeases, Opens, Unprovisioned
  <2>4. \A r \in Session : Unknown(r)' => Unknown(r)
    BY <1>1, <1>2, <1>3 DEF Unknown, Emits, IInv, Structure, RecordsHaveSessions
  <2>5. \A r \in Session : Unknown(r) => r # s
    BY <1>1 DEF Unknown, Emits, Held
  <2> QED
    BY <2>1, <2>2, <2>3, <2>4, <2>5 DEF IInv, Leased, HoldersHaveLeases, Unprovisioned
<1>8. LeasesHaveHolders'
  <2>1. \A n \in Native : writers'[n] # None => writers'[n] = writers[n] /\ writers[n] # s
    OBVIOUS
  <2>2. provisional' # None => provisional' = provisional /\ provisional # s
    BY DEF Unprovisioned
  <2>3. \A n \in Native : writers'[n] # None =>
          \/ Held(writers[n]) /\ record[writers[n]].key = n
          \/ \E j \in Conn : /\ task'[j].pc = "opening" /\ task'[j].mode = "resume"
                              /\ task'[j].session = writers[n] /\ task'[j].ref = n
    BY <2>1 DEF IInv, Leased, LeasesHaveHolders
  <2>4. provisional' # None =>
          \/ Held(provisional) /\ record[provisional].key = None
          \/ \E j \in Conn : /\ task'[j].pc = "opening" /\ task'[j].mode = "create"
                              /\ task'[j].session = provisional
    BY <2>2 DEF IInv, Leased, LeasesHaveHolders
  <2> QED
    BY <2>1, <2>2, <2>3, <2>4 DEF LeasesHaveHolders, Held
<1>9. WritersAreLeased'
  <2>1. \A x \in Session : Writes(x)' /\ ~Refused(x)' => Writes(x) /\ native'[x] = native[x] /\ x # s
    BY DEF Writes, Refused
  <2>2. \A x \in Session : x # s /\ Stray(x) => Stray(x)'
    BY DEF Stray
  <2>3. \A x \in Session : Refused(x) => Refused(x)'
    BY DEF Refused, Opens
  <2>4. \A r \in Session : record[r].session # None => r # s
    BY <1>1 DEF NoRecord, Record
  <2>5. \A x \in Session : Writes(x) => native[x].id \in Native
    BY DEF Writes, IInv, Structure, TypeOK, Phases
  <2> QED
    BY <2>1, <2>2, <2>3, <2>4, <2>5, NoneIsNone DEF IInv, Leased, WritersAreLeased
<1> QED
  BY <1>4, <1>5, <1>6, <1>7, <1>8, <1>9 DEF IInv, Structure, Leased

\* A failed open, or a failed reopen.
LEMMA OpenFailsKeeps ==
    ASSUME IInv, NEW k \in Conn, OpenFails(k) \/ ReopenFails(k), TypeOK'
    PROVE  IInv'
<1> DEFINE s == task[k].session
<1>1. Opens(k) /\ Idle(k) /\ UNCHANGED <<record, history>>
      /\ native' = [native EXCEPT ![s] = Phase("closed", None)]
  BY DEF OpenFails, ReopenFails, Opens
<1>2. s \in Session
  BY <1>1, OpenInFlight
<1>3. native'[s].phase = "closed" /\ \A x \in Session : x # s => native'[x] = native[x]
  BY <1>1, <1>2 DEF IInv, Structure, TypeOK, Phase
<1>4. task'[k].pc = "idle" /\ \A j \in Conn : j # k => task'[j] = task[j]
  BY <1>1, IdleTask DEF IInv, Structure
<1>5. \A n \in Native : writers'[n] = IF writers[n] = s THEN None ELSE writers[n]
  <2>1. CASE OpenFails(k)
    BY <2>1 DEF OpenFails, Released
  <2>2. CASE ReopenFails(k)
    <3>1. task[k].pc = "reopening" /\ writers' = writers
      BY <2>2 DEF ReopenFails
    <3> QED
      BY <1>1, <3>1, OpenInFlight
  <2> QED
    BY <2>1, <2>2
<1>6. provisional' = Unprovisioned(s)
  <2>1. CASE OpenFails(k)
    BY <2>1 DEF OpenFails
  <2>2. CASE ReopenFails(k)
    <3>1. task[k].pc = "reopening" /\ provisional' = provisional
      BY <2>2 DEF ReopenFails
    <3> QED
      BY <1>1, <3>1, OpenInFlight DEF Unprovisioned
  <2> QED
    BY <2>1, <2>2
<1> HIDE DEF s
<1> QED
  BY <1>1, <1>3, <1>4, <1>5, <1>6, OpenIsLost DEF s

\* An open that is kept: its record leases the identity that was reported.
LEMMA OpenIsKept ==
    ASSUME IInv, NEW k \in Conn, task[k].pc = "opening", NEW s, s = task[k].session,
           NEW id \in Reported(k), ~Taken(id, s),
           native' = [native EXCEPT ![s] = Phase("open", id)],
           record' = [record EXCEPT ![s] = Record(k, id, s)],
           writers' = [n \in Native |-> IF n = id THEN s ELSE writers[n]],
           provisional' = Claimed(s, id), Idle(k), history' = Seen(id), TypeOK'
    PROVE  IInv'
<1>1. /\ s \in Session /\ native[s].phase = "opening" /\ record[s] = NoRecord /\ ~Held(s)
      /\ \A r \in Session : record[r].session # s
      /\ \A j \in Conn : Opens(j) /\ task[j].session = s => j = k
      /\ \A n \in Native : writers[n] = s => task[k].mode = "resume" /\ task[k].ref = n
      /\ provisional = s => task[k].mode = "create"
  BY OpenInFlight DEF Opens
<1>2. /\ native'[s].phase = "open" /\ native'[s].id = id
      /\ \A x \in Session : x # s => native'[x] = native[x]
  BY <1>1 DEF IInv, Structure, TypeOK, Phase
<1>3. /\ record'[s].present /\ record'[s].key = id /\ record'[s].session = s
      /\ record'[s].closing = None /\ record'[s].conn = k
  BY <1>1, NoneIsNone DEF IInv, Structure, TypeOK, Record
<1>4. \A r \in Session : r # s => record'[r] = record[r]
  BY <1>1 DEF IInv, Structure, TypeOK
<1>5. \A n \in Native : writers'[n] = IF n = id THEN s ELSE writers[n]
  OBVIOUS
<1>6. task'[k].pc = "idle" /\ \A j \in Conn : j # k => task'[j] = task[j]
  BY IdleTask DEF IInv, Structure
<1>7. /\ id # None => id \in Native /\ writers[id] \in {None, s} /\ id \in history'
      /\ history \subseteq history'
      /\ task[k].mode = "resume" => id = task[k].ref
      /\ id = None => task[k].mode = "create"
  <2>1. id \in {task[k].ref} \cup {None} \cup Native
    BY DEF Reported
  <2>2. task[k].ref \in Native \cup {None} /\ task[k].mode \in {"create", "resume", "fork", None}
    BY DEF IInv, Structure, TypeOK, Tasks
  <2>3. task[k].mode = "resume" => id = task[k].ref
    BY DEF Reported
  <2>4. id = None => task[k].mode = "create"
    BY NoneIsNone DEF Reported, IInv, Structure, OpensAreFresh
  <2> QED
    BY <2>1, <2>2, <2>3, <2>4 DEF Taken, Seen
<1>8. \A r \in Session : record[r].session # None => record[r].session \in Session
  BY DEF IInv, Structure, TypeOK, Records
<1>9. OpensAreFresh'
  BY <1>1, <1>2, <1>4, <1>6 DEF IInv, Structure, OpensAreFresh, Opens
<1>10. RecordsHaveSessions'
  BY <1>1, <1>2, <1>3, <1>4, <1>7, <1>8, NoneIsNone DEF IInv, Structure, RecordsHaveSessions
<1>11. ReopensAreAlone'
  BY <1>1, <1>2, <1>4, <1>6, <1>8, NoRecordFields DEF IInv, Structure, ReopensAreAlone, Reopens
<1>12. HoldersHaveLeases'
  <2>1. \A r \in Session : Held(r)' /\ record'[r].key # None => writers'[record'[r].key] = r
    <3>1. \A r \in Session : r # s /\ Held(r) /\ record[r].key # None =>
             record[r].key \in Native /\ writers[record[r].key] = r
      BY DEF IInv, Structure, Leased, TypeOK, Records, HoldersHaveLeases
    <3> QED
      BY <1>3, <1>4, <1>5, <1>7, <3>1, NoneIsNone DEF Held
  <2>2. \A j \in Conn : task'[j].pc = "opening" /\ task'[j].mode = "create" =>
          j # k /\ provisional = task[j].session /\ task[j].session # s
    BY <1>1, <1>6 DEF IInv, Leased, HoldersHaveLeases, Opens
  <2>3. provisional' = provisional \/ (provisional = s /\ id # None)
    BY DEF Claimed, Unprovisioned
  <2>4. \A r \in Session : r # s /\ Unknown(r)' => Unknown(r)
    BY <1>2, <1>4, <1>1, <1>8, <1>10 DEF Unknown, Emits, IInv, Structure, RecordsHaveSessions
  <2>5. Unknown(s)' => provisional' = s
    BY <1>3, <1>7 DEF Unknown, Claimed, IInv, Leased, HoldersHaveLeases
  <2> QED
    BY <1>6, <2>1, <2>2, <2>3, <2>4, <2>5 DEF IInv, Leased, HoldersHaveLeases
<1>13. LeasesHaveHolders'
  <2>1. ASSUME NEW n \in Native, n # id, writers[n] # None
        PROVE  \/ Held(writers[n]) /\ record[writers[n]].key = n /\ writers[n] # s
               \/ \E j \in Conn : /\ task'[j].pc = "opening" /\ task'[j].mode = "resume"
                                   /\ task'[j].session = writers[n] /\ task'[j].ref = n
    BY <1>1, <1>6, <1>7, <2>1 DEF IInv, Leased, LeasesHaveHolders
  <2>2. provisional' # None => provisional' = provisional /\ (provisional = s => id = None)
    BY DEF Claimed, Unprovisioned
  <2>3. ASSUME provisional # None, provisional # s
        PROVE  \/ Held(provisional) /\ record[provisional].key = None
               \/ \E j \in Conn : /\ task'[j].pc = "opening" /\ task'[j].mode = "create"
                                   /\ task'[j].session = provisional
    BY <1>1, <1>6, <2>3 DEF IInv, Leased, LeasesHaveHolders
  <2>4. \A r \in Session : r # s => (Held(r)' <=> Held(r))
    BY <1>4 DEF Held
  <2>5. Held(s)'
    BY <1>3 DEF Held
  <2>6. provisional \in Session \cup {None} /\ \A n \in Native : writers[n] \in Session \cup {None}
    BY DEF IInv, Structure, TypeOK
  <2>7. ASSUME NEW n \in Native, writers'[n] # None
        PROVE  \/ (record'[writers'[n]].present \/ record'[writers'[n]].closing # None)
                  /\ record'[writers'[n]].key = n
               \/ \E j \in Conn : /\ task'[j].pc = "opening" /\ task'[j].mode = "resume"
                                   /\ task'[j].session = writers'[n] /\ task'[j].ref = n
    <3>1. CASE n = id
      BY <1>3, <1>5, <3>1
    <3>2. CASE n # id
      BY <1>4, <1>5, <2>1, <2>6, <2>7, <3>2 DEF Held
    <3> QED
      BY <3>1, <3>2
  <2>8. ASSUME provisional' # None
        PROVE  \/ (record'[provisional'].present \/ record'[provisional'].closing # None)
                  /\ record'[provisional'].key = None
               \/ \E j \in Conn : /\ task'[j].pc = "opening" /\ task'[j].mode = "create"
                                   /\ task'[j].session = provisional'
    <3>1. CASE provisional = s
      BY <1>3, <2>2, <2>8, <3>1
    <3>2. CASE provisional # s
      BY <1>4, <2>2, <2>3, <2>6, <2>8, <3>2 DEF Held
    <3> QED
      BY <3>1, <3>2
  <2> QED
    BY <2>7, <2>8 DEF LeasesHaveHolders, Held
<1>14. WritersAreLeased'
  <2>1. \A x \in Session : x # s /\ Writes(x)' => Writes(x)
    BY <1>2 DEF Writes
  <2>2. \A x \in Session : x # s /\ Stray(x) => Stray(x)'
    BY <1>1, <1>2, <1>4, NoRecordFields, NoneIsNone DEF Stray
  <2>3. \A x \in Session : Refused(x) => Refused(x)'
    BY <1>6 DEF Refused
  <2>4. \A x \in Session : Writes(x) => native[x].id \in Native
    BY DEF Writes, IInv, Structure, TypeOK, Phases
  <2>5. \A r \in Session : record[r].session \in Session => r # s
    BY <1>1, NoRecordFields, NoneIsNone
  <2>6. ASSUME NEW x \in Session, x # s, Writes(x)', ~Stray(x)', ~Refused(x)'
        PROVE  \E r \in Session :
                  /\ record'[r].session = x /\ record'[r].key = native'[x].id
                  /\ writers'[native'[x].id] = r
                  /\ record'[r].present \/ record'[r].closing = x
    <3>1. PICK r \in Session :
             /\ record[r].session = x /\ record[r].key = native[x].id
             /\ writers[native[x].id] = r /\ (record[r].present \/ record[r].closing = x)
      BY <2>1, <2>2, <2>3, <2>6 DEF IInv, Leased, WritersAreLeased
    <3>2. r # s /\ native[x].id \in Native
      BY <2>1, <2>4, <2>5, <2>6, <3>1
    <3>3. native[x].id # id
      BY <1>7, <3>1, <3>2, NoneIsNone
    <3> QED
      BY <1>2, <1>4, <1>5, <2>6, <3>1, <3>2, <3>3
  <2>7. Writes(s)' => record'[s].session = s /\ record'[s].key = native'[s].id
                      /\ writers'[native'[s].id] = s /\ record'[s].present
    BY <1>2, <1>3, <1>5, <1>7 DEF Writes
  <2>8. ASSUME NEW x \in Session, Writes(x)', ~Stray(x)', ~Refused(x)'
        PROVE  \E r \in Session :
                  /\ record'[r].session = x /\ record'[r].key = native'[x].id
                  /\ writers'[native'[x].id] = r
                  /\ record'[r].present \/ record'[r].closing = x
    <3>1. CASE x = s
      BY <2>7, <2>8, <3>1
    <3>2. CASE x # s
      BY <2>6, <2>8, <3>2
    <3> QED
      BY <3>1, <3>2
  <2> QED
    BY <2>8 DEF WritersAreLeased
<1> QED
  BY <1>9, <1>10, <1>11, <1>12, <1>13, <1>14 DEF IInv, Structure, Leased

\* The native open settles.
LEMMA OpenDoneKeeps ==
    ASSUME IInv, NEW k \in Conn, NEW id \in Native \cup {None}, NEW mismatch \in BOOLEAN,
           OpenDone(k, id, mismatch), TypeOK'
    PROVE  IInv'
<1> DEFINE s == task[k].session
<1>1. task[k].pc = "opening" /\ Opens(k) /\ id \in Reported(k) /\ history' = Seen(id)
  BY DEF OpenDone, Opens
<1>2. s \in Session
  BY <1>1, OpenInFlight
<1>3. CASE /\ native' = [native EXCEPT ![s] = Phase("closing", id)]
           /\ writers' = Released(s)
           /\ provisional' = Unprovisioned(s)
           /\ task' = [task EXCEPT ![k] = Task("rejecting", task[k].mode, None, None, s)]
           /\ UNCHANGED record
  <2>1. native'[s].phase = "closing" /\ \A x \in Session : x # s => native'[x] = native[x]
    BY <1>2, <1>3 DEF IInv, Structure, TypeOK, Phase
  <2>2. /\ task'[k].pc = "rejecting" /\ task'[k].session = s
        /\ \A j \in Conn : j # k => task'[j] = task[j]
    BY <1>3 DEF IInv, Structure, TypeOK, Task
  <2>3. \A n \in Native : writers'[n] = IF writers[n] = s THEN None ELSE writers[n]
    BY <1>3 DEF Released
  <2>4. history \subseteq history'
    BY <1>1 DEF Seen
  <2>5. record' = record /\ provisional' = Unprovisioned(s)
    BY <1>3
  <2> HIDE DEF s
  <2> QED
    BY <1>1, <2>1, <2>2, <2>3, <2>4, <2>5, OpenIsLost DEF s
<1>4. CASE /\ ~Refuses(k, id, mismatch)
           /\ native' = [native EXCEPT ![s] = Phase("open", id)]
           /\ record' = [record EXCEPT ![s] = Record(k, id, s)]
           /\ writers' = [n \in Native |-> IF n = id THEN s ELSE writers[n]]
           /\ provisional' = Claimed(s, id)
           /\ Idle(k)
  <2>1. ~Taken(id, s)
    BY <1>4 DEF Refuses
  <2> HIDE DEF s
  <2> QED
    BY <1>1, <1>4, <2>1, OpenIsKept DEF s
<1> QED
  BY <1>3, <1>4 DEF OpenDone

\* The old native Session has ended: a new one is opened for the record.
LEMMA ReopenOpenKeeps ==
    ASSUME IInv, NEW k \in Conn, ReopenOpen(k), TypeOK'
    PROVE  IInv'
<1>0. task[k].pc = "replacing" /\ native[task[k].session].phase = "closed"
      /\ UNCHANGED <<record, writers, provisional, history>>
  BY DEF ReopenOpen
<1>1. CASE Idle(k) /\ UNCHANGED native
  BY <1>0, <1>1, IdleTask, RequestEnds DEF Opens, IInv, Structure
<1>2. CASE /\ Unused # {}
           /\ native' = [native EXCEPT ![NextSession] = Phase("opening", None)]
           /\ task' = [task EXCEPT ![k] = Task("reopening", None, None, task[k].rec, NextSession)]
  <2> DEFINE s == NextSession
             r == task[k].rec
  <2>1. s \in Session /\ native[s].phase = "none" /\ record[s] = NoRecord
    BY <1>2, NextIsUnused DEF Unused, IInv, Structure, OpensAreFresh
  <2>2. /\ r \in Session /\ record[r].key # None /\ record[r].session # None
        /\ record[r].conn \in {k, None} /\ native[record[r].session].phase = "closed"
    BY <1>0 DEF IInv, Structure, ReopensAreAlone, Reopens
  <2> HIDE DEF s
  <2>3. /\ task'[k].pc = "reopening" /\ task'[k].session = s /\ task'[k].rec = r
        /\ \A j \in Conn : j # k => task'[j] = task[j]
    BY <1>2 DEF IInv, Structure, TypeOK, Task, s
  <2>4. /\ native'[s].phase = "opening"
        /\ \A x \in Session : x # s => native'[x] = native[x]
    BY <1>2, <2>1 DEF IInv, Structure, TypeOK, Phase, s
  <2> HIDE DEF r
  <2>5. \A q \in Session : record[q].session # s
    BY <2>1, NoneIsNone DEF IInv, Structure, RecordsHaveSessions
  <2>6. \A q \in Session : record[q].session # None => record[q].session \in Session
    BY DEF IInv, Structure, TypeOK, Records
  <2>7. OpensAreFresh'
    BY <1>0, <2>1, <2>3, <2>4 DEF IInv, Structure, OpensAreFresh, Opens
  <2>8. RecordsHaveSessions'
    BY <1>0, <2>4, <2>5, <2>6 DEF IInv, Structure, RecordsHaveSessions
  <2>9. ReopensAreAlone'
    <3>1. \A j \in Conn : Reopens(j)' => Reopens(j) /\ task'[j].rec = task[j].rec
      BY <1>0, <2>3 DEF Reopens, r
    <3>2. \A j \in Conn : Reopens(j) => native'[record[task[j].rec].session] = native[record[task[j].rec].session]
      BY <2>4, <2>5, <2>6 DEF IInv, Structure, ReopensAreAlone
    <3> QED
      BY <1>0, <2>2, <2>3, <3>1, <3>2 DEF IInv, Structure, ReopensAreAlone, Reopens
  <2>10. HoldersHaveLeases'
    <3>1. \A q \in Session : Unknown(q)' => Unknown(q)
      BY <1>0, <2>4, <2>5, <2>6 DEF Unknown, Emits, IInv, Structure, RecordsHaveSessions
    <3> QED
      BY <1>0, <2>3, <3>1 DEF IInv, Leased, HoldersHaveLeases, Held
  <2>11. LeasesHaveHolders'
    BY <1>0, <2>3 DEF IInv, Leased, LeasesHaveHolders, Held
  <2>12. WritersAreLeased'
    <3>1. \A x \in Session : Writes(x)' => Writes(x) /\ native'[x] = native[x] /\ x # s
      BY <2>4 DEF Writes
    <3>2. \A x \in Session : x # s /\ Stray(x) => Stray(x)'
      BY <1>0, <2>4 DEF Stray
    <3>3. \A x \in Session : Refused(x) => Refused(x)'
      BY <1>0, <2>3 DEF Refused
    <3> QED
      BY <1>0, <3>1, <3>2, <3>3 DEF IInv, Leased, WritersAreLeased
  <2> QED
    BY <2>7, <2>8, <2>9, <2>10, <2>11, <2>12 DEF IInv, Structure, Leased
<1> QED
  BY <1>1, <1>2 DEF ReopenOpen

\* A reopened Session becomes that of its record, whether or not the record is
\* still in the map.
LEMMA ReopenIsKept ==
    ASSUME IInv, NEW k \in Conn, task[k].pc = "reopening",
           NEW s, s = task[k].session, NEW r, r = task[k].rec,
           native'[s].phase = "open", native'[s].id = record[r].key,
           \A x \in Session : x # s => native'[x] = native[x],
           record'[r].session = s, record'[r].key = record[r].key,
           record'[r].present = record[r].present, record'[r].conn = record[r].conn,
           record'[r].closing = record[r].closing,
           \A q \in Session : q # r => record'[q] = record[q],
           task'[k].pc = "idle", \A j \in Conn : j # k => task'[j] = task[j],
           UNCHANGED <<writers, provisional, history>>, TypeOK'
    PROVE  IInv'
<1>a. task[k].pc = "reopening" /\ UNCHANGED <<writers, provisional, history>>
  OBVIOUS
<1>b. /\ s \in Session /\ native[s].phase = "opening" /\ record[s] = NoRecord /\ ~Held(s)
      /\ \A q \in Session : record[q].session # s
      /\ \A j \in Conn : Opens(j) /\ task[j].session = s => j = k
      /\ \A n \in Native : writers[n] # s
      /\ provisional # s
  BY OpenInFlight DEF Opens
<1>c. /\ r \in Session /\ record[r].key # None /\ record[r].session # None
      /\ record[r].conn \in {k, None} /\ native[record[r].session].phase = "closed"
  BY DEF IInv, Structure, ReopensAreAlone, Reopens
<1>1. /\ native'[s].phase = "open" /\ native'[s].id = record[r].key
      /\ \A x \in Session : x # s => native'[x] = native[x]
  OBVIOUS
<1>2. /\ record'[r].session = s /\ record'[r].key = record[r].key
      /\ record'[r].present = record[r].present /\ record'[r].conn = record[r].conn
      /\ record'[r].closing = record[r].closing
      /\ \A q \in Session : q # r => record'[q] = record[q]
  OBVIOUS
<1>3. task'[k].pc = "idle" /\ \A j \in Conn : j # k => task'[j] = task[j]
  OBVIOUS
<1>4. \A q \in Session : record[q].session # None => record[q].session \in Session
  BY DEF IInv, Structure, TypeOK, Records
<1>5. r # s
  BY <1>b, <1>c, NoRecordFields
<1>6. \A j \in Conn : j # k /\ Reopens(j) => task[j].rec # r
  BY <1>a DEF IInv, Structure, ReopensAreAlone, Reopens
<1>7. OpensAreFresh'
  <2>1. \A q \in Session : native'[q].phase \in {"none", "opening"} => q # r /\ native[q] = native'[q]
    <3>1. native[r].phase \notin {"none", "opening"}
      BY <1>c, NoRecordFields DEF IInv, Structure, OpensAreFresh
    <3> QED
      BY <1>1, <1>5, <3>1
  <2>2. \A q \in Session : native'[q].phase \in {"none", "opening"} => record'[q] = NoRecord
    BY <1>2, <2>1 DEF IInv, Structure, OpensAreFresh
  <2>3. \A j \in Conn : Opens(j)' => j # k /\ Opens(j) /\ task'[j] = task[j]
    BY <1>3 DEF Opens
  <2>4. \A j \in Conn : j # k /\ Opens(j) =>
           /\ task[j].session \in Session
           /\ native'[task[j].session].phase = "opening"
    BY <1>b, <1>1 DEF IInv, Structure, OpensAreFresh
  <2> QED
    BY <1>3, <2>2, <2>3, <2>4 DEF IInv, Structure, OpensAreFresh
<1>8. RecordsHaveSessions'
  <2>1. \A q \in Session : record'[q].session # None =>
           native'[record'[q].session].phase \in {"open", "closing", "closed"}
    BY <1>b, <1>1, <1>2, <1>4 DEF IInv, Structure, RecordsHaveSessions
  <2>2. \A p, q \in Session :
           record'[p].session # None /\ record'[p].session = record'[q].session => p = q
    BY <1>b, <1>2 DEF IInv, Structure, RecordsHaveSessions
  <2>3. \A q \in Session :
           /\ record'[q].present => record'[q].session # None /\ record'[q].closing = None
           /\ record'[q].key # None => record'[q].key \in history'
    BY <1>a, <1>b, <1>2, NoneIsNone DEF IInv, Structure, RecordsHaveSessions
  <2> QED
    BY <2>1, <2>2, <2>3 DEF RecordsHaveSessions
<1>9. ReopensAreAlone'
  <2>1. ASSUME NEW j \in Conn, Reopens(j)'
        PROVE  /\ j # k /\ Reopens(j) /\ task'[j] = task[j] /\ task[j].rec # r
               /\ record'[task[j].rec] = record[task[j].rec]
               /\ record[task[j].rec].session \in Session \ {s}
    <3>1. j # k /\ task'[j] = task[j] /\ Reopens(j)
      BY <1>3, <2>1 DEF Reopens
    <3>2. task[j].rec \in Session \ {r} /\ record[task[j].rec].session # None
      BY <1>6, <3>1 DEF IInv, Structure, ReopensAreAlone
    <3> QED
      BY <1>b, <1>2, <1>4, <3>1, <3>2
  <2>2. ASSUME NEW j \in Conn, Reopens(j)', NEW q, q = task'[j].rec
        PROVE  /\ q \in Session /\ record'[q].key # None /\ record'[q].session # None
               /\ record'[q].conn \in {j, None}
               /\ task'[j].pc = "replacing" => task'[j].session = record'[q].session
               /\ task'[j].pc = "reopening" => native'[record'[q].session].phase = "closed"
    <3>1. /\ Reopens(j) /\ task'[j] = task[j] /\ record'[q] = record[q]
          /\ native'[record[q].session] = native[record[q].session]
      BY <2>1, <2>2
    <3> QED
      BY <2>2, <3>1 DEF IInv, Structure, ReopensAreAlone
  <2>3. \A i, j \in Conn : Reopens(i)' /\ Reopens(j)' /\ task'[i].rec = task'[j].rec => i = j
    BY <2>1 DEF IInv, Structure, ReopensAreAlone
  <2> QED
    BY <2>2, <2>3 DEF ReopensAreAlone
<1>10. HoldersHaveLeases'
  <2>1. \A q \in Session : Held(q)' <=> Held(q)
    BY <1>2 DEF Held
  <2>2. \A q \in Session : Unknown(q)' => q # r /\ Unknown(q)
    BY <1>b, <1>c, <1>1, <1>2, <1>4 DEF Unknown, Emits, IInv, Structure, RecordsHaveSessions
  <2>3. \A q \in Session : record'[q].key = record[q].key
    BY <1>2
  <2> QED
    BY <1>a, <1>3, <2>1, <2>2, <2>3 DEF IInv, Leased, HoldersHaveLeases
<1>11. LeasesHaveHolders'
  <2>1. provisional \in Session \cup {None} /\ \A n \in Native : writers[n] \in Session \cup {None}
    BY DEF IInv, Structure, TypeOK
  <2>2. \A q \in Session : (Held(q)' <=> Held(q)) /\ record'[q].key = record[q].key
    BY <1>2 DEF Held
  <2>3. \A j \in Conn : task[j].pc = "opening" => task'[j] = task[j]
    BY <1>a, <1>3
  <2> QED
    BY <1>a, <2>1, <2>2, <2>3 DEF IInv, Leased, LeasesHaveHolders, Held
<1>12. WritersAreLeased'
  <2>1. \A x \in Session : x # s /\ Writes(x)' => Writes(x) /\ native'[x] = native[x]
    BY <1>1 DEF Writes
  <2>2. \A x \in Session : x # s /\ Writes(x) /\ Stray(x) => Stray(x)'
    BY <1>c, <1>1, <1>2 DEF Stray
  <2>3. \A x \in Session : Refused(x) => Refused(x)'
    BY <1>a, <1>3 DEF Refused
  <2>4. ASSUME NEW x \in Session, x # s, Writes(x)', ~Stray(x)', ~Refused(x)'
        PROVE  \E q \in Session :
                  /\ record'[q].session = x /\ record'[q].key = native'[x].id
                  /\ writers'[native'[x].id] = q
                  /\ record'[q].present \/ record'[q].closing = x
    <3>1. PICK q \in Session :
             /\ record[q].session = x /\ record[q].key = native[x].id
             /\ writers[native[x].id] = q /\ (record[q].present \/ record[q].closing = x)
      BY <2>1, <2>2, <2>3, <2>4 DEF IInv, Leased, WritersAreLeased
    <3>2. q # r
      BY <1>c, <2>1, <2>4, <3>1 DEF Writes
    <3> QED
      BY <1>a, <1>2, <2>1, <2>4, <3>1, <3>2
  <2>5. ASSUME ~Stray(s)'
        PROVE  /\ record'[r].session = s /\ record'[r].key = native'[s].id
               /\ writers'[native'[s].id] = r /\ record'[r].present
    <3>1. record'[r].present
      BY <1>c, <1>1, <1>2, <2>5 DEF Stray
    <3>2. writers[record[r].key] = r
      BY <1>c, <1>2, <3>1 DEF IInv, Leased, HoldersHaveLeases, Held
    <3> QED
      BY <1>a, <1>1, <1>2, <3>1, <3>2
  <2>6. ASSUME NEW x \in Session, Writes(x)', ~Stray(x)', ~Refused(x)'
        PROVE  \E q \in Session :
                  /\ record'[q].session = x /\ record'[q].key = native'[x].id
                  /\ writers'[native'[x].id] = q
                  /\ record'[q].present \/ record'[q].closing = x
    <3>1. CASE x = s
      BY <1>c, <2>5, <2>6, <3>1
    <3>2. CASE x # s
      BY <2>4, <2>6, <3>2
    <3> QED
      BY <3>1, <3>2
  <2> QED
    BY <2>6 DEF WritersAreLeased
<1> QED
  BY <1>7, <1>8, <1>9, <1>10, <1>11, <1>12 DEF IInv, Structure, Leased

\* The record takes the Session that was reopened, or that Session is closed.
LEMMA ReopenDoneKeeps ==
    ASSUME IInv, NEW k \in Conn, NEW refused \in BOOLEAN, ReopenDone(k, refused), TypeOK'
    PROVE  IInv'
<1> DEFINE s == task[k].session
           r == task[k].rec
<1>0. task[k].pc = "reopening" /\ UNCHANGED <<writers, provisional, history>>
  BY DEF ReopenDone
<1>1. /\ s \in Session /\ native[s].phase = "opening" /\ record[s] = NoRecord /\ ~Held(s)
      /\ \A q \in Session : record[q].session # s
      /\ \A j \in Conn : Opens(j) /\ task[j].session = s => j = k
      /\ \A n \in Native : writers[n] # s
      /\ provisional # s
  BY <1>0, OpenInFlight DEF Opens
<1>2. /\ r \in Session /\ record[r].key # None /\ record[r].session # None
      /\ record[r].conn \in {k, None} /\ native[record[r].session].phase = "closed"
  BY <1>0 DEF IInv, Structure, ReopensAreAlone, Reopens
<1>3. CASE /\ native' = [native EXCEPT ![s] = Phase("closing", record[r].key)]
           /\ task' = [task EXCEPT ![k] = Task("rejecting", None, None, None, s)]
           /\ UNCHANGED record
  <2>1. native'[s].phase = "closing" /\ \A x \in Session : x # s => native'[x] = native[x]
    BY <1>1, <1>3 DEF IInv, Structure, TypeOK, Phase
  <2>2. /\ task'[k].pc = "rejecting" /\ task'[k].session = s
        /\ \A j \in Conn : j # k => task'[j] = task[j]
    BY <1>3 DEF IInv, Structure, TypeOK, Task
  <2>3. /\ \A n \in Native : writers'[n] = IF writers[n] = s THEN None ELSE writers[n]
        /\ provisional' = Unprovisioned(s)
    BY <1>0, <1>1 DEF Unprovisioned
  <2>4. Opens(k) /\ record' = record
    BY <1>0, <1>3 DEF Opens
  <2> HIDE DEF s
  <2> QED
    BY <1>0, <2>1, <2>2, <2>3, <2>4, OpenIsLost DEF s
<1>4. CASE /\ native' = [native EXCEPT ![s] = Phase("open", record[r].key)]
           /\ record' = [record EXCEPT ![r].session = s, ![r].faulted = FALSE]
           /\ Idle(k)
  <2>1. /\ native'[s].phase = "open" /\ native'[s].id = record[r].key
        /\ \A x \in Session : x # s => native'[x] = native[x]
    BY <1>1, <1>4 DEF IInv, Structure, TypeOK, Phase
  <2>2. /\ record'[r].session = s /\ record'[r].key = record[r].key
        /\ record'[r].present = record[r].present /\ record'[r].conn = record[r].conn
        /\ record'[r].closing = record[r].closing
        /\ \A q \in Session : q # r => record'[q] = record[q]
    BY <1>2, <1>4 DEF IInv, Structure, TypeOK, Records
  <2>3. task'[k].pc = "idle" /\ \A j \in Conn : j # k => task'[j] = task[j]
    BY <1>4, IdleTask DEF IInv, Structure
  <2> HIDE DEF s, r
  <2> QED
    BY <1>0, <2>1, <2>2, <2>3, ReopenIsKept DEF s, r
<1> QED
  BY <1>3, <1>4 DEF ReopenDone

-----------------------------------------------------------------------------
\* A native Session goes on, or is closed: only that of a record in the map is.
GoesOn(s) ==
    \/ native'[s] = native[s]
    \/ /\ native[s].phase = "open" /\ native'[s].phase = "closing" /\ native'[s].id = native[s].id
       /\ \E r \in Session : record[r].session = s /\ record[r].present
    \/ native[s].phase = "closing" /\ native'[s].phase = "closed"

\* A record stays, fails, or leaves the map with its native Session closing.
StaysOrLeaves(r) ==
    /\ record'[r].key = record[r].key /\ record'[r].session = record[r].session
    /\ record'[r].conn \in {record[r].conn, None}
    /\ record[r] = NoRecord => record'[r] = NoRecord
    /\ \/ /\ record'[r].present <=> record[r].present
          /\ record'[r].closing = record[r].closing
          /\ record[r].faulted => record'[r].faulted
       \/ /\ record[r].present /\ ~record'[r].present
          /\ record'[r].closing = record[r].session
          /\ native'[record[r].session].phase # "open"

\* A request of a record of the connection begins.
Begins(k) ==
    /\ task[k].pc = "idle"
    /\ \/ task'[k].pc = "closing"
       \/ \E r \in Session :
             /\ task'[k].pc = "replacing" /\ task'[k].rec = r
             /\ record[r].present /\ record[r].conn = k /\ record[r].key # None
             /\ task'[k].session = record[r].session

\* Sessions that end, and the requests that end them, leave the leases alone; only
\* a Session of unknown identity that fails gives up the provisional lease.
LEMMA SessionsEnd ==
    ASSUME IInv, \A s \in Session : GoesOn(s), \A r \in Session : StaysOrLeaves(r),
           \A k \in Conn : task'[k] = task[k] \/ Begins(k),
           \/ provisional' = provisional
           \/ /\ provisional' = None /\ provisional \in Session
              /\ record[provisional].present /\ record'[provisional].faulted,
           UNCHANGED <<writers, history>>, TypeOK'
    PROVE  IInv'
<1>1. OpensAreFresh'
  <2>1. \A k \in Conn : Opens(k)' => Opens(k) /\ task'[k] = task[k]
    BY DEF Opens, Begins
  <2>2. \A s \in Session : native[s].phase = "opening" => native'[s].phase = "opening"
    BY DEF GoesOn
  <2>3. \A s \in Session : native'[s].phase \in {"none", "opening"} => native[s].phase = native'[s].phase
    BY DEF GoesOn
  <2>4. \A k \in Conn : task'[k].pc \in {"rejecting", "waiting", "opening"} => task'[k] = task[k]
    BY DEF Begins
  <2> QED
    BY <2>1, <2>2, <2>3, <2>4 DEF IInv, Structure, OpensAreFresh, StaysOrLeaves
<1>2. RecordsHaveSessions'
  <2>1. \A r \in Session : record[r].session # None => record[r].session \in Session
    BY DEF IInv, Structure, TypeOK, Records
  <2>2. \A s \in Session : native[s].phase \in {"open", "closing", "closed"} =>
           native'[s].phase \in {"open", "closing", "closed"}
    BY DEF GoesOn
  <2>3. \A r \in Session : record'[r].session # None =>
           native'[record'[r].session].phase \in {"open", "closing", "closed"}
    BY <2>1, <2>2 DEF IInv, Structure, RecordsHaveSessions, StaysOrLeaves
  <2>4. \A q, r \in Session :
           record'[q].session # None /\ record'[q].session = record'[r].session => q = r
    BY DEF IInv, Structure, RecordsHaveSessions, StaysOrLeaves
  <2>5. \A r \in Session :
           /\ record'[r].present => record'[r].session # None /\ record'[r].closing = None
           /\ record'[r].key # None => record'[r].key \in history'
    BY DEF IInv, Structure, RecordsHaveSessions, StaysOrLeaves
  <2> QED
    BY <2>3, <2>4, <2>5 DEF RecordsHaveSessions
<1>3. ReopensAreAlone'
  <2>1. \A r \in Session : record[r].session # None => record[r].session \in Session
    BY DEF IInv, Structure, TypeOK, Records
  <2>2. \A s \in Session : native[s].phase = "closed" => native'[s].phase = "closed"
    BY DEF GoesOn
  <2>3. \A k \in Conn : Reopens(k)' =>
           \/ Reopens(k) /\ task'[k] = task[k]
           \/ /\ task[k].pc = "idle" /\ task'[k].pc = "replacing" /\ task'[k].rec \in Session
              /\ record[task'[k].rec].present /\ record[task'[k].rec].conn = k
              /\ record[task'[k].rec].key # None
              /\ task'[k].session = record[task'[k].rec].session
    BY DEF Reopens, Begins
  <2>4. ASSUME NEW k \in Conn, Reopens(k)', NEW q, q = task'[k].rec
        PROVE  /\ q \in Session /\ record'[q].key # None /\ record'[q].session # None
               /\ record'[q].conn \in {k, None}
               /\ task'[k].pc = "replacing" => task'[k].session = record'[q].session
               /\ task'[k].pc = "reopening" => native'[record'[q].session].phase = "closed"
    <3>1. CASE Reopens(k) /\ task'[k] = task[k]
      <4>1. /\ q \in Session /\ record[q].key # None /\ record[q].session # None
            /\ record[q].conn \in {k, None}
            /\ task[k].pc = "replacing" => task[k].session = record[q].session
            /\ task[k].pc = "reopening" => native[record[q].session].phase = "closed"
        BY <2>4, <3>1 DEF IInv, Structure, ReopensAreAlone
      <4> QED
        BY <2>1, <2>2, <3>1, <4>1 DEF StaysOrLeaves
    <3>2. CASE /\ task'[k].pc = "replacing" /\ q \in Session
               /\ record[q].present /\ record[q].conn = k /\ record[q].key # None
               /\ task'[k].session = record[q].session
      <4>1. record[q].session # None
        BY <3>2 DEF IInv, Structure, RecordsHaveSessions
      <4> QED
        BY <3>2, <4>1 DEF StaysOrLeaves
    <3> QED
      BY <2>3, <2>4, <3>1, <3>2
  <2>5. ASSUME NEW j \in Conn, NEW k \in Conn, Reopens(j)', Reopens(k)', task'[j].rec = task'[k].rec
        PROVE  j = k
    <3>1. \A i \in Conn : Reopens(i) => /\ task[i].rec \in Session
                                         /\ record[task[i].rec].conn \in {i, None}
      BY DEF IInv, Structure, ReopensAreAlone
    <3> QED
      BY <2>3, <2>5, <3>1, NoneIsNone DEF IInv, Structure, ReopensAreAlone
  <2> QED
    BY <2>4, <2>5 DEF ReopensAreAlone
<1>4. HoldersHaveLeases'
  <2>1. \A r \in Session : Held(r)' => Held(r)
    BY DEF Held, StaysOrLeaves
  <2>2. \A k \in Conn : task'[k].pc = "opening" => task'[k] = task[k] /\ Opens(k)
    BY DEF Begins, Opens
  <2>3. \A k \in Conn : Opens(k) => record[task[k].session] = NoRecord
    BY OpenInFlight
  <2>4. \A r \in Session : Unknown(r)' => Unknown(r) /\ ~record'[r].faulted
    <3>1. \A r \in Session : record[r].session # None => record[r].session \in Session
      BY DEF IInv, Structure, TypeOK, Records
    <3>2. \A s \in Session : native'[s].phase = "open" => native[s].phase = "open"
      BY DEF GoesOn
    <3>3. \A r \in Session : record'[r].present =>
             /\ record[r].present /\ record[r].session \in Session
             /\ record'[r].session = record[r].session /\ record'[r].key = record[r].key
             /\ record[r].faulted => record'[r].faulted
      BY <3>1 DEF StaysOrLeaves, IInv, Structure, RecordsHaveSessions
    <3> QED
      BY <3>2, <3>3 DEF Unknown, Emits
  <2>5. \A k \in Conn : task'[k].pc = "opening" /\ task'[k].mode = "create" =>
           provisional' = task'[k].session
    BY <2>2, <2>3, NoRecordFields DEF IInv, Leased, HoldersHaveLeases
  <2>6. \A r \in Session : Unknown(r)' => provisional' = r
    BY <2>4 DEF IInv, Leased, HoldersHaveLeases
  <2>7. \A r \in Session : record'[r].key = record[r].key
    BY DEF StaysOrLeaves
  <2> QED
    BY <2>1, <2>5, <2>6, <2>7 DEF IInv, Leased, HoldersHaveLeases
<1>5. LeasesHaveHolders'
  <2>1. \A r \in Session : Held(r) => record'[r].present \/ record'[r].closing # None
    BY DEF Held, StaysOrLeaves, IInv, Structure, RecordsHaveSessions
  <2>2. \A r \in Session : record'[r].key = record[r].key
    BY DEF StaysOrLeaves
  <2>3. \A k \in Conn : task[k].pc = "opening" => task'[k] = task[k]
    BY DEF Begins
  <2>4. provisional \in Session \cup {None} /\ \A n \in Native : writers[n] \in Session \cup {None}
    BY DEF IInv, Structure, TypeOK
  <2>5. \A n \in Native : writers[n] # None =>
           \/ (record'[writers[n]].present \/ record'[writers[n]].closing # None)
              /\ record'[writers[n]].key = n
           \/ \E k \in Conn : /\ task'[k].pc = "opening" /\ task'[k].mode = "resume"
                               /\ task'[k].session = writers[n] /\ task'[k].ref = n
    BY <2>1, <2>2, <2>3, <2>4 DEF IInv, Leased, LeasesHaveHolders
  <2>6. provisional' # None =>
           /\ provisional' = provisional
           /\ \/ (record'[provisional].present \/ record'[provisional].closing # None)
                 /\ record'[provisional].key = None
              \/ \E k \in Conn : /\ task'[k].pc = "opening" /\ task'[k].mode = "create"
                                  /\ task'[k].session = provisional
    BY <2>1, <2>2, <2>3, <2>4 DEF IInv, Leased, LeasesHaveHolders
  <2> QED
    BY <2>5, <2>6 DEF LeasesHaveHolders, Held
<1>6. WritersAreLeased'
  <2>1. \A x \in Session : Writes(x)' => Writes(x) /\ native'[x].id = native[x].id
    BY DEF Writes, GoesOn
  <2>2. \A x \in Session : Stray(x) => Stray(x)'
    <3>1. ASSUME NEW x \in Session, Stray(x) PROVE Stray(x)'
      <4>1. PICK r \in Session : record[r].session = x /\ ~record[r].present /\ native[x].phase = "open"
        BY <3>1 DEF Stray
      <4>2. \A q \in Session : record[q].session = x => ~record[q].present
        BY <4>1, NoneIsNone DEF IInv, Structure, RecordsHaveSessions
      <4>3. native'[x] = native[x]
        BY <4>1, <4>2 DEF GoesOn
      <4> QED
        BY <4>1, <4>3 DEF Stray, StaysOrLeaves
    <3> QED
      BY <3>1
  <2>3. \A x \in Session : Refused(x) => Refused(x)'
    BY DEF Refused, Begins
  <2>4. ASSUME NEW x \in Session, Writes(x)', ~Stray(x)', ~Refused(x)'
        PROVE  \E r \in Session :
                  /\ record'[r].session = x /\ record'[r].key = native'[x].id
                  /\ writers'[native'[x].id] = r
                  /\ record'[r].present \/ record'[r].closing = x
    <3>1. PICK r \in Session :
             /\ record[r].session = x /\ record[r].key = native[x].id
             /\ writers[native[x].id] = r /\ (record[r].present \/ record[r].closing = x)
      BY <2>1, <2>2, <2>3, <2>4 DEF IInv, Leased, WritersAreLeased
    <3> QED
      BY <2>1, <2>4, <3>1 DEF StaysOrLeaves
  <2> QED
    BY <2>4 DEF WritersAreLeased
<1> QED
  BY <1>1, <1>2, <1>3, <1>4, <1>5, <1>6 DEF IInv, Structure, Leased

\* A socket that ends, requests to close or to reopen, faults and native closes.
LEMMA EndingsKeep ==
    ASSUME IInv, TypeOK',
           \/ \E k \in Conn : SocketClosed(k)
           \/ \E k \in Conn, r \in Session : HandleSession(k, r)
           \/ \E s \in Session : NativeCloses(s)
           \/ \E r \in Session, fatal \in BOOLEAN : FaultOutput(r, fatal)
    PROVE  IInv'
<1>a. TypeOK /\ \A r \in Session : record[r].session # None => record[r].session \in Session
  BY DEF IInv, Structure, TypeOK, Records
<1>b. \A r \in Session : record[r].present => record[r].session \in Session /\ record[r] # NoRecord
  BY <1>a, NoRecordFields DEF IInv, Structure, RecordsHaveSessions
<1>1. ASSUME NEW k \in Conn, SocketClosed(k) PROVE IInv'
  <2> DEFINE mine == {r \in Session : record[r].present /\ record[r].conn = k}
  <2>1. /\ \A r \in Session : record'[r] = IF r \in mine THEN Dropped(r) ELSE record[r]
        /\ \A s \in Session : native'[s] = IF \E r \in mine : record[r].session = s
                                           THEN Closing(s) ELSE native[s]
        /\ UNCHANGED <<task, writers, provisional, history>>
    BY <1>1 DEF SocketClosed
  <2>2. \A r \in mine : r \in Session /\ record[r].present
    OBVIOUS
  <2> HIDE DEF mine
  <2>3. \A s \in Session : GoesOn(s)
    <3>1. ASSUME NEW s \in Session PROVE GoesOn(s)
      <4>1. CASE \E r \in mine : record[r].session = s
        <5>1. native'[s] = Closing(s)
          BY <2>1, <4>1
        <5>2. \E r \in Session : record[r].session = s /\ record[r].present
          BY <2>2, <4>1
        <5>3. native[s].phase # "open" => Closing(s) = native[s]
          BY DEF Closing
        <5> QED
          BY <1>a, <5>1, <5>2, <5>3, ClosingPhase DEF GoesOn
      <4>2. CASE ~ \E r \in mine : record[r].session = s
        BY <2>1, <4>2 DEF GoesOn
      <4> QED
        BY <4>1, <4>2
    <3> QED
      BY <3>1
  <2>4. \A r \in Session : StaysOrLeaves(r)
    <3>1. \A r \in mine : native'[record[r].session].phase # "open"
      BY <1>a, <1>b, <2>1, <2>2, ClosingPhase
    <3>2. ASSUME NEW r \in Session PROVE StaysOrLeaves(r)
      <4>1. CASE r \in mine
        BY <1>a, <1>b, <2>1, <2>2, <3>1, <4>1, DroppedRecord DEF StaysOrLeaves
      <4>2. CASE r \notin mine
        BY <2>1, <4>2 DEF StaysOrLeaves
      <4> QED
        BY <4>1, <4>2
    <3> QED
      BY <3>2
  <2> QED
    BY <2>1, <2>3, <2>4, SessionsEnd
<1>2. ASSUME NEW k \in Conn, NEW r \in Session, HandleSession(k, r) PROVE IInv'
  <2>1. /\ record[r].present /\ record[r].conn = k /\ record[r].session \in Session
        /\ task[k].pc = "idle" /\ UNCHANGED <<writers, provisional, history>>
    BY <1>2, <1>b DEF HandleSession, Ready
  <2>2. native' = [native EXCEPT ![record[r].session] = Closing(record[r].session)]
    BY <1>2 DEF HandleSession, CloseReq, ReopenReq
  <2>3. \A s \in Session : GoesOn(s)
    <3>1. native[record[r].session].phase # "open"
             => Closing(record[r].session) = native[record[r].session]
      BY DEF Closing
    <3>2. \A s \in Session : native'[s] = IF s = record[r].session THEN Closing(s) ELSE native[s]
      BY <2>2, <1>a DEF TypeOK
    <3> QED
      BY <1>a, <2>1, <3>1, <3>2, ClosingPhase DEF GoesOn
  <2>4. native'[record[r].session].phase # "open"
    BY <1>a, <2>1, <2>2, ClosingPhase DEF TypeOK
  <2>5. \A q \in Session : StaysOrLeaves(q)
    <3>1. CASE record' = record
      BY <3>1 DEF StaysOrLeaves
    <3>2. CASE record' = [record EXCEPT ![r] = Dropped(r)]
      <4>1. \A q \in Session : record'[q] = IF q = r THEN Dropped(r) ELSE record[q]
        BY <1>a, <3>2 DEF TypeOK
      <4> QED
        BY <1>a, <1>b, <2>1, <2>4, <4>1, DroppedRecord DEF StaysOrLeaves
    <3> QED
      BY <1>2, <3>1, <3>2 DEF HandleSession, CloseReq, ReopenReq
  <2>6. \A j \in Conn : task'[j] = task[j] \/ Begins(j)
    <3>1. CASE task' = [task EXCEPT ![k] = Task("closing", None, None, r, None)]
      BY <1>a, <2>1, <3>1 DEF TypeOK, Begins, Task
    <3>2. CASE /\ record[r].key # None
               /\ task' = [task EXCEPT ![k] = Task("replacing", None, None, r, record[r].session)]
      BY <1>a, <2>1, <3>2 DEF TypeOK, Begins, Task
    <3> QED
      BY <1>2, <3>1, <3>2 DEF HandleSession, CloseReq, ReopenReq
  <2> QED
    BY <2>1, <2>3, <2>5, <2>6, SessionsEnd
<1>3. ASSUME NEW s \in Session, NativeCloses(s) PROVE IInv'
  <2>1. UNCHANGED <<task, record, writers, provisional, history>> /\ native[s].phase = "closing"
    BY <1>3 DEF NativeCloses
  <2>2. native'[s].phase = "closed" /\ \A x \in Session : x # s => native'[x] = native[x]
    BY <1>3, <1>a DEF NativeCloses, TypeOK, Phase
  <2>3. \A x \in Session : GoesOn(x)
    BY <2>1, <2>2 DEF GoesOn
  <2>4. \A r \in Session : StaysOrLeaves(r)
    BY <2>1 DEF StaysOrLeaves
  <2> QED
    BY <2>1, <2>3, <2>4, SessionsEnd
<1>4. ASSUME NEW r \in Session, NEW fatal \in BOOLEAN, FaultOutput(r, fatal) PROVE IInv'
  <2> DEFINE s == record[r].session
  <2>1. /\ record[r].present /\ s \in Session /\ native[s].phase = "open"
        /\ UNCHANGED <<task, writers, history>> /\ provisional' = Unprovisioned(r)
    BY <1>4, <1>b DEF FaultOutput, Emits
  <2>2. /\ record'[r].faulted /\ record'[r].present
        /\ record'[r].key = record[r].key /\ record'[r].session = record[r].session
        /\ record'[r].conn = record[r].conn /\ record'[r].closing = record[r].closing
        /\ \A q \in Session : q # r => record'[q] = record[q]
    BY <1>4, <1>a, <2>1 DEF FaultOutput, TypeOK, Records
  <2>3. \A x \in Session : native'[x] = IF x = s /\ fatal THEN Closing(s) ELSE native[x]
    BY <1>4, <1>a DEF FaultOutput, TypeOK
  <2>4. \A x \in Session : GoesOn(x)
    BY <1>a, <2>1, <2>3, ClosingPhase DEF GoesOn
  <2>5. \A q \in Session : StaysOrLeaves(q)
    BY <1>b, <2>1, <2>2 DEF StaysOrLeaves
  <2>6. \/ provisional' = provisional
        \/ /\ provisional' = None /\ provisional \in Session
           /\ record[provisional].present /\ record'[provisional].faulted
    BY <2>1, <2>2 DEF Unprovisioned
  <2> QED
    BY <2>1, <2>4, <2>5, <2>6, SessionsEnd
<1> QED
  BY <1>1, <1>2, <1>3, <1>4

\* The close of a record is confirmed: its leases go, and nothing else held them.
LEMMA FinishCloseKeeps ==
    ASSUME IInv, NEW r \in Session, FinishClose(r), TypeOK'
    PROVE  IInv'
<1>1. /\ record[r].closing # None /\ native[record[r].closing].phase = "closed"
      /\ UNCHANGED <<task, native, history>>
      /\ \A n \in Native : writers'[n] = IF n = record[r].key /\ writers[n] = r THEN None ELSE writers[n]
      /\ provisional' = IF provisional = r THEN None ELSE provisional
  BY DEF FinishClose
<1>2. /\ record'[r].closing = None /\ record'[r].key = record[r].key
      /\ record'[r].session = record[r].session /\ record'[r].conn = record[r].conn
      /\ record'[r].present = record[r].present /\ record'[r].faulted = record[r].faulted
      /\ \A q \in Session : q # r => record'[q] = record[q]
  BY DEF FinishClose, IInv, Structure, TypeOK, Records
<1>3. ~record[r].present /\ record[r] # NoRecord
  BY <1>1, NoRecordFields DEF IInv, Structure, RecordsHaveSessions
<1>4. OpensAreFresh'
  BY <1>1, <1>2, <1>3 DEF IInv, Structure, OpensAreFresh, Opens
<1>5. RecordsHaveSessions'
  <2>1. \A q \in Session : record'[q].session = record[q].session /\ record'[q].key = record[q].key
    BY <1>2
  <2>2. \A q \in Session : record'[q].present => q # r
    BY <1>2, <1>3
  <2> QED
    BY <1>1, <1>2, <2>1, <2>2 DEF IInv, Structure, RecordsHaveSessions
<1>6. ReopensAreAlone'
  <2>1. \A q \in Session : /\ record'[q].session = record[q].session /\ record'[q].key = record[q].key
                           /\ record'[q].conn = record[q].conn
    BY <1>2
  <2> QED
    BY <1>1, <2>1 DEF IInv, Structure, ReopensAreAlone, Reopens
<1>7. HoldersHaveLeases'
  <2>1. \A q \in Session : Held(q)' => Held(q) /\ q # r /\ record'[q] = record[q]
    BY <1>2, <1>3 DEF Held
  <2>2. \A k \in Conn : task[k].pc = "opening" => record[task[k].session] = NoRecord
    BY OpenInFlight DEF Opens
  <2>3. \A q \in Session : Unknown(q)' => Unknown(q) /\ q # r
    BY <1>1, <1>2, <1>3 DEF Unknown, Emits
  <2>4. \A q \in Session : Held(q)' /\ record'[q].key # None => writers'[record'[q].key] = q
    BY <1>1, <2>1 DEF IInv, Structure, Leased, TypeOK, Records, HoldersHaveLeases
  <2>5. \A k \in Conn : task[k].pc = "opening" /\ task[k].mode = "create" => provisional' = task[k].session
    BY <1>1, <1>3, <2>2 DEF IInv, Leased, HoldersHaveLeases
  <2> QED
    BY <1>1, <2>3, <2>4, <2>5 DEF IInv, Leased, HoldersHaveLeases
<1>8. LeasesHaveHolders'
  <2>1. \A k \in Conn : task[k].pc = "opening" => task[k].session # r
    BY <1>3, OpenInFlight DEF Opens
  <2>2. \A n \in Native : writers'[n] # None => writers'[n] = writers[n] /\ writers[n] # r
    BY <1>1, <2>1, NoneIsNone DEF IInv, Leased, LeasesHaveHolders
  <2>3. provisional' # None => provisional' = provisional /\ provisional # r
    BY <1>1
  <2>4. provisional \in Session \cup {None} /\ \A n \in Native : writers[n] \in Session \cup {None}
    BY DEF IInv, Structure, TypeOK
  <2>5. \A q \in Session : q # r => (Held(q)' <=> Held(q)) /\ record'[q].key = record[q].key
    BY <1>2 DEF Held
  <2> QED
    BY <1>1, <2>2, <2>3, <2>4, <2>5 DEF IInv, Leased, LeasesHaveHolders, Held
<1>9. WritersAreLeased'
  <2>1. \A x \in Session : (Writes(x)' <=> Writes(x)) /\ (Refused(x)' <=> Refused(x))
    BY <1>1 DEF Writes, Refused
  <2>2. \A x \in Session : Stray(x) => Stray(x)'
    <3>1. \A q \in Session : record'[q].session = record[q].session
                             /\ (record'[q].present <=> record[q].present)
      BY <1>2
    <3> QED
      BY <1>1, <3>1 DEF Stray
  <2>3. ASSUME NEW x \in Session, Writes(x)', ~Stray(x)', ~Refused(x)'
        PROVE  \E q \in Session :
                  /\ record'[q].session = x /\ record'[q].key = native'[x].id
                  /\ writers'[native'[x].id] = q
                  /\ record'[q].present \/ record'[q].closing = x
    <3>1. PICK q \in Session :
             /\ record[q].session = x /\ record[q].key = native[x].id
             /\ writers[native[x].id] = q /\ (record[q].present \/ record[q].closing = x)
      BY <2>1, <2>2, <2>3 DEF IInv, Leased, WritersAreLeased
    <3>2. q # r
      BY <1>1, <1>3, <2>1, <2>3, <3>1 DEF Writes
    <3>3. native[x].id \in Native
      BY <2>1, <2>3 DEF Writes, IInv, Structure, TypeOK, Phases
    <3> QED
      BY <1>1, <1>2, <3>1, <3>2, <3>3
  <2> QED
    BY <2>3 DEF WritersAreLeased
<1> QED
  BY <1>4, <1>5, <1>6, <1>7, <1>8, <1>9 DEF IInv, Structure, Leased

\* A created Session tells its identity, which nobody has seen: its record leases
\* it and gives up the provisional lease.
LEMMA AnnounceKeeps ==
    ASSUME IInv, NEW r \in Session, NEW n \in Native, Announce(r, n), TypeOK'
    PROVE  IInv'
<1> USE NoneIsNone
<1>1. PICK s \in Session : s = record[r].session
  BY DEF Announce, Emits, IInv, Structure, TypeOK, Records, RecordsHaveSessions
<1>2. /\ record[r].present /\ native[s].phase = "open" /\ record[r].key = None /\ n \notin history
      /\ UNCHANGED task /\ provisional' = Unprovisioned(r) /\ history' = history \cup {n}
  BY <1>1 DEF Announce, Emits
<1>3. /\ record'[r].key = n /\ record'[r].session = s /\ record'[r].conn = record[r].conn
      /\ record'[r].present /\ record'[r].closing = record[r].closing
      /\ \A q \in Session : q # r => record'[q] = record[q]
  BY <1>1, <1>2 DEF Announce, IInv, Structure, TypeOK, Records
<1>4. /\ native'[s].phase = "open" /\ native'[s].id = n
      /\ \A x \in Session : x # s => native'[x] = native[x]
  BY <1>1 DEF Announce, IInv, Structure, TypeOK, Phase
<1>5. \A m \in Native : writers'[m] = IF m = n THEN r ELSE writers[m]
  BY DEF Announce, IInv, Structure, TypeOK
<1>6. \A q \in Session : q # r => record[q].session # s
  BY <1>1 DEF IInv, Structure, RecordsHaveSessions
<1>7. \A q \in Session : record[q].key # n
  BY <1>2 DEF IInv, Structure, RecordsHaveSessions
<1>8. record[r] # NoRecord
  BY <1>2, NoRecordFields
<1>9. OpensAreFresh'
  BY <1>2, <1>3, <1>4, <1>8 DEF IInv, Structure, OpensAreFresh, Opens
<1>10. RecordsHaveSessions'
  <2>1. \A q \in Session : record'[q].session = record[q].session
    BY <1>1, <1>3
  <2>2. \A q \in Session : record[q].session # None => record[q].session \in Session
    BY DEF IInv, Structure, TypeOK, Records
  <2>3. \A q \in Session :
           /\ record'[q].present => record'[q].session # None /\ record'[q].closing = None
           /\ record'[q].key # None => record'[q].key \in history'
    BY <1>1, <1>2, <1>3 DEF IInv, Structure, RecordsHaveSessions
  <2>4. \A x \in Session : native[x].phase \in {"open", "closing", "closed"} =>
           native'[x].phase \in {"open", "closing", "closed"}
    BY <1>4
  <2> QED
    BY <2>1, <2>2, <2>3, <2>4 DEF IInv, Structure, RecordsHaveSessions
<1>11. ReopensAreAlone'
  <2>1. \A k \in Conn : Reopens(k) => task[k].rec # r
    BY <1>2 DEF IInv, Structure, ReopensAreAlone
  <2>2. \A x \in Session : native[x].phase = "closed" => native'[x].phase = "closed"
    BY <1>2, <1>4
  <2>3. \A q \in Session : record[q].session # None => record[q].session \in Session
    BY DEF IInv, Structure, TypeOK, Records
  <2> QED
    BY <1>2, <1>3, <2>1, <2>2, <2>3 DEF IInv, Structure, ReopensAreAlone, Reopens
<1>12. HoldersHaveLeases'
  <2>1. \A q \in Session : q # r /\ Held(q)' => Held(q) /\ record'[q] = record[q]
    BY <1>3 DEF Held
  <2>2. \A q \in Session : Held(q)' /\ record'[q].key # None => writers'[record'[q].key] = q
    <3>1. \A q \in Session : q # r /\ Held(q) /\ record[q].key # None =>
             record[q].key \in Native \ {n} /\ writers[record[q].key] = q
      BY <1>7 DEF IInv, Structure, Leased, TypeOK, Records, HoldersHaveLeases
    <3> QED
      BY <1>3, <1>5, <2>1, <3>1
  <2>3. \A k \in Conn : task[k].pc = "opening" => task[k].session # r
    BY <1>8, OpenInFlight DEF Opens
  <2>4. \A q \in Session : Unknown(q)' => Unknown(q) /\ q # r
    <3>1. \A q \in Session : q # r => record[q].session # s
      BY <1>6
    <3>2. \A q \in Session : record[q].present => record[q].session \in Session
      BY DEF IInv, Structure, TypeOK, Records, RecordsHaveSessions
    <3> QED
      BY <1>3, <1>4, <3>1, <3>2 DEF Unknown, Emits
  <2>5. \A k \in Conn : task[k].pc = "opening" /\ task[k].mode = "create" => provisional' = task[k].session
    BY <1>2, <2>3 DEF IInv, Leased, HoldersHaveLeases, Unprovisioned
  <2>6. \A q \in Session : Unknown(q)' => provisional' = q
    BY <1>2, <2>4 DEF IInv, Leased, HoldersHaveLeases, Unprovisioned
  <2> QED
    BY <1>2, <2>2, <2>5, <2>6 DEF HoldersHaveLeases
<1>13. LeasesHaveHolders'
  <2>1. \A m \in Native : m # n /\ writers[m] # None => writers[m] # r
    <3>1. \A k \in Conn : task[k].pc = "opening" => task[k].session # r
      BY <1>8, OpenInFlight DEF Opens
    <3> QED
      BY <1>2, <3>1 DEF IInv, Leased, LeasesHaveHolders
  <2>2. provisional \in Session \cup {None} /\ \A m \in Native : writers[m] \in Session \cup {None}
    BY DEF IInv, Structure, TypeOK
  <2>3. provisional' # None => provisional' = provisional /\ provisional # r
    BY <1>2 DEF Unprovisioned
  <2>4. \A q \in Session : q # r => (Held(q)' <=> Held(q)) /\ record'[q].key = record[q].key
    BY <1>3 DEF Held
  <2>5. Held(r)'
    BY <1>3 DEF Held
  <2>6. ASSUME NEW m \in Native, writers'[m] # None
        PROVE  \/ (record'[writers'[m]].present \/ record'[writers'[m]].closing # None)
                  /\ record'[writers'[m]].key = m
               \/ \E k \in Conn : /\ task'[k].pc = "opening" /\ task'[k].mode = "resume"
                                   /\ task'[k].session = writers'[m] /\ task'[k].ref = m
    <3>1. CASE m = n
      BY <1>3, <1>5, <3>1
    <3>2. CASE m # n
      BY <1>2, <1>3, <1>5, <2>1, <2>2, <2>6, <3>2 DEF IInv, Leased, LeasesHaveHolders, Held
    <3> QED
      BY <3>1, <3>2
  <2>7. provisional' # None =>
           \/ (record'[provisional].present \/ record'[provisional].closing # None)
              /\ record'[provisional].key = None
           \/ \E k \in Conn : /\ task'[k].pc = "opening" /\ task'[k].mode = "create"
                               /\ task'[k].session = provisional
    BY <1>2, <1>3, <2>2, <2>3 DEF IInv, Leased, LeasesHaveHolders, Held
  <2> QED
    BY <2>3, <2>6, <2>7 DEF LeasesHaveHolders, Held
<1>14. WritersAreLeased'
  <2>1. \A x \in Session : x # s /\ Writes(x)' => Writes(x) /\ native'[x] = native[x]
    BY <1>4 DEF Writes
  <2>2. \A x \in Session : x # s /\ Stray(x) => Stray(x)'
    BY <1>2, <1>3, <1>4 DEF Stray
  <2>3. \A x \in Session : Refused(x) => Refused(x)'
    BY <1>2 DEF Refused
  <2>4. ASSUME NEW x \in Session, Writes(x)', ~Stray(x)', ~Refused(x)'
        PROVE  \E q \in Session :
                  /\ record'[q].session = x /\ record'[q].key = native'[x].id
                  /\ writers'[native'[x].id] = q
                  /\ record'[q].present \/ record'[q].closing = x
    <3>1. CASE x = s
      BY <1>3, <1>4, <1>5, <3>1
    <3>2. CASE x # s
      <4>1. PICK q \in Session :
               /\ record[q].session = x /\ record[q].key = native[x].id
               /\ writers[native[x].id] = q /\ (record[q].present \/ record[q].closing = x)
        BY <2>1, <2>2, <2>3, <2>4, <3>2 DEF IInv, Leased, WritersAreLeased
      <4>2. q # r /\ native[x].id # n
        BY <1>1, <1>7, <3>2, <4>1
      <4>3. native[x].id \in Native
        BY <2>1, <2>4, <3>2 DEF Writes, IInv, Structure, TypeOK, Phases
      <4> QED
        BY <1>3, <1>5, <2>1, <2>4, <3>2, <4>1, <4>2, <4>3
    <3> QED
      BY <3>1, <3>2
  <2> QED
    BY <2>4 DEF WritersAreLeased
<1> QED
  BY <1>9, <1>10, <1>11, <1>12, <1>13, <1>14 DEF IInv, Structure, Leased

\* Requests that begin, wait or are over.
LEMMA RequestsKeep ==
    ASSUME IInv, NEW k \in Conn, TypeOK',
           \/ OpenWaited(k) \/ Rejected(k) \/ Closed(k)
           \/ \E mode \in {"create", "resume", "fork"}, ref \in history \cup {None} :
                 HandleOpen(k, mode, ref)
    PROVE  IInv'
<1>a. TypeOK
  BY DEF IInv, Structure
<1>1. CASE OpenWaited(k)
  <2>1. task[k].pc = "waiting" /\ UNCHANGED <<record, history>>
    BY <1>1 DEF OpenWaited
  <2>2. CASE Idle(k) /\ UNCHANGED <<writers, provisional, creating, native>>
    BY <1>a, <2>1, <2>2, IdleTask, RequestEnds DEF Opens
  <2>3. CASE OpenStart(k, task[k].mode, task[k].ref)
    <3>1. task[k].mode = "resume" => task[k].ref \in Native
      BY <2>1 DEF IInv, Structure, OpensAreFresh
    <3> QED
      BY <2>1, <2>3, <3>1, OpenStarts
  <2> QED
    BY <1>1, <2>2, <2>3 DEF OpenWaited
<1>2. CASE Rejected(k) \/ Closed(k)
  <2>1. /\ Idle(k) /\ ~Opens(k)
        /\ task[k].pc = "rejecting" => native[task[k].session].phase = "closed"
        /\ UNCHANGED <<record, writers, provisional, native, history>>
    BY <1>2 DEF Rejected, Closed, Opens
  <2> QED
    BY <1>a, <2>1, IdleTask, RequestEnds
<1>3. ASSUME NEW mode \in {"create", "resume", "fork"}, NEW ref \in history \cup {None},
             HandleOpen(k, mode, ref)
      PROVE  IInv'
  <2>1. task[k].pc = "idle" /\ UNCHANGED <<record, history>>
    BY <1>3 DEF HandleOpen, Ready
  <2>2. mode = "resume" => ref \in Native
    BY <1>a, <1>3 DEF HandleOpen, TypeOK
  <2>3. CASE /\ task' = [task EXCEPT ![k] = Task("waiting", mode, ref, None, None)]
             /\ UNCHANGED <<writers, provisional, creating, native>>
    <3>1. /\ task'[k].pc = "waiting" /\ task'[k].mode = mode /\ task'[k].ref = ref
          /\ \A j \in Conn : j # k => task'[j] = task[j]
      BY <1>a, <2>3 DEF TypeOK, Task
    <3>2. UNCHANGED <<record, writers, provisional, native, history>>
      BY <2>1, <2>3
    <3> QED
      BY <2>1, <2>2, <3>1, <3>2, RequestEnds DEF Opens
  <2>4. CASE OpenStart(k, mode, ref)
    BY <2>1, <2>2, <2>4, OpenStarts
  <2> QED
    BY <1>3, <2>3, <2>4 DEF HandleOpen
<1> QED
  BY <1>1, <1>2, <1>3

-----------------------------------------------------------------------------
\* At first no connection, Session or record exists.
LEMMA InitHolds == Init => IInv
<1> SUFFICES ASSUME Init PROVE IInv
  OBVIOUS
<1> USE NoneIsNone, NoRecordFields
<1>1. TypeOK
  <2>1. NoTask \in Tasks
    BY DEF NoTask, Task, Tasks
  <2>2. NoRecord \in Records
    BY DEF NoRecord, Record, Records
  <2>3. Phase("none", None) \in Phases
    BY DEF Phase, Phases
  <2> QED
    BY <2>1, <2>2, <2>3, BrokerAssumption DEF Init, TypeOK
<1>2. /\ \A k \in Conn : task[k].pc = "idle"
      /\ \A r \in Session : record[r] = NoRecord
      /\ \A s \in Session : native[s].phase = "none"
      /\ \A n \in Native : writers[n] = None
      /\ provisional = None
  BY DEF Init, NoTask, Task, Phase
<1>3. OpensAreFresh /\ RecordsHaveSessions /\ ReopensAreAlone
  BY <1>2 DEF OpensAreFresh, RecordsHaveSessions, ReopensAreAlone, Opens, Reopens
<1>4. HoldersHaveLeases /\ LeasesHaveHolders /\ WritersAreLeased
  BY <1>2 DEF HoldersHaveLeases, LeasesHaveHolders, WritersAreLeased, Held, Unknown, Emits, Writes
<1> QED
  BY <1>1, <1>3, <1>4 DEF IInv, Structure, Leased

\* Every step keeps the invariant.
LEMMA NextKeeps == IInv /\ [Next]_vars => IInv'
<1> SUFFICES ASSUME IInv, [Next]_vars PROVE IInv'
  OBVIOUS
<1>t. TypeOK'
  BY TypeKeeps DEF IInv, Structure
<1>1. CASE UNCHANGED vars
  BY <1>t, <1>1, FrameKeeps DEF vars
<1>2. ASSUME NEW k \in Conn, Connect(k) PROVE IInv'
  BY <1>t, <1>2, FrameKeeps DEF Connect
<1>3. ASSUME NEW k \in Conn, SocketClosed(k) PROVE IInv'
  BY <1>t, <1>3, EndingsKeep
<1>4. ASSUME NEW k \in Conn, Works(k) PROVE IInv'
  <2>1. CASE OpenWaited(k) \/ Rejected(k) \/ Closed(k)
    BY <1>t, <2>1, RequestsKeep
  <2>2. CASE OpenFails(k) \/ ReopenFails(k)
    BY <1>t, <2>2, OpenFailsKeeps
  <2>3. CASE ReopenOpen(k)
    BY <1>t, <2>3, ReopenOpenKeeps
  <2>4. ASSUME NEW id \in Native \cup {None}, NEW mismatch \in BOOLEAN, OpenDone(k, id, mismatch)
        PROVE  IInv'
    BY <1>t, <2>4, OpenDoneKeeps
  <2>5. ASSUME NEW refused \in BOOLEAN, ReopenDone(k, refused) PROVE IInv'
    BY <1>t, <2>5, ReopenDoneKeeps
  <2> QED
    BY <1>4, <2>1, <2>2, <2>3, <2>4, <2>5 DEF Works
<1>5. ASSUME NEW k \in Conn, NEW mode \in {"create", "resume", "fork"},
             NEW ref \in history \cup {None}, HandleOpen(k, mode, ref)
      PROVE  IInv'
  BY <1>t, <1>5, RequestsKeep
<1>6. ASSUME NEW k \in Conn, NEW r \in Session, HandleSession(k, r) PROVE IInv'
  BY <1>t, <1>6, EndingsKeep
<1>7. ASSUME NEW r \in Session, FinishClose(r) PROVE IInv'
  BY <1>t, <1>7, FinishCloseKeeps
<1>8. ASSUME NEW s \in Session, NativeCloses(s) PROVE IInv'
  BY <1>t, <1>8, EndingsKeep
<1>9. ASSUME NEW r \in Session, NEW fatal \in BOOLEAN, FaultOutput(r, fatal) PROVE IInv'
  BY <1>t, <1>9, EndingsKeep
<1>10. ASSUME NEW r \in Session, NEW n \in Native, Announce(r, n) PROVE IInv'
  BY <1>t, <1>10, AnnounceKeeps
<1>11. CASE Retire
  BY <1>t, <1>11, FrameKeeps DEF Retire
<1> QED
  BY <1>1, <1>2, <1>3, <1>4, <1>5, <1>6, <1>7, <1>8, <1>9, <1>10, <1>11 DEF Next

\* No two Sessions the broker opened for its clients write the same native Session.
THEOREM LeasedWriterIsAlone == Spec => []OneLeasedWriter
<1>1. IInv => OneLeasedWriter
  <2> SUFFICES ASSUME IInv, NEW s \in Session, NEW t \in Session, SameNative(s, t),
                      ~Stray(s), ~Refused(s), ~Stray(t), ~Refused(t)
               PROVE  s = t
    BY DEF OneLeasedWriter
  <2>1. PICK r \in Session : record[r].session = s /\ writers[native[s].id] = r
    BY DEF SameNative, IInv, Leased, WritersAreLeased
  <2>2. PICK q \in Session : record[q].session = t /\ writers[native[t].id] = q
    BY DEF SameNative, IInv, Leased, WritersAreLeased
  <2> QED
    BY <2>1, <2>2 DEF SameNative
<1> QED
  BY <1>1, InitHolds, NextKeeps, PTL DEF Spec

\* No lease is left behind: each has a Session kept, a close under way or an open
\* in flight (releaseOpenReservations, closeRecord).
THEOREM LeasesAreHeld == Spec => []LeasesHaveHolders
<1>1. IInv => LeasesHaveHolders
  BY DEF IInv, Leased
<1> QED
  BY <1>1, InitHolds, NextKeeps, PTL DEF Spec

\* While one Session has not told its identity no second such Session runs.
THEOREM UnknownIsAlone == Spec => []OneUnknown
<1>1. IInv => OneUnknown
  BY DEF IInv, Leased, HoldersHaveLeases, OneUnknown
<1> QED
  BY <1>1, InitHolds, NextKeeps, PTL DEF Spec

\* A broker that retires keeps no record.
ServesNone == retiring => \A r \in Session : ~record[r].present

\* A native Session that is open belongs to a record, in the map or not, and one that
\* is being opened to a request in flight.
NativesHaveUsers ==
    /\ \A s \in Session : native[s].phase = "open" => \E r \in Session : record[r].session = s
    /\ \A s \in Session : native[s].phase = "opening" =>
          \E k \in Conn : Opens(k) /\ task[k].session = s

RInv == RetiredIsIdle /\ ServesNone

\* A step that changes no open Session's record and no open in flight.
LEMMA NativesFrame ==
    ASSUME TypeOK, NativesHaveUsers,
           \A s \in Session : native'[s].phase = "open" => native[s].phase = "open",
           \A s \in Session : native'[s].phase = "opening" => native[s].phase = "opening",
           \A r \in Session : record'[r].session = record[r].session,
           \A k \in Conn : Opens(k) => task'[k] = task[k]
    PROVE  NativesHaveUsers'
BY DEF NativesHaveUsers, Opens

\* A request that ends leaves the open of every other request in flight.
LEMMA OthersOpen ==
    ASSUME IInv, NativesHaveUsers, NEW k \in Conn,
           \A j \in Conn : j # k => task'[j] = task[j],
           \A s \in Session : native'[s].phase = "opening" =>
               \/ native[s].phase = "opening" /\ ~(Opens(k) /\ task[k].session = s)
               \/ task'[k].pc \in {"opening", "reopening"} /\ task'[k].session = s
    PROVE  \A s \in Session : native'[s].phase = "opening" =>
               \E j \in Conn : task'[j].pc \in {"opening", "reopening"} /\ task'[j].session = s
BY DEF NativesHaveUsers, Opens

\* An open starts for its request.
LEMMA StartIsUsed ==
    ASSUME IInv, NativesHaveUsers, NEW k \in Conn, NEW mode, NEW ref, ~Opens(k),
           OpenStart(k, mode, ref), record' = record
    PROVE  NativesHaveUsers'
<1>a. TypeOK
  BY DEF IInv, Structure
<1>1. CASE Idle(k) /\ native' = native
  <2>1. \A j \in Conn : j # k => task'[j] = task[j]
    BY <1>a, <1>1, IdleTask
  <2> QED
    BY <1>a, <1>1, <2>1, NativesFrame
<1>2. CASE ~(Idle(k) /\ native' = native)
  <2>1. PICK s \in Session :
           /\ native' = [native EXCEPT ![s] = Phase("opening", None)]
           /\ task' = [task EXCEPT ![k] = Task("opening", mode, ref, None, s)]
    BY <1>2, NextIsUnused DEF OpenStart, Unused
  <2>2. task'[k].pc = "opening" /\ task'[k].session = s /\ \A j \in Conn : j # k => task'[j] = task[j]
    BY <1>a, <2>1 DEF TypeOK, Task
  <2>3. native'[s].phase = "opening" /\ \A t \in Session : t # s => native'[t] = native[t]
    BY <1>a, <2>1 DEF TypeOK, Phase
  <2>4. \A t \in Session : native'[t].phase = "opening" =>
            \E j \in Conn : task'[j].pc \in {"opening", "reopening"} /\ task'[j].session = t
    BY <2>2, <2>3, OthersOpen
  <2>5. \A t \in Session : native'[t].phase = "open" => \E r \in Session : record'[r].session = t
    BY <2>3 DEF NativesHaveUsers
  <2> QED
    BY <2>4, <2>5 DEF NativesHaveUsers, Opens
<1> QED
  BY <1>1, <1>2

\* What the request of a connection does keeps every native Session in use.
LEMMA WorksAreUsed ==
    ASSUME IInv, NativesHaveUsers, NEW k \in Conn, Works(k)
    PROVE  NativesHaveUsers'
<1>a. TypeOK
  BY DEF IInv, Structure
<1>c. \A j \in Conn : j # k => task'[j] = task[j]
  BY <1>a, IdleTask DEF Works, OpenWaited, OpenStart, OpenFails, Rejected, Closed, ReopenOpen,
              ReopenFails, OpenDone, ReopenDone, TypeOK
<1>1. CASE OpenWaited(k)
  <2>1. task[k].pc = "waiting" /\ record' = record
    BY <1>1 DEF OpenWaited
  <2>2. CASE native' = native
    BY <1>a, <1>c, <2>1, <2>2, NativesFrame DEF Opens
  <2>3. CASE OpenStart(k, task[k].mode, task[k].ref)
    BY <2>1, <2>3, StartIsUsed DEF Opens
  <2> QED
    BY <1>1, <2>2, <2>3 DEF OpenWaited
<1>2. CASE Rejected(k) \/ Closed(k)
  BY <1>a, <1>c, <1>2, NativesFrame DEF Rejected, Closed, Opens
<1>3. CASE OpenFails(k) \/ ReopenFails(k)
  <2>1. /\ Opens(k) /\ record' = record
        /\ native' = [native EXCEPT ![task[k].session] = Phase("closed", None)]
    BY <1>3 DEF OpenFails, ReopenFails, Opens
  <2>2. task[k].session \in Session
    BY <2>1 DEF IInv, Structure, OpensAreFresh
  <2>3. \A t \in Session : native'[t] = native[t] \/ (t = task[k].session /\ native'[t].phase = "closed")
    BY <1>a, <2>1, <2>2 DEF TypeOK, Phase
  <2>4. \A t \in Session : native'[t].phase = "opening" =>
            \E j \in Conn : task'[j].pc \in {"opening", "reopening"} /\ task'[j].session = t
    <3>1. \A t \in Session : native'[t].phase = "opening" =>
              native[t].phase = "opening" /\ t # task[k].session
      BY <1>a, <2>1, <2>2 DEF TypeOK, Phase
    <3> QED
      BY <1>c, <3>1, OthersOpen
  <2>5. \A t \in Session : native'[t].phase = "open" => \E r \in Session : record'[r].session = t
    BY <2>1, <2>3 DEF NativesHaveUsers
  <2> QED
    BY <2>4, <2>5 DEF NativesHaveUsers, Opens
<1>4. ASSUME NEW id \in Native \cup {None}, NEW mismatch \in BOOLEAN, OpenDone(k, id, mismatch)
      PROVE  NativesHaveUsers'
  <2> DEFINE s == task[k].session
  <2>1. Opens(k) /\ s \in Session /\ native[s].phase = "opening"
    BY <1>4 DEF OpenDone, Opens, IInv, Structure, OpensAreFresh
  <2>2. record[s].session = None
    BY <2>1, NoRecordFields DEF IInv, Structure, OpensAreFresh
  <2>3. PICK p \in {"open", "closing"} :
           /\ native' = [native EXCEPT ![s] = Phase(p, id)]
           /\ p = "open" => record' = [record EXCEPT ![s] = Record(k, id, s)]
           /\ p = "closing" => record' = record
    BY <1>4 DEF OpenDone
  <2>4. native'[s].phase = p /\ \A t \in Session : t # s => native'[t] = native[t]
    BY <1>a, <2>1, <2>3 DEF TypeOK, Phase
  <2>5. /\ p = "open" => record'[s].session = s
        /\ \A r \in Session : record[r].session # None => record'[r].session = record[r].session
    BY <1>a, <2>1, <2>2, <2>3 DEF TypeOK, Record
  <2>6. \A t \in Session : native'[t].phase = "opening" =>
            \E j \in Conn : task'[j].pc \in {"opening", "reopening"} /\ task'[j].session = t
    <3>1. \A t \in Session : native'[t].phase = "opening" =>
              native[t].phase = "opening" /\ t # task[k].session
      BY <2>4
    <3> QED
      BY <1>c, <3>1, OthersOpen
  <2>7. \A t \in Session : native'[t].phase = "open" => \E r \in Session : record'[r].session = t
    BY <2>1, <2>4, <2>5, NoneIsNone DEF NativesHaveUsers
  <2> QED
    BY <2>6, <2>7 DEF NativesHaveUsers, Opens
<1>5. CASE ReopenOpen(k)
  <2>1. task[k].pc = "replacing" /\ record' = record
    BY <1>5 DEF ReopenOpen
  <2>2. CASE native' = native
    BY <1>a, <1>c, <2>1, <2>2, NativesFrame DEF Opens
  <2>3. CASE native' # native
    <3>1. PICK s \in Session :
             /\ native' = [native EXCEPT ![s] = Phase("opening", None)]
             /\ task' = [task EXCEPT ![k] = Task("reopening", None, None, task[k].rec, s)]
      BY <1>5, <2>3, NextIsUnused DEF ReopenOpen, Unused
    <3>2. task'[k].pc = "reopening" /\ task'[k].session = s
      BY <1>a, <3>1 DEF TypeOK, Task
    <3>3. native'[s].phase = "opening" /\ \A t \in Session : t # s => native'[t] = native[t]
      BY <1>a, <3>1 DEF TypeOK, Phase
    <3>4. \A t \in Session : native'[t].phase = "opening" =>
              \E j \in Conn : task'[j].pc \in {"opening", "reopening"} /\ task'[j].session = t
      BY <1>c, <2>1, <3>2, <3>3, OthersOpen DEF Opens
    <3>5. \A t \in Session : native'[t].phase = "open" => \E r \in Session : record'[r].session = t
      BY <2>1, <3>3 DEF NativesHaveUsers
    <3> QED
      BY <3>4, <3>5 DEF NativesHaveUsers, Opens
  <2> QED
    BY <2>2, <2>3
<1>6. ASSUME NEW refused \in BOOLEAN, ReopenDone(k, refused) PROVE NativesHaveUsers'
  <2> DEFINE s == task[k].session
             r == task[k].rec
  <2>1. task[k].pc = "reopening" /\ Opens(k) /\ s \in Session /\ native[s].phase = "opening"
    BY <1>6 DEF ReopenDone, Opens, IInv, Structure, OpensAreFresh
  <2>2. r \in Session /\ native[record[r].session].phase = "closed" /\ record[r].session # None
    BY <2>1 DEF IInv, Structure, ReopensAreAlone, Reopens
  <2>3. PICK p \in {"open", "closing"} :
           /\ native' = [native EXCEPT ![s] = Phase(p, record[r].key)]
           /\ p = "open" => record' = [record EXCEPT ![r].session = s, ![r].faulted = FALSE]
           /\ p = "closing" => record' = record
    BY <1>6 DEF ReopenDone
  <2>4. native'[s].phase = p /\ \A t \in Session : t # s => native'[t] = native[t]
    BY <1>a, <2>1, <2>3 DEF TypeOK, Phase
  <2>5. /\ p = "open" => record'[r].session = s
        /\ \A q \in Session : q # r => record'[q].session = record[q].session
        /\ p = "closing" => record' = record
    BY <1>a, <2>2, <2>3 DEF TypeOK, Records
  <2>6. \A t \in Session : native'[t].phase = "opening" =>
            \E j \in Conn : task'[j].pc \in {"opening", "reopening"} /\ task'[j].session = t
    <3>1. \A t \in Session : native'[t].phase = "opening" =>
              native[t].phase = "opening" /\ t # task[k].session
      BY <2>4
    <3> QED
      BY <1>c, <3>1, OthersOpen
  <2>7. ASSUME NEW t \in Session, native'[t].phase = "open"
        PROVE  \E q \in Session : record'[q].session = t
    <3>1. CASE t = s
      BY <2>2, <2>4, <2>5, <2>7, <3>1
    <3>2. CASE t # s
      <4>1. PICK q \in Session : record[q].session = t
        BY <2>4, <2>7, <3>2 DEF NativesHaveUsers
      <4>2. p = "open" => q # r
        BY <2>2, <2>4, <2>7, <3>2, <4>1
      <4> QED
        BY <2>3, <2>5, <4>1, <4>2
    <3> QED
      BY <3>1, <3>2
  <2> QED
    BY <2>6, <2>7 DEF NativesHaveUsers, Opens
<1> QED
  BY <1>1, <1>2, <1>3, <1>4, <1>5, <1>6 DEF Works

\* No step leaves a native Session open or being opened that nobody uses.
LEMMA UsersKeep == IInv /\ NativesHaveUsers /\ [Next]_vars => NativesHaveUsers'
<1> SUFFICES ASSUME IInv, NativesHaveUsers, [Next]_vars PROVE NativesHaveUsers'
  OBVIOUS
<1>a. TypeOK
  BY DEF IInv, Structure
<1>b. \A s \in Session : Closing(s).phase # "opening" \/ native[s].phase = "opening"
  BY DEF Closing, Phase
<1>c. \A s \in Session : Closing(s).phase # "open"
  BY DEF Closing, Phase
<1>1. CASE UNCHANGED vars
  BY <1>a, <1>1, NativesFrame DEF vars
<1>2. ASSUME NEW k \in Conn, Connect(k) PROVE NativesHaveUsers'
  BY <1>a, <1>2, NativesFrame DEF Connect
<1>3. ASSUME NEW k \in Conn, SocketClosed(k) PROVE NativesHaveUsers'
  <2>1. \A s \in Session : native'[s] = native[s] \/ native'[s] = Closing(s)
    BY <1>3 DEF SocketClosed
  <2>2. \A r \in Session : record'[r].session = record[r].session
    BY <1>a, <1>3, DroppedRecord DEF SocketClosed
  <2>3. task' = task
    BY <1>3 DEF SocketClosed
  <2> QED
    BY <1>a, <1>b, <1>c, <2>1, <2>2, <2>3, NativesFrame
<1>4. ASSUME NEW k \in Conn, Works(k) PROVE NativesHaveUsers'
  BY <1>4, WorksAreUsed
<1>5. ASSUME NEW k \in Conn, NEW mode \in {"create", "resume", "fork"},
             NEW ref \in history \cup {None}, HandleOpen(k, mode, ref)
      PROVE  NativesHaveUsers'
  <2>1. ~Opens(k) /\ record' = record
    BY <1>5 DEF HandleOpen, Ready, Opens
  <2>2. CASE OpenStart(k, mode, ref)
    BY <2>1, <2>2, StartIsUsed
  <2>3. CASE ~OpenStart(k, mode, ref)
    <3>1. native' = native /\ \A j \in Conn : j # k => task'[j] = task[j]
      BY <1>5, <1>a, <2>3 DEF HandleOpen, TypeOK
    <3> QED
      BY <1>a, <2>1, <3>1, NativesFrame
  <2> QED
    BY <2>2, <2>3
<1>6. ASSUME NEW k \in Conn, NEW r \in Session, HandleSession(k, r) PROVE NativesHaveUsers'
  <2>1. ~Opens(k) /\ \A j \in Conn : j # k => task'[j] = task[j]
    BY <1>6, <1>a DEF HandleSession, CloseReq, ReopenReq, TypeOK, Ready, Opens
  <2>2. record[r].session \in Session /\ native' = [native EXCEPT ![record[r].session] = Closing(record[r].session)]
    <3>1. record[r].present
      BY <1>6 DEF HandleSession
    <3>2. record[r].session \in Session \cup {None}
      BY <1>a DEF TypeOK, Records
    <3>3. record[r].session # None
      BY <3>1 DEF IInv, Structure, RecordsHaveSessions
    <3> QED
      BY <1>6, <3>2, <3>3 DEF HandleSession, CloseReq, ReopenReq
  <2>3. \A s \in Session : native'[s] = native[s] \/ native'[s] = Closing(s)
    BY <1>a, <2>2 DEF TypeOK
  <2>4. \A q \in Session : record'[q].session = record[q].session
    BY <1>6, <1>a, DroppedRecord DEF HandleSession, CloseReq, ReopenReq, TypeOK
  <2> QED
    BY <1>a, <1>b, <1>c, <2>1, <2>3, <2>4, NativesFrame
<1>7. ASSUME NEW r \in Session, NEW f,
             \/ FinishClose(r) \/ NativeCloses(r)
             \/ f \in BOOLEAN /\ FaultOutput(r, f)
             \/ f \in Native /\ Announce(r, f)
      PROVE  NativesHaveUsers'
  <2>1. task' = task
    BY <1>7 DEF FinishClose, NativeCloses, FaultOutput, Announce
  <2>2. \A q \in Session : record'[q].session = record[q].session
    BY <1>7, <1>a DEF FinishClose, NativeCloses, FaultOutput, Announce, TypeOK, Records
  <2>3. \A s \in Session : /\ native'[s].phase = "open" => native[s].phase = "open"
                           /\ native'[s].phase = "opening" => native[s].phase = "opening"
    <3>1. CASE FinishClose(r)
      BY <3>1 DEF FinishClose
    <3>2. CASE NativeCloses(r)
      BY <1>a, <3>2 DEF NativeCloses, TypeOK, Phase
    <3>3. CASE f \in BOOLEAN /\ FaultOutput(r, f)
      <4>1. \A s \in Session : native'[s] = native[s] \/ native'[s] = Closing(s)
        BY <1>a, <3>3 DEF FaultOutput, TypeOK
      <4> QED
        BY <1>b, <1>c, <4>1
    <3>4. CASE f \in Native /\ Announce(r, f)
      BY <1>a, <3>4 DEF Announce, Emits, TypeOK, Phase
    <3> QED
      BY <1>7, <3>1, <3>2, <3>3, <3>4
  <2> QED
    BY <1>a, <2>1, <2>2, <2>3, NativesFrame
<1>8. CASE Retire
  BY <1>a, <1>8, NativesFrame DEF Retire
<1> QED
  BY <1>1, <1>2, <1>3, <1>4, <1>5, <1>6, <1>7, <1>8 DEF Next

\* Work goes on, and begins only for connections of a broker that does not retire.
LEMMA RetiringFrame ==
    ASSUME RInv, retiring' = retiring,
           \A k \in Conn : /\ conn'[k] = "none" => conn[k] = "none"
                           /\ retiring /\ conn'[k] = "open" => conn[k] = "open",
           \A k \in Conn : \/ task'[k].pc = "idle" \/ task[k].pc # "idle"
                           \/ conn[k] = "open" /\ ~retiring,
           \A r \in Session : record'[r].present => record[r].present \/ ~retiring
    PROVE  RInv'
BY DEF RInv, RetiredIsIdle, ServesNone

\* A broker that retired stays empty, whatever happens afterwards.
LEMMA RetiredKeeps == IInv /\ RInv /\ [Next]_vars => RInv'
<1> SUFFICES ASSUME IInv, RInv, [Next]_vars PROVE RInv'
  OBVIOUS
<1>a. TypeOK
  BY DEF IInv, Structure
<1>b. \A k \in Conn : Idle(k) => \A j \in Conn : task'[j].pc = "idle" \/ task'[j] = task[j]
  BY <1>a, IdleTask
<1>1. CASE UNCHANGED vars
  BY <1>1, RetiringFrame DEF vars
<1>2. ASSUME NEW k \in Conn, Connect(k) PROVE RInv'
  BY <1>a, <1>2, RetiringFrame DEF Connect, TypeOK
<1>3. ASSUME NEW k \in Conn, SocketClosed(k) PROVE RInv'
  <2>1. \A r \in Session : record'[r].present => record[r].present
    BY <1>a, <1>3, DroppedRecord DEF SocketClosed
  <2> QED
    BY <1>a, <1>3, <2>1, RetiringFrame DEF SocketClosed, TypeOK
<1>4. ASSUME NEW k \in Conn, Works(k) PROVE RInv'
  <2>1. task[k].pc # "idle" /\ UNCHANGED <<conn, retiring>>
    BY <1>4 DEF Works, OpenWaited, OpenFails, Rejected, Closed, ReopenOpen, ReopenFails, OpenDone,
                ReopenDone
  <2>2. \A j \in Conn : j # k => task'[j] = task[j]
    BY <1>4, <1>a, IdleTask DEF Works, OpenWaited, OpenStart, OpenFails, Rejected, Closed, ReopenOpen,
                ReopenFails, OpenDone, ReopenDone, TypeOK
  <2>3. \A r \in Session : record'[r].present => record[r].present \/ ~retiring
    <3>1. ASSUME NEW id \in Native \cup {None}, NEW mismatch \in BOOLEAN, OpenDone(k, id, mismatch),
                 retiring
          PROVE  record' = record
      <4>1. conn[k] = "closed"
        BY <1>a, <2>1, <3>1 DEF RInv, RetiredIsIdle, TypeOK
      <4> QED
        BY <3>1, <4>1 DEF OpenDone, Refuses
    <3>2. ASSUME NEW refused \in BOOLEAN, ReopenDone(k, refused)
          PROVE  \A r \in Session : record'[r].present => record[r].present
      <4>1. \/ record' = record
            \/ record' = [record EXCEPT ![task[k].rec].session = task[k].session,
                                        ![task[k].rec].faulted = FALSE]
        BY <3>2 DEF ReopenDone
      <4> QED
        BY <1>a, <4>1 DEF TypeOK, Records
    <3>3. CASE OpenWaited(k) \/ OpenFails(k) \/ Rejected(k) \/ Closed(k) \/ ReopenOpen(k) \/ ReopenFails(k)
      BY <3>3 DEF OpenWaited, OpenFails, Rejected, Closed, ReopenOpen, ReopenFails
    <3> QED
      BY <1>4, <3>1, <3>2, <3>3 DEF Works
  <2> QED
    BY <2>1, <2>2, <2>3, RetiringFrame
<1>5. ASSUME NEW k \in Conn, Ready(k), UNCHANGED <<conn, retiring>>,
             \A j \in Conn : j # k => task'[j] = task[j],
             \A r \in Session : record'[r].present => record[r].present
      PROVE  RInv'
  BY <1>5, RetiringFrame DEF Ready
<1>6. ASSUME NEW k \in Conn, NEW mode \in {"create", "resume", "fork"},
             NEW ref \in history \cup {None}, HandleOpen(k, mode, ref)
      PROVE  RInv'
  <2>1. \A j \in Conn : j # k => task'[j] = task[j]
    BY <1>6, <1>a, IdleTask DEF HandleOpen, OpenStart, TypeOK
  <2> QED
    BY <1>5, <1>6, <2>1 DEF HandleOpen
<1>7. ASSUME NEW k \in Conn, NEW r \in Session, HandleSession(k, r) PROVE RInv'
  <2>1. \A j \in Conn : j # k => task'[j] = task[j]
    BY <1>7, <1>a DEF HandleSession, CloseReq, ReopenReq, TypeOK
  <2>2. \A q \in Session : record'[q].present => record[q].present
    BY <1>7, <1>a, DroppedRecord DEF HandleSession, CloseReq, ReopenReq, TypeOK
  <2> QED
    BY <1>5, <1>7, <2>1, <2>2 DEF HandleSession
<1>8. ASSUME NEW r \in Session, NEW f,
             \/ FinishClose(r) \/ NativeCloses(r)
             \/ f \in BOOLEAN /\ FaultOutput(r, f)
             \/ f \in Native /\ Announce(r, f)
      PROVE  RInv'
  <2>1. UNCHANGED <<conn, task, retiring>>
    BY <1>8 DEF FinishClose, NativeCloses, FaultOutput, Announce
  <2>2. \A q \in Session : record'[q].present => record[q].present
    BY <1>8, <1>a DEF FinishClose, NativeCloses, FaultOutput, Announce, TypeOK, Records
  <2> QED
    BY <2>1, <2>2, RetiringFrame
<1>9. CASE Retire
  BY <1>9 DEF Retire, Busy, RInv, RetiredIsIdle, ServesNone
<1> QED
  BY <1>1, <1>2, <1>3, <1>4, <1>6, <1>7, <1>8, <1>9 DEF Next

\* A broker that retires serves no Session: an open that settles later is of a
\* connection that ended, and is refused (server.ts, the idle exit).  What it leaves
\* behind is being closed, being opened for such a connection, or stray.
THEOREM RetiredBrokerIsEmpty == Spec => []RetiredStaysEmpty
<1>1. Init => RInv
  BY NoRecordFields DEF Init, RInv, RetiredIsIdle, ServesNone, NoTask, Task
<1>2. Init => NativesHaveUsers
  BY DEF Init, NativesHaveUsers, Phase
<1>3. IInv /\ RInv /\ NativesHaveUsers => RetiredStaysEmpty
  <2> SUFFICES ASSUME IInv, RInv, NativesHaveUsers, retiring PROVE RetiredStaysEmpty
    BY DEF RetiredStaysEmpty
  <2>1. /\ \A r \in Session : ~record[r].present
        /\ \A k \in Conn : conn[k] = "open" => task[k].pc = "idle"
        /\ \A k \in Conn : conn[k] = "none" => task[k].pc = "idle"
    BY DEF RInv, RetiredIsIdle, ServesNone
  <2>2. ASSUME NEW s \in Session, native[s].phase = "opening" PROVE Late(s)
    <3>1. PICK k \in Conn : Opens(k) /\ task[k].session = s
      BY <2>2 DEF NativesHaveUsers
    <3>2. conn[k] = "closed"
      BY <2>1, <3>1 DEF Opens, IInv, Structure, TypeOK
    <3> QED
      BY <3>1, <3>2 DEF Late, Opens
  <2>3. ASSUME NEW s \in Session, native[s].phase = "open" PROVE Stray(s)
    BY <2>1, <2>3 DEF NativesHaveUsers, Stray
  <2> QED
    BY <2>1, <2>2, <2>3 DEF RetiredStaysEmpty
<1> QED
  BY <1>1, <1>2, <1>3, InitHolds, NextKeeps, RetiredKeeps, UsersKeep, PTL DEF Spec
=============================================================================
