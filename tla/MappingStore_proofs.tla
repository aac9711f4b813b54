------------------------ MODULE MappingStore_proofs ------------------------
(***************************************************************************)
(* Proofs about MappingStore, for starts that do not overlap: one owner of *)
(* the store, a lock file left behind that keeps nobody out, native        *)
(* Sessions that stay distinct on the disk, metadata that stays, and that  *)
(* the store implements DurableThreads.                                    *)
(*                                                                         *)
(* The invariant has three parts.  LockInv says what store.lock tells of   *)
(* the processes, so that one of them owns the store.  ProcInv relates     *)
(* what the owner does, remembers and finds on the disk; of any other      *)
(* process it says that it does and remembers nothing.  DiskInv says what  *)
(* the disk and the quarantine keep.  The refinement needs a fourth one:   *)
(* AgreeInv says how far the memory and the disk agree.                    *)
(***************************************************************************)
EXTENDS MappingStore, TLAPS

-----------------------------------------------------------------------------
(* The invariant *)

OneStarts == \A p, q \in Proc : Acquiring(p) /\ Acquiring(q) => p = q

\* The lock file names p as the process that created it; it is written.
Named(p) == lock # None /\ lock.holder = p
Written == lock # None /\ lock.written

\* The lock file of the owner names it, and a written one names no other
\* process that lives.
LockInv ==
    /\ OneStarts
    /\ \A p \in Proc : Owner(p) => Named(p) /\ Written
    /\ \A p \in Proc : phase[p] = "writing" => Named(p) /\ ~Written
    /\ \A p \in Proc : phase[p] = "renaming" => Stale
    /\ \A p \in Proc : phase[p] = "retrying" => lock = None
    /\ \A p \in Proc : Named(p) /\ Written => Owner(p)

Loads == {"check", "restore", "archive", "move", "drop", "dropBackup", "dropMeta"}
Changes == {"backup", "copying", "replace", "meta", "undo"}
Removals == {"rm", "rmBackup", "rmMeta", "putBack"}
Serves(p) == phase[p] \in {"up", "closing"}

\* Only a process that loads or serves does or remembers anything.
ActsInPhase(p) ==
    /\ phase[p] \notin {"loading", "sweeping", "up", "closing"} => memory[p] = NoMemory
    /\ op[p].pc = "idle" => op[p] = NoOp
    /\ op[p].pc \in Loads => phase[p] = "loading"
    /\ op[p].pc \in Changes \cup Removals => Serves(p)

\* An operation has what its next step reads.
OpFits(p) ==
    LET o == op[p] IN
    /\ o.pc # "idle" => o.thread \in Thread
    /\ o.pc \in Changes \cup {"check", "restore"} => o.next \in Record
    /\ o.pc \in Removals \cup {"meta", "undo"} => memory[p][o.thread] # None
    /\ o.pc \in {"rmBackup", "rmMeta", "dropBackup", "dropMeta"} => primary[o.thread] = None
    /\ o.pc = "move" => meta[o.thread] = None \/ "meta" \in archive[o.thread]

\* A start has yet to look at Threads with a record file, and sweeps the
\* metadata of Threads without one.
TodoFits(p) ==
    /\ phase[p] = "loading" =>
          /\ \A t \in todo[p] : primary[t] # None /\ memory[p][t] = None
          /\ op[p].pc # "idle" => memory[p][op[p].thread] = None /\ op[p].thread \notin todo[p]
    /\ phase[p] = "sweeping" => \A t \in todo[p] : primary[t] = None

\* An archived record has left the disk and the memory, with its metadata.
Archived ==
    \A t \in Thread : "record" \in archive[t] =>
        primary[t] = None /\ ("meta" \in archive[t] \/ meta[t] = None)

Forgotten(p) == \A t \in Thread : "record" \in archive[t] => memory[p][t] = None /\ op[p].thread # t

SameNative(r, e) == r # None => e # None /\ r.native = e.native

\* What is on the disk is in the memory of the process that serves it, or
\* that has loaded it.
DiskInMemory(p) ==
    /\ Serves(p) \/ phase[p] = "sweeping" =>
          \A t \in Thread : SameNative(primary[t], memory[p][t])
    /\ phase[p] = "loading" =>
          /\ \A t \in Thread \ (todo[p] \cup {op[p].thread}) : SameNative(primary[t], memory[p][t])
          /\ op[p].pc = "check" => op[p].next = primary[op[p].thread]

Distinct(m) ==
    \A t, u \in Thread :
        t # u /\ m[t] # None /\ m[u] # None /\ m[t].native = m[u].native => m[t].native = None

\* No Thread but its own has the native Session an operation writes; metadata
\* changes only where the native Session does not.
OpIsFree(p) ==
    LET o == op[p]
        e == memory[p][o.thread]
    IN
    o.pc \in Changes =>
        /\ o.next.native = None \/ Free(p, o.thread, o.next.native)
        /\ o.pc = "meta" \/ (e # None /\ e.meta # o.meta) => o.next.native = e.native

NativesKept(p) ==
    /\ op[p].pc \notin {"restore", "archive", "move"}
    /\ DiskInMemory(p)
    /\ Serves(p) => Distinct(memory[p])
    /\ OpIsFree(p)

ProcInv == \A p \in Proc : ActsInPhase(p) /\ OpFits(p) /\ TodoFits(p) /\ Forgotten(p)

DiskInv ==
    /\ Archived
    /\ damages = 0 => /\ \A t \in Thread : primary[t] # Bad
                      /\ Distinct(primary)
                      /\ \A p \in Proc : NativesKept(p)

IInv ==
    /\ TypeOK
    /\ LockInv
    /\ ProcInv
    /\ DiskInv

-----------------------------------------------------------------------------
(* Types *)

\* None and Bad are none of the contents of a file or a memory.
LEMMA Apart ==
    /\ None \notin Proc /\ None \notin Thread /\ None \notin Native /\ None \notin Revision
    /\ None \notin Record /\ None \notin Entries /\ None \notin LockFile
    /\ Bad \notin Revision /\ Bad \notin Record /\ Bad # None
    /\ Revision \subseteq Nat /\ 1 \in Revision
BY StoreAssumption DEF Revision

\* What the constructors build.
LEMMA Built ==
    /\ NoOp \in Ops /\ NoMemory \in [Thread -> Entries \cup {None}]
    /\ \A r \in Record, m \in Revision \cup {None} :
          Entry(r, m) \in Entries /\ Entry(r, m).native = r.native /\ Entry(r, m).meta = m
    /\ \A e \in Entries : Of(e) \in Record /\ Of(e).native = e.native
    /\ \A n \in Native \cup {None}, v \in Revision : Rec(n, v) \in Record /\ Rec(n, v).native = n
    /\ \A b \in BOOLEAN, h \in Proc \cup {None} : Lock(h, b) \in LockFile
    /\ \A pc \in Pcs, t \in Thread \cup {None}, r \in Record \cup {None}, m \in Revision \cup {None} :
          Op(pc, t, r, m) \in Ops
BY DEF NoOp, Op, Ops, Pcs, NoMemory, Entry, Entries, Of, Rec, Record, Lock, LockFile

\* The pc of an operation is advanced without changing the rest.
LEMMA Advanced ==
    ASSUME NEW o \in Ops, NEW pc \in Pcs, NEW a, a = [o EXCEPT !.pc = pc]
    PROVE  a \in Ops /\ a.pc = pc /\ a.thread = o.thread /\ a.next = o.next /\ a.meta = o.meta
BY DEF Ops

\* Taking the lock keeps the types.
LEMMA LockingTypes ==
    ASSUME TypeOK, NEW p \in Proc, Locking(p)
    PROVE  TypeOK'
<1> USE DEF TypeOK, Enter, files, counts
<1>a. \A ph \in {"down", "opening", "contended", "renaming", "retrying", "writing", "loading"} :
         ph \in Phases
  BY DEF Phases
<1>b. \A b \in BOOLEAN : Lock(p, b) \in LockFile
  BY Built
<1>1. CASE Start(p)
  BY <1>a, <1>1 DEF Start
<1>2. CASE OpenLock(p)
  <2>1. PICK ph \in Phases, l \in LockFile \cup {None} :
          phase' = [phase EXCEPT ![p] = ph] /\ lock' = l
    BY <1>a, <1>b, <1>2 DEF OpenLock
  <2>2. UNCHANGED <<todo, memory, op, files, counts>>
    BY <1>2 DEF OpenLock
  <2> QED
    BY <2>1, <2>2
<1>3. CASE ReadLock(p)
  BY <1>a, <1>3 DEF ReadLock
<1>4. CASE RenameLock(p)
  BY <1>a, <1>4 DEF RenameLock
<1>5. CASE WriteLock(p)
  BY <1>a, <1>b, <1>5 DEF WriteLock
<1> QED
  BY <1>1, <1>2, <1>3, <1>4, <1>5 DEF Locking

\* Loading keeps the types.
LEMMA StartingTypes ==
    ASSUME TypeOK, ProcInv, NEW p \in Proc, Starting(p)
    PROVE  TypeOK'
<1> USE DEF TypeOK, Enter, Do, At, files, counts
<1>a. op[p] \in Ops /\ \A pc \in Pcs : [op[p] EXCEPT !.pc = pc] \in Ops
  BY Advanced
<1>b. \A pc \in {"check", "restore", "archive", "move", "drop"} : pc \in Pcs
  BY DEF Pcs
<1>c. {"sweeping", "failed", "up"} \subseteq Phases
  BY DEF Phases
<1>d. /\ op[p].pc # "idle" => op[p].thread \in Thread
      /\ op[p].pc \in {"check", "restore"} => op[p].next \in Record
  BY DEF ProcInv, OpFits
<1>e. NoOp \in Ops /\ NoMemory \in [Thread -> Entries \cup {None}]
  BY Built
<1>1. ASSUME NEW t \in Thread, Load(p, t) PROVE TypeOK'
  <2> DEFINE o == IF primary[t] # Bad THEN Op("check", t, primary[t], None)
                  ELSE IF Readable(backup[t]) THEN Op("restore", t, backup[t], None)
                  ELSE Op("archive", t, None, None)
  <2>1. op' = [op EXCEPT ![p] = o] /\ o \in Ops
    <3>1. op' = [op EXCEPT ![p] = o]
      BY <1>1 DEF Load
    <3>2. /\ primary[t] # Bad => primary[t] \in Record \cup {None}
          /\ Readable(backup[t]) => backup[t] \in Record \cup {None}
      BY DEF Readable
    <3>3. o \in Ops
      BY <1>b, <3>2, Built
    <3> QED
      BY <3>1, <3>3
  <2> HIDE DEF o
  <2>2. todo' = [todo EXCEPT ![p] = @ \ {t}] /\ UNCHANGED <<lock, phase, memory, files, counts>>
    BY <1>1 DEF Load
  <2> QED
    BY <2>1, <2>2
<1>2. ASSUME NEW t \in Thread, Sweep(p, t) PROVE TypeOK'
  BY <1>2 DEF Sweep
<1>3. CASE Restore(p)
  BY <1>a, <1>b, <1>d, <1>3 DEF Restore
<1>4. CASE ArchiveMeta(p)
  BY <1>a, <1>b, <1>4 DEF ArchiveMeta
<1>5. CASE MoveRecord(p)
  BY <1>d, <1>e, <1>5 DEF MoveRecord
<1>6. CASE Check(p)
  <2> DEFINE o == op[p]
  <2>1. CASE o.next.native = None
    BY <1>a, <1>b, <1>6, <2>1 DEF Check
  <2>2. CASE o.next.native # None
    <3>1. /\ meta' = [meta EXCEPT ![o.thread] = IF @ = Bad THEN None ELSE @]
          /\ memory' = [memory EXCEPT ![p][o.thread] = Entry(o.next, meta'[o.thread])]
          /\ op' = [op EXCEPT ![p] = NoOp]
          /\ UNCHANGED <<lock, phase, todo, primary, backup, archive, counts>>
      BY <1>6, <2>2 DEF Check
    <3>2. meta'[o.thread] \in Revision \cup {None}
      BY <1>d, <1>6, <3>1 DEF Check
    <3>3. Entry(o.next, meta'[o.thread]) \in Entries
      BY <1>d, <1>6, <3>2, Built DEF Check
    <3> QED
      BY <1>a, <1>d, <1>e, <1>6, <3>1, <3>3 DEF Check
  <2> QED
    BY <2>1, <2>2
<1>7. CASE EndLoad(p)
  BY <1>c, <1>7 DEF EndLoad
<1>8. CASE Serve(p)
  BY <1>c, <1>e, <1>8 DEF Serve
<1> QED
  BY <1>1, <1>2, <1>3, <1>4, <1>5, <1>6, <1>7, <1>8 DEF Starting

\* The writes and unlinks of an operation keep the types.
LEMMA WritingTypes ==
    ASSUME TypeOK, ProcInv, NEW p \in Proc, Writing(p)
    PROVE  TypeOK'
<1> USE DEF TypeOK, Enter, Do, At, files, counts
<1>a. op[p] \in Ops /\ \A pc \in Pcs : [op[p] EXCEPT !.pc = pc] \in Ops
  BY Advanced
<1>b. {"replace", "copying", "meta", "rmBackup", "rmMeta", "dropBackup", "dropMeta"} \subseteq Pcs
  BY DEF Pcs
<1>c. /\ op[p].pc # "idle" => op[p].thread \in Thread
      /\ op[p].pc \in {"replace", "meta"} => op[p].next \in Record
      /\ op[p].pc \in {"putBack", "undo"} => memory[p][op[p].thread] # None
      /\ op[p].meta \in Revision \cup {None}
  BY <1>a DEF ProcInv, OpFits, Changes, Removals, Ops
<1>1. CASE Backup(p)
  <2>1. op' \in [Proc -> Ops]
    BY <1>a, <1>b, <1>1 DEF Backup
  <2>2. backup' \in [Thread -> Record \cup {None, Bad}]
    BY <1>1 DEF Backup
  <2>3. UNCHANGED <<lock, phase, todo, memory, primary, meta, archive, counts>>
    BY <1>1 DEF Backup
  <2> QED
    BY <2>1, <2>2, <2>3
<1>2. CASE Copied(p)
  BY <1>a, <1>b, <1>c, <1>2 DEF Copied
<1>3. CASE Rename(p)
  <2>1. Entry(op[p].next, op[p].meta) \in Entries
    BY <1>c, <1>3, Built DEF Rename
  <2>2. /\ primary' = [primary EXCEPT ![op[p].thread] = op[p].next]
        /\ UNCHANGED <<lock, phase, todo, backup, meta, archive, counts>>
    BY <1>3 DEF Rename
  <2>3. memory' \in [Proc -> [Thread -> Entries \cup {None}]]
    <3>1. \/ memory' = memory
          \/ memory' = [memory EXCEPT ![p][op[p].thread] = Entry(op[p].next, op[p].meta)]
      BY <1>3 DEF Rename
    <3> QED
      BY <2>1, <3>1
  <2>4. op' \in [Proc -> Ops]
    BY <1>a, <1>b, <1>3, Built DEF Rename
  <2> QED
    BY <1>c, <1>3, <2>2, <2>3, <2>4 DEF Rename
<1>4. CASE WriteMeta(p)
  <2>1. Entry(op[p].next, op[p].meta) \in Entries
    BY <1>c, <1>4, Built DEF WriteMeta
  <2> QED
    BY <1>c, <1>4, <2>1, Built DEF WriteMeta
<1>5. CASE RemoveRecord(p)
  BY <1>a, <1>b, <1>5 DEF RemoveRecord
<1>6. CASE RemoveBackup(p)
  BY <1>a, <1>b, <1>6 DEF RemoveBackup
<1>7. CASE RemoveMeta(p)
  BY <1>7, Built DEF RemoveMeta
<1>8. CASE PutBack(p)
  <2>1. Of(memory[p][op[p].thread]) \in Record
    BY <1>c, <1>8, Built DEF PutBack
  <2> QED
    BY <1>c, <1>8, <2>1, Built DEF PutBack
<1> QED
  BY <1>1, <1>2, <1>3, <1>4, <1>5, <1>6, <1>7, <1>8 DEF Writing

\* Requests keep the types.
LEMMA RequestTypes ==
    ASSUME TypeOK, NEW p \in Proc, NEW t \in Thread, Requests(p, t)
    PROVE  TypeOK'
<1>1. ASSUME NEW o \in Ops, Request(p, o) PROVE TypeOK'
  BY <1>1 DEF TypeOK, Request, Do, files, counts
<1>2. {"replace", "backup", "rm"} \subseteq Pcs
  BY DEF Pcs
<1>3. \A e \in Entries : e.native \in Native \cup {None} /\ e.rev \in Revision
                          /\ e.meta \in Revision \cup {None}
  BY DEF Entries
<1>4. memory[p][t] # None => memory[p][t] \in Entries
  BY DEF TypeOK
<1>5. \A v \in Revision : v < MaxRevision => v + 1 \in Revision
  BY StoreAssumption DEF Revision
<1>6. CASE CreateProvisional(p, t)
  <2>1. Op("replace", t, Rec(None, 1), None) \in Ops
    BY <1>2, Apart, Built
  <2> QED
    BY <1>1, <1>6, <2>1 DEF CreateProvisional
<1>7. CASE Revise(p, t)
  BY <1>1, <1>2, <1>3, <1>4, <1>5, <1>7, Built DEF Revise
<1>8. CASE RemoveThread(p, t)
  BY <1>1, <1>2, <1>8, Built DEF RemoveThread
<1>9. ASSUME NEW n \in Native, SetNative(p, t, n) PROVE TypeOK'
  BY <1>1, <1>2, <1>3, <1>4, <1>5, <1>9, Built DEF SetNative
<1>10. ASSUME NEW m \in Revision \cup {None}, UpdateMetadata(p, t, m) PROVE TypeOK'
  BY <1>1, <1>2, <1>3, <1>4, <1>5, <1>10, Built DEF UpdateMetadata
<1> QED
  BY <1>6, <1>7, <1>8, <1>9, <1>10 DEF Requests

\* Closes, crashes, failing system calls and damage keep the types.
LEMMA FailureTypes ==
    ASSUME TypeOK,
           \/ \E p \in Proc : \/ Close(p) \/ Closed(p) \/ Crash(p) \/ Fails(p)
                             \/ \E t \in Thread : SweepFails(p, t)
           \/ \E t \in Thread : Damage(t)
    PROVE  TypeOK'
<1> USE DEF TypeOK, Enter, Do, At, files, counts
<1>a. {"closing", "down", "failed"} \subseteq Phases
  BY DEF Phases
<1>b. crashes \in Nat /\ faults \in Nat /\ damages \in Nat
      /\ MaxCrashes \in Nat /\ MaxFaults \in Nat /\ MaxDamages \in Nat
  BY StoreAssumption
<1>1. ASSUME NEW p \in Proc, Close(p) PROVE TypeOK'
  BY <1>a, <1>1 DEF Close
<1>2. ASSUME NEW p \in Proc, Closed(p) PROVE TypeOK'
  BY <1>a, <1>2, Built DEF Closed
<1>3. ASSUME NEW p \in Proc, Crash(p) PROVE TypeOK'
  <2>1. lock' \in LockFile \cup {None}
    BY <1>3 DEF Crash, Forsaken, Lock, LockFile
  <2>2. crashes' \in 0..MaxCrashes
    BY <1>b, <1>3 DEF Crash
  <2> QED
    BY <1>a, <1>3, <2>1, <2>2, Built DEF Crash
<1>4. ASSUME NEW p \in Proc, Fails(p) PROVE TypeOK'
  <2>1. faults' \in 0..MaxFaults
    BY <1>b, <1>4 DEF Fails
  <2>2. AfterFailure(op[p].pc) \in Pcs /\ op[p] \in Ops
    BY DEF AfterFailure, Pcs
  <2>3. \E o \in Ops : op' = [op EXCEPT ![p] = o]
    BY <1>4, <2>2, Built, Advanced DEF Fails
  <2>4. CASE StopsStart(op[p].pc)
    BY <1>a, <1>4, <2>1, <2>3, <2>4, Built DEF Fails
  <2>5. CASE ~StopsStart(op[p].pc)
    BY <1>4, <2>1, <2>3, <2>5 DEF Fails
  <2> QED
    BY <2>4, <2>5
<1>5. ASSUME NEW p \in Proc, NEW t \in Thread, SweepFails(p, t) PROVE TypeOK'
  <2>1. faults' \in 0..MaxFaults
    BY <1>b, <1>5 DEF SweepFails
  <2> QED
    BY <1>5, <2>1 DEF SweepFails
<1>6. ASSUME NEW t \in Thread, Damage(t) PROVE TypeOK'
  <2>1. damages' \in 0..MaxDamages
    BY <1>b, <1>6 DEF Damage
  <2> QED
    BY <1>6, <2>1 DEF Damage
<1> QED
  BY <1>1, <1>2, <1>3, <1>4, <1>5, <1>6

\* Every variable keeps its type.
LEMMA TypeKeeps == TypeOK /\ ProcInv /\ [Next]_vars => TypeOK'
<1> SUFFICES ASSUME TypeOK, ProcInv, [Next]_vars PROVE TypeOK'
  OBVIOUS
<1>1. CASE UNCHANGED vars
  BY <1>1 DEF TypeOK, vars, files, counts
<1>2. CASE Next
  BY <1>2, LockingTypes, StartingTypes, WritingTypes, RequestTypes, FailureTypes DEF Next
<1> QED
  BY <1>1, <1>2

-----------------------------------------------------------------------------
(* The lock *)

\* A lock file is held, created by one process only, and stale or of a process
\* that lives.
LEMMA LockFacts ==
    ASSUME TypeOK
    PROVE  /\ Stale <=> ~Written \/ ~\E p \in Proc : Named(p)
           /\ \A p, q \in Proc : Named(p) /\ Named(q) => p = q
           /\ lock = None => ~Written /\ \A p \in Proc : ~Named(p)
BY Apart DEF TypeOK, Stale, Written, Named, LockFile

\* A lock file that is created or written names its creator.
LEMMA LockMade ==
    /\ \A p \in Proc : lock' = Lock(p, FALSE) => Named(p)' /\ ~Written'
    /\ \A p \in Proc : lock' = Lock(p, TRUE) => Named(p)' /\ Written'
<1> SUFFICES ASSUME NEW p \in Proc
             PROVE  /\ lock' = Lock(p, FALSE) => Named(p)' /\ ~Written'
                    /\ lock' = Lock(p, TRUE) => Named(p)' /\ Written'
  OBVIOUS
<1>1. Lock(p, TRUE) # None /\ Lock(p, FALSE) # None
  <2>1. Lock(p, TRUE) \in LockFile /\ Lock(p, FALSE) \in LockFile
    BY DEF Lock, LockFile
  <2> QED
    BY <2>1, Apart
<1>2. Lock(p, TRUE).holder = p /\ Lock(p, FALSE).holder = p
  BY DEF Lock
<1>3. Lock(p, TRUE).written /\ ~Lock(p, FALSE).written
  BY DEF Lock
<1> QED
  BY <1>1, <1>2, <1>3 DEF Named, Written

\* A lock file that stays names whom it named.
LEMMA LockSame ==
    ASSUME lock' = lock
    PROVE  /\ \A p \in Proc : Named(p)' <=> Named(p)
           /\ Written' <=> Written
           /\ Stale' <=> Stale
BY DEF Named, Written, Stale

\* One process owns the store, because its lock file names it.
LEMMA OwnerIsAlone ==
    ASSUME TypeOK, LockInv, NEW p \in Proc, Owner(p)
    PROVE  /\ Named(p) /\ Written /\ ~Stale
           /\ \A q \in Proc : Owner(q) => q = p
           /\ \A q \in Proc : phase[q] \notin {"renaming", "retrying", "writing"}
<1>1. Named(p) /\ Written /\ ~Stale
  BY LockFacts DEF LockInv
<1>2. \A q \in Proc : Owner(q) => q = p
  BY <1>1, LockFacts DEF LockInv
<1>3. \A q \in Proc : phase[q] \notin {"renaming", "retrying", "writing"}
  BY <1>1, LockFacts DEF LockInv
<1> QED
  BY <1>1, <1>2, <1>3

\* A process stays where it is, or remains the owner.
Remains(p) ==
    \/ phase'[p] = phase[p]
    \/ Owner(p) /\ phase'[p] \in {"loading", "sweeping", "up", "closing", "failed"}

\* Where the lock stays and owners stay owners, the lock tells the same.
LEMMA LockStays ==
    ASSUME LockInv, lock' = lock, \A p \in Proc : Remains(p)
    PROVE  LockInv'
<1>1. \A p \in Proc : /\ (Owner(p)' <=> Owner(p)) /\ (Acquiring(p)' <=> Acquiring(p))
                      /\ phase'[p] \in {"writing", "renaming", "retrying"} => phase'[p] = phase[p]
  BY DEF Owner, Acquiring, Remains
<1>2. OneStarts'
  BY <1>1 DEF LockInv, OneStarts
<1> QED
  BY <1>1, <1>2, LockSame DEF LockInv

\* Taking the lock keeps what it tells, when starts do not overlap.
LEMMA LockingKeepsLock ==
    ASSUME TypeOK, LockInv, ~Overlap, NEW p \in Proc, Locking(p)
    PROVE  LockInv'
<1>a. phase \in [Proc -> Phases] /\ TypeOK'
  BY LockingTypes DEF TypeOK
<1>b. /\ OneStarts
      /\ \A q \in Proc : Owner(q) => Named(q) /\ Written
      /\ \A q \in Proc : phase[q] = "writing" => Named(q) /\ ~Written
      /\ \A q \in Proc : phase[q] = "renaming" => Stale
      /\ \A q \in Proc : phase[q] = "retrying" => lock = None
      /\ \A q \in Proc : Named(q) /\ Written => Owner(q)
  BY DEF LockInv
<1>c. ~Owner(p)
  BY DEF Locking, Start, OpenLock, ReadLock, RenameLock, WriteLock, Owner
<1>d. \A q \in Proc : q # p => phase'[q] = phase[q]
  BY <1>a DEF Locking, Start, OpenLock, ReadLock, RenameLock, WriteLock, Enter
<1>e. \A q \in Proc : q # p => /\ (Owner(q)' <=> Owner(q)) /\ (Acquiring(q)' <=> Acquiring(q))
  BY <1>d DEF Owner, Acquiring
<1>f. \A q \in Proc : q # p => ~Acquiring(q)
  BY <1>b DEF OneStarts, Acquiring, Locking, Start, OpenLock, ReadLock, RenameLock, WriteLock
<1>g. OneStarts' /\ \A q \in Proc : q # p => phase'[q] \notin {"writing", "renaming", "retrying"}
  BY <1>d, <1>e, <1>f DEF OneStarts, Acquiring
<1>1. CASE Start(p) \/ ReadLock(p) \/ (OpenLock(p) /\ lock # None)
  <2>0. lock' = lock
    BY <1>1 DEF Start, ReadLock, OpenLock
  <2>1. phase'[p] \in {"opening", "contended", "renaming", "down"}
        /\ (phase'[p] = "renaming" => Stale)
    BY <1>a, <1>1 DEF Start, OpenLock, ReadLock, Enter
  <2>2. ~Owner(p)'
    BY <2>1 DEF Owner
  <2> QED
    BY <1>b, <1>c, <1>e, <1>g, <2>0, <2>1, <2>2, LockSame DEF LockInv
<1>2. CASE OpenLock(p) /\ lock = None
  <2>1. lock' = Lock(p, FALSE) /\ phase'[p] = "writing"
    BY <1>a, <1>2 DEF OpenLock, Enter
  <2>2. \A q \in Proc : ~Owner(q)
    BY <1>2, <1>b, LockFacts
  <2>3. Named(p)' /\ ~Written' /\ ~Owner(p)'
    BY <2>1, LockMade DEF Owner
  <2> QED
    BY <1>e, <1>g, <2>1, <2>2, <2>3 DEF LockInv
<1>3. CASE RenameLock(p)
  <2>1. lock' = None /\ phase[p] = "renaming" /\ phase'[p] = "retrying"
    BY <1>a, <1>3 DEF RenameLock, Enter
  <2>2. \A q \in Proc : ~Owner(q)
    BY <2>1, OwnerIsAlone
  <2>3. ~Written' /\ ~Owner(p)'
    BY <2>1 DEF Written, Owner
  <2> QED
    BY <1>e, <1>g, <2>1, <2>2, <2>3 DEF LockInv
<1>4. CASE WriteLock(p)
  <2>1. /\ phase[p] = "writing" /\ phase'[p] = "loading"
        /\ lock' = IF lock # None /\ lock.holder = p THEN Lock(p, TRUE) ELSE lock
    BY <1>a, <1>4 DEF WriteLock, Enter
  <2>2. Named(p)' /\ Written'
    BY <1>b, <2>1, LockMade DEF Named
  <2>3. \A q \in Proc : ~Owner(q)
    BY <2>1, OwnerIsAlone
  <2>4. Owner(p)'
    BY <2>1 DEF Owner
  <2>5. \A q \in Proc : Named(q)' => q = p
    BY <2>2 DEF Named
  <2> QED
    BY <1>e, <1>g, <2>1, <2>2, <2>3, <2>4, <2>5 DEF LockInv
<1> QED
  BY <1>1, <1>2, <1>3, <1>4 DEF Locking

\* A close removes the lock, a crash leaves it stale.
LEMMA LeavingKeepsLock ==
    ASSUME TypeOK, LockInv, NEW p \in Proc, Closed(p) \/ Crash(p)
    PROVE  LockInv'
<1>a. phase \in [Proc -> Phases]
  BY DEF TypeOK
<1>b. phase'[p] = "down" /\ \A q \in Proc : q # p => phase'[q] = phase[q]
  BY <1>a DEF Closed, Crash, Enter
<1>c. OneStarts' /\ ~Owner(p)' /\ \A q \in Proc : q # p => (Owner(q)' <=> Owner(q))
  BY <1>b DEF LockInv, OneStarts, Acquiring, Owner
<1>1. CASE Closed(p)
  <2>1. Owner(p)
    BY <1>1 DEF Closed, Owner
  <2>2. lock' = None
    BY <1>1, <2>1, OwnerIsAlone DEF Closed, Named, Written
  <2>3. Stale' /\ ~Written'
    BY <2>2 DEF Stale, Written
  <2>4. \A q \in Proc : ~Owner(q)' /\ phase'[q] # "writing"
    BY <1>b, <1>c, <2>1, OwnerIsAlone
  <2> QED
    BY <1>c, <2>2, <2>3, <2>4 DEF LockInv
<1>2. CASE Crash(p) /\ Named(p)
  <2>1. lock' = Lock(None, lock.written)
    BY <1>2 DEF Crash, Forsaken, Named
  <2>2. lock'.holder = None
    BY <2>1 DEF Lock
  <2>3. Stale' /\ \A q \in Proc : ~Named(q)'
    BY <2>2, Apart DEF Stale, Named
  <2>4. \A q \in Proc : /\ ~Owner(q)'
                        /\ phase'[q] # "writing" /\ phase'[q] # "retrying"
    BY <1>b, <1>c, <1>2, LockFacts DEF LockInv
  <2> QED
    BY <1>c, <2>3, <2>4 DEF LockInv
<1>3. CASE Crash(p) /\ ~Named(p)
  <2>1. lock' = lock
    BY <1>3 DEF Crash, Forsaken, Named
  <2> QED
    BY <1>b, <1>c, <1>3, <2>1, LockSame DEF LockInv
<1> QED
  BY <1>1, <1>2, <1>3

-----------------------------------------------------------------------------
(* Processes and the disk *)

Active == {"loading", "sweeping", "up", "closing"}

\* A process that does nothing, and the process that owns the store.
Idle(p) == op[p] = NoOp /\ memory[p] = NoMemory /\ phase[p] \notin Active
Sound(p) ==
    /\ ActsInPhase(p) /\ OpFits(p) /\ TodoFits(p) /\ Forgotten(p)
    /\ damages = 0 => NativesKept(p)

\* An idle process breaks nothing.
LEMMA IdleIsSound ==
    ASSUME NEW p \in Proc, Idle(p)
    PROVE  Sound(p)
<1>1. /\ op[p].pc = "idle" /\ op[p].thread = None
      /\ \A t \in Thread : memory[p][t] = None
  BY DEF Idle, NoOp, Op, NoMemory
<1>2. ActsInPhase(p) /\ OpFits(p) /\ TodoFits(p)
  BY <1>1 DEF Idle, Active, ActsInPhase, OpFits, TodoFits, Loads, Changes, Removals
<1>3. Forgotten(p)
  BY <1>1, Apart DEF Forgotten
<1>4. NativesKept(p)
  BY <1>1 DEF Idle, Active, NativesKept, DiskInMemory, Serves, OpIsFree, Changes
<1> QED
  BY <1>2, <1>3, <1>4 DEF Sound

\* The same after a step.
LEMMA IdleBecomesSound ==
    ASSUME NEW p \in Proc
    PROVE  Idle(p)' => Sound(p)'
<1>1. Idle(p) => Sound(p)
  BY IdleIsSound
<1> QED
  BY <1>1, PTL

\* A process that is not active is idle.
LEMMA InactiveIsIdle ==
    ASSUME TypeOK, ProcInv, NEW p \in Proc, phase[p] \notin Active
    PROVE  Idle(p)
<1>1. op[p].pc \in Pcs
  BY DEF TypeOK, Ops
<1>2. op[p].pc = "idle"
  BY <1>1 DEF ProcInv, ActsInPhase, Active, Pcs, Loads, Changes, Removals, Serves
<1> QED
  BY <1>2 DEF ProcInv, ActsInPhase, Active, Idle

\* Beside an owner every process is idle.
LEMMA OthersAreIdle ==
    ASSUME TypeOK, LockInv, ProcInv, NEW p \in Proc, Owner(p), NEW q \in Proc, q # p
    PROVE  Idle(q)
<1>1. ~Owner(q)
  BY OwnerIsAlone
<1> QED
  BY <1>1, InactiveIsIdle DEF Owner, Active

\* What the invariant says of one process.
LEMMA SoundNow ==
    ASSUME IInv, NEW p \in Proc
    PROVE  Sound(p)
BY DEF IInv, ProcInv, DiskInv, Sound

\* A step of the owner keeps processes and disk in order if it leaves the owner
\* and the disk in order.
LEMMA OwnerStepKeeps ==
    ASSUME IInv, NEW p \in Proc, Owner(p), Sound(p)', Archived',
           \A q \in Proc : q # p => /\ phase'[q] = phase[q] /\ op'[q] = op[q]
                                   /\ memory'[q] = memory[q],
           damages' = 0 => (\A t \in Thread : primary'[t] # Bad) /\ Distinct(primary')
    PROVE  ProcInv' /\ DiskInv'
<1>1. \A q \in Proc : q # p => Idle(q)
  BY OthersAreIdle DEF IInv
<1>2. \A q \in Proc : q # p => Idle(q)'
  BY <1>1 DEF Idle
<1>3. \A q \in Proc : Sound(q)'
  BY <1>2, IdleBecomesSound
<1> QED
  BY <1>3 DEF ProcInv, DiskInv, Sound

\* A step that leaves the disk alone keeps it in order if each process either
\* goes on as it was or becomes idle.
LEMMA QuietStepKeeps ==
    ASSUME IInv, UNCHANGED <<files, damages>>,
           \A q \in Proc : \/ /\ phase'[q] = phase[q] /\ op'[q] = op[q]
                             /\ memory'[q] = memory[q] /\ todo'[q] = todo[q]
                          \/ Idle(q)'
    PROVE  ProcInv' /\ DiskInv'
<1>1. UNCHANGED <<primary, meta, archive, damages>>
  BY DEF files
<1>2. ASSUME NEW q \in Proc, phase'[q] = phase[q], op'[q] = op[q],
             memory'[q] = memory[q], todo'[q] = todo[q]
      PROVE  Sound(q)'
  <2>1. Sound(q)
    BY SoundNow
  <2>2. ActsInPhase(q)' /\ OpFits(q)' /\ TodoFits(q)' /\ Forgotten(q)'
    BY <1>1, <1>2, <2>1 DEF Sound, ActsInPhase, OpFits, TodoFits, Forgotten, Serves
  <2>3. damages' = 0 => NativesKept(q)'
    BY <1>1, <1>2, <2>1 DEF Sound, NativesKept, DiskInMemory, Serves, OpIsFree, Free
  <2> QED
    BY <2>2, <2>3 DEF Sound
<1>3. \A q \in Proc : Sound(q)'
  BY <1>2, IdleBecomesSound
<1>4. Archived' /\ (damages' = 0 => (\A t \in Thread : primary'[t] # Bad) /\ Distinct(primary'))
  BY <1>1 DEF IInv, DiskInv, Archived
<1> QED
  BY <1>3, <1>4 DEF ProcInv, DiskInv, Sound

\* What an operation does not change of a process that loads.
LEMMA Idleness == NoOp.pc = "idle" /\ NoOp.thread = None /\ \A t \in Thread : NoMemory[t] = None
BY DEF NoOp, Op, NoMemory

\* A Thread whose file is next is checked, restored or archived.
LEMMA LoadKeeps ==
    ASSUME IInv, NEW p \in Proc, NEW t \in Thread, Load(p, t)
    PROVE  ProcInv' /\ DiskInv'
<1>1. /\ phase[p] = "loading" /\ op[p].pc = "idle" /\ t \in todo[p]
      /\ UNCHANGED <<lock, phase, memory, files, counts>>
      /\ TypeOK /\ Sound(p)
  BY SoundNow DEF Load, At, IInv
<1>2. UNCHANGED <<primary, meta, archive, damages, memory, phase>>
  BY <1>1 DEF files, counts
<1>3. todo'[p] = todo[p] \ {t}
  BY <1>1 DEF TypeOK, Load
<1>4. /\ op'[p].thread = t
      /\ \/ op'[p].pc = "check" /\ op'[p].next = primary[t] /\ primary[t] # Bad
         \/ op'[p].pc = "restore" /\ op'[p].next = backup[t] /\ Readable(backup[t]) /\ primary[t] = Bad
         \/ op'[p].pc = "archive" /\ primary[t] = Bad
  BY DEF IInv, TypeOK, Load, Do, Op
<1>5. \A q \in Proc : q # p => op'[q] = op[q]
  BY DEF IInv, TypeOK, Load, Do
<1>6. op[p].thread = None /\ primary[t] # None /\ memory[p][t] = None
  BY <1>1, Idleness DEF Sound, ActsInPhase, TodoFits
<1>7. /\ primary[t] # Bad => primary[t] \in Record
      /\ Readable(backup[t]) => backup[t] \in Record
  BY <1>1, <1>6 DEF TypeOK, Readable
<1>8. ActsInPhase(p)'
  BY <1>1, <1>2, <1>4 DEF ActsInPhase, Loads, Changes, Removals
<1>9. OpFits(p)'
  BY <1>2, <1>4, <1>7 DEF OpFits, Changes, Removals
<1>10. TodoFits(p)'
  BY <1>1, <1>2, <1>3, <1>4, <1>6 DEF Sound, TodoFits
<1>11. Forgotten(p)'
  BY <1>1, <1>2, <1>4, <1>6 DEF IInv, DiskInv, Archived, Sound, Forgotten
<1>12. ASSUME damages = 0 PROVE NativesKept(p)'
  <2>1. op'[p].pc = "check" /\ op'[p].next = primary[t]
    BY <1>4, <1>12 DEF IInv, DiskInv
  <2>2. DiskInMemory(p)'
    BY <1>1, <1>2, <1>3, <1>4, <1>6, <1>12, <2>1, Apart DEF Sound, NativesKept, DiskInMemory, Serves
  <2> QED
    BY <1>1, <1>2, <2>1, <2>2 DEF NativesKept, OpIsFree, Changes, Serves
<1>13. Sound(p)'
  BY <1>2, <1>8, <1>9, <1>10, <1>11, <1>12 DEF Sound
<1>14. Owner(p) /\ Archived' /\ (damages' = 0 => (\A u \in Thread : primary'[u] # Bad) /\ Distinct(primary'))
  BY <1>1, <1>2 DEF Owner, IInv, DiskInv, Archived
<1> QED
  BY <1>2, <1>5, <1>13, <1>14, OwnerStepKeeps

\* A backup takes the place of an unreadable record, which only a damaged disk has.
LEMMA RestoreKeeps ==
    ASSUME IInv, NEW p \in Proc, Restore(p)
    PROVE  ProcInv' /\ DiskInv'
<1> DEFINE t == op[p].thread
<1>1. /\ op[p].pc = "restore" /\ TypeOK /\ Sound(p) /\ op[p] \in Ops
      /\ UNCHANGED <<lock, phase, todo, memory, backup, meta, archive, counts>>
  BY SoundNow DEF Restore, IInv, TypeOK
<1>2. t \in Thread /\ op[p].next \in Record /\ phase[p] = "loading"
  BY <1>1 DEF Sound, OpFits, ActsInPhase, Changes, Loads
<1>3. /\ op'[p].pc = "check" /\ op'[p].thread = t /\ op'[p].next = op[p].next
      /\ \A q \in Proc : q # p => op'[q] = op[q]
  BY <1>1 DEF Restore, Do, TypeOK, Ops
<1>4. primary'[t] = op[p].next /\ \A u \in Thread : u # t => primary'[u] = primary[u]
  BY <1>1, <1>2 DEF Restore, TypeOK
<1>5. UNCHANGED <<damages, phase, todo, memory, meta, archive>> /\ damages # 0
  BY <1>1 DEF counts, Sound, NativesKept
<1>6. ActsInPhase(p)'
  BY <1>1, <1>2, <1>3, <1>5 DEF ActsInPhase, Loads, Changes, Removals
<1>7. OpFits(p)'
  BY <1>2, <1>3 DEF OpFits, Changes, Removals
<1>8. TodoFits(p)'
  BY <1>1, <1>2, <1>3, <1>4, <1>5, Apart DEF Sound, TodoFits, TypeOK
<1>9. Forgotten(p)'
  BY <1>1, <1>3, <1>5 DEF Sound, Forgotten
<1>10. Archived'
  BY <1>1, <1>2, <1>4, <1>5 DEF Sound, Forgotten, IInv, DiskInv, Archived
<1>11. Sound(p)' /\ Owner(p)
  BY <1>2, <1>5, <1>6, <1>7, <1>8, <1>9 DEF Sound, Owner
<1> QED
  BY <1>3, <1>5, <1>10, <1>11, OwnerStepKeeps

\* An unreadable record leaves with its metadata, and only from a damaged disk.
LEMMA QuarantineKeeps ==
    ASSUME IInv, NEW p \in Proc, ArchiveMeta(p) \/ MoveRecord(p)
    PROVE  ProcInv' /\ DiskInv'
<1> DEFINE t == op[p].thread
<1>1. /\ op[p].pc \in {"archive", "move"} /\ TypeOK /\ Sound(p) /\ op[p] \in Ops
      /\ UNCHANGED <<lock, phase, todo, memory, backup, meta, counts>>
  BY SoundNow DEF ArchiveMeta, MoveRecord, At, IInv, TypeOK
<1>2. t \in Thread /\ phase[p] = "loading" /\ memory[p][t] = None /\ t \notin todo[p]
  BY <1>1 DEF Sound, OpFits, ActsInPhase, Changes, Loads, TodoFits
<1>3. UNCHANGED <<damages, phase, todo, memory, meta>> /\ damages # 0 /\ Owner(p)
  BY <1>1, <1>2 DEF counts, Sound, NativesKept, Owner
<1>4. \A q \in Proc : q # p => op'[q] = op[q]
  BY <1>1 DEF ArchiveMeta, MoveRecord, Do, TypeOK
<1>5. \A u \in Thread : u # t => archive'[u] = archive[u] /\ primary'[u] = primary[u]
  BY <1>1, <1>2 DEF ArchiveMeta, MoveRecord, TypeOK
<1>6. CASE ArchiveMeta(p)
  <2>1. /\ op'[p].pc = "move" /\ op'[p].thread = t
        /\ archive'[t] = IF meta[t] = None THEN archive[t] ELSE archive[t] \cup {"meta"}
        /\ primary' = primary
    BY <1>1, <1>2, <1>6 DEF ArchiveMeta, Do, TypeOK, Ops
  <2>2. \A u \in Thread : "record" \in archive'[u] => "record" \in archive[u] /\ u # t
    BY <1>1, <1>5, <2>1 DEF Sound, Forgotten
  <2>3. ActsInPhase(p)' /\ OpFits(p)' /\ TodoFits(p)'
    BY <1>1, <1>2, <1>3, <2>1
       DEF Sound, ActsInPhase, OpFits, TodoFits, Loads, Changes, Removals
  <2>4. Forgotten(p)'
    BY <1>1, <1>3, <2>1, <2>2 DEF Sound, Forgotten
  <2>5. Archived'
    BY <1>3, <1>5, <2>1, <2>2 DEF IInv, DiskInv, Archived
  <2> QED
    BY <1>3, <1>4, <2>3, <2>4, <2>5, OwnerStepKeeps DEF Sound
<1>7. CASE MoveRecord(p)
  <2>1. /\ op'[p] = NoOp /\ primary'[t] = None /\ op[p].pc = "move"
        /\ archive'[t] = archive[t] \cup {"record"}
    BY <1>1, <1>2, <1>7 DEF MoveRecord, Do, TypeOK, At
  <2>2. ActsInPhase(p)' /\ OpFits(p)'
    BY <1>1, <1>2, <1>3, <2>1, Idleness
       DEF Sound, ActsInPhase, OpFits, Loads, Changes, Removals
  <2>3. TodoFits(p)'
    BY <1>1, <1>2, <1>3, <1>5, <2>1, Idleness DEF Sound, TodoFits, TypeOK
  <2>4. Forgotten(p)'
    BY <1>1, <1>2, <1>3, <1>5, <2>1, Idleness, Apart DEF Sound, Forgotten
  <2>5. Archived'
    BY <1>1, <1>2, <1>3, <1>5, <2>1 DEF Sound, OpFits, IInv, DiskInv, Archived
  <2> QED
    BY <1>3, <1>4, <2>2, <2>3, <2>4, <2>5, OwnerStepKeeps DEF Sound
<1> QED
  BY <1>6, <1>7

\* A Thread still creating goes on to be dropped, any other enters memory as the
\* disk has it.
LEMMA CheckKeeps ==
    ASSUME IInv, NEW p \in Proc, Check(p)
    PROVE  ProcInv' /\ DiskInv'
<1> DEFINE t == op[p].thread
<1>1. /\ op[p].pc = "check" /\ TypeOK /\ Sound(p) /\ op[p] \in Ops
      /\ UNCHANGED <<lock, phase, todo, primary, backup, archive, counts>>
  BY SoundNow DEF Check, IInv, TypeOK
<1>2. /\ t \in Thread /\ phase[p] = "loading" /\ memory[p][t] = None /\ t \notin todo[p]
      /\ op[p].next \in Record
  BY <1>1 DEF Sound, OpFits, ActsInPhase, Changes, Loads, TodoFits
<1>3. UNCHANGED <<damages, phase, todo, primary, archive>> /\ Owner(p)
  BY <1>1, <1>2 DEF counts, Owner
<1>4. \A q \in Proc : q # p => op'[q] = op[q] /\ memory'[q] = memory[q]
  BY <1>1 DEF Check, Do, TypeOK
<1>5. damages' = 0 => (\A u \in Thread : primary'[u] # Bad) /\ Distinct(primary')
  BY <1>3 DEF IInv, DiskInv
<1>6. CASE op[p].next.native = None
  <2>1. /\ op'[p].pc = "drop" /\ op'[p].thread = t
        /\ UNCHANGED <<memory, meta>>
    BY <1>1, <1>6 DEF Check, Do, TypeOK, Ops
  <2>2. ActsInPhase(p)' /\ OpFits(p)' /\ TodoFits(p)'
    BY <1>1, <1>2, <1>3, <2>1
       DEF Sound, ActsInPhase, OpFits, TodoFits, Loads, Changes, Removals
  <2>3. Forgotten(p)' /\ Archived'
    BY <1>1, <1>3, <2>1 DEF Sound, Forgotten, IInv, DiskInv, Archived
  <2>4. damages' = 0 => NativesKept(p)'
    BY <1>1, <1>2, <1>3, <2>1
       DEF Sound, NativesKept, DiskInMemory, OpIsFree, Changes, Serves
  <2> QED
    BY <1>3, <1>4, <1>5, <2>2, <2>3, <2>4, OwnerStepKeeps DEF Sound
<1>7. CASE op[p].next.native # None
  <2>1. /\ op'[p] = NoOp
        /\ meta'[t] = IF meta[t] = Bad THEN None ELSE meta[t]
        /\ \A u \in Thread : u # t => meta'[u] = meta[u] /\ memory'[p][u] = memory[p][u]
        /\ memory'[p][t] = Entry(op[p].next, meta'[t])
    BY <1>1, <1>2, <1>7 DEF Check, Do, TypeOK
  <2>2. memory'[p][t] # None /\ memory'[p][t].native = op[p].next.native
    <3>1. meta'[t] \in Revision \cup {None}
      BY <1>1, <1>2, <2>1 DEF TypeOK
    <3>2. /\ Entry(op[p].next, meta'[t]) \in Entries
          /\ Entry(op[p].next, meta'[t]).native = op[p].next.native
      BY <1>2, <3>1, Built
    <3> QED
      BY <2>1, <3>2, Apart
  <2>3. ActsInPhase(p)' /\ OpFits(p)'
    BY <1>1, <1>2, <1>3, <2>1, Idleness DEF Sound, ActsInPhase, OpFits, Loads, Changes, Removals
  <2>4. TodoFits(p)'
    BY <1>1, <1>2, <1>3, <2>1, Idleness DEF Sound, TodoFits, TypeOK
  <2>5. Forgotten(p)'
    BY <1>1, <1>2, <1>3, <2>1, Idleness, Apart DEF Sound, Forgotten
  <2>6. Archived'
    BY <1>1, <1>2, <1>3, <2>1 DEF IInv, DiskInv, Archived
  <2>7. ASSUME damages = 0 PROVE NativesKept(p)'
    <3>1. /\ \A u \in Thread \ (todo[p] \cup {t}) : SameNative(primary[u], memory[p][u])
          /\ op[p].next = primary[t]
      BY <1>1, <1>2, <2>7 DEF Sound, NativesKept, DiskInMemory
    <3>2. SameNative(primary[t], memory'[p][t])
      BY <2>2, <3>1 DEF SameNative
    <3>3. DiskInMemory(p)'
      BY <1>2, <1>3, <2>1, <3>1, <3>2, Idleness DEF DiskInMemory, Serves
    <3> QED
      BY <1>2, <1>3, <2>1, <3>3, Idleness DEF NativesKept, OpIsFree, Changes, Serves
  <2> QED
    BY <1>3, <1>4, <1>5, <2>3, <2>4, <2>5, <2>6, <2>7, OwnerStepKeeps DEF Sound
<1> QED
  BY <1>6, <1>7

\* The end of the load turns to the metadata without a record.
LEMMA EndLoadKeeps ==
    ASSUME IInv, NEW p \in Proc, EndLoad(p)
    PROVE  ProcInv' /\ DiskInv'
<1>1. /\ phase[p] = "loading" /\ op[p].pc = "idle" /\ todo[p] = {} /\ TypeOK /\ Sound(p)
      /\ UNCHANGED <<lock, memory, op, files, counts>>
  BY SoundNow DEF EndLoad, At, IInv
<1>2. /\ op[p] = NoOp /\ Owner(p)
      /\ UNCHANGED <<damages, memory, op, primary, meta, archive>>
  BY <1>1 DEF Sound, ActsInPhase, Owner, files, counts
<1>3. /\ phase'[p] = "sweeping" /\ \A q \in Proc : q # p => phase'[q] = phase[q]
      /\ \A t \in todo'[p] : t \in Thread /\ primary[t] = None
  BY <1>1 DEF EndLoad, Enter, TypeOK, Orphan
<1>4. ActsInPhase(p)' /\ OpFits(p)' /\ TodoFits(p)' /\ Forgotten(p)' /\ Archived'
  BY <1>1, <1>2, <1>3, Idleness
     DEF Sound, ActsInPhase, OpFits, TodoFits, Forgotten, Loads, Changes, Removals,
         IInv, DiskInv, Archived
<1>5. damages' = 0 => NativesKept(p)'
  BY <1>1, <1>2, <1>3, Idleness, Apart
     DEF Sound, NativesKept, DiskInMemory, OpIsFree, Changes, Serves
<1>6. damages' = 0 => (\A u \in Thread : primary'[u] # Bad) /\ Distinct(primary')
  BY <1>2 DEF IInv, DiskInv
<1> QED
  BY <1>2, <1>3, <1>4, <1>5, <1>6, OwnerStepKeeps DEF Sound

\* The sweep removes metadata of no record, or leaves it.
LEMMA SweepKeeps ==
    ASSUME IInv, NEW p \in Proc, NEW t \in Thread, Sweep(p, t) \/ SweepFails(p, t)
    PROVE  ProcInv' /\ DiskInv'
<1>1. /\ phase[p] = "sweeping" /\ t \in todo[p] /\ TypeOK /\ Sound(p)
      /\ UNCHANGED <<lock, phase, memory, op, primary, backup, archive, damages>>
  BY SoundNow DEF Sweep, SweepFails, IInv, files, counts
<1>2. /\ todo'[p] = todo[p] \ {t} /\ Owner(p) /\ op[p].pc \in Pcs
      /\ meta'[t] \in {None, meta[t]} /\ \A u \in Thread : u # t => meta'[u] = meta[u]
  BY <1>1 DEF Sweep, SweepFails, TypeOK, Owner, files, Ops
<1>3. op[p].pc = "idle"
  BY <1>1, <1>2 DEF Sound, ActsInPhase, Serves, Pcs, Loads, Changes, Removals
<1>4. ActsInPhase(p)' /\ OpFits(p)' /\ TodoFits(p)' /\ Forgotten(p)'
  BY <1>1, <1>2, <1>3 DEF Sound, ActsInPhase, OpFits, TodoFits, Forgotten, Loads, Changes, Removals
<1>5. Archived'
  BY <1>1, <1>2 DEF IInv, DiskInv, Archived
<1>6. damages' = 0 => NativesKept(p)'
  BY <1>1, <1>2, <1>3 DEF Sound, NativesKept, DiskInMemory, OpIsFree, Changes, Serves
<1>7. damages' = 0 => (\A u \in Thread : primary'[u] # Bad) /\ Distinct(primary')
  BY <1>1 DEF IInv, DiskInv
<1> QED
  BY <1>1, <1>2, <1>4, <1>5, <1>6, <1>7, OwnerStepKeeps DEF Sound

\* The store serves what it loaded, unless two records share a native Session.
LEMMA ServeKeeps ==
    ASSUME IInv, NEW p \in Proc, Serve(p)
    PROVE  ProcInv' /\ DiskInv'
<1>1. /\ phase[p] = "sweeping" /\ TypeOK /\ Sound(p) /\ op[p].pc \in Pcs
      /\ UNCHANGED <<lock, todo, op, files, counts>>
  BY SoundNow DEF Serve, IInv, TypeOK, Ops
<1>2. UNCHANGED <<files, damages, todo, op, primary, meta, archive>>
  BY <1>1 DEF files, counts
<1>3. op[p].pc = "idle" /\ op[p] = NoOp
  BY <1>1 DEF Sound, ActsInPhase, Serves, Pcs, Loads, Changes, Removals
<1>4. CASE Shared(memory[p])
  <2>1. phase'[p] = "failed" /\ memory'[p] = NoMemory
        /\ \A q \in Proc : q # p => phase'[q] = phase[q] /\ memory'[q] = memory[q]
    BY <1>1, <1>4 DEF Serve, Enter, TypeOK
  <2>2. Idle(p)'
    BY <1>2, <1>3, <2>1 DEF Idle, Active
  <2> QED
    BY <1>2, <2>1, <2>2, QuietStepKeeps
<1>5. CASE ~Shared(memory[p])
  <2>1. phase'[p] = "up" /\ memory' = memory /\ \A q \in Proc : q # p => phase'[q] = phase[q]
    BY <1>1, <1>5 DEF Serve, Enter, TypeOK
  <2>2. ActsInPhase(p)' /\ OpFits(p)' /\ TodoFits(p)' /\ Forgotten(p)' /\ Archived'
    BY <1>1, <1>2, <1>3, <2>1, Idleness
       DEF Sound, ActsInPhase, OpFits, TodoFits, Forgotten, Loads, Changes, Removals,
           IInv, DiskInv, Archived
  <2>3. Distinct(memory[p])
    BY <1>5 DEF Shared, Distinct
  <2>4. damages' = 0 => NativesKept(p)'
    BY <1>1, <1>2, <1>3, <2>1, <2>3
       DEF Sound, NativesKept, DiskInMemory, OpIsFree, Changes, Serves
  <2>5. damages' = 0 => (\A u \in Thread : primary'[u] # Bad) /\ Distinct(primary')
    BY <1>2 DEF IInv, DiskInv
  <2>6. Owner(p)
    BY <1>1 DEF Owner
  <2> QED
    BY <1>2, <2>1, <2>2, <2>4, <2>5, <2>6, OwnerStepKeeps DEF Sound
<1> QED
  BY <1>4, <1>5

\* A process with an operation owns the store; what it loads is not in memory.
LEMMA AtWork ==
    ASSUME IInv, NEW p \in Proc, op[p].pc # "idle"
    PROVE  /\ TypeOK /\ Sound(p) /\ Owner(p) /\ op[p] \in Ops /\ op[p].thread \in Thread
           /\ op[p].pc \in Loads =>
                 /\ phase[p] = "loading" /\ memory[p][op[p].thread] = None
                 /\ op[p].thread \notin todo[p]
           /\ op[p].pc \in Changes \cup Removals => Serves(p)
<1>1. TypeOK /\ Sound(p) /\ op[p] \in Ops
  BY SoundNow DEF IInv, TypeOK
<1>2. op[p].pc \in Loads \cup Changes \cup Removals
  BY <1>1 DEF Ops, Pcs, Loads, Changes, Removals
<1> QED
  BY <1>1, <1>2 DEF Sound, ActsInPhase, OpFits, TodoFits, Owner, Serves

\* The record of a Thread that is removed leaves the disk first.
LEMMA RemoveRecordKeeps ==
    ASSUME IInv, NEW p \in Proc, RemoveRecord(p)
    PROVE  ProcInv' /\ DiskInv'
<1> DEFINE t == op[p].thread
<1>1. /\ op[p].pc \in {"rm", "drop"} /\ TypeOK /\ Sound(p) /\ op[p] \in Ops
      /\ Owner(p) /\ t \in Thread
      /\ op[p].pc = "drop" => phase[p] = "loading" /\ memory[p][t] = None /\ t \notin todo[p]
      /\ op[p].pc = "rm" => Serves(p)
  BY AtWork DEF RemoveRecord, Unlinking, Loads, Removals
<1>2. UNCHANGED <<damages, phase, todo, memory, meta, archive>>
  BY DEF RemoveRecord, counts
<1>3. /\ op'[p].pc = IF op[p].pc = "rm" THEN "rmBackup" ELSE "dropBackup"
      /\ op'[p].thread = t
      /\ \A q \in Proc : q # p => op'[q] = op[q]
  BY <1>1 DEF RemoveRecord, Do, TypeOK, Ops
<1>4. primary'[t] = None /\ \A u \in Thread : u # t => primary'[u] = primary[u]
  BY <1>1 DEF RemoveRecord, TypeOK
<1>5. ActsInPhase(p)'
  BY <1>1, <1>2, <1>3 DEF Sound, ActsInPhase, Serves, Loads, Changes, Removals
<1>6. OpFits(p)'
  BY <1>1, <1>2, <1>3, <1>4 DEF Sound, OpFits, Changes, Removals
<1>7. TodoFits(p)'
  BY <1>1, <1>2, <1>3, <1>4 DEF Sound, TodoFits, TypeOK, Serves
<1>8. Forgotten(p)' /\ Archived'
  BY <1>1, <1>2, <1>3, <1>4 DEF Sound, Forgotten, IInv, DiskInv, Archived
<1>9. ASSUME damages = 0 PROVE NativesKept(p)'
  <2>1. DiskInMemory(p)'
    BY <1>1, <1>2, <1>3, <1>4, <1>9 DEF Sound, NativesKept, DiskInMemory, Serves, SameNative
  <2> QED
    BY <1>1, <1>2, <1>3, <1>9, <2>1 DEF Sound, NativesKept, OpIsFree, Changes, Serves
<1>10. damages' = 0 => (\A u \in Thread : primary'[u] # Bad) /\ Distinct(primary')
  BY <1>1, <1>2, <1>4, Apart DEF IInv, DiskInv, Distinct
<1> QED
  BY <1>1, <1>2, <1>3, <1>5, <1>6, <1>7, <1>8, <1>9, <1>10, OwnerStepKeeps DEF Sound

\* Its backup follows.
LEMMA RemoveBackupKeeps ==
    ASSUME IInv, NEW p \in Proc, RemoveBackup(p)
    PROVE  ProcInv' /\ DiskInv'
<1> DEFINE t == op[p].thread
<1>1. /\ op[p].pc \in {"rmBackup", "dropBackup"} /\ TypeOK /\ Sound(p) /\ op[p] \in Ops
      /\ Owner(p) /\ t \in Thread
      /\ op[p].pc = "dropBackup" => phase[p] = "loading" /\ memory[p][t] = None /\ t \notin todo[p]
      /\ op[p].pc = "rmBackup" => Serves(p)
  BY AtWork DEF RemoveBackup, Loads, Removals
<1>2. UNCHANGED <<damages, phase, todo, memory, primary, meta, archive>>
  BY DEF RemoveBackup, counts
<1>3. /\ op'[p].pc = IF op[p].pc = "rmBackup" THEN "rmMeta" ELSE "dropMeta"
      /\ op'[p].thread = t
      /\ \A q \in Proc : q # p => op'[q] = op[q]
  BY <1>1 DEF RemoveBackup, Do, TypeOK, Ops
<1>4. ActsInPhase(p)'
  BY <1>1, <1>2, <1>3 DEF Sound, ActsInPhase, Serves, Loads, Changes, Removals
<1>5. OpFits(p)' /\ TodoFits(p)'
  BY <1>1, <1>2, <1>3 DEF Sound, OpFits, TodoFits, Changes, Removals, Serves
<1>6. Forgotten(p)' /\ Archived'
  BY <1>1, <1>2, <1>3 DEF Sound, Forgotten, IInv, DiskInv, Archived
<1>7. damages' = 0 => NativesKept(p)'
  BY <1>1, <1>2, <1>3 DEF Sound, NativesKept, DiskInMemory, Serves, OpIsFree, Changes
<1>8. damages' = 0 => (\A u \in Thread : primary'[u] # Bad) /\ Distinct(primary')
  BY <1>2 DEF IInv, DiskInv
<1> QED
  BY <1>1, <1>2, <1>3, <1>4, <1>5, <1>6, <1>7, <1>8, OwnerStepKeeps DEF Sound

\* Its metadata comes last, and then the memory.
LEMMA RemoveMetaKeeps ==
    ASSUME IInv, NEW p \in Proc, RemoveMeta(p)
    PROVE  ProcInv' /\ DiskInv'
<1> DEFINE t == op[p].thread
<1>1. /\ op[p].pc \in {"rmMeta", "dropMeta"} /\ TypeOK /\ Sound(p) /\ op[p] \in Ops
      /\ Owner(p) /\ t \in Thread
      /\ op[p].pc = "dropMeta" => phase[p] = "loading" /\ memory[p][t] = None /\ t \notin todo[p]
      /\ op[p].pc = "rmMeta" => Serves(p)
  BY AtWork DEF RemoveMeta, Loads, Removals
<1>2. UNCHANGED <<damages, phase, todo, primary, archive>> /\ primary[t] = None
  BY <1>1 DEF RemoveMeta, counts, Sound, OpFits
<1>3. op'[p] = NoOp /\ \A q \in Proc : q # p => op'[q] = op[q] /\ memory'[q] = memory[q]
  BY <1>1 DEF RemoveMeta, Do, TypeOK
<1>4. /\ meta'[t] = None /\ memory'[p][t] = None
      /\ \A u \in Thread : u # t => meta'[u] = meta[u] /\ memory'[p][u] = memory[p][u]
  BY <1>1 DEF RemoveMeta, TypeOK
<1>5. ActsInPhase(p)' /\ OpFits(p)'
  BY <1>1, <1>2, <1>3, Idleness DEF Sound, ActsInPhase, OpFits, Serves, Loads, Changes, Removals
<1>6. TodoFits(p)'
  BY <1>1, <1>2, <1>3, <1>4, Idleness DEF Sound, TodoFits, TypeOK, Serves
<1>7. Forgotten(p)' /\ Archived'
  BY <1>1, <1>2, <1>3, <1>4, Idleness, Apart DEF Sound, Forgotten, IInv, DiskInv, Archived
<1>8. ASSUME damages = 0 PROVE NativesKept(p)'
  <2>1. DiskInMemory(p)'
    BY <1>1, <1>2, <1>3, <1>4, <1>8, Idleness
       DEF Sound, NativesKept, DiskInMemory, Serves, SameNative
  <2>2. Serves(p)' => Distinct(memory[p])'
    BY <1>1, <1>2, <1>4, <1>8 DEF Sound, NativesKept, Serves, Distinct
  <2> QED
    BY <1>3, <2>1, <2>2, Idleness DEF NativesKept, OpIsFree, Changes
<1>9. damages' = 0 => (\A u \in Thread : primary'[u] # Bad) /\ Distinct(primary')
  BY <1>2 DEF IInv, DiskInv
<1> QED
  BY <1>1, <1>2, <1>3, <1>5, <1>6, <1>7, <1>8, <1>9, OwnerStepKeeps DEF Sound

\* A record that is put back is the one in memory, where native Sessions are distinct.
LEMMA PutBackKeeps ==
    ASSUME IInv, NEW p \in Proc, PutBack(p)
    PROVE  ProcInv' /\ DiskInv'
<1> DEFINE t == op[p].thread
<1>1. /\ op[p].pc \in {"putBack", "undo"} /\ TypeOK /\ Sound(p) /\ op[p] \in Ops
      /\ Owner(p) /\ t \in Thread /\ Serves(p)
  BY AtWork DEF PutBack, Changes, Removals
<1>2. memory[p][t] # None /\ memory[p][t] \in Entries
  BY <1>1 DEF Sound, OpFits, Changes, Removals, TypeOK
<1>3. UNCHANGED <<damages, phase, todo, memory, meta, archive>>
  BY DEF PutBack, counts
<1>4. op'[p] = NoOp /\ \A q \in Proc : q # p => op'[q] = op[q]
  BY <1>1 DEF PutBack, Do, TypeOK
<1>5. /\ primary'[t] = Of(memory[p][t]) /\ \A u \in Thread : u # t => primary'[u] = primary[u]
  BY <1>1 DEF PutBack, TypeOK
<1>6. primary'[t] \in Record /\ primary'[t].native = memory[p][t].native
  BY <1>2, <1>5, Built
<1>7. ActsInPhase(p)' /\ OpFits(p)' /\ TodoFits(p)'
  BY <1>1, <1>3, <1>4, Idleness
     DEF Sound, ActsInPhase, OpFits, TodoFits, Serves, Loads, Changes, Removals
<1>8. Forgotten(p)' /\ Archived'
  BY <1>1, <1>2, <1>3, <1>4, <1>5, Idleness, Apart DEF Sound, Forgotten, IInv, DiskInv, Archived
<1>9. ASSUME damages = 0 PROVE NativesKept(p)'
  <2>1. DiskInMemory(p)'
    BY <1>1, <1>2, <1>3, <1>4, <1>5, <1>6, <1>9, Idleness
       DEF Sound, NativesKept, DiskInMemory, Serves, SameNative
  <2> QED
    BY <1>1, <1>3, <1>4, <1>9, <2>1, Idleness DEF Sound, NativesKept, Serves, OpIsFree, Changes
<1>10. ASSUME damages = 0 PROVE (\A u \in Thread : primary'[u] # Bad) /\ Distinct(primary')
  <2>1. Distinct(memory[p]) /\ \A u \in Thread : SameNative(primary[u], memory[p][u])
    BY <1>1, <1>10 DEF Sound, NativesKept, DiskInMemory
  <2>2. \A u \in Thread : SameNative(primary'[u], memory[p][u])
    BY <1>2, <1>5, <1>6, <2>1 DEF SameNative
  <2>3. Distinct(primary')
    BY <2>1, <2>2 DEF Distinct, SameNative
  <2> QED
    BY <1>5, <1>6, <1>10, <2>3, Apart DEF IInv, DiskInv
<1> QED
  BY <1>1, <1>3, <1>4, <1>7, <1>8, <1>9, <1>10, OwnerStepKeeps DEF Sound

\* A request that the memory allows starts its operation.
LEMMA RequestStarts ==
    ASSUME IInv, NEW p \in Proc, NEW t \in Thread, NEW o \in Ops, Request(p, o),
           o.thread = t, o.pc \in {"replace", "backup", "rm"}, "record" \notin archive[t],
           o.pc = "rm" => memory[p][t] # None,
           o.pc # "rm" => o.next \in Record,
           damages = 0 /\ o.pc # "rm" =>
              /\ o.next.native = None \/ Free(p, t, o.next.native)
              /\ memory[p][t] # None => o.next.native = memory[p][t].native \/ memory[p][t].meta = o.meta
    PROVE  ProcInv' /\ DiskInv'
<1>1. /\ phase[p] = "up" /\ op[p].pc = "idle" /\ TypeOK /\ Sound(p)
      /\ UNCHANGED <<lock, phase, todo, memory, files, counts>>
  BY SoundNow DEF IInv, Request, Ready, At
<1>2. UNCHANGED <<damages, phase, todo, memory, primary, meta, archive>>
  BY <1>1 DEF files, counts
<1>3. op'[p] = o /\ Owner(p) /\ \A q \in Proc : q # p => op'[q] = op[q]
  BY <1>1 DEF Request, Do, TypeOK, Owner
<1>4. ActsInPhase(p)' /\ OpFits(p)' /\ TodoFits(p)'
  BY <1>1, <1>2, <1>3 DEF Sound, ActsInPhase, OpFits, TodoFits, Serves, Loads, Changes, Removals
<1>5. Forgotten(p)' /\ Archived'
  BY <1>1, <1>2, <1>3 DEF Sound, Forgotten, IInv, DiskInv, Archived
<1>6. ASSUME damages = 0 PROVE NativesKept(p)'
  <2>1. OpIsFree(p)'
    BY <1>2, <1>3, <1>6 DEF OpIsFree, Changes, Free
  <2> QED
    BY <1>1, <1>2, <1>3, <1>6, <2>1 DEF Sound, NativesKept, DiskInMemory, Serves
<1>7. damages' = 0 => (\A u \in Thread : primary'[u] # Bad) /\ Distinct(primary')
  BY <1>2 DEF IInv, DiskInv
<1> QED
  BY <1>2, <1>3, <1>4, <1>5, <1>6, <1>7, OwnerStepKeeps DEF Sound

\* A native Session that is free, or already the Thread's, belongs to no other.
LEMMA RequestsKeep ==
    ASSUME IInv, NEW p \in Proc, NEW t \in Thread, Requests(p, t)
    PROVE  ProcInv' /\ DiskInv'
<1> DEFINE e == memory[p][t]
<1>a. TypeOK /\ Sound(p) /\ {"replace", "backup", "rm"} \subseteq Pcs
  BY SoundNow DEF IInv, Pcs
<1>b. phase[p] = "up"
  BY DEF Requests, CreateProvisional, Revise, RemoveThread, SetNative, UpdateMetadata, Request, Ready
<1>c. e # None => /\ e \in Entries /\ e.native \in Native \cup {None} /\ e.rev \in Revision
                  /\ e.meta \in Revision \cup {None} /\ "record" \notin archive[t]
  BY <1>a DEF TypeOK, Entries, Sound, Forgotten
<1>d. damages = 0 /\ e # None => e.native = None \/ Free(p, t, e.native)
  BY <1>a, <1>b DEF Sound, NativesKept, Serves, Distinct, Free
<1>e. \A v \in Revision : v < MaxRevision => v + 1 \in Revision
  BY StoreAssumption DEF Revision
<1>1. CASE CreateProvisional(p, t)
  <2> DEFINE o == Op("replace", t, Rec(None, 1), None)
  <2>1. o \in Ops /\ o.thread = t /\ o.pc = "replace" /\ o.next = Rec(None, 1)
    BY <1>a, Apart, Built DEF Op
  <2>2. o.next \in Record /\ o.next.native = None
    BY <2>1, Apart, Built
  <2>3. Request(p, o) /\ "record" \notin archive[t] /\ e = None
    BY <1>1 DEF CreateProvisional, Unused
  <2> HIDE DEF o
  <2> QED
    BY <2>1, <2>2, <2>3, RequestStarts
<1>2. ASSUME NEW n \in Native \cup {None}, NEW m \in Revision \cup {None},
             e # None, e.rev < MaxRevision, Request(p, Op("backup", t, Rec(n, e.rev + 1), m)),
             damages = 0 => n = None \/ Free(p, t, n),
             n = e.native \/ m = e.meta
      PROVE  ProcInv' /\ DiskInv'
  <2> DEFINE r == Rec(n, e.rev + 1)
             o == Op("backup", t, r, m)
  <2>1. r \in Record /\ r.native = n
    BY <1>c, <1>e, <1>2, Built
  <2>2. o \in Ops
    BY <1>a, <2>1, Built
  <2>3. o.thread = t /\ o.pc = "backup" /\ o.next = r /\ o.meta = m
    BY DEF Op
  <2>4. Request(p, o) /\ "record" \notin archive[t]
    BY <1>c, <1>2
  <2>5. damages = 0 => /\ o.next.native = None \/ Free(p, t, o.next.native)
                       /\ o.next.native = e.native \/ e.meta = o.meta
    BY <1>2, <2>1, <2>3
  <2> HIDE DEF o, r
  <2> QED
    BY <2>1, <2>2, <2>3, <2>4, <2>5, RequestStarts
<1>3. CASE Revise(p, t)
  BY <1>c, <1>d, <1>2, <1>3 DEF Revise
<1>4. ASSUME NEW n \in Native, SetNative(p, t, n) PROVE ProcInv' /\ DiskInv'
  BY <1>c, <1>2, <1>4 DEF SetNative
<1>5. ASSUME NEW m \in Revision \cup {None}, UpdateMetadata(p, t, m) PROVE ProcInv' /\ DiskInv'
  BY <1>c, <1>d, <1>2, <1>5 DEF UpdateMetadata
<1>6. CASE RemoveThread(p, t)
  <2> DEFINE o == Op("rm", t, None, None)
  <2>1. o \in Ops /\ o.thread = t /\ o.pc = "rm"
    BY <1>a, Built DEF Op
  <2>2. Request(p, o) /\ "record" \notin archive[t] /\ e # None
    BY <1>c, <1>6 DEF RemoveThread
  <2> HIDE DEF o
  <2> QED
    BY <2>1, <2>2, RequestStarts
<1> QED
  BY <1>1, <1>3, <1>4, <1>5, <1>6 DEF Requests

\* The backup is copied while the record stays as it is.
LEMMA CopyKeeps ==
    ASSUME IInv, NEW p \in Proc, Backup(p) \/ Copied(p)
    PROVE  ProcInv' /\ DiskInv'
<1> DEFINE t == op[p].thread
<1>1. /\ op[p].pc \in {"backup", "copying"} /\ TypeOK /\ Sound(p) /\ op[p] \in Ops
      /\ Owner(p) /\ t \in Thread /\ Serves(p)
  BY AtWork DEF Backup, Copied, At, Changes
<1>2. UNCHANGED <<damages, phase, todo, memory, primary, meta, archive>>
  BY DEF Backup, Copied, counts
<1>3. /\ op'[p].pc \in {"copying", "replace"}
      /\ op'[p].thread = t /\ op'[p].next = op[p].next /\ op'[p].meta = op[p].meta
      /\ \A q \in Proc : q # p => op'[q] = op[q]
  <2>1. \E pc \in {"copying", "replace"} : op' = [op EXCEPT ![p] = [op[p] EXCEPT !.pc = pc]]
    BY DEF Backup, Copied, Do
  <2> QED
    BY <1>1, <2>1 DEF TypeOK, Ops
<1>4. ActsInPhase(p)' /\ OpFits(p)' /\ TodoFits(p)'
  BY <1>1, <1>2, <1>3 DEF Sound, ActsInPhase, OpFits, TodoFits, Serves, Loads, Changes, Removals
<1>5. Forgotten(p)' /\ Archived'
  BY <1>1, <1>2, <1>3 DEF Sound, Forgotten, IInv, DiskInv, Archived
<1>6. ASSUME damages = 0 PROVE NativesKept(p)'
  <2>1. OpIsFree(p)'
    BY <1>1, <1>2, <1>3, <1>6 DEF Sound, NativesKept, OpIsFree, Changes, Free
  <2> QED
    BY <1>1, <1>2, <1>3, <1>6, <2>1 DEF Sound, NativesKept, DiskInMemory, Serves
<1>7. damages' = 0 => (\A u \in Thread : primary'[u] # Bad) /\ Distinct(primary')
  BY <1>2 DEF IInv, DiskInv
<1> QED
  BY <1>1, <1>2, <1>3, <1>4, <1>5, <1>6, <1>7, OwnerStepKeeps DEF Sound

\* A record that replaces another has a native Session no other Thread has, on
\* the disk as in memory.
LEMMA RenameKeeps ==
    ASSUME IInv, NEW p \in Proc, Rename(p)
    PROVE  ProcInv' /\ DiskInv'
<1> DEFINE t == op[p].thread
           e == memory[p][t]
           r == op[p].next
<1>1. /\ op[p].pc = "replace" /\ TypeOK /\ Sound(p) /\ op[p] \in Ops
      /\ Owner(p) /\ t \in Thread /\ Serves(p)
  BY AtWork DEF Rename, Changes
<1>2. r \in Record /\ op[p].meta \in Revision \cup {None} /\ "record" \notin archive[t]
  BY <1>1 DEF Sound, OpFits, Forgotten, Changes, Ops
<1>3. UNCHANGED <<damages, phase, todo, meta, archive>>
  BY DEF Rename, counts
<1>4. primary'[t] = r /\ \A u \in Thread : u # t => primary'[u] = primary[u]
  BY <1>1 DEF Rename, TypeOK
<1>5. damages = 0 => /\ Distinct(memory[p])
                     /\ \A u \in Thread : SameNative(primary[u], memory[p][u])
                     /\ r.native = None \/ Free(p, t, r.native)
                     /\ e # None /\ e.meta # op[p].meta => r.native = e.native
  BY <1>1 DEF Sound, NativesKept, DiskInMemory, OpIsFree, Changes
<1>6. damages' = 0 => (\A u \in Thread : primary'[u] # Bad) /\ Distinct(primary')
  <2>1. SUFFICES ASSUME damages = 0 PROVE (\A u \in Thread : primary'[u] # Bad) /\ Distinct(primary')
    BY <1>3
  <2>2. \A u \in Thread \ {t} : primary[u] # None /\ r.native = primary[u].native => r.native = None
    BY <1>1, <1>5, <2>1 DEF SameNative, Free
  <2>3. Distinct(primary) /\ \A u \in Thread : primary[u] # Bad
    BY <2>1 DEF IInv, DiskInv
  <2>4. Distinct(primary')
    BY <1>4, <2>2, <2>3 DEF Distinct
  <2> QED
    BY <1>2, <1>4, <2>3, <2>4, Apart
<1>7. Archived'
  BY <1>2, <1>3, <1>4 DEF IInv, DiskInv, Archived
<1>8. CASE e # None /\ e.meta # op[p].meta
  <2>1. /\ op'[p].pc = "meta" /\ op'[p].thread = t /\ op'[p].next = r /\ op'[p].meta = op[p].meta
        /\ memory' = memory /\ \A q \in Proc : q # p => op'[q] = op[q]
    BY <1>1, <1>8 DEF Rename, Do, TypeOK, Ops
  <2>2. ActsInPhase(p)' /\ OpFits(p)' /\ TodoFits(p)'
    BY <1>1, <1>2, <1>3, <1>8, <2>1
       DEF Sound, ActsInPhase, OpFits, TodoFits, Serves, Loads, Changes, Removals
  <2>3. Forgotten(p)'
    BY <1>1, <1>3, <2>1 DEF Sound, Forgotten
  <2>4. ASSUME damages = 0 PROVE NativesKept(p)'
    <3>1. OpIsFree(p)'
      BY <1>5, <1>8, <2>1, <2>4 DEF OpIsFree, Changes, Free
    <3>2. DiskInMemory(p)'
      BY <1>1, <1>3, <1>4, <1>5, <1>8, <2>1, <2>4 DEF DiskInMemory, Serves, SameNative
    <3> QED
      BY <1>5, <2>1, <2>4, <3>1, <3>2 DEF NativesKept
  <2> QED
    BY <1>1, <1>3, <1>6, <1>7, <2>1, <2>2, <2>3, <2>4, OwnerStepKeeps DEF Sound
<1>9. CASE ~(e # None /\ e.meta # op[p].meta)
  <2>1. /\ op'[p] = NoOp /\ memory'[p][t] = Entry(r, op[p].meta)
        /\ \A u \in Thread : u # t => memory'[p][u] = memory[p][u]
        /\ \A q \in Proc : q # p => op'[q] = op[q] /\ memory'[q] = memory[q]
    BY <1>1, <1>9 DEF Rename, Do, TypeOK
  <2>2. memory'[p][t] # None /\ memory'[p][t].native = r.native
    <3>1. Entry(r, op[p].meta) \in Entries /\ Entry(r, op[p].meta).native = r.native
      BY <1>2, Built
    <3> QED
      BY <2>1, <3>1, Apart
  <2>3. ActsInPhase(p)' /\ OpFits(p)' /\ TodoFits(p)'
    BY <1>1, <1>3, <2>1, Idleness
       DEF Sound, ActsInPhase, OpFits, TodoFits, Serves, Loads, Changes, Removals
  <2>4. Forgotten(p)'
    BY <1>1, <1>2, <1>3, <2>1, Idleness, Apart DEF Sound, Forgotten
  <2>5. ASSUME damages = 0 PROVE NativesKept(p)'
    <3>1. DiskInMemory(p)'
      BY <1>1, <1>3, <1>4, <1>5, <2>1, <2>2, <2>5, Idleness DEF DiskInMemory, Serves, SameNative
    <3>2. Distinct(memory'[p])
      BY <1>5, <2>1, <2>2, <2>5 DEF Distinct, Free
    <3> QED
      BY <2>1, <3>1, <3>2, Idleness DEF NativesKept, OpIsFree, Changes
  <2> QED
    BY <1>1, <1>3, <1>6, <1>7, <2>1, <2>3, <2>4, <2>5, OwnerStepKeeps DEF Sound
<1> QED
  BY <1>8, <1>9

\* Metadata that is written leaves the native Session as it was.
LEMMA WriteMetaKeeps ==
    ASSUME IInv, NEW p \in Proc, WriteMeta(p)
    PROVE  ProcInv' /\ DiskInv'
<1> DEFINE t == op[p].thread
           e == memory[p][t]
           r == op[p].next
<1>1. /\ op[p].pc = "meta" /\ TypeOK /\ Sound(p) /\ op[p] \in Ops
      /\ Owner(p) /\ t \in Thread /\ Serves(p)
  BY AtWork DEF WriteMeta, Changes
<1>2. /\ r \in Record /\ op[p].meta \in Revision \cup {None} /\ "record" \notin archive[t]
      /\ e # None
  BY <1>1 DEF Sound, OpFits, Forgotten, Changes, Ops
<1>3. UNCHANGED <<damages, phase, todo, primary, archive>>
  BY DEF WriteMeta, counts
<1>4. /\ op'[p] = NoOp /\ memory'[p][t] = Entry(r, op[p].meta)
      /\ \A u \in Thread : u # t => memory'[p][u] = memory[p][u] /\ meta'[u] = meta[u]
      /\ \A q \in Proc : q # p => op'[q] = op[q] /\ memory'[q] = memory[q]
  BY <1>1 DEF WriteMeta, Do, TypeOK
<1>5. memory'[p][t] # None /\ memory'[p][t].native = r.native
  <2>1. Entry(r, op[p].meta) \in Entries /\ Entry(r, op[p].meta).native = r.native
    BY <1>2, Built
  <2> QED
    BY <1>4, <2>1, Apart
<1>6. ActsInPhase(p)' /\ OpFits(p)' /\ TodoFits(p)'
  BY <1>1, <1>3, <1>4, Idleness
     DEF Sound, ActsInPhase, OpFits, TodoFits, Serves, Loads, Changes, Removals
<1>7. Forgotten(p)' /\ Archived'
  BY <1>1, <1>2, <1>3, <1>4, Idleness, Apart DEF Sound, Forgotten, IInv, DiskInv, Archived
<1>8. ASSUME damages = 0 PROVE NativesKept(p)'
  <2>1. /\ Distinct(memory[p]) /\ \A u \in Thread : SameNative(primary[u], memory[p][u])
        /\ r.native = e.native
    BY <1>1, <1>8 DEF Sound, NativesKept, DiskInMemory, OpIsFree, Changes
  <2>2. DiskInMemory(p)'
    BY <1>1, <1>3, <1>4, <1>5, <2>1, Idleness DEF DiskInMemory, Serves, SameNative
  <2>3. Distinct(memory'[p])
    BY <1>2, <1>4, <1>5, <2>1 DEF Distinct
  <2> QED
    BY <1>4, <2>2, <2>3, Idleness DEF NativesKept, OpIsFree, Changes
<1>9. damages' = 0 => (\A u \in Thread : primary'[u] # Bad) /\ Distinct(primary')
  BY <1>3 DEF IInv, DiskInv
<1> QED
  BY <1>1, <1>3, <1>4, <1>6, <1>7, <1>8, <1>9, OwnerStepKeeps DEF Sound

\* A close waits for the operation under way.
LEMMA CloseKeeps ==
    ASSUME IInv, NEW p \in Proc, Close(p)
    PROVE  ProcInv' /\ DiskInv'
<1>1. /\ phase[p] = "up" /\ TypeOK /\ Sound(p) /\ Owner(p)
      /\ UNCHANGED <<lock, todo, memory, op, files, counts>>
  BY SoundNow DEF Close, IInv, Owner
<1>2. UNCHANGED <<damages, todo, memory, op, primary, meta, archive>>
  BY <1>1 DEF files, counts
<1>3. phase'[p] = "closing" /\ \A q \in Proc : q # p => phase'[q] = phase[q]
  BY <1>1 DEF Close, Enter, TypeOK
<1>4. ActsInPhase(p)' /\ OpFits(p)' /\ TodoFits(p)' /\ Forgotten(p)' /\ Archived'
  BY <1>1, <1>2, <1>3
     DEF Sound, ActsInPhase, OpFits, TodoFits, Forgotten, Serves, Loads, Changes, Removals,
         IInv, DiskInv, Archived
<1>5. damages' = 0 => NativesKept(p)'
  BY <1>1, <1>2, <1>3 DEF Sound, NativesKept, DiskInMemory, Serves, OpIsFree, Free
<1>6. damages' = 0 => (\A u \in Thread : primary'[u] # Bad) /\ Distinct(primary')
  BY <1>2 DEF IInv, DiskInv
<1> QED
  BY <1>1, <1>2, <1>3, <1>4, <1>5, <1>6, OwnerStepKeeps DEF Sound

\* A process that closes or dies becomes idle.
LEMMA LeavingKeeps ==
    ASSUME IInv, NEW p \in Proc, Closed(p) \/ Crash(p)
    PROVE  ProcInv' /\ DiskInv'
<1>1. TypeOK /\ Sound(p) /\ UNCHANGED <<files, damages>>
  BY SoundNow DEF IInv, Closed, Crash, counts
<1>2. /\ phase'[p] = "down" /\ memory'[p] = NoMemory /\ op'[p] = NoOp
      /\ \A q \in Proc : q # p => /\ phase'[q] = phase[q] /\ op'[q] = op[q]
                                 /\ memory'[q] = memory[q] /\ todo'[q] = todo[q]
  BY <1>1 DEF Closed, Crash, Enter, Do, At, TypeOK, Sound, ActsInPhase
<1>3. Idle(p)'
  BY <1>2 DEF Idle, Active
<1> QED
  BY <1>1, <1>2, <1>3, QuietStepKeeps

\* A failed system call stops the start, ends the operation or turns to what
\* undoes it; the disk is as it was.
LEMMA FailsKeeps ==
    ASSUME IInv, NEW p \in Proc, Fails(p)
    PROVE  ProcInv' /\ DiskInv'
<1> DEFINE t == op[p].thread
<1>0. CASE op[p].pc = "idle"
  <2>1. Sound(p) /\ TypeOK /\ UNCHANGED <<files, damages, phase, memory, todo>>
    BY <1>0, SoundNow DEF IInv, Fails, StopsStart
  <2>2. op' = [op EXCEPT ![p] = NoOp] /\ op[p] = NoOp
    BY <1>0, <2>1 DEF Fails, StopsStart, AfterFailure, Do, Sound, ActsInPhase
  <2> QED
    BY <2>1, <2>2, QuietStepKeeps DEF TypeOK
<1> SUFFICES ASSUME op[p].pc # "idle" PROVE ProcInv' /\ DiskInv'
  BY <1>0
<1>1. /\ TypeOK /\ Sound(p) /\ op[p] \in Ops /\ Owner(p) /\ t \in Thread
      /\ op[p].pc \in Loads =>
            phase[p] = "loading" /\ memory[p][t] = None /\ t \notin todo[p]
      /\ op[p].pc \in Changes \cup Removals => Serves(p)
      /\ UNCHANGED <<lock, files, damages>>
  BY AtWork DEF Fails
<1>2. UNCHANGED <<primary, meta, archive>>
  BY <1>1 DEF files
<1>3. CASE StopsStart(op[p].pc)
  <2>1. /\ phase'[p] = "failed" /\ memory'[p] = NoMemory /\ op'[p] = NoOp
        /\ \A q \in Proc : q # p => /\ phase'[q] = phase[q] /\ op'[q] = op[q]
                                   /\ memory'[q] = memory[q] /\ todo'[q] = todo[q]
    BY <1>1, <1>3 DEF Fails, Enter, Do, TypeOK
  <2>2. Idle(p)'
    BY <2>1 DEF Idle, Active
  <2> QED
    BY <1>1, <2>1, <2>2, QuietStepKeeps
<1>4. CASE ~StopsStart(op[p].pc)
  <2>1. UNCHANGED <<phase, memory, todo>> /\ \A q \in Proc : q # p => op'[q] = op[q]
    BY <1>1, <1>4 DEF Fails, Do, TypeOK
  <2>2. \/ op'[p] = NoOp /\ (op[p].pc \in {"archive", "move"} \/ op[p].pc \notin Loads)
        \/ /\ op'[p] = [op[p] EXCEPT !.pc = AfterFailure(op[p].pc)]
           /\ op[p].pc \in {"rmBackup", "rmMeta", "meta", "restore"}
    BY <1>1, <1>4 DEF Fails, Do, TypeOK, AfterFailure, StopsStart, Loads
  <2>3. Archived'
    BY <1>2 DEF IInv, DiskInv, Archived
  <2>4. damages' = 0 => (\A u \in Thread : primary'[u] # Bad) /\ Distinct(primary')
    BY <1>1, <1>2 DEF IInv, DiskInv
  <2>5. CASE op'[p] = NoOp /\ (op[p].pc \in {"archive", "move"} \/ op[p].pc \notin Loads)
    <3>1. ActsInPhase(p)' /\ OpFits(p)' /\ TodoFits(p)'
      BY <1>1, <1>2, <2>1, <2>5, Idleness
         DEF Sound, ActsInPhase, OpFits, TodoFits, Serves, Loads, Changes, Removals
    <3>2. Forgotten(p)'
      BY <1>1, <1>2, <2>1, <2>5, Idleness, Apart DEF Sound, Forgotten
    <3>3. damages' = 0 => NativesKept(p)'
      <4>1. SUFFICES ASSUME damages = 0 PROVE NativesKept(p)'
        BY <1>1
      <4>2. op[p].pc \notin Loads /\ Serves(p)
        BY <1>1, <2>5, <4>1 DEF Sound, NativesKept, Ops, Pcs, Loads, Changes, Removals,
           Fails
      <4> QED
        BY <1>1, <1>2, <2>1, <2>5, <4>1, <4>2, Idleness
           DEF Sound, NativesKept, DiskInMemory, Serves, OpIsFree, Changes
    <3> QED
      BY <1>1, <2>1, <2>3, <2>4, <3>1, <3>2, <3>3, OwnerStepKeeps DEF Sound
  <2>6. CASE /\ op'[p] = [op[p] EXCEPT !.pc = AfterFailure(op[p].pc)]
             /\ op[p].pc \in {"rmBackup", "rmMeta", "meta", "restore"}
    <3>1. /\ op'[p].pc = IF op[p].pc = "meta" THEN "undo"
                         ELSE IF op[p].pc = "restore" THEN "archive" ELSE "putBack"
          /\ op'[p].thread = t /\ op'[p].next = op[p].next /\ op'[p].meta = op[p].meta
      BY <1>1, <2>6 DEF AfterFailure, Ops
    <3>2. ActsInPhase(p)' /\ OpFits(p)' /\ TodoFits(p)'
      BY <1>1, <1>2, <2>1, <2>6, <3>1
         DEF Sound, ActsInPhase, OpFits, TodoFits, Serves, Loads, Changes, Removals
    <3>3. Forgotten(p)'
      BY <1>1, <1>2, <2>1, <3>1 DEF Sound, Forgotten
    <3>4. damages' = 0 => NativesKept(p)'
      <4>1. SUFFICES ASSUME damages = 0 PROVE NativesKept(p)'
        BY <1>1
      <4>2. op[p].pc # "restore" /\ Serves(p)
        BY <1>1, <2>6, <4>1 DEF Sound, NativesKept, Changes, Removals
      <4> QED
        BY <1>1, <1>2, <2>1, <2>6, <3>1, <4>1, <4>2
           DEF Sound, NativesKept, DiskInMemory, Serves, OpIsFree, Free, Changes
    <3> QED
      BY <1>1, <2>1, <2>3, <2>4, <3>2, <3>3, <3>4, OwnerStepKeeps DEF Sound
  <2> QED
    BY <2>2, <2>5, <2>6
<1> QED
  BY <1>3, <1>4

\* A file found damaged: nothing runs, and nothing more is said of the native
\* Sessions.
LEMMA DamageKeeps ==
    ASSUME IInv, NEW t \in Thread, Damage(t)
    PROVE  ProcInv' /\ DiskInv'
<1>1. /\ TypeOK /\ damages' = damages + 1 /\ damages \in Nat
      /\ UNCHANGED <<phase, memory, op, archive>>
      /\ \A p \in Proc : phase[p] = "down"
  BY StoreAssumption DEF Damage, IInv, TypeOK
<1>2. \A p \in Proc : Idle(p)'
  BY <1>1, InactiveIsIdle DEF IInv, Idle, Active
<1>3. \A p \in Proc : Sound(p)'
  BY <1>2, IdleBecomesSound
<1>4. /\ \A u \in Thread : primary[u] = None => primary'[u] = None
      /\ \A u \in Thread : meta[u] = None => meta'[u] = None
  BY <1>1 DEF Damage, TypeOK
<1>5. Archived'
  BY <1>1, <1>4 DEF IInv, DiskInv, Archived
<1>6. damages' # 0
  BY <1>1
<1> QED
  BY <1>3, <1>5, <1>6 DEF ProcInv, DiskInv, Sound

\* Until it has the lock a process does nothing; then it has every Thread with a
\* record to look at.
LEMMA LockingKeeps ==
    ASSUME IInv, NEW p \in Proc, Locking(p)
    PROVE  ProcInv' /\ DiskInv'
<1>1. /\ TypeOK /\ phase[p] \notin Active
      /\ UNCHANGED <<memory, op, files, counts>>
      /\ \A q \in Proc : q # p => phase'[q] = phase[q]
  BY DEF IInv, TypeOK, Locking, Start, OpenLock, ReadLock, RenameLock, WriteLock, Enter, Active
<1>2. Idle(p) /\ UNCHANGED <<damages, primary, meta, archive, files>>
  BY <1>1, InactiveIsIdle DEF IInv, files, counts
<1>3. CASE WriteLock(p)
  <2>1. /\ phase[p] = "writing" /\ phase'[p] = "loading"
        /\ todo'[p] = {t \in Thread : primary[t] # None}
    BY <1>1, <1>3 DEF WriteLock, Enter, TypeOK
  <2>2. \A q \in Proc : ~Owner(q)
    BY <2>1, OwnerIsAlone DEF IInv
  <2>3. \A q \in Proc : q # p => Idle(q)'
    BY <1>1, <2>2, InactiveIsIdle DEF IInv, Idle, Owner, Active
  <2>4. /\ op'[p] = NoOp /\ memory'[p] = NoMemory
    BY <1>1, <1>2 DEF Idle
  <2>5. ActsInPhase(p)' /\ OpFits(p)' /\ TodoFits(p)'
    BY <1>2, <2>1, <2>4, Idleness
       DEF ActsInPhase, OpFits, TodoFits, Loads, Changes, Removals
  <2>6. Forgotten(p)'
    BY <2>4, Idleness, Apart DEF Forgotten
  <2>7. NativesKept(p)'
    BY <1>2, <2>1, <2>4, Idleness
       DEF NativesKept, DiskInMemory, SameNative, Serves, OpIsFree, Changes
  <2>8. \A q \in Proc : Sound(q)'
    BY <2>3, <2>5, <2>6, <2>7, IdleBecomesSound DEF Sound
  <2>9. Archived' /\ (damages' = 0 => (\A t \in Thread : primary'[t] # Bad) /\ Distinct(primary'))
    BY <1>2 DEF IInv, DiskInv, Archived
  <2> QED
    BY <2>8, <2>9 DEF ProcInv, DiskInv, Sound
<1>4. CASE ~WriteLock(p)
  <2>1. phase'[p] \notin Active /\ todo' = todo
    BY <1>1, <1>4 DEF IInv, TypeOK, Locking, Start, OpenLock, ReadLock, RenameLock, Enter, Active
  <2>2. Idle(p)'
    BY <1>1, <1>2, <2>1 DEF Idle
  <2> QED
    BY <1>1, <1>2, <2>1, <2>2, QuietStepKeeps
<1> QED
  BY <1>3, <1>4

-----------------------------------------------------------------------------
(* The inductive invariant *)

\* Nothing runs and nothing is stored at first.
LEMMA InitHolds == Init => IInv
<1> SUFFICES ASSUME Init PROVE IInv
  OBVIOUS
<1>1. TypeOK
  <2>1. "down" \in Phases
    BY DEF Phases
  <2>2. crashes \in 0..MaxCrashes /\ faults \in 0..MaxFaults /\ damages \in 0..MaxDamages
    BY StoreAssumption DEF Init
  <2> QED
    BY <2>1, <2>2, Built DEF Init, TypeOK
<1>2. LockInv
  BY DEF Init, LockInv, OneStarts, Acquiring, Owner, Named, Written
<1>3. \A p \in Proc : Idle(p)
  BY DEF Init, Idle, Active
<1>4. \A p \in Proc : Sound(p)
  BY <1>3, IdleIsSound
<1>5. Archived /\ Distinct(primary) /\ \A t \in Thread : primary[t] # Bad
  BY Apart DEF Init, Archived, Distinct
<1> QED
  BY <1>1, <1>2, <1>4, <1>5 DEF IInv, ProcInv, DiskInv, Sound

\* Every step but those that take or leave the lock leaves it as it is.
LEMMA LockKeeps == ~Overlap /\ IInv /\ [Next]_vars => LockInv'
<1> SUFFICES ASSUME ~Overlap, IInv, [Next]_vars PROVE LockInv'
  OBVIOUS
<1>a. TypeOK /\ LockInv /\ phase \in [Proc -> Phases]
  BY DEF IInv, TypeOK
<1>5. ASSUME lock' = lock, phase' = phase PROVE LockInv'
  <2>1. \A q \in Proc : Remains(q)
    BY <1>5 DEF Remains
  <2> QED
    BY <1>a, <1>5, <2>1, LockStays
<1>1. CASE UNCHANGED vars
  BY <1>1, <1>5 DEF vars
<1>2. ASSUME NEW p \in Proc, Locking(p) PROVE LockInv'
  BY <1>a, <1>2, LockingKeepsLock
<1>3. ASSUME NEW p \in Proc, Closed(p) \/ Crash(p) PROVE LockInv'
  BY <1>a, <1>3, LeavingKeepsLock
<1>4. ASSUME NEW p \in Proc, NEW ph \in {"sweeping", "up", "failed", "closing"}, Owner(p), lock' = lock,
             Enter(p, ph)
      PROVE  LockInv'
  <2>1. phase'[p] \in {"loading", "sweeping", "up", "closing", "failed"}
        /\ \A q \in Proc : q # p => phase'[q] = phase[q]
    BY <1>a, <1>4 DEF Enter
  <2>2. \A q \in Proc : Remains(q)
    BY <1>4, <2>1 DEF Remains
  <2> QED
    BY <1>a, <1>4, <2>2, LockStays
<1>6. ASSUME NEW p \in Proc, Starting(p) PROVE LockInv'
  <2>1. CASE EndLoad(p) \/ Serve(p)
    BY <1>4, <2>1 DEF EndLoad, Serve, Owner
  <2>2. CASE ~(EndLoad(p) \/ Serve(p))
    BY <1>5, <1>6, <2>2 DEF Starting, Load, Sweep, Restore, ArchiveMeta, MoveRecord, Check
  <2> QED
    BY <2>1, <2>2
<1>7. ASSUME NEW p \in Proc, Writing(p) PROVE LockInv'
  BY <1>5, <1>7 DEF Writing, Backup, Copied, Rename, WriteMeta, RemoveRecord, RemoveBackup,
     RemoveMeta, PutBack
<1>8. ASSUME NEW p \in Proc, NEW t \in Thread, Requests(p, t) \/ SweepFails(p, t) PROVE LockInv'
  BY <1>5, <1>8 DEF Requests, CreateProvisional, Revise, RemoveThread, SetNative,
     UpdateMetadata, Request, SweepFails
<1>9. ASSUME NEW p \in Proc, Close(p) PROVE LockInv'
  BY <1>4, <1>9 DEF Close, Owner
<1>10. ASSUME NEW p \in Proc, Fails(p) PROVE LockInv'
  <2>1. CASE StopsStart(op[p].pc)
    <3>1. op[p].pc \in Loads /\ op[p].pc # "idle"
      BY <2>1 DEF StopsStart, Loads
    <3>2. Owner(p)
      BY <3>1, AtWork
    <3> QED
      BY <1>4, <1>10, <2>1, <3>2 DEF Fails
  <2>2. CASE ~StopsStart(op[p].pc)
    BY <1>5, <1>10, <2>2 DEF Fails
  <2> QED
    BY <2>1, <2>2
<1>11. ASSUME NEW t \in Thread, Damage(t) PROVE LockInv'
  BY <1>5, <1>11 DEF Damage
<1> QED
  BY <1>1, <1>2, <1>3, <1>6, <1>7, <1>8, <1>9, <1>10, <1>11 DEF Next

\* Every step keeps processes and disk in order.
LEMMA DiskKeeps == IInv /\ [Next]_vars => ProcInv' /\ DiskInv'
<1> SUFFICES ASSUME IInv, [Next]_vars PROVE ProcInv' /\ DiskInv'
  OBVIOUS
<1>1. CASE UNCHANGED vars
  BY <1>1, QuietStepKeeps DEF vars, counts
<1>2. ASSUME NEW p \in Proc, Starting(p) PROVE ProcInv' /\ DiskInv'
  BY <1>2, LoadKeeps, SweepKeeps, RestoreKeeps, QuarantineKeeps, CheckKeeps, EndLoadKeeps,
     ServeKeeps DEF Starting
<1>3. ASSUME NEW p \in Proc, Writing(p) PROVE ProcInv' /\ DiskInv'
  BY <1>3, CopyKeeps, RenameKeeps, WriteMetaKeeps, RemoveRecordKeeps, RemoveBackupKeeps,
     RemoveMetaKeeps, PutBackKeeps DEF Writing
<1> QED
  BY <1>1, <1>2, <1>3, LockingKeeps, CloseKeeps, LeavingKeeps, FailsKeeps, RequestsKeep,
     SweepKeeps, DamageKeeps DEF Next

\* Every step keeps the invariant, when starts do not overlap.
LEMMA NextKeeps == ~Overlap /\ IInv /\ [Next]_vars => IInv'
BY TypeKeeps, LockKeeps, DiskKeeps DEF IInv

\* The invariant of a store whose starts do not overlap.
LEMMA InvariantHolds == ~Overlap => (Spec => []IInv)
<1>1. Init => IInv
  BY InitHolds
<1>2. ASSUME ~Overlap PROVE IInv /\ [Next]_vars => IInv'
  BY <1>2, NextKeeps
<1>3. ASSUME ~Overlap PROVE Spec => []IInv
  <2>1. IInv /\ [Next]_vars => IInv'
    BY <1>2, <1>3
  <2> QED
    BY <1>1, <2>1, PTL DEF Spec
<1> QED
  BY <1>3

-----------------------------------------------------------------------------
(* Theorems *)

\* Every variable of the store keeps its type.
THEOREM StoreTypes == ~Overlap => (Spec => []TypeOK)
<1>1. IInv => TypeOK
  BY DEF IInv
<1> QED
  BY <1>1, InvariantHolds, PTL

\* One process at a time owns the store, whatever crashes while it takes, holds or
\* leaves the lock (#acquireLock and close).
THEOREM OneProcessOwns == ~Overlap => (Spec => []OneOwner)
<1>1. IInv => OneOwner
  BY OwnerIsAlone DEF IInv, OneOwner
<1> QED
  BY <1>1, InvariantHolds, PTL

\* No two Threads that a restart would find share a native Session, whichever write
\* or removal failed or was cut short (#update, #remove, initialize).
THEOREM NativesStayUnique == ~Overlap => (Spec => []NativesUnique)
<1>1. IInv => NativesUnique
  <2>1. SUFFICES ASSUME IInv, damages = 0,
                        NEW t \in Thread, NEW u \in Thread, t # u,
                        Loaded(t) # None, Loaded(u) # None,
                        Loaded(t).native = Loaded(u).native
                 PROVE  Loaded(t).native = None
    BY DEF NativesUnique, Shared
  <2>2. /\ \A v \in Thread : primary[v] \in Record \cup {None}
        /\ \A v \in Thread : meta[v] \in Revision \cup {None, Bad}
        /\ Distinct(primary)
    BY <2>1 DEF IInv, TypeOK, DiskInv
  <2>3. ASSUME NEW v \in Thread, Loaded(v) # None
        PROVE  primary[v] # None /\ Loaded(v).native = primary[v].native
    <3> DEFINE m == IF meta[v] = Bad THEN None ELSE meta[v]
    <3>1. primary[v] # Bad
      BY <2>2, Apart
    <3>2. primary[v] # None /\ Loaded(v) = Entry(primary[v], m)
      BY <2>3, <3>1 DEF Loaded
    <3>3. primary[v] \in Record /\ m \in Revision \cup {None}
      BY <2>2, <3>2
    <3> QED
      BY <3>2, <3>3, Built
  <2> QED
    BY <2>1, <2>2, <2>3 DEF Distinct
<1> QED
  BY <1>1, InvariantHolds, PTL

\* A lock file left behind makes no start fail: what fails while it takes the lock
\* crashed, or found the lock of a process that owns the store (#acquireLock).
THEOREM NoLockIsInTheWay == ~Overlap => (Spec => AbandonedLockBlocksNobody)
<1>1. ASSUME IInv, [Next]_vars, NEW p \in Proc, Acquiring(p), phase'[p] = "down"
      PROVE  crashes' # crashes \/ \E q \in Proc : Owner(q)
  <2>1. TypeOK /\ LockInv /\ crashes \in Nat
    BY StoreAssumption, <1>1 DEF IInv, TypeOK
  <2>2. phase[p] \in {"opening", "contended", "renaming", "retrying", "writing"}
    BY <1>1 DEF Acquiring
  <2>3. OpenLock(p) \/ ReadLock(p) \/ Crash(p)
    <3>1. phase'[p] # phase[p]
      BY <1>1, <2>2
    <3>2. ASSUME NEW q \in Proc, NEW ph, Enter(q, ph), ph # "down" PROVE FALSE
      BY <1>1, <2>1, <3>1, <3>2 DEF Enter, TypeOK
    <3>3. ASSUME NEW q \in Proc, NEW ph, Enter(q, ph) PROVE q = p
      BY <2>1, <3>1, <3>3 DEF Enter, TypeOK
    <3>4. phase' # phase
      BY <3>1
    <3>5. Next
      BY <1>1, <3>4 DEF vars
    <3>6. ASSUME NEW q \in Proc, Locking(q) PROVE OpenLock(p) \/ ReadLock(p)
      BY <3>2, <3>3, <3>6 DEF Locking, Start, OpenLock, ReadLock, RenameLock, WriteLock
    <3>7. ASSUME NEW q \in Proc, Starting(q) PROVE FALSE
      BY <3>2, <3>4, <3>7
         DEF Starting, Load, Sweep, Restore, ArchiveMeta, MoveRecord, Check, EndLoad, Serve
    <3>8. ASSUME NEW q \in Proc, Writing(q) PROVE FALSE
      BY <3>4, <3>8 DEF Writing, Backup, Copied, Rename, WriteMeta, RemoveRecord,
         RemoveBackup, RemoveMeta, PutBack
    <3>9. ASSUME NEW q \in Proc, NEW t \in Thread, Requests(q, t) \/ SweepFails(q, t) PROVE FALSE
      BY <3>4, <3>9 DEF Requests, CreateProvisional, Revise, RemoveThread, SetNative,
         UpdateMetadata, Request, SweepFails
    <3>10. ASSUME NEW q \in Proc, Close(q) \/ Fails(q) PROVE FALSE
      BY <3>2, <3>4, <3>10 DEF Close, Fails
    <3>11. ASSUME NEW q \in Proc, Closed(q) PROVE FALSE
      BY <2>2, <3>3, <3>11 DEF Closed
    <3>12. ASSUME NEW q \in Proc, Crash(q) PROVE Crash(p)
      BY <3>3, <3>12 DEF Crash
    <3>13. ASSUME NEW t \in Thread, Damage(t) PROVE FALSE
      BY <3>4, <3>13 DEF Damage
    <3> QED
      BY <3>5, <3>6, <3>7, <3>8, <3>9, <3>10, <3>11, <3>12, <3>13 DEF Next
  <2>4. CASE OpenLock(p)
    <3>1. phase[p] = "retrying" /\ lock # None
      BY <1>1, <2>1, <2>4 DEF OpenLock, Enter, TypeOK
    <3> QED
      BY <2>1, <3>1 DEF LockInv
  <2>5. CASE ReadLock(p)
    <3>1. ~Stale
      BY <1>1, <2>1, <2>5 DEF ReadLock, Enter, TypeOK
    <3>2. \E q \in Proc : Named(q) /\ Written
      BY <2>1, <3>1, LockFacts
    <3> QED
      BY <2>1, <3>2 DEF LockInv
  <2>6. CASE Crash(p)
    BY <2>1, <2>6 DEF Crash
  <2> QED
    BY <2>3, <2>4, <2>5, <2>6
<1>2. IInv /\ [Next]_vars =>
        [\A p \in Proc : Acquiring(p) /\ phase'[p] = "down" =>
            crashes' # crashes \/ \E q \in Proc : Owner(q)]_vars
  BY <1>1
<1> QED
  BY <1>2, InvariantHolds, PTL DEF AbandonedLockBlocksNobody, Spec

\* Metadata goes with its Thread or by a patch; what a start sweeps away belongs to no
\* record, and to an archived one only if the archive has it (initialize).
THEOREM MetadataStays == ~Overlap => (Spec => MetadataKept)
<1>1. ASSUME IInv, [Next]_vars, NEW t \in Thread, meta[t] \in Revision, meta'[t] = None
      PROVE  \/ \E p \in Proc : op[p].thread = t /\ op[p].pc \in {"meta", "rmMeta", "dropMeta"}
             \/ primary[t] = None /\ ("record" \in archive[t] => "meta" \in archive[t])
  <2>1. TypeOK /\ meta[t] # None /\ meta[t] # Bad /\ meta' # meta /\ Bad # None
    BY <1>1, Apart DEF IInv
  <2>2. Next
    BY <1>1, <2>1 DEF vars, files
  <2>3. CASE \E p \in Proc : Check(p) \/ RemoveMeta(p) \/ WriteMeta(p) \/ \E u \in Thread : Sweep(p, u)
    <3>1. PICK p \in Proc : Check(p) \/ RemoveMeta(p) \/ WriteMeta(p) \/ \E u \in Thread : Sweep(p, u)
      BY <2>3
    <3>2. CASE Check(p)
      BY <1>1, <2>1, <3>2 DEF Check, TypeOK
    <3>3. CASE RemoveMeta(p) \/ WriteMeta(p)
      <4>1. op[p].pc \in {"meta", "rmMeta", "dropMeta"} /\ op[p].thread \in Thread
        BY <1>1, <3>3, AtWork DEF RemoveMeta, WriteMeta
      <4> QED
        BY <1>1, <2>1, <3>3, <4>1 DEF RemoveMeta, WriteMeta, TypeOK
    <3>4. ASSUME NEW u \in Thread, Sweep(p, u)
          PROVE  primary[t] = None /\ ("record" \in archive[t] => "meta" \in archive[t])
      <4>1. u = t /\ phase[p] = "sweeping" /\ t \in todo[p]
        BY <1>1, <2>1, <3>4 DEF Sweep, TypeOK
      <4> QED
        BY <1>1, <2>1, <4>1 DEF IInv, ProcInv, TodoFits, DiskInv, Archived
    <3> QED
      BY <3>1, <3>2, <3>3, <3>4
  <2>4. CASE \E u \in Thread : Damage(u)
    BY <1>1, <2>1, <2>4 DEF Damage, TypeOK
  <2>5. meta' = meta \/ (\E u \in Thread : Damage(u))
        \/ \E p \in Proc : Check(p) \/ RemoveMeta(p) \/ WriteMeta(p) \/ \E u \in Thread : Sweep(p, u)
    <3>1. ASSUME NEW p \in Proc, Locking(p) PROVE meta' = meta
      BY <3>1 DEF Locking, Start, OpenLock, ReadLock, RenameLock, WriteLock, files
    <3>2. ASSUME NEW p \in Proc, Starting(p), ~Check(p), ~\E u \in Thread : Sweep(p, u)
          PROVE  meta' = meta
      BY <3>2 DEF Starting, Load, Restore, ArchiveMeta, MoveRecord, EndLoad, Serve, files
    <3>3. ASSUME NEW p \in Proc, Writing(p), ~RemoveMeta(p), ~WriteMeta(p) PROVE meta' = meta
      BY <3>3 DEF Writing, Backup, Copied, Rename, RemoveRecord, RemoveBackup, PutBack
    <3>4. ASSUME NEW p \in Proc, Close(p) \/ Closed(p) \/ Crash(p) \/ Fails(p) PROVE meta' = meta
      BY <3>4 DEF Close, Closed, Crash, Fails, files
    <3>5. ASSUME NEW p \in Proc, NEW u \in Thread, Requests(p, u) \/ SweepFails(p, u)
          PROVE  meta' = meta
      BY <3>5 DEF Requests, CreateProvisional, Revise, RemoveThread, SetNative,
         UpdateMetadata, Request, SweepFails, files
    <3> QED
      BY <2>2, <3>1, <3>2, <3>3, <3>4, <3>5 DEF Next
  <2> QED
    BY <2>1, <2>3, <2>4, <2>5
<1>2. IInv /\ [Next]_vars =>
        [\A t \in Thread : meta[t] \in Revision /\ meta'[t] = None =>
            \/ \E p \in Proc : op[p].thread = t /\ op[p].pc \in {"meta", "rmMeta", "dropMeta"}
            \/ primary[t] = None /\ ("record" \in archive[t] => "meta" \in archive[t])]_vars
  BY <1>1
<1> QED
  BY <1>2, InvariantHolds, PTL DEF MetadataKept, Spec

-----------------------------------------------------------------------------
(* What memory and disk agree on.  Two faults are left out: a backup that    *)
(* cannot be put in the place of its record, and a failed write that cannot  *)
(* be undone either, after which they no longer agree.                       *)

Reliable ==
    /\ "restore" \notin Failing
    /\ MaxFaults <= 1 \/ {"undo", "putBack"} \cap Failing = {}

\* b is an earlier content of the record r.
Older(b, r) == b.rev <= r.rev /\ (b.native # None => r.native # None)
BackupOlder(t, r) == Readable(backup[t]) => Older(backup[t], r)
Backups == \A t \in Thread : Readable(primary[t]) => BackupOlder(t, primary[t])

\* A Thread in memory is on the disk as it is, any other is not there.
Agrees(p, t) ==
    LET e == memory[p][t] IN
    IF e = None THEN Loaded(t) = None ELSE primary[t] = Of(e) /\ meta[t] = e.meta

\* Every Thread agrees that is not being loaded or written.
Settled(p) ==
    /\ phase[p] \in {"sweeping", "up", "closing"} =>
          \A t \in Thread \ {op[p].thread} : Agrees(p, t)
    /\ phase[p] = "loading" => \A t \in Thread \ (todo[p] \cup {op[p].thread}) : Agrees(p, t)

\* How far the Thread of the operation is from that.
OpAgrees(p) ==
    LET o == op[p]
        t == o.thread
        e == memory[p][t]
    IN
    /\ o.pc = "restore" => primary[t] = Bad /\ backup[t] = o.next
    /\ o.pc = "check" => primary[t] = o.next
    /\ o.pc \in {"archive", "move", "drop", "dropBackup", "dropMeta"} => Loaded(t) = None
    /\ o.pc \in {"backup", "copying", "rm"} => e # None
    /\ o.pc \in {"backup", "copying", "rm", "replace"} => Agrees(p, t)
    /\ o.pc = "replace" /\ e = None =>
          o.next.native = None /\ o.meta = None /\ meta[t] = None /\ backup[t] = None
    /\ o.pc \in {"backup", "copying", "replace", "meta"} /\ e # None => Older(Of(e), o.next)
    /\ o.pc = "meta" => primary[t] = o.next
    /\ o.pc \in {"meta", "undo", "rmBackup", "rmMeta", "putBack"} =>
          meta[t] = e.meta /\ BackupOlder(t, Of(e))
    /\ o.pc \in {"undo", "putBack"} => faults > 0

AgreeInv == Backups /\ \A p \in Proc : Settled(p) /\ OpAgrees(p)

-----------------------------------------------------------------------------
(* The variables of the abstract specification *)

Values == [native : Native, rev : Revision, meta : Revision \cup {None}]
Stored == [t \in Thread |-> Loaded(t)]
ServedNow == IF Serving = {} THEN None ELSE Served(CHOOSE p \in Serving : TRUE)
WritingNow == {op[p].thread : p \in {q \in Serving : ~At(q, "idle")}}

\* What a restart finds has the type of a value.
LEMMA LoadedTypes ==
    ASSUME TypeOK, NEW t \in Thread
    PROVE  Loaded(t) \in Values \cup {None}
<1> DEFINE rec == IF primary[t] # Bad THEN primary[t]
                  ELSE IF Readable(backup[t]) THEN backup[t] ELSE None
           m == IF meta[t] = Bad THEN None ELSE meta[t]
<1>1. Loaded(t) = IF rec = None \/ rec.native = None THEN None ELSE Entry(rec, m)
  BY DEF Loaded
<1>2. rec \in Record \cup {None} /\ m \in Revision \cup {None}
  BY DEF TypeOK, Readable
<1> HIDE DEF rec, m
<1>3. rec # None /\ rec.native # None => Entry(rec, m) \in Values
  BY <1>2 DEF Record, Entry, Values
<1> QED
  BY <1>1, <1>3

StoredFits == \A t \in Thread : Loaded(t) \in Values \cup {None}

\* Before a step and after it.
LEMMA StoredTypes == (TypeOK => StoredFits) /\ (TypeOK' => StoredFits')
<1>1. TypeOK => StoredFits
  BY LoadedTypes DEF StoredFits
<1> QED
  BY <1>1, PTL

\* A Thread whose files stay is found as before.
LEMMA LoadedStays ==
    ASSUME NEW t \in Thread, primary'[t] = primary[t], backup'[t] = backup[t], meta'[t] = meta[t]
    PROVE  Loaded(t)' = Loaded(t)
BY DEF Loaded

\* Where memory and disk agree, a restart finds what is served.
LEMMA AgreedIsServed ==
    ASSUME TypeOK, NEW p \in Proc, NEW t \in Thread, Agrees(p, t)
    PROVE  Loaded(t) = Served(p)[t]
<1> DEFINE e == memory[p][t]
<1>1. Served(p)[t] = IF e = None \/ e.native = None THEN None ELSE e
  BY DEF Served
<1>2. CASE e = None
  BY <1>1, <1>2 DEF Agrees
<1>3. CASE e # None
  <2>1. e \in Entries /\ primary[t] = Of(e) /\ meta[t] = e.meta
    BY <1>3 DEF TypeOK, Agrees
  <2>2. /\ Of(e) \in Record /\ Of(e).native = e.native /\ e.meta \in Revision \cup {None}
        /\ Entry(Of(e), e.meta) = e
    BY <2>1, Built DEF Entry, Of, Rec, Entries
  <2>3. primary[t] # Bad /\ primary[t] # None /\ meta[t] # Bad
    BY <2>1, <2>2, Apart
  <2>4. Loaded(t) = IF e.native = None THEN None ELSE e
    BY <2>1, <2>2, <2>3 DEF Loaded
  <2> QED
    BY <1>1, <1>3, <2>4
<1> QED
  BY <1>2, <1>3

\* The store answers for the one process that serves.
LEMMA Seen ==
    ASSUME TypeOK, LockInv, NEW p \in Proc, Serves(p)
    PROVE  /\ Serving = {p} /\ ServedNow = Served(p) /\ ServedNow # None
           /\ WritingNow = IF op[p].pc = "idle" THEN {} ELSE {op[p].thread}
<1>1. Serving = {p}
  BY OwnerIsAlone DEF Serving, Serves, Owner
<1>2. ServedNow = Served(p)
  BY <1>1 DEF ServedNow
<1>3. Served(p) \in [Thread -> Entries \cup {None}]
  BY DEF TypeOK, Served
<1>4. WritingNow = IF op[p].pc = "idle" THEN {} ELSE {op[p].thread}
  BY <1>1 DEF WritingNow, At
<1> QED
  BY <1>1, <1>2, <1>3, <1>4, StoreAssumption

\* While no process serves, nothing is answered or written.
LEMMA Unseen ==
    ASSUME \A p \in Proc : ~Serves(p)
    PROVE  ServedNow = None /\ WritingNow = {}
<1>1. Serving = {}
  BY DEF Serving, Serves
<1> QED
  BY <1>1 DEF ServedNow, WritingNow

SeenBy(p) ==
    /\ \A t \in Thread : Loaded(t) \in Values \cup {None}
    /\ \A t \in Thread : Agrees(p, t) => Loaded(t) = Served(p)[t]
    /\ Serves(p) =>
          /\ Serving = {p} /\ ServedNow = Served(p) /\ ServedNow # None
          /\ WritingNow = IF op[p].pc = "idle" THEN {} ELSE {op[p].thread}

\* All this holds now and after a step.
LEMMA SeenAlways ==
    ASSUME NEW p \in Proc
    PROVE  (IInv => SeenBy(p)) /\ (IInv' => SeenBy(p)')
<1>1. IInv => SeenBy(p)
  BY LoadedTypes, AgreedIsServed, Seen DEF IInv, SeenBy
<1> QED
  BY <1>1, PTL

\* Nobody serves after a step that leaves no process serving.
LEMMA UnseenNext ==
    ASSUME \A p \in Proc : ~Serves(p)'
    PROVE  ServedNow' = None /\ WritingNow' = {}
<1>1. Serving' = {}
  BY DEF Serving, Serves
<1> QED
  BY <1>1 DEF ServedNow, WritingNow

\* One Thread of the disk changed.
LEMMA StoredBut ==
    ASSUME NEW t \in Thread, \A u \in Thread : u # t => Loaded(u)' = Loaded(u)
    PROVE  Stored' = [Stored EXCEPT ![t] = Loaded(t)']
BY DEF Stored

\* A step of the abstract specification, or none.
Refines == Durable!Next \/ UNCHANGED Durable!vars

\* The abstract actions in the terms above.
LEMMA Abstract ==
    ASSUME damages' = damages
    PROVE  /\ UNCHANGED <<Stored, ServedNow, WritingNow>> => Refines
           /\ ServedNow = None /\ ServedNow' = Stored /\ UNCHANGED <<Stored, WritingNow>> => Refines
           /\ ServedNow' = None /\ WritingNow' = {} /\ UNCHANGED Stored => Refines
           /\ \A t \in Thread : ServedNow # None /\ WritingNow = {} /\ WritingNow' = {t}
                                /\ UNCHANGED <<Stored, ServedNow>> => Refines
           /\ \A t \in Thread, v \in Values \cup {None} :
                 t \in WritingNow /\ Stored' = [Stored EXCEPT ![t] = v]
                 /\ UNCHANGED <<ServedNow, WritingNow>> => Refines
           /\ \A t \in Thread, v \in Values \cup {None} :
                 t \in WritingNow /\ Stored' = [Stored EXCEPT ![t] = v] /\ WritingNow' = {}
                 /\ ServedNow # None /\ ServedNow' = [ServedNow EXCEPT ![t] = v] => Refines
<1>1. UNCHANGED <<Stored, ServedNow, WritingNow>> => Refines
  BY DEF Refines, Durable!vars, Stored, ServedNow, WritingNow
<1>2. ServedNow = None /\ ServedNow' = Stored /\ UNCHANGED <<Stored, WritingNow>> => Refines
  BY DEF Refines, Durable!Next, Durable!Open, Stored, ServedNow, WritingNow
<1>3. ServedNow' = None /\ WritingNow' = {} /\ UNCHANGED Stored => Refines
  BY DEF Refines, Durable!Next, Durable!Stop, Stored, ServedNow, WritingNow
<1>4. ASSUME NEW t \in Thread, ServedNow # None, WritingNow = {}, WritingNow' = {t},
             UNCHANGED <<Stored, ServedNow>>
      PROVE  Refines
  <2>1. Durable!Begin(t)
    BY <1>4 DEF Durable!Begin, Stored, ServedNow, WritingNow
  <2> QED
    BY <2>1 DEF Refines, Durable!Next
<1>5. ASSUME NEW t \in Thread, NEW v \in Values \cup {None}, t \in WritingNow,
             Stored' = [Stored EXCEPT ![t] = v], UNCHANGED <<ServedNow, WritingNow>>
      PROVE  Refines
  <2>1. Durable!Write(t)
    BY <1>5 DEF Durable!Write, Values, Stored, ServedNow, WritingNow
  <2> QED
    BY <2>1 DEF Refines, Durable!Next
<1>6. ASSUME NEW t \in Thread, NEW v \in Values \cup {None}, t \in WritingNow,
             Stored' = [Stored EXCEPT ![t] = v], WritingNow' = {},
             ServedNow # None, ServedNow' = [ServedNow EXCEPT ![t] = v]
      PROVE  Refines
  <2>1. Durable!End(t)
    BY <1>6 DEF Durable!End, Values, Stored, ServedNow, WritingNow
  <2> QED
    BY <2>1 DEF Refines, Durable!Next
<1> QED
  BY <1>1, <1>2, <1>3, <1>4, <1>5, <1>6

-----------------------------------------------------------------------------
(* What every step has in common *)

\* A process that does and remembers nothing agrees with any disk, before and
\* after a step.
LEMMA IdleAgrees ==
    ASSUME NEW p \in Proc
    PROVE  (Idle(p) => Settled(p) /\ OpAgrees(p)) /\ (Idle(p)' => Settled(p)' /\ OpAgrees(p)')
<1>1. Idle(p) => Settled(p) /\ OpAgrees(p)
  BY Idleness DEF Idle, Active, Settled, OpAgrees
<1> QED
  BY <1>1, PTL

\* Beside an owner no other process has anything to agree with.
LEMMA OthersAgree ==
    ASSUME IInv, NEW p \in Proc, Owner(p), Settled(p)', OpAgrees(p)', Backups',
           \A q \in Proc : q # p => /\ phase'[q] = phase[q] /\ op'[q] = op[q]
                                   /\ memory'[q] = memory[q]
    PROVE  AgreeInv'
<1>1. \A q \in Proc : q # p => Idle(q)
  BY OthersAreIdle DEF IInv
<1>2. \A q \in Proc : q # p => Idle(q)'
  BY <1>1 DEF Idle
<1> QED
  BY <1>2, IdleAgrees DEF AgreeInv

\* What is served does not change by a process that does not serve.
LEMMA Hidden ==
    ASSUME NEW p \in Proc, ~Serves(p), ~Serves(p)', damages' = damages,
           \A q \in Proc : q # p => /\ phase'[q] = phase[q] /\ op'[q] = op[q]
                                   /\ memory'[q] = memory[q],
           \A t \in Thread : Loaded(t)' = Loaded(t)
    PROVE  Refines
<1>1. Serving' = Serving /\ p \notin Serving
  BY DEF Serving, Serves
<1>2. \A q \in Serving : q \in Proc /\ q # p
  BY <1>1 DEF Serving
<1>3. WritingNow' = WritingNow
  <2>1. \A q \in Serving : op'[q] = op[q]
    BY <1>2
  <2> QED
    BY <1>1, <2>1 DEF WritingNow, At
<1>4. ServedNow' = ServedNow
  <2>1. \A q \in Serving : Served(q)' = Served(q)
    BY <1>2 DEF Served
  <2>2. Serving # {} => (CHOOSE q \in Serving : TRUE) \in Serving
    OBVIOUS
  <2> QED
    BY <1>1, <2>1, <2>2 DEF ServedNow
<1>5. Stored' = Stored
  BY DEF Stored
<1> QED
  BY <1>3, <1>4, <1>5, Abstract

\* An operation of a process that serves takes a step and goes on.
LEMMA WorkGoesOn ==
    ASSUME IInv, IInv', AgreeInv, NEW p \in Proc, Serves(p), NEW t \in Thread,
           op[p].pc # "idle", op[p].thread = t, op'[p].pc # "idle", op'[p].thread = t,
           phase' = phase, memory' = memory, damages' = damages,
           \A q \in Proc : q # p => op'[q] = op[q],
           \A u \in Thread : u # t =>
               primary'[u] = primary[u] /\ backup'[u] = backup[u] /\ meta'[u] = meta[u],
           Readable(primary'[t]) => BackupOlder(t, primary[t])', OpAgrees(p)'
    PROVE  AgreeInv' /\ Refines
<1>1. \A u \in Thread : u # t => Loaded(u)' = Loaded(u)
  BY LoadedStays
<1>2. \A u \in Thread : u # t => (Agrees(p, u) => Agrees(p, u)')
  BY <1>1 DEF Agrees
<1>3. Settled(p)'
  BY <1>2 DEF AgreeInv, Settled, Serves
<1>4. Backups'
  <2>1. \A u \in Thread : u # t /\ Readable(primary'[u]) => BackupOlder(u, primary[u])'
    BY DEF AgreeInv, Backups, BackupOlder
  <2> QED
    BY <2>1 DEF Backups
<1>5. Owner(p)
  BY DEF Serves, Owner
<1>6. AgreeInv'
  BY <1>3, <1>4, <1>5, OthersAgree
<1>7. Serves(p)' /\ SeenBy(p) /\ SeenBy(p)'
  BY SeenAlways DEF Serves
<1>8. t \in WritingNow /\ WritingNow' = WritingNow /\ ServedNow' = ServedNow
      /\ Loaded(t)' \in Values \cup {None}
  <2>1. Served(p)' = Served(p)
    BY DEF Served
  <2> QED
    BY <1>7, <2>1 DEF SeenBy
<1>9. Stored' = [Stored EXCEPT ![t] = Loaded(t)']
  BY <1>1, StoredBut
<1> QED
  BY <1>6, <1>8, <1>9, Abstract

\* An operation of a process that serves ends, and memory agrees with the disk.
LEMMA WorkEnds ==
    ASSUME IInv, IInv', AgreeInv, NEW p \in Proc, Serves(p), NEW t \in Thread,
           op[p].pc # "idle", op[p].thread = t, op'[p] = NoOp,
           phase' = phase, damages' = damages,
           \A q \in Proc : q # p => op'[q] = op[q] /\ memory'[q] = memory[q],
           \A u \in Thread : u # t =>
               /\ memory'[p][u] = memory[p][u]
               /\ primary'[u] = primary[u] /\ backup'[u] = backup[u] /\ meta'[u] = meta[u],
           Readable(primary'[t]) => BackupOlder(t, primary[t])', Agrees(p, t)'
    PROVE  AgreeInv' /\ Refines
<1>1. \A u \in Thread : u # t => Loaded(u)' = Loaded(u)
  BY LoadedStays
<1>2. \A u \in Thread : u # t => (Agrees(p, u) => Agrees(p, u)')
  BY <1>1 DEF Agrees
<1>3. Settled(p)' /\ OpAgrees(p)'
  BY <1>2, Idleness DEF AgreeInv, Settled, Serves, OpAgrees
<1>4. Backups'
  <2>1. \A u \in Thread : u # t /\ Readable(primary'[u]) => BackupOlder(u, primary[u])'
    BY DEF AgreeInv, Backups, BackupOlder
  <2> QED
    BY <2>1 DEF Backups
<1>5. Owner(p)
  BY DEF Serves, Owner
<1>6. AgreeInv'
  BY <1>3, <1>4, <1>5, OthersAgree
<1>7. Serves(p)' /\ SeenBy(p) /\ SeenBy(p)'
  BY SeenAlways DEF Serves
<1>8. /\ t \in WritingNow /\ WritingNow' = {} /\ Loaded(t)' \in Values \cup {None}
      /\ ServedNow = Served(p) /\ ServedNow # None /\ ServedNow' = Served(p)'
      /\ Served(p)'[t] = Loaded(t)'
  BY <1>7, Idleness DEF SeenBy
<1>9. Served(p)' = [Served(p) EXCEPT ![t] = Loaded(t)']
  BY <1>8 DEF Served
<1>10. Stored' = [Stored EXCEPT ![t] = Loaded(t)']
  BY <1>1, StoredBut
<1> QED
  BY <1>6, <1>8, <1>9, <1>10, Abstract

\* A step of a process that loads changes nothing a restart finds.
LEMMA LoadGoesOn ==
    ASSUME IInv, NEW p \in Proc, phase[p] \in {"loading", "sweeping"}, ~Serves(p)',
           damages' = damages, Backups', Settled(p)', OpAgrees(p)',
           \A q \in Proc : q # p => /\ phase'[q] = phase[q] /\ op'[q] = op[q]
                                   /\ memory'[q] = memory[q],
           \A t \in Thread : Loaded(t)' = Loaded(t)
    PROVE  AgreeInv' /\ Refines
<1>1. ~Serves(p) /\ Owner(p)
  BY DEF Serves, Owner
<1> QED
  BY <1>1, OthersAgree, Hidden

-----------------------------------------------------------------------------
(* The steps of an operation *)

\* Contents of files and memory can be compared by age.
LEMMA Ages ==
    /\ \A a, b, c \in Record : Older(a, b) /\ Older(b, c) => Older(a, c)
    /\ \A a \in Record : Older(a, a)
    /\ \A r \in Record, m \in Revision \cup {None} : Of(Entry(r, m)) = r
<1>1. \A a \in Record : a.rev \in Nat
  BY Apart DEF Record
<1>2. \A r \in Record, m \in Revision \cup {None} : Of(Entry(r, m)) = r
  BY DEF Of, Rec, Entry, Record
<1> QED
  BY <1>1, <1>2 DEF Older

\* What the operation of a process that serves finds.
LEMMA AtWorkServing ==
    ASSUME IInv, AgreeInv, NEW p \in Proc, op[p].pc \in Changes \cup Removals
    PROVE  /\ TypeOK /\ Serves(p) /\ op[p] \in Ops /\ op[p].thread \in Thread /\ OpAgrees(p)
           /\ op[p].pc \in Changes => op[p].next \in Record
           /\ op[p].pc \in Removals \cup {"meta", "undo"} => memory[p][op[p].thread] # None
           /\ memory[p][op[p].thread] # None =>
                 /\ memory[p][op[p].thread] \in Entries
                 /\ Of(memory[p][op[p].thread]) \in Record
                 /\ memory[p][op[p].thread].meta \in Revision \cup {None}
           /\ op[p].pc \in {"rmBackup", "rmMeta"} => primary[op[p].thread] = None
<1>1. op[p].pc # "idle"
  BY DEF Changes, Removals
<1>2. TypeOK /\ Sound(p) /\ Serves(p) /\ op[p] \in Ops /\ op[p].thread \in Thread
  BY <1>1, AtWork
<1>3. memory[p][op[p].thread] # None =>
        /\ memory[p][op[p].thread] \in Entries
        /\ Of(memory[p][op[p].thread]) \in Record
        /\ memory[p][op[p].thread].meta \in Revision \cup {None}
  BY <1>2, Built DEF TypeOK, Entries
<1> QED
  BY <1>1, <1>2, <1>3 DEF AgreeInv, Sound, OpFits, Changes, Removals

\* The backup is incomplete while it is copied, and then is the record.
LEMMA CopyAgrees ==
    ASSUME IInv, IInv', AgreeInv, NEW p \in Proc, Backup(p) \/ Copied(p)
    PROVE  AgreeInv' /\ Refines
<1>1. PICK t \in Thread : t = op[p].thread
  BY AtWorkServing DEF Backup, Copied, At, Changes
<1> DEFINE e == memory[p][t]
<1>2. /\ op[p].pc \in {"backup", "copying"} /\ TypeOK /\ Serves(p) /\ op[p] \in Ops /\ OpAgrees(p)
      /\ op[p].next \in Record
      /\ UNCHANGED <<phase, memory, primary, meta, damages, faults>>
  BY AtWorkServing DEF Backup, Copied, At, Changes, counts
<1>3. e # None /\ Agrees(p, t) /\ Older(Of(e), op[p].next)
  BY <1>1, <1>2 DEF OpAgrees
<1>4. primary[t] = Of(e) /\ primary[t] \in Record /\ primary[t] # None /\ primary[t] # Bad
  BY <1>1, <1>2, <1>3, AtWorkServing, Apart DEF Agrees, Changes
<1>5. /\ op'[p].pc \in {"copying", "replace"}
      /\ op'[p].thread = t /\ op'[p].next = op[p].next /\ op'[p].meta = op[p].meta
      /\ \A q \in Proc : q # p => op'[q] = op[q]
  <2>1. \E pc \in {"copying", "replace"} : op' = [op EXCEPT ![p] = [op[p] EXCEPT !.pc = pc]]
    BY DEF Backup, Copied, Do
  <2> QED
    BY <1>1, <1>2, <2>1 DEF TypeOK, Ops
<1>6. backup'[t] \in {Bad, primary[t]} /\ \A u \in Thread : u # t => backup'[u] = backup[u]
  BY <1>1, <1>2, <1>4 DEF Backup, Copied, TypeOK
<1>7. Older(primary[t], primary[t])
  BY <1>4, Ages
<1>8. Readable(primary'[t]) => BackupOlder(t, primary[t])'
  BY <1>2, <1>6, <1>7 DEF BackupOlder, Readable
<1>9. Loaded(t)' = Loaded(t) /\ Agrees(p, t)'
  BY <1>2, <1>3, <1>4 DEF Loaded, Agrees
<1>10. OpAgrees(p)'
  BY <1>2, <1>3, <1>5, <1>9 DEF OpAgrees
<1> QED
  BY <1>1, <1>2, <1>5, <1>6, <1>8, <1>10, WorkGoesOn

\* The record takes its place: the operation ends, or goes on to the metadata.
LEMMA RenameAgrees ==
    ASSUME IInv, IInv', AgreeInv, NEW p \in Proc, Rename(p)
    PROVE  AgreeInv' /\ Refines
<1>1. PICK t \in Thread : t = op[p].thread
  BY AtWorkServing DEF Rename, Changes
<1> DEFINE e == memory[p][t]
           r == op[p].next
<1>2. /\ op[p].pc = "replace" /\ TypeOK /\ Serves(p) /\ op[p] \in Ops /\ OpAgrees(p)
      /\ r \in Record
      /\ UNCHANGED <<phase, backup, meta, damages, faults>>
  BY AtWorkServing DEF Rename, Changes, counts
<1>3. /\ Agrees(p, t)
      /\ e = None => r.native = None /\ op[p].meta = None /\ meta[t] = None /\ backup[t] = None
      /\ e # None => Older(Of(e), r) /\ Of(e) \in Record /\ primary[t] = Of(e) /\ meta[t] = e.meta
  BY <1>1, <1>2, AtWorkServing DEF OpAgrees, Agrees, Changes
<1>4. primary'[t] = r /\ \A u \in Thread : u # t => primary'[u] = primary[u]
  BY <1>1, <1>2 DEF Rename, TypeOK
<1>5. e # None => BackupOlder(t, Of(e))
  BY <1>3, Apart DEF AgreeInv, Backups, Readable
<1>6. BackupOlder(t, r)
  <2>1. Readable(backup[t]) => backup[t] \in Record
    BY <1>2 DEF TypeOK, Readable
  <2> QED
    BY <1>2, <1>3, <1>5, <2>1, Ages DEF BackupOlder, Readable
<1>7. Readable(primary'[t]) => BackupOlder(t, primary[t])'
  BY <1>2, <1>4, <1>6 DEF BackupOlder
<1>8. CASE e # None /\ e.meta # op[p].meta
  <2>1. /\ op'[p].pc = "meta" /\ op'[p].thread = t /\ op'[p].next = r /\ op'[p].meta = op[p].meta
        /\ memory' = memory /\ \A q \in Proc : q # p => op'[q] = op[q]
    BY <1>1, <1>2, <1>8 DEF Rename, Do, TypeOK, Ops
  <2>2. OpAgrees(p)'
    BY <1>2, <1>3, <1>4, <1>5, <1>8, <2>1 DEF OpAgrees, BackupOlder
  <2> QED
    BY <1>1, <1>2, <1>4, <1>7, <2>1, <2>2, WorkGoesOn
<1>9. CASE ~(e # None /\ e.meta # op[p].meta)
  <2>1. /\ op'[p] = NoOp /\ memory'[p][t] = Entry(r, op[p].meta)
        /\ \A u \in Thread : u # t => memory'[p][u] = memory[p][u]
        /\ \A q \in Proc : q # p => op'[q] = op[q] /\ memory'[q] = memory[q]
    BY <1>1, <1>2, <1>9 DEF Rename, Do, TypeOK
  <2>2. op[p].meta \in Revision \cup {None} /\ meta[t] = op[p].meta
    BY <1>2, <1>3, <1>9 DEF Ops
  <2>3. /\ memory'[p][t] # None /\ Of(memory'[p][t]) = r /\ memory'[p][t].meta = op[p].meta
    <3> DEFINE m == op[p].meta
    <3>1. Entry(r, m) \in Entries /\ Entry(r, m).meta = m /\ Of(Entry(r, m)) = r
      BY <1>2, <2>2, Ages, Built
    <3> QED
      BY <2>1, <3>1, Apart
  <2>4. Agrees(p, t)'
    BY <1>2, <1>4, <2>2, <2>3 DEF Agrees
  <2> QED
    BY <1>1, <1>2, <1>4, <1>7, <2>1, <2>4, WorkEnds
<1> QED
  BY <1>8, <1>9

\* The metadata follows, and then the memory.
LEMMA WriteMetaAgrees ==
    ASSUME IInv, IInv', AgreeInv, NEW p \in Proc, WriteMeta(p)
    PROVE  AgreeInv' /\ Refines
<1>1. PICK t \in Thread : t = op[p].thread
  BY AtWorkServing DEF WriteMeta, Changes
<1> DEFINE r == op[p].next
<1>2. /\ op[p].pc = "meta" /\ TypeOK /\ Serves(p) /\ op[p] \in Ops /\ OpAgrees(p)
      /\ r \in Record /\ op[p].meta \in Revision \cup {None} /\ primary[t] = r
      /\ UNCHANGED <<phase, primary, backup, damages>>
  BY <1>1, AtWorkServing DEF WriteMeta, Changes, counts, OpAgrees, Ops
<1>3. /\ op'[p] = NoOp /\ memory'[p][t] = Entry(r, op[p].meta) /\ meta'[t] = op[p].meta
      /\ \A u \in Thread : u # t => memory'[p][u] = memory[p][u] /\ meta'[u] = meta[u]
      /\ \A q \in Proc : q # p => op'[q] = op[q] /\ memory'[q] = memory[q]
  BY <1>1, <1>2 DEF WriteMeta, Do, TypeOK
<1>4. memory'[p][t] # None /\ Of(memory'[p][t]) = r /\ memory'[p][t].meta = op[p].meta
  <2> DEFINE m == op[p].meta
  <2>1. Entry(r, m) \in Entries /\ Entry(r, m).meta = m /\ Of(Entry(r, m)) = r
    BY <1>2, Ages, Built
  <2> QED
    BY <1>3, <2>1, Apart
<1>5. Agrees(p, t)'
  BY <1>2, <1>3, <1>4 DEF Agrees
<1>6. Readable(primary'[t]) => BackupOlder(t, primary[t])'
  BY <1>2 DEF AgreeInv, Backups, BackupOlder
<1> QED
  BY <1>1, <1>2, <1>3, <1>5, <1>6, WorkEnds

\* A record that is removed leaves with its backup and its metadata, and only then the
\* memory.
LEMMA RemovalAgrees ==
    ASSUME IInv, IInv', AgreeInv, NEW p \in Proc, op[p].pc \in Removals,
           RemoveRecord(p) \/ RemoveBackup(p) \/ RemoveMeta(p)
    PROVE  AgreeInv' /\ Refines
<1>1. PICK t \in Thread : t = op[p].thread
  BY AtWorkServing
<1> DEFINE e == memory[p][t]
<1>2. /\ TypeOK /\ Serves(p) /\ op[p] \in Ops /\ OpAgrees(p)
      /\ e # None /\ e \in Entries /\ Of(e) \in Record
      /\ UNCHANGED <<phase, damages, faults>>
  BY <1>1, AtWorkServing DEF RemoveRecord, RemoveBackup, RemoveMeta, counts
<1>3. CASE RemoveRecord(p)
  <2>1. op[p].pc = "rm" /\ UNCHANGED <<memory, backup, meta>>
    BY <1>3 DEF RemoveRecord, Unlinking, Removals
  <2>2. /\ op'[p].pc = "rmBackup" /\ op'[p].thread = t
        /\ \A q \in Proc : q # p => op'[q] = op[q]
    BY <1>1, <1>2, <1>3, <2>1 DEF RemoveRecord, Do, TypeOK, Ops
  <2>3. primary'[t] = None /\ \A u \in Thread : u # t => primary'[u] = primary[u]
    BY <1>1, <1>2, <1>3 DEF RemoveRecord, TypeOK
  <2>4. primary[t] = Of(e) /\ meta[t] = e.meta
    BY <1>1, <1>2, <2>1 DEF OpAgrees, Agrees
  <2>5. BackupOlder(t, Of(e))
    BY <1>2, <2>4, Apart DEF AgreeInv, Backups, Readable
  <2>6. OpAgrees(p)'
    BY <2>1, <2>2, <2>4, <2>5 DEF OpAgrees, BackupOlder
  <2> QED
    BY <1>1, <1>2, <2>1, <2>2, <2>3, <2>6, WorkGoesOn DEF Readable
<1>4. CASE RemoveBackup(p)
  <2>1. op[p].pc = "rmBackup" /\ UNCHANGED <<memory, primary, meta>> /\ primary[t] = None
    BY <1>1, <1>4, AtWorkServing DEF RemoveBackup, Removals
  <2>2. /\ op'[p].pc = "rmMeta" /\ op'[p].thread = t
        /\ \A q \in Proc : q # p => op'[q] = op[q]
    BY <1>1, <1>2, <1>4, <2>1 DEF RemoveBackup, Do, TypeOK, Ops
  <2>3. backup'[t] = None /\ \A u \in Thread : u # t => backup'[u] = backup[u]
    BY <1>1, <1>2, <1>4 DEF RemoveBackup, TypeOK
  <2>4. OpAgrees(p)'
    BY <1>1, <1>2, <2>1, <2>2, <2>3 DEF OpAgrees, BackupOlder, Readable
  <2> QED
    BY <1>1, <1>2, <2>1, <2>2, <2>3, <2>4, WorkGoesOn DEF Readable
<1>5. CASE RemoveMeta(p)
  <2>1. op[p].pc = "rmMeta" /\ UNCHANGED <<primary, backup>> /\ primary[t] = None
    BY <1>1, <1>5, AtWorkServing DEF RemoveMeta, Removals
  <2>2. /\ op'[p] = NoOp /\ memory'[p][t] = None
        /\ \A u \in Thread : u # t => memory'[p][u] = memory[p][u] /\ meta'[u] = meta[u]
        /\ \A q \in Proc : q # p => op'[q] = op[q] /\ memory'[q] = memory[q]
    BY <1>1, <1>2, <1>5 DEF RemoveMeta, Do, TypeOK
  <2>3. Loaded(t)' = None
    BY <2>1, Apart DEF Loaded
  <2>4. Agrees(p, t)'
    BY <2>2, <2>3 DEF Agrees
  <2> QED
    BY <1>1, <1>2, <2>1, <2>2, <2>4, WorkEnds DEF Readable
<1> QED
  BY <1>3, <1>4, <1>5

\* A record that is put back is the one in memory.
LEMMA PutBackAgrees ==
    ASSUME IInv, IInv', AgreeInv, NEW p \in Proc, PutBack(p)
    PROVE  AgreeInv' /\ Refines
<1>1. PICK t \in Thread : t = op[p].thread
  BY AtWorkServing DEF PutBack, Changes, Removals
<1> DEFINE e == memory[p][t]
<1>2. /\ op[p].pc \in {"putBack", "undo"} /\ TypeOK /\ Serves(p) /\ op[p] \in Ops
      /\ e # None /\ e \in Entries
      /\ UNCHANGED <<phase, memory, backup, meta, damages>>
  BY <1>1, AtWorkServing DEF PutBack, Changes, Removals, counts
<1>3. meta[t] = e.meta /\ BackupOlder(t, Of(e))
  BY <1>1, <1>2, AtWorkServing DEF OpAgrees, Changes, Removals
<1>4. /\ primary'[t] = Of(e) /\ \A u \in Thread : u # t => primary'[u] = primary[u]
      /\ op'[p] = NoOp /\ \A q \in Proc : q # p => op'[q] = op[q]
  BY <1>1, <1>2 DEF PutBack, Do, TypeOK
<1>5. Agrees(p, t)'
  BY <1>2, <1>3, <1>4 DEF Agrees
<1>6. Readable(primary'[t]) => BackupOlder(t, primary[t])'
  BY <1>2, <1>3, <1>4 DEF BackupOlder
<1> QED
  BY <1>1, <1>2, <1>4, <1>5, <1>6, WorkEnds

\* A request finds memory and disk agreed on its Thread, as on all.
LEMMA RequestAgrees ==
    ASSUME IInv, IInv', AgreeInv, NEW p \in Proc, NEW t \in Thread, NEW o \in Ops, Request(p, o),
           o.thread = t, o.pc \in {"replace", "backup", "rm"},
           o.pc # "replace" => memory[p][t] # None,
           o.pc = "backup" => Older(Of(memory[p][t]), o.next),
           o.pc = "replace" =>
              /\ memory[p][t] = None /\ meta[t] = None /\ backup[t] = None
              /\ o.next.native = None /\ o.meta = None
    PROVE  AgreeInv' /\ Refines
<1>1. /\ phase[p] = "up" /\ op[p].pc = "idle" /\ TypeOK /\ Sound(p)
      /\ UNCHANGED <<phase, todo, memory, files, counts>>
  BY SoundNow DEF IInv, Request, Ready, At
<1>2. UNCHANGED <<damages, primary, backup, meta>>
  BY <1>1 DEF files, counts
<1>3. /\ op'[p] = o /\ op'[p].pc # "idle" /\ Owner(p) /\ Serves(p) /\ Serves(p)'
      /\ \A q \in Proc : q # p => op'[q] = op[q]
  BY <1>1 DEF Request, Do, TypeOK, Owner, Serves
<1>4. \A u \in Thread : Agrees(p, u)
  BY <1>1, Apart, Idleness DEF AgreeInv, Settled, Sound, ActsInPhase
<1>5. /\ \A u \in Thread : Loaded(u)' = Loaded(u)
      /\ \A u \in Thread : Agrees(p, u)'
  BY <1>1, <1>2, <1>4 DEF Loaded, Agrees
<1>6. Settled(p)'
  BY <1>1, <1>5 DEF Settled
<1>7. OpAgrees(p)'
  BY <1>1, <1>2, <1>3, <1>5 DEF OpAgrees
<1>8. Backups'
  BY <1>2 DEF AgreeInv, Backups, BackupOlder
<1>9. AgreeInv'
  BY <1>1, <1>3, <1>6, <1>7, <1>8, OthersAgree
<1>10. Served(p)' = Served(p) /\ Stored' = Stored
  BY <1>1, <1>5 DEF Served, Stored
<1>11. ServedNow # None /\ ServedNow' = ServedNow /\ WritingNow = {} /\ WritingNow' = {t}
  <2>1. SeenBy(p) /\ SeenBy(p)'
    BY SeenAlways
  <2> QED
    BY <1>1, <1>3, <1>10, <2>1 DEF SeenBy
<1> QED
  BY <1>2, <1>9, <1>10, <1>11, Abstract

\* A Thread that is new has no file; a record grows older by its next content.
LEMMA RequestsAgree ==
    ASSUME IInv, IInv', AgreeInv, NEW p \in Proc, NEW t \in Thread, Requests(p, t)
    PROVE  AgreeInv' /\ Refines
<1> DEFINE e == memory[p][t]
<1>a. TypeOK /\ {"replace", "backup", "rm"} \subseteq Pcs
  BY DEF IInv, Pcs
<1>b. e # None => /\ e \in Entries /\ e.native \in Native \cup {None} /\ e.rev \in Revision
                  /\ e.meta \in Revision \cup {None}
  BY <1>a DEF TypeOK, Entries
<1>c. \A v \in Revision : v < MaxRevision => v + 1 \in Revision
  BY StoreAssumption DEF Revision
<1>1. CASE CreateProvisional(p, t)
  <2> DEFINE o == Op("replace", t, Rec(None, 1), None)
  <2>1. o \in Ops /\ o.thread = t /\ o.pc = "replace" /\ o.next = Rec(None, 1) /\ o.meta = None
    BY <1>a, Apart, Built DEF Op
  <2>2. o.next.native = None
    BY <2>1, Apart, Built
  <2>3. Request(p, o) /\ e = None /\ meta[t] = None /\ backup[t] = None
    BY <1>1 DEF CreateProvisional, Unused
  <2> HIDE DEF o
  <2> QED
    BY <2>1, <2>2, <2>3, RequestAgrees
<1>2. ASSUME NEW n \in Native \cup {None}, NEW m \in Revision \cup {None},
             e # None, e.rev < MaxRevision, Request(p, Op("backup", t, Rec(n, e.rev + 1), m)),
             e.native # None => n # None
      PROVE  AgreeInv' /\ Refines
  <2> DEFINE r == Rec(n, e.rev + 1)
             o == Op("backup", t, r, m)
  <2>1. r \in Record
    BY <1>b, <1>c, <1>2, Built
  <2>2. o \in Ops
    BY <1>a, <2>1, Built
  <2>3. o.thread = t /\ o.pc = "backup" /\ o.next = r
    BY DEF Op
  <2>4. Older(Of(e), r)
    <3>1. /\ Of(e).rev = e.rev /\ Of(e).native = e.native
          /\ r.rev = e.rev + 1 /\ r.native = n
      BY DEF Of, Rec
    <3>2. e.rev \in Nat /\ (e.native # None => n # None)
      BY <1>b, <1>2, Apart
    <3> QED
      BY <3>1, <3>2 DEF Older
  <2>5. Request(p, o)
    BY <1>2
  <2> HIDE DEF o, r
  <2> QED
    BY <1>2, <2>1, <2>2, <2>3, <2>4, <2>5, RequestAgrees
<1>3. CASE Revise(p, t)
  BY <1>b, <1>2, <1>3 DEF Revise
<1>4. ASSUME NEW n \in Native, SetNative(p, t, n) PROVE AgreeInv' /\ Refines
  <2>1. e # None /\ e.rev < MaxRevision /\ Request(p, Op("backup", t, Rec(n, e.rev + 1), e.meta))
    BY <1>4 DEF SetNative
  <2>2. n # None /\ n \in Native \cup {None}
    BY Apart
  <2> QED
    BY <1>b, <1>2, <2>1, <2>2
<1>5. ASSUME NEW m \in Revision \cup {None}, UpdateMetadata(p, t, m) PROVE AgreeInv' /\ Refines
  BY <1>b, <1>2, <1>5 DEF UpdateMetadata
<1>6. CASE RemoveThread(p, t)
  <2> DEFINE o == Op("rm", t, None, None)
  <2>1. o \in Ops /\ o.thread = t /\ o.pc = "rm"
    BY <1>a, Built DEF Op
  <2>2. Request(p, o) /\ e # None
    BY <1>6 DEF RemoveThread
  <2> HIDE DEF o
  <2> QED
    BY <2>1, <2>2, RequestAgrees
<1> QED
  BY <1>1, <1>3, <1>4, <1>5, <1>6 DEF Requests

-----------------------------------------------------------------------------
(* The steps of a start *)

\* What a process that loads a Thread finds.
LEMMA AtWorkLoading ==
    ASSUME IInv, AgreeInv, NEW p \in Proc, op[p].pc \in Loads
    PROVE  /\ TypeOK /\ phase[p] = "loading" /\ op[p] \in Ops /\ op[p].thread \in Thread
           /\ memory[p][op[p].thread] = None /\ op[p].thread \notin todo[p]
           /\ OpAgrees(p)
           /\ \A t \in Thread \ (todo[p] \cup {op[p].thread}) : Agrees(p, t)
           /\ op[p].pc \in {"check", "restore"} => op[p].next \in Record
           /\ op[p].pc \in {"dropBackup", "dropMeta"} => primary[op[p].thread] = None
<1>1. op[p].pc # "idle"
  BY DEF Loads
<1> QED
  BY <1>1, AtWork DEF AgreeInv, Settled, Sound, OpFits, Changes

\* A step on one Thread leaves the others as they were.
LEMMA LoadStep ==
    ASSUME IInv, AgreeInv, NEW p \in Proc, NEW t \in Thread, op[p].pc \in Loads, op[p].thread = t,
           phase' = phase, todo' = todo, damages' = damages,
           \A q \in Proc : q # p => op'[q] = op[q] /\ memory'[q] = memory[q],
           \A u \in Thread : u # t =>
               /\ memory'[p][u] = memory[p][u]
               /\ primary'[u] = primary[u] /\ backup'[u] = backup[u] /\ meta'[u] = meta[u],
           Loaded(t)' = Loaded(t),
           Readable(primary'[t]) => BackupOlder(t, primary[t])',
           \/ op'[p].thread = t /\ OpAgrees(p)'
           \/ op'[p] = NoOp /\ Agrees(p, t)'
    PROVE  AgreeInv' /\ Refines
<1>1. phase[p] = "loading" /\ \A u \in Thread \ (todo[p] \cup {t}) : Agrees(p, u)
  BY AtWorkLoading
<1>2. \A u \in Thread : Loaded(u)' = Loaded(u)
  BY LoadedStays
<1>3. \A u \in Thread : u # t => (Agrees(p, u) => Agrees(p, u)')
  BY <1>2 DEF Agrees
<1>4. Backups'
  <2>1. \A u \in Thread : u # t /\ Readable(primary'[u]) => BackupOlder(u, primary[u])'
    BY DEF AgreeInv, Backups, BackupOlder
  <2> QED
    BY <2>1 DEF Backups
<1>5. Settled(p)' /\ OpAgrees(p)'
  BY <1>1, <1>3, Idleness DEF Settled, OpAgrees
<1>6. ~Serves(p)'
  BY <1>1 DEF Serves
<1> QED
  BY <1>1, <1>2, <1>4, <1>5, <1>6, LoadGoesOn

\* A Thread is looked at whose memory is empty: what is done with it depends on its files.
LEMMA LoadAgrees ==
    ASSUME IInv, AgreeInv, NEW p \in Proc, NEW t \in Thread, Load(p, t)
    PROVE  AgreeInv' /\ Refines
<1>1. /\ phase[p] = "loading" /\ op[p].pc = "idle" /\ t \in todo[p] /\ TypeOK /\ Sound(p)
      /\ UNCHANGED <<phase, memory, files, counts>>
  BY SoundNow DEF Load, At, IInv
<1>2. UNCHANGED <<primary, backup, meta, damages, memory, phase>>
  BY <1>1 DEF files, counts
<1>3. /\ todo'[p] = todo[p] \ {t}
      /\ \A q \in Proc : q # p => op'[q] = op[q]
  BY <1>1 DEF TypeOK, Load, Do
<1>4. /\ op'[p].thread = t
      /\ \/ op'[p].pc = "check" /\ op'[p].next = primary[t]
         \/ op'[p].pc = "restore" /\ op'[p].next = backup[t] /\ primary[t] = Bad
         \/ op'[p].pc = "archive" /\ primary[t] = Bad /\ ~Readable(backup[t])
  BY <1>1 DEF TypeOK, Load, Do, Op
<1>5. primary[t] = Bad /\ ~Readable(backup[t]) => Loaded(t) = None
  BY DEF Loaded
<1>6. /\ \A u \in Thread : Loaded(u)' = Loaded(u)
      /\ \A u \in Thread : Agrees(p, u) => Agrees(p, u)'
  BY <1>2 DEF Loaded, Agrees
<1>7. op[p].thread = None
  BY <1>1, Idleness DEF Sound, ActsInPhase
<1>8. Settled(p)'
  <2>1. \A u \in Thread \ todo[p] : Agrees(p, u)
    BY <1>1, <1>7, Apart DEF AgreeInv, Settled
  <2> QED
    BY <1>1, <1>3, <1>4, <1>6, <2>1 DEF Settled
<1>9. OpAgrees(p)'
  BY <1>2, <1>4, <1>5, <1>6 DEF OpAgrees
<1>10. Backups' /\ ~Serves(p)'
  BY <1>1, <1>2 DEF AgreeInv, Backups, BackupOlder, Serves
<1> QED
  BY <1>1, <1>2, <1>3, <1>6, <1>8, <1>9, <1>10, LoadGoesOn

\* The backup a restart would take for the record becomes the record.
LEMMA RestoreAgrees ==
    ASSUME IInv, AgreeInv, NEW p \in Proc, Restore(p)
    PROVE  AgreeInv' /\ Refines
<1>1. PICK t \in Thread : t = op[p].thread
  BY AtWorkLoading DEF Restore, Loads
<1> DEFINE r == op[p].next
<1>2. /\ op[p].pc = "restore" /\ TypeOK /\ op[p] \in Ops /\ r \in Record
      /\ primary[t] = Bad /\ backup[t] = r
      /\ UNCHANGED <<phase, todo, memory, backup, meta, damages>>
  BY <1>1, AtWorkLoading DEF Restore, Loads, counts, OpAgrees
<1>3. /\ op'[p].pc = "check" /\ op'[p].thread = t /\ op'[p].next = r
      /\ \A q \in Proc : q # p => op'[q] = op[q]
  BY <1>1, <1>2 DEF Restore, Do, TypeOK, Ops
<1>4. primary'[t] = r /\ \A u \in Thread : u # t => primary'[u] = primary[u]
  BY <1>1, <1>2 DEF Restore, TypeOK
<1>5. r # Bad /\ Readable(r)
  BY <1>2, Apart DEF Readable
<1>6. Loaded(t)' = Loaded(t)
  BY <1>2, <1>4, <1>5 DEF Loaded
<1>7. Readable(primary'[t]) => BackupOlder(t, primary[t])'
  BY <1>2, <1>4, Ages DEF BackupOlder
<1>8. OpAgrees(p)'
  BY <1>3, <1>4 DEF OpAgrees
<1> QED
  BY <1>1, <1>2, <1>3, <1>4, <1>6, <1>7, <1>8, LoadStep DEF Loads

\* What is archived is nothing a restart would find.
LEMMA QuarantineAgrees ==
    ASSUME IInv, AgreeInv, NEW p \in Proc, ArchiveMeta(p) \/ MoveRecord(p)
    PROVE  AgreeInv' /\ Refines
<1>1. PICK t \in Thread : t = op[p].thread
  BY AtWorkLoading DEF ArchiveMeta, MoveRecord, At, Loads
<1>2. /\ op[p].pc \in {"archive", "move"} /\ TypeOK /\ op[p] \in Ops
      /\ memory[p][t] = None /\ Loaded(t) = None
      /\ UNCHANGED <<phase, todo, memory, backup, meta, damages>>
  BY <1>1, AtWorkLoading DEF ArchiveMeta, MoveRecord, At, Loads, counts, OpAgrees
<1>3. CASE ArchiveMeta(p)
  <2>1. /\ op'[p].pc = "move" /\ op'[p].thread = t /\ primary' = primary
        /\ \A q \in Proc : q # p => op'[q] = op[q]
    BY <1>1, <1>2, <1>3 DEF ArchiveMeta, Do, TypeOK, Ops
  <2>2. Loaded(t)' = Loaded(t) /\ OpAgrees(p)'
    BY <1>2, <2>1 DEF Loaded, OpAgrees
  <2>3. Readable(primary'[t]) => BackupOlder(t, primary[t])'
    BY <1>2, <2>1 DEF AgreeInv, Backups, BackupOlder
  <2> QED
    BY <1>1, <1>2, <2>1, <2>2, <2>3, LoadStep DEF Loads
<1>4. CASE MoveRecord(p)
  <2>1. /\ op'[p] = NoOp /\ \A q \in Proc : q # p => op'[q] = op[q]
        /\ primary'[t] = None /\ \A u \in Thread : u # t => primary'[u] = primary[u]
    BY <1>1, <1>2, <1>4 DEF MoveRecord, Do, TypeOK
  <2>2. Loaded(t)' = None
    BY <2>1, Apart DEF Loaded
  <2>3. Agrees(p, t)'
    BY <1>2, <2>2 DEF Agrees
  <2> QED
    BY <1>1, <1>2, <2>1, <2>2, <2>3, LoadStep DEF Loads, Readable
<1> QED
  BY <1>3, <1>4

\* A Thread enters memory as a restart would find it; one still creating is not found.
LEMMA CheckAgrees ==
    ASSUME IInv, AgreeInv, NEW p \in Proc, Check(p)
    PROVE  AgreeInv' /\ Refines
<1>1. PICK t \in Thread : t = op[p].thread
  BY AtWorkLoading DEF Check, Loads
<1> DEFINE r == op[p].next
<1>2. /\ op[p].pc = "check" /\ TypeOK /\ op[p] \in Ops /\ r \in Record /\ primary[t] = r
      /\ memory[p][t] = None
      /\ UNCHANGED <<phase, todo, primary, backup, damages>>
  BY <1>1, AtWorkLoading DEF Check, Loads, counts, OpAgrees
<1>3. \A q \in Proc : q # p => op'[q] = op[q] /\ memory'[q] = memory[q]
  BY <1>2 DEF Check, Do, TypeOK
<1>4. r # Bad /\ r # None
  BY <1>2, Apart
<1>5. Readable(primary'[t]) => BackupOlder(t, primary[t])'
  BY <1>2 DEF AgreeInv, Backups, BackupOlder
<1>6. CASE r.native = None
  <2>1. /\ op'[p].pc = "drop" /\ op'[p].thread = t
        /\ UNCHANGED <<memory, meta>>
    BY <1>1, <1>2, <1>6 DEF Check, Do, TypeOK, Ops
  <2>2. Loaded(t) = None /\ Loaded(t)' = None
    BY <1>2, <1>4, <1>6 DEF Loaded
  <2>3. OpAgrees(p)'
    BY <2>1, <2>2 DEF OpAgrees
  <2> QED
    BY <1>1, <1>2, <1>3, <1>5, <2>1, <2>2, <2>3, LoadStep DEF Loads
<1>7. CASE r.native # None
  <2>1. /\ op'[p] = NoOp
        /\ meta'[t] = IF meta[t] = Bad THEN None ELSE meta[t]
        /\ \A u \in Thread : u # t => meta'[u] = meta[u] /\ memory'[p][u] = memory[p][u]
        /\ memory'[p][t] = Entry(r, meta'[t])
    BY <1>1, <1>2, <1>7 DEF Check, Do, TypeOK
  <2>2. PICK m \in Revision \cup {None} : m = meta'[t]
    BY <1>1, <1>2, <2>1 DEF TypeOK
  <2>3. memory'[p][t] # None /\ Of(memory'[p][t]) = r /\ memory'[p][t].meta = m
    <3>1. Entry(r, m) \in Entries /\ Entry(r, m).meta = m /\ Of(Entry(r, m)) = r
      BY <1>2, Ages, Built
    <3> QED
      BY <2>1, <2>2, <3>1, Apart
  <2>4. Agrees(p, t)'
    BY <1>2, <2>2, <2>3 DEF Agrees
  <2>5. Loaded(t)' = Loaded(t)
    BY <1>2, <2>1, Apart DEF Loaded
  <2> QED
    BY <1>1, <1>2, <1>3, <1>5, <2>1, <2>4, <2>5, LoadStep DEF Loads
<1> QED
  BY <1>6, <1>7

\* A Thread still creating is dropped unseen.
LEMMA DropAgrees ==
    ASSUME IInv, AgreeInv, NEW p \in Proc, op[p].pc \in Loads,
           RemoveRecord(p) \/ RemoveBackup(p) \/ RemoveMeta(p)
    PROVE  AgreeInv' /\ Refines
<1>1. PICK t \in Thread : t = op[p].thread
  BY AtWorkLoading
<1>2. /\ TypeOK /\ op[p] \in Ops /\ op[p].pc \in {"drop", "dropBackup", "dropMeta"}
      /\ memory[p][t] = None /\ Loaded(t) = None
      /\ op[p].pc # "drop" => primary[t] = None
      /\ UNCHANGED <<phase, todo, damages>>
  BY <1>1, AtWorkLoading
     DEF RemoveRecord, RemoveBackup, RemoveMeta, Unlinking, Loads, counts, OpAgrees
<1>3. /\ primary'[t] = None
      /\ \A u \in Thread : u # t => /\ memory'[p][u] = memory[p][u]
                                   /\ primary'[u] = primary[u] /\ backup'[u] = backup[u]
                                   /\ meta'[u] = meta[u]
      /\ memory'[p][t] = None
      /\ \A q \in Proc : q # p => op'[q] = op[q] /\ memory'[q] = memory[q]
  <2>1. CASE RemoveRecord(p)
    BY <1>1, <1>2, <2>1 DEF RemoveRecord, Do, TypeOK
  <2>2. CASE RemoveBackup(p)
    BY <1>1, <1>2, <2>2 DEF RemoveBackup, Do, TypeOK
  <2>3. CASE RemoveMeta(p)
    BY <1>1, <1>2, <2>3 DEF RemoveMeta, Do, TypeOK
  <2> QED
    BY <2>1, <2>2, <2>3
<1>4. Loaded(t)' = None
  BY <1>3, Apart DEF Loaded
<1>5. \/ op'[p].thread = t /\ OpAgrees(p)'
      \/ op'[p] = NoOp /\ Agrees(p, t)'
  <2>1. CASE RemoveMeta(p)
    BY <1>2, <1>3, <1>4, <2>1 DEF RemoveMeta, Do, TypeOK, Agrees
  <2>2. CASE ~RemoveMeta(p)
    <3>1. op'[p].thread = t /\ op'[p].pc \in {"dropBackup", "dropMeta"}
      BY <1>1, <1>2, <2>2 DEF RemoveRecord, RemoveBackup, Do, TypeOK, Ops
    <3> QED
      BY <1>4, <3>1 DEF OpAgrees
  <2> QED
    BY <2>1, <2>2
<1> QED
  BY <1>1, <1>2, <1>3, <1>4, <1>5, LoadStep DEF Readable

\* The end of the load leaves what agrees.
LEMMA EndLoadAgrees ==
    ASSUME IInv, AgreeInv, NEW p \in Proc, EndLoad(p)
    PROVE  AgreeInv' /\ Refines
<1>1. /\ phase[p] = "loading" /\ op[p].pc = "idle" /\ todo[p] = {} /\ TypeOK
      /\ UNCHANGED <<memory, op, files, counts>>
      /\ phase'[p] = "sweeping" /\ \A q \in Proc : q # p => phase'[q] = phase[q]
  BY DEF EndLoad, Enter, At, IInv, TypeOK
<1>2. UNCHANGED <<primary, backup, meta, damages, memory, op>>
  BY <1>1 DEF files, counts
<1>3. /\ \A u \in Thread : Loaded(u)' = Loaded(u)
      /\ \A u \in Thread : Agrees(p, u) => Agrees(p, u)'
  BY <1>2 DEF Loaded, Agrees
<1>4. Settled(p)' /\ OpAgrees(p)'
  BY <1>1, <1>2, <1>3 DEF AgreeInv, Settled, OpAgrees
<1>5. Backups' /\ ~Serves(p)'
  BY <1>1, <1>2 DEF AgreeInv, Backups, BackupOlder, Serves
<1> QED
  BY <1>1, <1>2, <1>3, <1>4, <1>5, LoadGoesOn

\* Swept metadata belongs to no record.
LEMMA SweepAgrees ==
    ASSUME IInv, AgreeInv, NEW p \in Proc, NEW t \in Thread, Sweep(p, t) \/ SweepFails(p, t)
    PROVE  AgreeInv' /\ Refines
<1>1. /\ phase[p] = "sweeping" /\ t \in todo[p] /\ TypeOK /\ Sound(p)
      /\ UNCHANGED <<phase, memory, op, primary, backup, damages>>
  BY SoundNow DEF Sweep, SweepFails, IInv, files, counts
<1>2. /\ primary[t] = None /\ op[p].pc \in Pcs
      /\ \A u \in Thread : u # t => meta'[u] = meta[u]
  BY <1>1 DEF Sweep, SweepFails, TypeOK, files, Sound, TodoFits, Ops
<1>3. op[p] = NoOp
  BY <1>1, <1>2 DEF Sound, ActsInPhase, Serves, Pcs, Loads, Changes, Removals
<1>4. \A u \in Thread : Loaded(u)' = Loaded(u)
  BY <1>1, <1>2, Apart DEF Loaded
<1>5. \A u \in Thread : Agrees(p, u) => Agrees(p, u)'
  <2>1. Agrees(p, t) => memory[p][t] = None
    <3>1. memory[p][t] # None => Of(memory[p][t]) \in Record
      BY <1>1, Built DEF TypeOK
    <3> QED
      BY <1>2, <3>1, Apart DEF Agrees
  <2> QED
    BY <1>1, <1>2, <1>4, <2>1 DEF Agrees
<1>6. Settled(p)' /\ OpAgrees(p)'
  BY <1>1, <1>3, <1>5, Idleness DEF AgreeInv, Settled, OpAgrees
<1>7. Backups' /\ ~Serves(p)'
  BY <1>1 DEF AgreeInv, Backups, BackupOlder, Serves
<1> QED
  BY <1>1, <1>4, <1>6, <1>7, LoadGoesOn

\* A step that leaves the disk alone keeps the agreement if each process either goes on
\* as it was or becomes idle.
LEMMA QuietStepAgrees ==
    ASSUME IInv, AgreeInv, UNCHANGED <<files, damages>>, faults' \in {faults, faults + 1},
           \A q \in Proc : \/ /\ phase'[q] = phase[q] /\ op'[q] = op[q]
                             /\ memory'[q] = memory[q] /\ todo'[q] = todo[q]
                          \/ Idle(q)'
    PROVE  AgreeInv' /\ (\A t \in Thread : Loaded(t)' = Loaded(t)) /\ Stored' = Stored
<1>1. UNCHANGED <<primary, backup, meta>> /\ (faults > 0 => faults' > 0)
  BY StoreAssumption DEF files, IInv, TypeOK
<1>2. \A t \in Thread : Loaded(t)' = Loaded(t)
  BY <1>1 DEF Loaded
<1>3. ASSUME NEW q \in Proc, phase'[q] = phase[q], op'[q] = op[q],
             memory'[q] = memory[q], todo'[q] = todo[q]
      PROVE  Settled(q)' /\ OpAgrees(q)'
  <2>1. \A t \in Thread : Agrees(q, t)' <=> Agrees(q, t)
    BY <1>1, <1>2, <1>3 DEF Agrees
  <2>2. Settled(q)'
    BY <1>3, <2>1 DEF AgreeInv, Settled
  <2>3. op[q].pc = "idle" \/ op[q].thread \in Thread
    BY AtWork
  <2>4. OpAgrees(q)'
    <3>1. CASE op[q].pc = "idle"
      BY <1>3, <3>1 DEF OpAgrees
    <3>2. CASE op[q].thread \in Thread
      BY <1>1, <1>2, <1>3, <2>1, <3>2 DEF AgreeInv, OpAgrees, BackupOlder
    <3> QED
      BY <2>3, <3>1, <3>2
  <2> QED
    BY <2>2, <2>4
<1>4. Backups'
  BY <1>1 DEF AgreeInv, Backups, BackupOlder
<1>5. \A q \in Proc : Settled(q)' /\ OpAgrees(q)'
  BY <1>3, IdleAgrees
<1> QED
  BY <1>2, <1>4, <1>5 DEF AgreeInv, Stored

\* The store serves what a restart would find, all of it.
LEMMA ServeAgrees ==
    ASSUME IInv, IInv', AgreeInv, NEW p \in Proc, Serve(p)
    PROVE  AgreeInv' /\ Refines
<1>1. /\ phase[p] = "sweeping" /\ TypeOK /\ Sound(p) /\ op[p].pc \in Pcs /\ Owner(p)
      /\ UNCHANGED <<todo, op, files, counts>>
  BY SoundNow DEF Serve, IInv, TypeOK, Ops, Owner
<1>2. UNCHANGED <<files, damages, faults, todo, op, primary, backup, meta>>
  BY <1>1 DEF files, counts
<1>3. op[p].pc = "idle" /\ op[p] = NoOp
  BY <1>1 DEF Sound, ActsInPhase, Serves, Pcs, Loads, Changes, Removals
<1>4. CASE Shared(memory[p])
  <2>1. phase'[p] = "failed" /\ memory'[p] = NoMemory
        /\ \A q \in Proc : q # p => phase'[q] = phase[q] /\ memory'[q] = memory[q]
    BY <1>1, <1>4 DEF Serve, Enter, TypeOK
  <2>2. Idle(p)' /\ ~Serves(p) /\ ~Serves(p)'
    BY <1>1, <1>2, <1>3, <2>1 DEF Idle, Active, Serves
  <2>3. AgreeInv' /\ \A t \in Thread : Loaded(t)' = Loaded(t)
    BY <1>2, <2>1, <2>2, QuietStepAgrees
  <2> QED
    BY <1>2, <2>1, <2>2, <2>3, Hidden
<1>5. CASE ~Shared(memory[p])
  <2>1. phase'[p] = "up" /\ memory' = memory /\ \A q \in Proc : q # p => phase'[q] = phase[q]
    BY <1>1, <1>5 DEF Serve, Enter, TypeOK
  <2>2. \A t \in Thread : Agrees(p, t) /\ Loaded(t)' = Loaded(t) /\ Agrees(p, t)'
    BY <1>1, <1>2, <1>3, <2>1, Idleness, Apart DEF AgreeInv, Settled, Loaded, Agrees
  <2>3. Settled(p)' /\ OpAgrees(p)' /\ Backups'
    BY <1>2, <1>3, <2>1, <2>2 DEF AgreeInv, Settled, OpAgrees, Backups, BackupOlder
  <2>4. AgreeInv'
    BY <1>1, <1>2, <2>1, <2>3, OthersAgree
  <2>5. Stored' = Stored
    BY <2>2 DEF Stored
  <2>6. ServedNow = None /\ WritingNow = {}
    BY <1>1, OwnerIsAlone, Unseen DEF IInv, Serves, Owner
  <2>7. SeenBy(p)' /\ Serves(p)'
    BY <2>1, SeenAlways DEF Serves
  <2>8. ServedNow' = Served(p)' /\ WritingNow' = {} /\ \A t \in Thread : Served(p)'[t] = Loaded(t)'
    BY <1>2, <1>3, <2>2, <2>7 DEF SeenBy
  <2>9. Served(p)' = Stored
    BY <2>2, <2>8 DEF Served, Stored
  <2> QED
    BY <1>2, <2>4, <2>5, <2>6, <2>8, <2>9, Abstract
<1> QED
  BY <1>4, <1>5

\* While it takes the lock a process serves nothing; then it has every Thread with a
\* record to look at, and no other is found.
LEMMA LockingAgrees ==
    ASSUME IInv, AgreeInv, NEW p \in Proc, Locking(p)
    PROVE  AgreeInv' /\ Refines
<1>1. /\ TypeOK /\ phase[p] \notin Active
      /\ UNCHANGED <<memory, op, files, counts>>
      /\ \A q \in Proc : q # p => phase'[q] = phase[q]
  BY DEF IInv, TypeOK, Locking, Start, OpenLock, ReadLock, RenameLock, WriteLock, Enter, Active
<1>2. Idle(p) /\ UNCHANGED <<damages, faults, primary, backup, meta, files>>
  BY <1>1, InactiveIsIdle DEF IInv, files, counts
<1>3. \A t \in Thread : Loaded(t)' = Loaded(t)
  BY <1>2 DEF Loaded
<1>4. ~Serves(p) /\ ~Serves(p)'
  BY <1>1 DEF Active, Serves, IInv, TypeOK, Locking, Start, OpenLock, ReadLock, RenameLock,
     WriteLock, Enter
<1>5. Refines
  BY <1>1, <1>2, <1>3, <1>4, Hidden
<1>6. CASE WriteLock(p)
  <2>1. /\ phase[p] = "writing" /\ phase'[p] = "loading"
        /\ todo'[p] = {t \in Thread : primary[t] # None}
    BY <1>1, <1>6 DEF WriteLock, Enter, TypeOK
  <2>2. \A q \in Proc : ~Owner(q)
    BY <2>1, OwnerIsAlone DEF IInv
  <2>3. \A q \in Proc : q # p => Idle(q)'
    BY <1>1, <2>2, InactiveIsIdle DEF IInv, Idle, Owner, Active
  <2>4. op'[p] = NoOp /\ memory'[p] = NoMemory
    BY <1>1, <1>2 DEF Idle
  <2>5. \A t \in Thread : primary[t] = None => Loaded(t)' = None
    BY <1>2, Apart DEF Loaded
  <2>6. Settled(p)' /\ OpAgrees(p)'
    BY <1>2, <2>1, <2>4, <2>5, Idleness DEF Settled, Agrees, OpAgrees
  <2>7. Backups'
    BY <1>2 DEF AgreeInv, Backups, BackupOlder
  <2> QED
    BY <1>5, <2>3, <2>6, <2>7, IdleAgrees DEF AgreeInv
<1>7. CASE ~WriteLock(p)
  <2>1. phase'[p] \notin Active /\ todo' = todo
    BY <1>1, <1>7 DEF IInv, TypeOK, Locking, Start, OpenLock, ReadLock, RenameLock, Enter, Active
  <2>2. Idle(p)'
    BY <1>1, <1>2, <2>1 DEF Idle
  <2> QED
    BY <1>1, <1>2, <1>5, <2>1, <2>2, QuietStepAgrees
<1> QED
  BY <1>6, <1>7

-----------------------------------------------------------------------------
(* close, crashes, failing system calls and damage *)

\* A close goes on serving until it is done.
LEMMA CloseAgrees ==
    ASSUME IInv, IInv', AgreeInv, NEW p \in Proc, Close(p)
    PROVE  AgreeInv' /\ Refines
<1>1. /\ phase[p] = "up" /\ TypeOK /\ Owner(p) /\ Serves(p) /\ Serves(p)'
      /\ phase'[p] = "closing" /\ \A q \in Proc : q # p => phase'[q] = phase[q]
      /\ UNCHANGED <<todo, memory, op, files, counts>>
  BY DEF Close, Enter, IInv, TypeOK, Owner, Serves
<1>2. UNCHANGED <<damages, faults, memory, op, primary, backup, meta>>
  BY <1>1 DEF files, counts
<1>3. \A t \in Thread : Loaded(t)' = Loaded(t) /\ (Agrees(p, t)' <=> Agrees(p, t))
  BY <1>2 DEF Loaded, Agrees
<1>4. op[p].pc = "idle" \/ op[p].thread \in Thread
  BY AtWork
<1>5. OpAgrees(p)'
  <2>1. CASE op[p].pc = "idle"
    BY <1>2, <2>1 DEF OpAgrees
  <2>2. CASE op[p].thread \in Thread
    BY <1>2, <1>3, <2>2 DEF AgreeInv, OpAgrees, BackupOlder
  <2> QED
    BY <1>4, <2>1, <2>2
<1>6. Settled(p)' /\ Backups'
  BY <1>1, <1>2, <1>3 DEF AgreeInv, Settled, Backups, BackupOlder
<1>7. AgreeInv'
  BY <1>1, <1>2, <1>5, <1>6, OthersAgree
<1>8. Served(p)' = Served(p) /\ Stored' = Stored
  BY <1>2, <1>3 DEF Served, Stored
<1>9. ServedNow' = ServedNow /\ WritingNow' = WritingNow
  BY <1>1, <1>2, <1>8, SeenAlways DEF SeenBy
<1> QED
  BY <1>2, <1>7, <1>8, <1>9, Abstract

\* A process that is gone serves nothing; the disk stays.
LEMMA GoneAgrees ==
    ASSUME IInv, AgreeInv, NEW p \in Proc, Idle(p)',
           UNCHANGED <<files, damages>>, faults' \in {faults, faults + 1},
           \A q \in Proc : q # p => /\ phase'[q] = phase[q] /\ op'[q] = op[q]
                                   /\ memory'[q] = memory[q] /\ todo'[q] = todo[q]
    PROVE  AgreeInv' /\ Refines
<1>1. AgreeInv' /\ (\A t \in Thread : Loaded(t)' = Loaded(t)) /\ Stored' = Stored
  BY QuietStepAgrees
<1>2. ~Serves(p)'
  BY DEF Idle, Active, Serves
<1>3. CASE Serves(p)
  <2>1. \A q \in Proc : ~Serves(q)'
    BY <1>2, <1>3, OwnerIsAlone DEF IInv, Serves, Owner
  <2>2. ServedNow' = None /\ WritingNow' = {}
    BY <2>1, UnseenNext
  <2> QED
    BY <1>1, <2>2, Abstract
<1>4. CASE ~Serves(p)
  BY <1>1, <1>2, <1>4, Hidden
<1> QED
  BY <1>3, <1>4

\* A close that is done, and a crash.
LEMMA LeavingAgrees ==
    ASSUME IInv, AgreeInv, NEW p \in Proc, Closed(p) \/ Crash(p)
    PROVE  AgreeInv' /\ Refines
<1>1. TypeOK /\ Sound(p) /\ UNCHANGED <<files, damages, faults>>
  BY SoundNow DEF IInv, Closed, Crash, counts
<1>2. /\ phase'[p] = "down" /\ memory'[p] = NoMemory /\ op'[p] = NoOp
      /\ \A q \in Proc : q # p => /\ phase'[q] = phase[q] /\ op'[q] = op[q]
                                 /\ memory'[q] = memory[q] /\ todo'[q] = todo[q]
  BY <1>1 DEF Closed, Crash, Enter, Do, At, TypeOK, Sound, ActsInPhase
<1>3. Idle(p)'
  BY <1>2 DEF Idle, Active
<1> QED
  BY <1>1, <1>2, <1>3, GoneAgrees

\* A failed system call leaves the disk as it was; what it leaves half done is undone.
LEMMA FailsAgrees ==
    ASSUME Reliable, IInv, IInv', AgreeInv, NEW p \in Proc, Fails(p)
    PROVE  AgreeInv' /\ Refines
<1>1. /\ TypeOK /\ op[p].pc \in Failing /\ op[p].pc \in Pcs
      /\ UNCHANGED <<files, damages>> /\ faults' = faults + 1 /\ faults \in Nat /\ faults < MaxFaults
      /\ MaxFaults \in Nat
  BY StoreAssumption DEF IInv, TypeOK, Fails, Ops
<1>2. UNCHANGED <<primary, backup, meta>>
  BY <1>1 DEF files
<1>3. CASE StopsStart(op[p].pc)
  <2>1. /\ phase'[p] = "failed" /\ memory'[p] = NoMemory /\ op'[p] = NoOp
        /\ \A q \in Proc : q # p => /\ phase'[q] = phase[q] /\ op'[q] = op[q]
                                   /\ memory'[q] = memory[q] /\ todo'[q] = todo[q]
    BY <1>1, <1>3 DEF Fails, Enter, Do, TypeOK
  <2>2. Idle(p)'
    BY <2>1 DEF Idle, Active
  <2> QED
    BY <1>1, <2>1, <2>2, GoneAgrees
<1>4. CASE op[p].pc = "idle"
  <2>1. UNCHANGED <<phase, memory, todo>> /\ op' = [op EXCEPT ![p] = NoOp] /\ op[p] = NoOp
    BY <1>4, SoundNow DEF Fails, StopsStart, AfterFailure, Do, Sound, ActsInPhase
  <2>2. op' = op
    BY <1>1, <2>1 DEF TypeOK
  <2>3. AgreeInv' /\ Stored' = Stored
    BY <1>1, <2>1, <2>2, QuietStepAgrees
  <2>4. ServedNow' = ServedNow /\ WritingNow' = WritingNow
    BY <2>1, <2>2 DEF ServedNow, WritingNow, Serving, Served, At
  <2> QED
    BY <1>1, <2>3, <2>4, Abstract
<1>5. ASSUME ~StopsStart(op[p].pc), op[p].pc # "idle" PROVE AgreeInv' /\ Refines
  <2>1. PICK t \in Thread : t = op[p].thread
    BY <1>5, AtWork
  <2>2. UNCHANGED <<phase, memory, todo>> /\ \A q \in Proc : q # p => op'[q] = op[q]
    BY <1>1, <1>5 DEF Fails, Do, TypeOK
  <2>3. op[p].pc \in {"backup", "copying", "replace", "meta", "rm", "rmBackup", "rmMeta",
                      "archive", "move"}
    <3>1. op[p].pc \notin {"undo", "putBack"}
      <4>1. op[p].pc \in {"undo", "putBack"} => faults > 0
        BY DEF AgreeInv, OpAgrees
      <4> QED
        BY <1>1, <4>1 DEF Reliable
    <3> QED
      BY <1>1, <1>5, <3>1 DEF Reliable, StopsStart, Pcs
  <2>4. Readable(primary'[t]) => BackupOlder(t, primary[t])'
    BY <1>2 DEF AgreeInv, Backups, BackupOlder
  <2>5. Loaded(t)' = Loaded(t) /\ (Agrees(p, t) => Agrees(p, t)')
    BY <1>2, <2>2 DEF Loaded, Agrees
  <2>6. CASE op[p].pc \in {"archive", "move"}
    <3>1. op'[p] = NoOp
      BY <1>1, <1>5, <2>6 DEF Fails, Do, TypeOK, AfterFailure
    <3>2. Agrees(p, t)
      BY <2>1, <2>6, AtWorkLoading DEF OpAgrees, Agrees, Loads
    <3> QED
      BY <1>1, <1>2, <2>1, <2>2, <2>4, <2>5, <2>6, <3>1, <3>2, LoadStep DEF Loads
  <2>7. CASE op[p].pc \in {"backup", "copying", "replace", "rm"}
    <3>1. op'[p] = NoOp
      BY <1>1, <1>5, <2>7 DEF Fails, Do, TypeOK, AfterFailure
    <3>2. Serves(p) /\ Agrees(p, t)
      BY <2>1, <2>7, AtWorkServing DEF OpAgrees, Changes, Removals
    <3> QED
      BY <1>1, <1>2, <2>1, <2>2, <2>4, <2>5, <2>7, <3>1, <3>2, WorkEnds
  <2>8. CASE op[p].pc \in {"meta", "rmBackup", "rmMeta"}
    <3>1. Serves(p) /\ op[p] \in Ops /\ OpAgrees(p)
      BY <2>8, AtWorkServing DEF Changes, Removals
    <3>2. /\ op'[p].pc \in {"undo", "putBack"} /\ op'[p].thread = t
      BY <1>1, <1>5, <2>1, <2>8, <3>1 DEF Fails, Do, TypeOK, AfterFailure, Ops
    <3>3. meta[t] = memory[p][t].meta /\ BackupOlder(t, Of(memory[p][t]))
      BY <2>1, <2>8, <3>1 DEF OpAgrees
    <3>4. OpAgrees(p)'
      BY <1>1, <1>2, <2>2, <3>2, <3>3 DEF OpAgrees, BackupOlder
    <3> QED
      BY <1>1, <1>2, <2>1, <2>2, <2>4, <2>8, <3>1, <3>2, <3>4, WorkGoesOn
  <2> QED
    BY <2>3, <2>6, <2>7, <2>8
<1> QED
  BY <1>3, <1>4, <1>5

\* A damaged record falls back to its backup, which is older; damaged metadata is lost.
LEMMA DamageAgrees ==
    ASSUME IInv, IInv', AgreeInv, NEW t \in Thread, Damage(t)
    PROVE  AgreeInv' /\ Refines
<1>1. /\ TypeOK /\ TypeOK' /\ damages' = damages + 1
      /\ UNCHANGED <<phase, memory, op, backup>>
      /\ \A p \in Proc : phase[p] = "down"
  BY DEF Damage, IInv
<1>2. \A p \in Proc : Idle(p)'
  BY <1>1, InactiveIsIdle DEF IInv, Idle, Active
<1>3. /\ \A u \in Thread : u # t => primary'[u] = primary[u] /\ meta'[u] = meta[u]
      /\ \/ primary[t] # None /\ primary'[t] = Bad /\ meta'[t] = meta[t]
         \/ meta[t] # None /\ meta'[t] = Bad /\ primary'[t] = primary[t]
  BY <1>1 DEF Damage, TypeOK
<1>4. Backups'
  BY <1>1, <1>3 DEF AgreeInv, Backups, BackupOlder, Readable
<1>5. AgreeInv'
  BY <1>2, <1>4, IdleAgrees DEF AgreeInv
<1>6. \A u \in Thread : u # t => Loaded(u)' = Loaded(u)
  BY <1>1, <1>3, LoadedStays
<1>7. Stored' = [Stored EXCEPT ![t] = Loaded(t)']
  BY <1>6, StoredBut
<1>8. Loaded(t)' \in Values \cup {None}
  BY <1>1, StoredTypes DEF StoredFits
<1>9. Worse(Loaded(t)', Loaded(t))
  <2> DEFINE rec(f) == IF f # Bad THEN f ELSE IF Readable(backup[t]) THEN backup[t] ELSE None
             old == rec(primary[t])
             new == rec(primary'[t])
             m == IF meta[t] = Bad THEN None ELSE meta[t]
             n == IF meta'[t] = Bad THEN None ELSE meta'[t]
  <2>1. /\ Loaded(t) = IF old = None \/ old.native = None THEN None ELSE Entry(old, m)
        /\ Loaded(t)' = IF new = None \/ new.native = None THEN None ELSE Entry(new, n)
    BY <1>1 DEF Loaded
  <2>2. old \in Record \cup {None} /\ new \in Record \cup {None}
    BY <1>1, <1>3 DEF TypeOK, Readable
  <2>3. new = old \/ new = None \/ (old \in Record /\ new \in Record /\ Older(new, old))
    BY <1>1, <1>3, <2>2 DEF AgreeInv, Backups, BackupOlder, Readable, TypeOK
  <2> HIDE DEF old, new, m, n
  <2>4. new \in Record /\ old \in Record =>
           Entry(new, n).rev = new.rev /\ Entry(old, m).rev = old.rev /\ old.rev \in Nat
           /\ Entry(old, m) # None
    <3>1. \A r \in Record : r.rev \in Nat
      BY Apart DEF Record
    <3>2. old \in Record => Entry(old, m) # None
      <4>1. m \in Revision \cup {None}
        BY <1>1 DEF m, TypeOK
      <4> QED
        BY <4>1, Built, Apart
    <3> QED
      BY <3>1, <3>2 DEF Entry
  <2>5. CASE new = None \/ new.native = None
    BY <2>1, <2>5 DEF Worse
  <2>6. CASE new # None /\ new.native # None
    <3>1. new \in Record /\ old \in Record /\ old # None /\ old.native # None /\ new.rev <= old.rev
      <4>1. new \in Record
        BY <2>2, <2>6
      <4>2. CASE new = old
        BY <2>4, <2>6, <4>1, <4>2
      <4>3. CASE new # old
        BY <2>3, <2>6, <4>1, <4>3, Apart DEF Older
      <4> QED
        BY <4>2, <4>3
    <3>2. Loaded(t) = Entry(old, m) /\ Loaded(t)' = Entry(new, n)
      BY <2>1, <2>6, <3>1
    <3> QED
      BY <2>4, <3>1, <3>2 DEF Worse
  <2> QED
    BY <2>5, <2>6
<1>10. \A p \in Proc : ~Serves(p) /\ ~Serves(p)'
  BY <1>1 DEF Serves
<1>11. ServedNow = None /\ WritingNow = {} /\ ServedNow' = None /\ WritingNow' = {}
  BY <1>10, Unseen, UnseenNext
<1>12. Durable!Damage(t)
  <2>1. PICK w \in Values \cup {None} : w = Loaded(t)'
    BY <1>8
  <2>2. Worse(w, Stored[t]) /\ Stored' = [Stored EXCEPT ![t] = w]
    BY <1>7, <1>9, <2>1 DEF Stored
  <2> QED
    BY <1>1, <1>11, <2>2 DEF Durable!Damage, Values, Stored, ServedNow, WritingNow
<1> QED
  BY <1>5, <1>12 DEF Refines, Durable!Next

-----------------------------------------------------------------------------
(* The refinement *)

\* At first nothing is stored.
LEMMA InitAgrees == Init => AgreeInv /\ Durable!Init
<1> SUFFICES ASSUME Init PROVE AgreeInv /\ Durable!Init
  OBVIOUS
<1>1. \A p \in Proc : Idle(p) /\ ~Serves(p)
  BY DEF Init, Idle, Active, Serves
<1>2. Backups
  BY DEF Init, Backups, Readable
<1>3. Stored = [t \in Thread |-> None]
  BY Apart DEF Init, Stored, Loaded
<1>4. ServedNow = None /\ WritingNow = {}
  BY <1>1, Unseen
<1>5. Durable!Init
  BY <1>3, <1>4 DEF Init, Durable!Init, Stored, ServedNow, WritingNow
<1> QED
  BY <1>1, <1>2, <1>5, IdleAgrees DEF AgreeInv

\* Every step keeps the agreement and is a step of the abstract specification, or none.
LEMMA NextAgrees ==
    ASSUME Reliable, IInv, IInv', AgreeInv, [Next]_vars
    PROVE  AgreeInv' /\ Refines
<1>1. CASE UNCHANGED vars
  <2>1. UNCHANGED <<files, damages, faults, phase, op, memory, todo>>
    BY <1>1 DEF vars, counts
  <2>2. AgreeInv' /\ Stored' = Stored
    BY <2>1, QuietStepAgrees
  <2>3. ServedNow' = ServedNow /\ WritingNow' = WritingNow
    BY <2>1 DEF ServedNow, WritingNow, Serving, Served, At
  <2> QED
    BY <2>1, <2>2, <2>3, Abstract
<1>2. ASSUME NEW p \in Proc, Starting(p) PROVE AgreeInv' /\ Refines
  BY <1>2, LoadAgrees, SweepAgrees, RestoreAgrees, QuarantineAgrees, CheckAgrees, EndLoadAgrees,
     ServeAgrees DEF Starting
<1>3. ASSUME NEW p \in Proc, Writing(p) PROVE AgreeInv' /\ Refines
  <2>1. CASE RemoveRecord(p) \/ RemoveBackup(p) \/ RemoveMeta(p)
    <3>1. op[p].pc \in Loads \cup Removals
      BY <2>1 DEF RemoveRecord, RemoveBackup, RemoveMeta, Unlinking, Loads, Removals
    <3> QED
      BY <2>1, <3>1, RemovalAgrees, DropAgrees
  <2>2. CASE ~(RemoveRecord(p) \/ RemoveBackup(p) \/ RemoveMeta(p))
    BY <1>3, <2>2, CopyAgrees, RenameAgrees, WriteMetaAgrees, PutBackAgrees DEF Writing
  <2> QED
    BY <2>1, <2>2
<1> QED
  BY <1>1, <1>2, <1>3, LockingAgrees, CloseAgrees, LeavingAgrees, FailsAgrees, RequestsAgree,
     SweepAgrees, DamageAgrees DEF Next

\* The store implements what it promises (#update, #remove, initialize, close): while it
\* serves, only the one write in progress changes what a restart would find, and when
\* that ends, done or failed, what the Host is told is what a restart would find; crashes
\* and starts change nothing, and a damaged disk gives back an earlier record.
THEOREM StoreIsDurable == ~Overlap /\ Reliable => (Spec => ImplementsDurableThreads)
<1>1. ASSUME ~Overlap, Reliable PROVE IInv /\ AgreeInv /\ [Next]_vars => AgreeInv' /\ Refines
  BY <1>1, NextKeeps, NextAgrees
<1>2. Init => AgreeInv /\ Durable!Init
  BY InitAgrees
<1>3. ASSUME ~Overlap, Reliable PROVE Spec => ImplementsDurableThreads
  <2>1. IInv /\ AgreeInv /\ [Next]_vars => AgreeInv' /\ [Durable!Next]_(Durable!vars)
    BY <1>1, <1>3 DEF Refines
  <2>2. Spec => []IInv
    BY <1>3, InvariantHolds
  <2> QED
    BY <1>2, <2>1, <2>2, PTL DEF Spec, ImplementsDurableThreads, Durable!Spec
<1> QED
  BY <1>3

=============================================================================
