---------------------------- MODULE MappingStore ----------------------------
(***************************************************************************)
(* The store of external Threads (packages/mapping-store): one process     *)
(* holds store.lock, keeps every record in memory and writes each change   *)
(* to a record file, its backup and a metadata file.                       *)
(*                                                                         *)
(* A step is one system call, so a process may crash and the disk fail     *)
(* between any two.  Writes of one process run one after the other         *)
(* (#enqueue).  A temp file is invisible until its rename and residue has  *)
(* no effect: both are left out.  A record is its native Session (None     *)
(* while creating) and its revision, which stands for all other fields.    *)
(***************************************************************************)
EXTENDS Naturals, FiniteSets

CONSTANTS Proc, Thread, Native, None, Bad,
          Failing,       \* the steps whose system call may fail
          Overlap,       \* whether two processes may start at the same time
          MaxRevision, MaxCrashes, MaxFaults, MaxDamages

VARIABLES
    lock,      \* store.lock: who created the file and whether it is written
    phase,     \* what each process is doing
    todo,      \* the Threads its start still has to look at
    memory,    \* #records with their metadata
    op,        \* the system call the process is at
    primary, backup, meta,   \* the files of each Thread
    archive,   \* what the quarantine keeps of it
    crashes, faults, damages

files == <<primary, backup, meta, archive>>
counts == <<crashes, faults, damages>>
vars == <<lock, phase, todo, memory, op, files, counts>>

Revision == 1..MaxRevision
Rec(native, rev) == [native |-> native, rev |-> rev]
Record == [native : Native \cup {None}, rev : Revision]
Entry(rec, m) == [native |-> rec.native, rev |-> rec.rev, meta |-> m]
Entries == [native : Native \cup {None}, rev : Revision, meta : Revision \cup {None}]
Of(e) == Rec(e.native, e.rev)

\* next and meta are the record and the metadata the operation writes.
Op(pc, t, next, m) == [pc |-> pc, thread |-> t, next |-> next, meta |-> m]
NoOp == Op("idle", None, None, None)
At(p, pc) == op[p].pc = pc

Lock(holder, written) == [holder |-> holder, written |-> written]
LockFile == [holder : Proc \cup {None}, written : BOOLEAN]
NoMemory == [t \in Thread |-> None]

\* None and Bad are none of the things they stand beside.
ASSUME StoreAssumption ==
    /\ None \notin Proc \cup Thread \cup Native \cup Nat
    /\ None \notin Record \cup Entries \cup LockFile
    /\ None \notin [Thread -> Entries \cup {None}]
    /\ Bad \notin Nat \cup Record \cup {None}
    /\ Overlap \in BOOLEAN
    /\ MaxRevision \in Nat \ {0}
    /\ {MaxCrashes, MaxFaults, MaxDamages} \subseteq Nat

Init ==
    /\ lock = None
    /\ phase = [p \in Proc |-> "down"]
    /\ todo = [p \in Proc |-> {}]
    /\ memory = [p \in Proc |-> NoMemory]
    /\ op = [p \in Proc |-> NoOp]
    /\ primary = [t \in Thread |-> None]
    /\ backup = [t \in Thread |-> None]
    /\ meta = [t \in Thread |-> None]
    /\ archive = [t \in Thread |-> {}]
    /\ crashes = 0 /\ faults = 0 /\ damages = 0

Enter(p, ph) == phase' = [phase EXCEPT ![p] = ph]
Do(p, o) == op' = [op EXCEPT ![p] = o]

-----------------------------------------------------------------------------
(* store.lock *)

Acquiring(p) == phase[p] \in {"opening", "contended", "renaming", "retrying", "writing"}

Start(p) ==
    /\ phase[p] = "down"
    /\ Overlap \/ ~\E q \in Proc : Acquiring(q)
    /\ Enter(p, "opening")
    /\ UNCHANGED <<lock, todo, memory, op, files, counts>>

\* The file is created exclusively; the second attempt is the last.
OpenLock(p) ==
    /\ phase[p] \in {"opening", "retrying"}
    /\ IF lock = None
       THEN lock' = Lock(p, FALSE) /\ Enter(p, "writing")
       ELSE /\ Enter(p, IF phase[p] = "opening" THEN "contended" ELSE "down")
            /\ UNCHANGED lock
    /\ UNCHANGED <<todo, memory, op, files, counts>>

\* Mutant: any lock file counts as left behind.
StaleAlways == TRUE

\* Mutant: a lock file that was never written counts as held.
StaleOnceWritten == lock = None \/ (lock.written /\ lock.holder = None)

\* A lock that cannot be read, is not written yet or names a dead process.
Stale == lock = None \/ ~lock.written \/ lock.holder = None

ReadLock(p) ==
    /\ phase[p] = "contended"
    /\ Enter(p, IF Stale THEN "renaming" ELSE "down")
    /\ UNCHANGED <<lock, todo, memory, op, files, counts>>

\* Whatever is at the path by now is renamed aside.
RenameLock(p) ==
    /\ phase[p] = "renaming"
    /\ lock' = None
    /\ Enter(p, "retrying")
    /\ UNCHANGED <<todo, memory, op, files, counts>>

\* The owner is written to the file that was created, wherever it is now;
\* then the Threads are those with a record file.
WriteLock(p) ==
    /\ phase[p] = "writing"
    /\ lock' = IF lock # None /\ lock.holder = p THEN Lock(p, TRUE) ELSE lock
    /\ Enter(p, "loading")
    /\ todo' = [todo EXCEPT ![p] = {t \in Thread : primary[t] # None}]
    /\ UNCHANGED <<memory, op, files, counts>>

-----------------------------------------------------------------------------
(* initialize: one Thread after the other *)

Readable(content) == content \notin {None, Bad}

Load(p, t) ==
    /\ phase[p] = "loading" /\ At(p, "idle") /\ t \in todo[p]
    /\ todo' = [todo EXCEPT ![p] = @ \ {t}]
    /\ Do(p, IF primary[t] # Bad THEN Op("check", t, primary[t], None)
             ELSE IF Readable(backup[t]) THEN Op("restore", t, backup[t], None)
             ELSE Op("archive", t, None, None))
    /\ UNCHANGED <<lock, phase, memory, files, counts>>

Restore(p) ==
    LET o == op[p] IN
    /\ o.pc = "restore"
    /\ primary' = [primary EXCEPT ![o.thread] = o.next]
    /\ Do(p, [o EXCEPT !.pc = "check"])
    /\ UNCHANGED <<lock, phase, todo, memory, backup, meta, archive, counts>>

\* Mutant: the record leaves before its metadata is archived.
ArchiveMetaLate(p) ==
    LET t == op[p].thread IN
    /\ At(p, "archive")
    /\ primary' = [primary EXCEPT ![t] = None]
    /\ archive' = [archive EXCEPT ![t] = @ \cup {"record"}]
    /\ Do(p, NoOp)
    /\ UNCHANGED <<lock, phase, todo, memory, backup, meta, counts>>

\* The quarantine copies the metadata first and then moves the record.
ArchiveMeta(p) ==
    LET t == op[p].thread IN
    /\ At(p, "archive")
    /\ archive' = [archive EXCEPT ![t] = IF meta[t] = None THEN @ ELSE @ \cup {"meta"}]
    /\ Do(p, [op[p] EXCEPT !.pc = "move"])
    /\ UNCHANGED <<lock, phase, todo, memory, primary, backup, meta, counts>>

MoveRecord(p) ==
    LET t == op[p].thread IN
    /\ At(p, "move")
    /\ primary' = [primary EXCEPT ![t] = None]
    /\ archive' = [archive EXCEPT ![t] = @ \cup {"record"}]
    /\ Do(p, NoOp)
    /\ UNCHANGED <<lock, phase, todo, memory, backup, meta, counts>>

\* A Thread still creating is dropped; any other enters memory with its
\* metadata, which is moved away if it cannot be read.
Check(p) ==
    LET o == op[p] IN
    /\ o.pc = "check"
    /\ IF o.next.native = None
       THEN Do(p, [o EXCEPT !.pc = "drop"]) /\ UNCHANGED <<memory, meta>>
       ELSE /\ meta' = [meta EXCEPT ![o.thread] = IF @ = Bad THEN None ELSE @]
            /\ memory' = [memory EXCEPT ![p][o.thread] = Entry(o.next, meta'[o.thread])]
            /\ Do(p, NoOp)
    /\ UNCHANGED <<lock, phase, todo, primary, backup, archive, counts>>

\* Metadata without a record goes, unless its record waits for quarantine.
Orphan(p, t) == memory[p][t] = None /\ meta[t] # None /\ primary[t] = None

EndLoad(p) ==
    /\ phase[p] = "loading" /\ At(p, "idle") /\ todo[p] = {}
    /\ Enter(p, "sweeping")
    /\ todo' = [todo EXCEPT ![p] = {t \in Thread : Orphan(p, t)}]
    /\ UNCHANGED <<lock, memory, op, files, counts>>

Sweep(p, t) ==
    /\ phase[p] = "sweeping" /\ t \in todo[p]
    /\ todo' = [todo EXCEPT ![p] = @ \ {t}]
    /\ meta' = [meta EXCEPT ![t] = None]
    /\ UNCHANGED <<lock, phase, memory, op, primary, backup, archive, counts>>

\* Two records of one native Session cannot be indexed.
Shared(m) ==
    \E t, u \in Thread : /\ t # u /\ m[t] # None /\ m[u] # None
                         /\ m[t].native = m[u].native /\ m[t].native # None

Serve(p) ==
    /\ phase[p] = "sweeping" /\ todo[p] = {}
    /\ IF Shared(memory[p])
       THEN Enter(p, "failed") /\ memory' = [memory EXCEPT ![p] = NoMemory]
       ELSE Enter(p, "up") /\ UNCHANGED memory
    /\ UNCHANGED <<lock, todo, op, files, counts>>

-----------------------------------------------------------------------------
(* Removal of files, by removeThread and of a Thread found creating *)

Unlinking == {"rm", "drop"}

RemoveRecord(p) ==
    LET o == op[p] IN
    /\ o.pc \in Unlinking
    /\ primary' = [primary EXCEPT ![o.thread] = None]
    /\ Do(p, [o EXCEPT !.pc = IF @ = "rm" THEN "rmBackup" ELSE "dropBackup"])
    /\ UNCHANGED <<lock, phase, todo, memory, backup, meta, archive, counts>>

RemoveBackup(p) ==
    LET o == op[p] IN
    /\ o.pc \in {"rmBackup", "dropBackup"}
    /\ backup' = [backup EXCEPT ![o.thread] = None]
    /\ Do(p, [o EXCEPT !.pc = IF @ = "rmBackup" THEN "rmMeta" ELSE "dropMeta"])
    /\ UNCHANGED <<lock, phase, todo, memory, primary, meta, archive, counts>>

RemoveMeta(p) ==
    LET o == op[p] IN
    /\ o.pc \in {"rmMeta", "dropMeta"}
    /\ meta' = [meta EXCEPT ![o.thread] = None]
    /\ memory' = [memory EXCEPT ![p][o.thread] = None]
    /\ Do(p, NoOp)
    /\ UNCHANGED <<lock, phase, todo, primary, backup, archive, counts>>

\* Mutant: the metadata is put into the record file.
PutBackWithMetadata(p) ==
    LET o == op[p] IN
    /\ o.pc \in {"putBack", "undo"}
    /\ primary' = [primary EXCEPT ![o.thread] = memory[p][o.thread]]
    /\ Do(p, NoOp)
    /\ UNCHANGED <<lock, phase, todo, memory, backup, meta, archive, counts>>

\* A removal that failed halfway puts the record back.
PutBack(p) ==
    LET o == op[p] IN
    /\ o.pc \in {"putBack", "undo"}
    /\ primary' = [primary EXCEPT ![o.thread] = Of(memory[p][o.thread])]
    /\ Do(p, NoOp)
    /\ UNCHANGED <<lock, phase, todo, memory, backup, meta, archive, counts>>

-----------------------------------------------------------------------------
(* Operations *)

Ready(p) == phase[p] = "up" /\ At(p, "idle")

Request(p, o) ==
    /\ Ready(p) /\ Do(p, o)
    /\ UNCHANGED <<lock, phase, todo, memory, files, counts>>

\* Thread identities are random: only one that left no file is new.
Unused(p, t) ==
    memory[p][t] = None /\ primary[t] = None /\ backup[t] = None /\ meta[t] = None
        /\ archive[t] = {}

CreateProvisional(p, t) ==
    /\ Unused(p, t)
    /\ Request(p, Op("replace", t, Rec(None, 1), None))

\* Mutant: the native Sessions of other Threads are not looked at.
FreeUnchecked(p, t, n) == TRUE

\* #validateGlobal
Free(p, t, n) ==
    \A u \in Thread \ {t} : memory[p][u] # None => memory[p][u].native # n

\* commitReady, and the replacements of a ready Session.
SetNative(p, t, n) ==
    LET e == memory[p][t] IN
    /\ e # None /\ e.rev < MaxRevision /\ Free(p, t, n)
    /\ Request(p, Op("backup", t, Rec(n, e.rev + 1), e.meta))

\* Every other field of the record: Turn mappings, title, archived, ...
Revise(p, t) ==
    LET e == memory[p][t] IN
    /\ e # None /\ e.rev < MaxRevision
    /\ Request(p, Op("backup", t, Rec(e.native, e.rev + 1), e.meta))

UpdateMetadata(p, t, m) ==
    LET e == memory[p][t] IN
    /\ e # None /\ e.rev < MaxRevision /\ m \in {None, e.rev + 1} \ {e.meta}
    /\ Request(p, Op("backup", t, Rec(e.native, e.rev + 1), m))

RemoveThread(p, t) ==
    memory[p][t] # None /\ Request(p, Op("rm", t, None, None))

\* copyFile is not atomic: the backup is unreadable until it is complete.
Backup(p) ==
    LET t == op[p].thread IN
    /\ At(p, "backup")
    /\ IF primary[t] = None
       THEN Do(p, [op[p] EXCEPT !.pc = "replace"]) /\ UNCHANGED backup
       ELSE Do(p, [op[p] EXCEPT !.pc = "copying"]) /\ backup' = [backup EXCEPT ![t] = Bad]
    /\ UNCHANGED <<lock, phase, todo, memory, primary, meta, archive, counts>>

Copied(p) ==
    LET t == op[p].thread IN
    /\ At(p, "copying")
    /\ backup' = [backup EXCEPT ![t] = primary[t]]
    /\ Do(p, [op[p] EXCEPT !.pc = "replace"])
    /\ UNCHANGED <<lock, phase, todo, memory, primary, meta, archive, counts>>

\* Mutant: memory changes before the metadata is written.
RenameEarly(p) ==
    LET o == op[p]
        e == memory[p][o.thread]
    IN
    /\ o.pc = "replace"
    /\ primary' = [primary EXCEPT ![o.thread] = o.next]
    /\ memory' = [memory EXCEPT ![p][o.thread] = Entry(o.next, o.meta)]
    /\ Do(p, IF e # None /\ e.meta # o.meta THEN [o EXCEPT !.pc = "meta"] ELSE NoOp)
    /\ UNCHANGED <<lock, phase, todo, backup, meta, archive, counts>>

\* The temp file takes the place of the record; memory follows the last write.
Rename(p) ==
    LET o == op[p]
        e == memory[p][o.thread]
    IN
    /\ o.pc = "replace"
    /\ primary' = [primary EXCEPT ![o.thread] = o.next]
    /\ IF e # None /\ e.meta # o.meta
       THEN Do(p, [o EXCEPT !.pc = "meta"]) /\ UNCHANGED memory
       ELSE Do(p, NoOp) /\ memory' = [memory EXCEPT ![p][o.thread] = Entry(o.next, o.meta)]
    /\ UNCHANGED <<lock, phase, todo, backup, meta, archive, counts>>

WriteMeta(p) ==
    LET o == op[p] IN
    /\ o.pc = "meta"
    /\ meta' = [meta EXCEPT ![o.thread] = o.meta]
    /\ memory' = [memory EXCEPT ![p][o.thread] = Entry(o.next, o.meta)]
    /\ Do(p, NoOp)
    /\ UNCHANGED <<lock, phase, todo, primary, backup, archive, counts>>

-----------------------------------------------------------------------------
(* close, crashes, failing system calls and damage *)

Close(p) ==
    /\ phase[p] = "up"
    /\ Enter(p, "closing")
    /\ UNCHANGED <<lock, todo, memory, op, files, counts>>

\* close waits for the write in progress and removes its own lock file; a
\* failed initialization ends the same way.
Closed(p) ==
    /\ phase[p] \in {"closing", "failed"} /\ At(p, "idle")
    /\ lock' = IF lock # None /\ lock.written /\ lock.holder = p THEN None ELSE lock
    /\ Enter(p, "down")
    /\ memory' = [memory EXCEPT ![p] = NoMemory]
    /\ UNCHANGED <<todo, op, files, counts>>

Forsaken(p) == IF lock # None /\ lock.holder = p THEN Lock(None, lock.written) ELSE lock

Crash(p) ==
    /\ phase[p] # "down" /\ crashes < MaxCrashes
    /\ crashes' = crashes + 1
    /\ lock' = Forsaken(p)
    /\ Enter(p, "down")
    /\ todo' = [todo EXCEPT ![p] = {}]
    /\ memory' = [memory EXCEPT ![p] = NoMemory]
    /\ Do(p, NoOp)
    /\ UNCHANGED <<files, faults, damages>>

\* Where a failed system call leads: a write that failed halfway is undone, a
\* backup that cannot be restored is quarantined, one that cannot be
\* quarantined waits for a later start.
AfterFailure(pc) ==
    CASE pc \in {"rmBackup", "rmMeta"} -> "putBack"
      [] pc = "meta"                   -> "undo"
      [] pc = "restore"                -> "archive"
      [] OTHER                         -> "idle"

StopsStart(pc) == pc \in {"check", "drop", "dropBackup", "dropMeta"}

\* Metadata that cannot be removed stays for the next start.
SweepFails(p, t) ==
    /\ phase[p] = "sweeping" /\ t \in todo[p]
    /\ "sweep" \in Failing /\ faults < MaxFaults
    /\ faults' = faults + 1
    /\ todo' = [todo EXCEPT ![p] = @ \ {t}]
    /\ UNCHANGED <<lock, phase, memory, op, files, crashes, damages>>

Fails(p) ==
    LET o == op[p] IN
    /\ o.pc \in Failing /\ faults < MaxFaults
    /\ faults' = faults + 1
    /\ IF StopsStart(o.pc)
       THEN /\ Enter(p, "failed") /\ Do(p, NoOp)
            /\ memory' = [memory EXCEPT ![p] = NoMemory]
            /\ todo' = [todo EXCEPT ![p] = {}]
       ELSE /\ Do(p, IF AfterFailure(o.pc) = "idle" THEN NoOp
                     ELSE [o EXCEPT !.pc = AfterFailure(o.pc)])
            /\ UNCHANGED <<phase, memory, todo>>
    /\ UNCHANGED <<lock, files, crashes, damages>>

\* A file is found unreadable by the next start.
Damage(t) ==
    /\ \A p \in Proc : phase[p] = "down"
    /\ damages < MaxDamages
    /\ damages' = damages + 1
    /\ \/ primary[t] # None /\ primary' = [primary EXCEPT ![t] = Bad] /\ UNCHANGED meta
       \/ meta[t] # None /\ meta' = [meta EXCEPT ![t] = Bad] /\ UNCHANGED primary
    /\ UNCHANGED <<lock, phase, todo, memory, op, backup, archive, crashes, faults>>

-----------------------------------------------------------------------------
Locking(p) == Start(p) \/ OpenLock(p) \/ ReadLock(p) \/ RenameLock(p) \/ WriteLock(p)

Starting(p) ==
    \/ \E t \in Thread : Load(p, t) \/ Sweep(p, t)
    \/ Restore(p) \/ ArchiveMeta(p) \/ MoveRecord(p) \/ Check(p) \/ EndLoad(p) \/ Serve(p)

Writing(p) ==
    \/ Backup(p) \/ Copied(p) \/ Rename(p) \/ WriteMeta(p)
    \/ RemoveRecord(p) \/ RemoveBackup(p) \/ RemoveMeta(p) \/ PutBack(p)

Requests(p, t) ==
    \/ CreateProvisional(p, t) \/ Revise(p, t) \/ RemoveThread(p, t)
    \/ \E n \in Native : SetNative(p, t, n)
    \/ \E m \in Revision \cup {None} : UpdateMetadata(p, t, m)

Next ==
    \/ \E p \in Proc :
          \/ Locking(p) \/ Starting(p) \/ Writing(p) \/ Close(p) \/ Closed(p)
          \/ Crash(p) \/ Fails(p)
          \/ \E t \in Thread : Requests(p, t) \/ SweepFails(p, t)
    \/ \E t \in Thread : Damage(t)

Spec == Init /\ [][Next]_vars

-----------------------------------------------------------------------------
(* Properties *)

Owner(p) == phase[p] \in {"loading", "sweeping", "up", "closing", "failed"}

Phases == {"down", "opening", "contended", "renaming", "retrying", "writing",
           "loading", "sweeping", "up", "closing", "failed"}

Pcs == {"idle", "check", "restore", "archive", "move", "drop", "dropBackup", "dropMeta",
        "rm", "rmBackup", "rmMeta", "putBack", "undo", "backup", "copying", "replace", "meta"}

Ops == [pc : Pcs, thread : Thread \cup {None}, next : Record \cup {None},
        meta : Revision \cup {None}]

\* Every variable keeps its type.
TypeOK ==
    /\ lock \in LockFile \cup {None}
    /\ phase \in [Proc -> Phases]
    /\ todo \in [Proc -> SUBSET Thread]
    /\ memory \in [Proc -> [Thread -> Entries \cup {None}]]
    /\ op \in [Proc -> Ops]
    /\ {primary, backup} \subseteq [Thread -> Record \cup {None, Bad}]
    /\ meta \in [Thread -> Revision \cup {None, Bad}]
    /\ archive \in [Thread -> SUBSET {"record", "meta"}]
    /\ crashes \in 0..MaxCrashes /\ faults \in 0..MaxFaults /\ damages \in 0..MaxDamages

\* One process at a time owns the store, from the load to the end of its close,
\* across crashes in the middle of taking the lock, provided starts do not
\* overlap.
OneOwner == \A p, q \in Proc : Owner(p) /\ Owner(q) => p = q

\* A lock file left by a process that is gone, even one it never wrote, keeps
\* nobody out: only a process that owns the store makes a start fail.
AbandonedLockBlocksNobody ==
    [][\A p \in Proc :
          Acquiring(p) /\ phase'[p] = "down" =>
             crashes' # crashes \/ \E q \in Proc : Owner(q)]_vars

\* What a restart finds of a Thread: its record, or the backup of an unreadable
\* one, with its metadata; a Thread still creating is dropped.
Loaded(t) ==
    LET rec == IF primary[t] # Bad THEN primary[t]
               ELSE IF Readable(backup[t]) THEN backup[t] ELSE None
    IN IF rec = None \/ rec.native = None THEN None
       ELSE Entry(rec, IF meta[t] = Bad THEN None ELSE meta[t])

\* No two Threads a restart would find share a native Session: no crash, failed
\* write or failed removal brings back one that another Thread has taken.
NativesUnique ==
    damages = 0 => ~Shared([t \in Thread |-> Loaded(t)])

\* Metadata goes only with its Thread, by a patch that clears it, or after it was
\* archived: a record that could not be quarantined, or only halfway, keeps it.
MetadataKept ==
    [][\A t \in Thread : meta[t] \in Revision /\ meta'[t] = None =>
          \/ \E p \in Proc : op[p].thread = t /\ op[p].pc \in {"meta", "rmMeta", "dropMeta"}
          \/ primary[t] = None /\ ("record" \in archive[t] => "meta" \in archive[t])]_vars

\* The store the Host talks to: the records of the running process.
Serving == {p \in Proc : phase[p] \in {"up", "closing"}}
Served(p) == [t \in Thread |->
    IF memory[p][t] = None \/ memory[p][t].native = None THEN None ELSE memory[p][t]]

\* An unreadable record falls back to an older one, unreadable metadata is lost.
Worse(w, v) == w \in {v, None} \/ (v # None /\ w.rev <= v.rev)

Durable == INSTANCE DurableThreads WITH
    Value   <- [native : Native, rev : Revision, meta : Revision \cup {None}],
    stored  <- [t \in Thread |-> Loaded(t)],
    served  <- IF Serving = {} THEN None ELSE Served(CHOOSE p \in Serving : TRUE),
    damaged <- damages,
    writing <- {op[p].thread : p \in {q \in Serving : ~At(q, "idle")}}

\* The store implements its abstract specification: crashes, failed system calls
\* and starts leave what a restart finds as it is, the one write in progress
\* changes it, and what the Host is told agrees with it again when that ends.
ImplementsDurableThreads == Durable!Spec
=============================================================================
