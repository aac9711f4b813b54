-------------------------- MODULE Delegation_proofs --------------------------
(***************************************************************************)
(* The proofs of delegated starts, for any number of calls, requests and   *)
(* troubles.                                                               *)
(*                                                                         *)
(* A call owns its request from the write of its delegation until it has   *)
(* removed it, for good if it succeeded.  The delegation of an owner is    *)
(* indexed: no request is met twice in the entries up to it, since the     *)
(* write that added it was checked with the whole list and entries are     *)
(* only added behind it.  So no other call of the request owns it, and the *)
(* look for a duplicate finds the owner.  What a clean-up removed is not   *)
(* written again: a status is written only of a delegation that was there, *)
(* and a call whose clean-up met one on its way is known by it.            *)
(***************************************************************************)
EXTENDS Delegation, FiniteSetTheorems, SequenceTheorems, TLAPS

\* Where a call may be.
Before == {"idle", "finding", "repeated", "creating"}
Recording == {"checking", "recording"}
Working == {"committing", "starting", "identifying", "selecting", "reporting", "announcing",
            "closing"}
Owning == {"opening", "forgetting", "done"} \cup Working
Out == {"removing", "failed", "lost"}
Place == Before \cup Recording \cup Owning \cup Out
Resting == {"idle", "repeated", "done", "failed", "lost"}

Owns(s) == start[s].pc \in Owning

CallRecord == [pc : Place, request : Request \cup {None}, before : SUBSET (Start \cup {None}),
               record : Start \cup {None}, named : BOOLEAN, answer : Start \cup {None}]
StoreRecord == [records : Seq(Start), ready : SUBSET Start, delegations : Seq(Start),
                told : SUBSET Start]

Owner == Start \cup {None, "restored"}

Types ==
    /\ start \in [Start -> CallRecord]
    /\ session \in [Start -> {"none", "open", "left"}]
    /\ loaded \in [Start -> Owner]
    /\ store \in StoreRecord
    /\ held \in SUBSET (Start \cup {None}) /\ writing \in SUBSET Start /\ overtaken \in SUBSET Start
    /\ down \in BOOLEAN
    /\ faults \in Nat /\ crashes \in Nat

Has(q, s) == \E i \in DOMAIN q : q[i] = s

\* A list names nobody twice.
Distinct(q) == \A i, j \in DOMAIN q : q[i] = q[j] => i = j

\* The entries up to place i name no request twice.
Clear(q, i) ==
    \A j, k \in DOMAIN q : j < k /\ k <= i /\ Asked(q[k]) # None => Asked(q[j]) # Asked(q[k])

\* An owner has its delegation, which is indexed while the store is up, and is
\* the only owner of its request.
Listed(s) == \E i \in DOMAIN store.delegations :
                store.delegations[i] = s /\ (down \/ Clear(store.delegations, i))
Owners ==
    /\ \A s \in Start : Owns(s) => Listed(s)
    /\ \A s, t \in Start : Owns(s) /\ Owns(t) /\ Asked(s) = Asked(t) /\ Asked(s) # None => s = t

\* Delegations and records are of calls that came to write them.
Written ==
    /\ Distinct(store.delegations) /\ Distinct(store.records)
    /\ \A i \in DOMAIN store.delegations :
          start[store.delegations[i]].pc \in Owning \cup Out
    /\ \A i \in DOMAIN store.records : start[store.records[i]].pc \notin Before

\* A call has a Session only past the open.
OpenedAt(s) ==
    /\ start[s].pc \in Before \cup Recording \cup {"opening"} => session[s] = "none"
    /\ session[s] = "open" => start[s].pc \in Working \cup {"done"}
Stopped(s) == start[s].pc \in Resting /\ session[s] # "open"
Opened ==
    /\ \A s \in Start : OpenedAt(s)
    /\ down => held = {} /\ writing = {} /\ \A s \in Start : Stopped(s)

\* A call that has not begun asks for nothing, and the record of another is
\* taken only for the same request.
BorrowedAt(s) ==
    /\ start[s].pc = "idle" => Asked(s) = None /\ start[s].before = {}
    /\ start[s].pc \in Before => start[s].record = None
    /\ start[s].record \notin {None, s} =>
          Asked(start[s].record) = Asked(s) /\ Asked(s) # None
Borrowed == \A s \in Start : BorrowedAt(s)

\* What the clean-up removed is not written again: a status on its way is of a
\* delegation that is still there, or excepted.  No owner comes back either.
Removed(s) == \/ start[s].pc = "lost" \/ faults # 0 \/ s \in overtaken
              \/ start[s].pc \in Out /\ session[s] = "none"
Writes(s) ==
    s \in writing => start[s].pc \in Owning \/ (start[s].pc \in Out /\ Removed(s))
Left(s) == start[s].pc = "failed" /\ session[s] # "none" /\ faults = 0
Gone(s) ==
    /\ start[s].pc \in {"removing", "failed"} /\ ~Removed(s) => ~Has(store.delegations, s)
    /\ Left(s) => ~Has(store.records, s)
    /\ Left(s) /\ s \notin overtaken /\ OwnRecord(s) => loaded[s] = None
CleanedUp == \A s \in Start : Writes(s) /\ Gone(s)

\* A call whose request had been answered finds the owner again.
Repeats(s) ==
    start[s].before # {} /\ Asked(s) # None =>
        /\ start[s].pc \in {"finding", "repeated", "lost"} /\ session[s] = "none"
        /\ \E t \in Start :
              /\ start[s].before = {t} /\ start[t].pc = "done" /\ Asked(t) = Asked(s)
              /\ start[s].pc = "repeated" => start[s].answer = t
AnsweredAt(s) == (start[s].pc = "done" => start[s].answer = s) /\ Repeats(s)
Answered == \A s \in Start : AnsweredAt(s)

IInv == Types /\ Owners /\ Written /\ Opened /\ Borrowed /\ CleanedUp /\ Answered

-----------------------------------------------------------------------------
(* Lists.                                                                  *)

\* r is q without its entry i.
WithoutEntry(r, q, i) ==
    /\ r \in Seq(Start) /\ Len(r) = Len(q) - 1
    /\ \A j \in 1 .. Len(q) - 1 : r[j] = IF j < i THEN q[j] ELSE q[j + 1]

\* RemoveAt takes an entry out.
LEMMA RemoveDoes ==
    ASSUME NEW q \in Seq(Start), NEW i \in 1 .. Len(q)
    PROVE  WithoutEntry(RemoveAt(q, i), q, i)
<1> DEFINE a == SubSeq(q, 1, i - 1)
           b == SubSeq(q, i + 1, Len(q))
<1>1. Len(q) \in Nat /\ i \in Int /\ 1 <= i /\ i <= Len(q) /\ \A j \in 1 .. Len(q) : q[j] \in Start
  BY LenProperties, ElementOfSeq
<1>2. /\ a \in Seq(Start) /\ Len(a) = i - 1
      /\ \A j \in 1 .. i - 1 : a[j] = q[j]
  <2>1. \A j \in 1 .. i - 1 : q[j] \in Start
    BY <1>1
  <2>2. 1 \in Int /\ i - 1 \in Int
    BY <1>1
  <2>3. /\ SubSeq(q, 1, i - 1) \in Seq(Start)
        /\ Len(SubSeq(q, 1, i - 1)) = IF 1 <= i - 1 THEN (i - 1) - 1 + 1 ELSE 0
        /\ \A j \in 1 .. (i - 1) - 1 + 1 : SubSeq(q, 1, i - 1)[j] = q[1 + j - 1]
    BY <2>1, <2>2, SubSeqProperties
  <2> QED
    BY <1>1, <2>3
<1>3. /\ b \in Seq(Start) /\ Len(b) = Len(q) - i
      /\ \A j \in 1 .. Len(q) - i : b[j] = q[i + j]
  <2>1. \A j \in i + 1 .. Len(q) : q[j] \in Start
    BY <1>1
  <2>2. i + 1 \in Int /\ Len(q) \in Int
    BY <1>1
  <2>3. /\ SubSeq(q, i + 1, Len(q)) \in Seq(Start)
        /\ Len(SubSeq(q, i + 1, Len(q))) = IF i + 1 <= Len(q) THEN Len(q) - (i + 1) + 1 ELSE 0
        /\ \A j \in 1 .. Len(q) - (i + 1) + 1 : SubSeq(q, i + 1, Len(q))[j] = q[(i + 1) + j - 1]
    BY <2>1, <2>2, SubSeqProperties
  <2> QED
    BY <1>1, <2>3
<1> HIDE DEF a, b
<1>4. /\ a \o b \in Seq(Start) /\ Len(a \o b) = Len(a) + Len(b)
      /\ \A j \in 1 .. Len(a) + Len(b) : (a \o b)[j] = IF j <= Len(a) THEN a[j] ELSE b[j - Len(a)]
  BY <1>2, <1>3, ConcatProperties
<1>5. ASSUME NEW j \in 1 .. Len(q) - 1
      PROVE  (a \o b)[j] = IF j < i THEN q[j] ELSE q[j + 1]
  <2>0. /\ j \in Int /\ 1 <= j /\ Len(a) = i - 1
        /\ (a \o b)[j] = IF j <= i - 1 THEN a[j] ELSE b[j - (i - 1)]
    BY <1>1, <1>2, <1>3, <1>4
  <2>1. CASE j < i
    <3>1. j <= i - 1 /\ a[j] = q[j]
      BY <1>1, <1>2, <2>0, <2>1
    <3> QED
      BY <2>0, <2>1, <3>1
  <2>2. CASE j >= i
    <3>1. j - (i - 1) \in 1 .. Len(q) - i /\ i + (j - (i - 1)) = j + 1 /\ ~(j <= i - 1)
      BY <1>1, <2>0, <2>2
    <3>2. b[j - (i - 1)] = q[j + 1] /\ ~(j < i)
      BY <1>1, <1>3, <2>0, <2>2, <3>1
    <3> QED
      BY <2>0, <3>1, <3>2
  <2> QED
    BY <1>1, <2>0, <2>1, <2>2
<1>6. WithoutEntry(a \o b, q, i)
  BY <1>1, <1>2, <1>3, <1>4, <1>5 DEF WithoutEntry
<1>7. RemoveAt(q, i) = a \o b
  BY DEF RemoveAt, a, b
<1> QED
  BY <1>6, <1>7

\* r has of q what is not s, in its order.
Cut(r, q, s) ==
    /\ r \in Seq(Start) /\ ~Has(r, s)
    /\ \E f \in [DOMAIN r -> DOMAIN q] :
          /\ \A j \in DOMAIN r : r[j] = q[f[j]]
          /\ \A j, k \in DOMAIN r : j < k => f[j] < f[k]
    /\ \A i \in DOMAIN q : q[i] # s => Has(r, q[i])

\* Without cuts its entry out.
LEMMA WithoutDoes ==
    ASSUME NEW q \in Seq(Start), NEW s \in Start, Distinct(q)
    PROVE  Cut(Without(q, s), q, s)
<1> DEFINE n == Len(q)
<1>1. n \in Nat /\ DOMAIN q = 1 .. n
  BY LenProperties
<1>2. CASE ~Has(q, s)
  <2>1. Without(q, s) = q
    BY <1>2 DEF Without, Has, ToSet
  <2>2. [j \in DOMAIN q |-> j] \in [DOMAIN q -> DOMAIN q]
    OBVIOUS
  <2>3. Cut(q, q, s)
    BY <1>1, <1>2, <2>2 DEF Cut, Has
  <2> QED
    BY <2>1, <2>3
<1>3. CASE Has(q, s)
  <2>1. PICK i \in DOMAIN q : q[i] = s /\ Without(q, s) = RemoveAt(q, i)
    <3>1. Without(q, s) = RemoveAt(q, CHOOSE i \in DOMAIN q : q[i] = s)
      BY <1>3 DEF Without, Has, ToSet
    <3>2. \E i \in DOMAIN q : q[i] = s
      BY <1>3 DEF Has
    <3> QED
      BY <3>1, <3>2
  <2> DEFINE r == Without(q, s)
  <2>2. WithoutEntry(r, q, i)
    BY <1>1, <2>1, RemoveDoes
  <2> HIDE DEF r
  <2>3. /\ r \in Seq(Start) /\ Len(r) = n - 1 /\ DOMAIN r = 1 .. n - 1 /\ i \in 1 .. n
        /\ \A j \in 1 .. n - 1 : r[j] = IF j < i THEN q[j] ELSE q[j + 1]
    BY <1>1, <2>2, LenProperties DEF WithoutEntry
  <2>4. ASSUME NEW k \in 1 .. n, k # i PROVE \E j \in 1 .. n - 1 : r[j] = q[k]
    <3>1. CASE k < i
      BY <1>1, <2>3, <3>1
    <3>2. CASE k > i
      <4>1. k - 1 \in 1 .. n - 1 /\ ~(k - 1 < i) /\ (k - 1) + 1 = k
        BY <1>1, <2>3, <3>2
      <4> QED
        BY <2>3, <4>1
    <3> QED
      BY <1>1, <2>3, <2>4, <3>1, <3>2
  <2>5. ~Has(r, s)
    <3> SUFFICES ASSUME NEW j \in 1 .. n - 1, r[j] = s PROVE FALSE
      BY <2>3 DEF Has
    <3>1. \E k \in 1 .. n : k # i /\ q[k] = s
      BY <1>1, <2>3
    <3> QED
      BY <1>1, <2>1, <3>1 DEF Distinct
  <2>6. \A k \in DOMAIN q : q[k] # s => Has(r, q[k])
    BY <1>1, <2>1, <2>3, <2>4 DEF Has
  <2>7. \E f \in [DOMAIN r -> DOMAIN q] :
           /\ \A j \in DOMAIN r : r[j] = q[f[j]]
           /\ \A j, k \in DOMAIN r : j < k => f[j] < f[k]
    <3> DEFINE f == [j \in DOMAIN r |-> IF j < i THEN j ELSE j + 1]
    <3>1. f \in [DOMAIN r -> DOMAIN q]
      BY <1>1, <2>3
    <3>2. \A j \in DOMAIN r : r[j] = q[f[j]]
      BY <2>3
    <3>3. \A j, k \in DOMAIN r : j < k => f[j] < f[k]
      BY <1>1, <2>3
    <3> QED
      BY <3>1, <3>2, <3>3
  <2> QED
    BY <2>3, <2>5, <2>6, <2>7 DEF Cut, r
<1> QED
  BY <1>2, <1>3

\* r is q with s behind it.
Added(r, q, s) ==
    /\ r \in Seq(Start) /\ Len(r) = Len(q) + 1 /\ r[Len(q) + 1] = s
    /\ \A j \in DOMAIN q : j \in DOMAIN r /\ r[j] = q[j]
    /\ \A j \in DOMAIN r : j \in DOMAIN q \/ j = Len(q) + 1

\* Append adds behind.
LEMMA AppendDoes ==
    ASSUME NEW q \in Seq(Start), NEW s \in Start
    PROVE  Added(Append(q, s), q, s)
<1>1. /\ Append(q, s) \in Seq(Start) /\ Len(Append(q, s)) = Len(q) + 1
      /\ \A j \in 1 .. Len(q) : Append(q, s)[j] = q[j]
      /\ Append(q, s)[Len(q) + 1] = s
  BY AppendProperties
<1>2. Len(q) \in Nat /\ DOMAIN q = 1 .. Len(q) /\ DOMAIN Append(q, s) = 1 .. Len(q) + 1
  BY <1>1, LenProperties
<1> QED
  BY <1>1, <1>2 DEF Added

\* Put adds who is not there.
LEMMA PutDoes ==
    ASSUME NEW q \in Seq(Start), NEW s \in Start
    PROVE  IF Has(q, s) THEN Put(q, s) = q ELSE Added(Put(q, s), q, s)
  BY AppendDoes DEF Put, Has, ToSet

-----------------------------------------------------------------------------
(* Requests in a list.                                                     *)

\* The list names t at a clear place.
ClearIn(q, t) == \E i \in DOMAIN q : q[i] = t /\ Clear(q, i)

\* In a sound list every entry is clear.
LEMMA SoundIsClear ==
    ASSUME NEW q \in Seq(Start), Clash(q) = {}
    PROVE  \A i \in DOMAIN q : Clear(q, i)
<1> SUFFICES ASSUME NEW j \in DOMAIN q, NEW k \in DOMAIN q, j < k, Asked(q[k]) # None,
                    Asked(q[j]) = Asked(q[k])
             PROVE  FALSE
  BY DEF Clear
<1>1. DOMAIN q = 1 .. Len(q) /\ Len(q) \in Nat
  BY LenProperties
<1>2. j \in 1 .. (k - 1)
  BY <1>1
<1>3. k \in Clash(q)
  BY <1>2 DEF Clash
<1> QED
  BY <1>3

\* The clear entries are the indexed ones.
LEMMA ClearIsIndexed ==
    ASSUME NEW q \in Seq(Start), NEW x
    PROVE  x \in Indexed(q) <=> ClearIn(q, x)
<1>1. DOMAIN q = 1 .. Len(q) /\ Len(q) \in Nat
  BY LenProperties
<1>2. ASSUME NEW i \in DOMAIN q
      PROVE  Clear(q, i) <=> \A j \in Clash(q) : i < j
  <2>1. ASSUME Clear(q, i), NEW k \in Clash(q) PROVE i < k
    <3>1. k \in DOMAIN q /\ Asked(q[k]) # None
      BY DEF Clash
    <3>2. PICK j \in 1 .. (k - 1) : Asked(q[j]) = Asked(q[k])
      BY DEF Clash
    <3>3. j \in DOMAIN q /\ j < k
      BY <1>1, <3>1
    <3>4. ~(k <= i)
      BY <2>1, <3>1, <3>2, <3>3 DEF Clear
    <3> QED
      BY <1>1, <3>1, <3>4
  <2>2. ASSUME \A k \in Clash(q) : i < k PROVE Clear(q, i)
    <3> SUFFICES ASSUME NEW j \in DOMAIN q, NEW k \in DOMAIN q, j < k, k <= i,
                        Asked(q[k]) # None, Asked(q[j]) = Asked(q[k])
                 PROVE  FALSE
      BY DEF Clear
    <3>1. j \in 1 .. (k - 1)
      BY <1>1
    <3>2. k \in Clash(q)
      BY <3>1 DEF Clash
    <3> QED
      BY <1>1, <2>2, <3>2
  <2> QED
    BY <2>1, <2>2
<1> QED
  BY <1>2 DEF Indexed, ClearIn

\* How a list changes in a step: not, by an entry behind, or by one cut out.
Follows(r, q, s) == r = q \/ Added(r, q, s) \/ Cut(r, q, s)

\* A clear entry stays clear, unless it is the one cut out.
LEMMA ClearFollows ==
    ASSUME NEW q \in Seq(Start), NEW r \in Seq(Start), NEW s, NEW t, Distinct(q),
           Added(r, q, s) \/ (Cut(r, q, s) /\ t # s),
           ClearIn(q, t)
    PROVE  ClearIn(r, t)
<1> USE DEF ClearIn
<1>0. PICK i \in DOMAIN q : q[i] = t /\ Clear(q, i)
  OBVIOUS
<1>1. /\ DOMAIN q = 1 .. Len(q) /\ Len(q) \in Nat
      /\ DOMAIN r = 1 .. Len(r) /\ Len(r) \in Nat
  BY LenProperties
<1>2. CASE Added(r, q, s)
  <2>1. i \in DOMAIN r /\ r[i] = t
    BY <1>0, <1>2 DEF Added
  <2>2. Clear(r, i)
    <3> SUFFICES ASSUME NEW j \in DOMAIN r, NEW k \in DOMAIN r, j < k, k <= i, Asked(r[k]) # None
                 PROVE  Asked(r[j]) # Asked(r[k])
      BY DEF Clear
    <3>1. j \in DOMAIN q /\ k \in DOMAIN q
      BY <1>0, <1>1
    <3>2. r[j] = q[j] /\ r[k] = q[k]
      BY <1>2, <3>1 DEF Added
    <3> QED
      BY <1>0, <3>1, <3>2 DEF Clear
  <2> QED
    BY <2>1, <2>2
<1>3. CASE Cut(r, q, s) /\ t # s
  <2>1. PICK f \in [DOMAIN r -> DOMAIN q] :
           /\ \A j \in DOMAIN r : r[j] = q[f[j]]
           /\ \A j, k \in DOMAIN r : j < k => f[j] < f[k]
    BY <1>3 DEF Cut
  <2>2. PICK m \in DOMAIN r : r[m] = t
    BY <1>3 DEF Cut, Has
  <2>3. f[m] = i
    BY <1>0, <2>1, <2>2 DEF Distinct
  <2>4. Clear(r, m)
    <3> SUFFICES ASSUME NEW j \in DOMAIN r, NEW k \in DOMAIN r, j < k, k <= m, Asked(r[k]) # None
                 PROVE  Asked(r[j]) # Asked(r[k])
      BY DEF Clear
    <3>1. f[j] \in DOMAIN q /\ f[k] \in DOMAIN q /\ f[j] < f[k] /\ r[j] = q[f[j]] /\ r[k] = q[f[k]]
      BY <2>1
    <3>2. f[k] <= i
      <4>1. CASE k = m
        BY <1>1, <2>3, <4>1
      <4>2. CASE k < m
        <5>1. f[k] < i
          BY <2>1, <2>3, <4>2
        <5> QED
          BY <1>1, <3>1, <5>1
      <4> QED
        BY <1>1, <4>1, <4>2
    <3> QED
      BY <1>0, <3>1, <3>2 DEF Clear
  <2> QED
    BY <2>2, <2>4
<1> QED
  BY <1>2, <1>3

\* Nobody comes to be named twice, and only s comes to be named.
LEMMA NamesFollow ==
    ASSUME NEW q \in Seq(Start), NEW r \in Seq(Start), NEW s, Distinct(q),
           Follows(r, q, s), Added(r, q, s) => ~Has(q, s)
    PROVE  /\ Distinct(r)
           /\ \A j \in DOMAIN r : Has(q, r[j]) \/ (Added(r, q, s) /\ r[j] = s)
<1>1. /\ DOMAIN q = 1 .. Len(q) /\ Len(q) \in Nat
      /\ DOMAIN r = 1 .. Len(r) /\ Len(r) \in Nat
  BY LenProperties
<1>2. CASE r = q
  BY <1>2 DEF Has
<1>3. CASE Added(r, q, s)
  <2>1. \A j \in DOMAIN r : (j \in DOMAIN q /\ r[j] = q[j] /\ r[j] # s) \/ (j = Len(q) + 1 /\ r[j] = s)
    BY <1>3 DEF Added, Has
  <2>2. Distinct(r)
    BY <2>1 DEF Distinct
  <2> QED
    BY <1>3, <2>1, <2>2 DEF Has
<1>4. CASE Cut(r, q, s)
  <2>1. PICK f \in [DOMAIN r -> DOMAIN q] :
           /\ \A j \in DOMAIN r : r[j] = q[f[j]]
           /\ \A j, k \in DOMAIN r : j < k => f[j] < f[k]
    BY <1>4 DEF Cut
  <2>2. Distinct(r)
    <3> SUFFICES ASSUME NEW j \in DOMAIN r, NEW k \in DOMAIN r, r[j] = r[k], j < k PROVE FALSE
      BY <1>1 DEF Distinct
    <3>1. f[j] < f[k] /\ f[j] = f[k]
      BY <2>1 DEF Distinct
    <3> QED
      BY <1>1, <2>1, <3>1
  <2> QED
    BY <2>1, <2>2 DEF Has
<1> QED
  BY <1>2, <1>3, <1>4 DEF Follows

-----------------------------------------------------------------------------
(* A step of one call, and what it leaves of the invariant.                *)

\* Where a call may go.
Advances(a, b) ==
    \/ a = b
    \/ /\ a \notin {"repeated", "done", "failed", "lost"} /\ b \notin {"idle", "lost"}
       /\ a = "idle" => b = "finding"
       /\ a \notin Before => b \notin Before
       /\ a \in Owning \cup Out => b \in Owning \cup Out
       /\ a \in Out => b \in Out

CallStep(s) ==
    /\ Types' /\ ~down /\ ~down'
    /\ \A u \in Start : u # s => start'[u] = start[u] /\ session'[u] = session[u]
    /\ Advances(start[s].pc, start'[s].pc)
    /\ start[s].pc # "idle" =>
          start'[s].request = start[s].request /\ start'[s].before = start[s].before
    /\ start'[s].record = start[s].record \/ start[s].record = None
    /\ \A u \in Start : loaded'[u] \in {loaded[u], None} \/ start[s].record = u
    /\ overtaken \subseteq overtaken' /\ faults' >= faults

\* A call that has begun asks for the same.
LEMMA AskedStays ==
    ASSUME NEW s \in Start, CallStep(s), NEW u \in Start, start[u].pc # "idle"
    PROVE  start'[u].request = start[u].request /\ start'[u].pc # "idle"
  BY DEF CallStep, Advances

\* Clear entries of calls that have begun stay clear.
LEMMA ClearStays ==
    ASSUME NEW s \in Start, CallStep(s), NEW r \in Seq(Start),
           \A j \in DOMAIN r : start[r[j]].pc # "idle",
           NEW i
    PROVE  Clear(r, i)' <=> Clear(r, i)
<1>1. \A j \in DOMAIN r : r[j] \in Start
  BY ElementOfSeq, LenProperties
<1>2. \A j \in DOMAIN r : start'[r[j]].request = start[r[j]].request
  BY <1>1, AskedStays
<1> QED
  BY <1>2 DEF Clear, Asked

\* Two owners of a request cannot both be clear.
LEMMA ClearOnce ==
    ASSUME NEW r \in Seq(Start), NEW i \in DOMAIN r, NEW j \in DOMAIN r,
           Clear(r, i), Clear(r, j), Asked(r[i]) = Asked(r[j]), Asked(r[i]) # None
    PROVE  i = j
<1>1. DOMAIN r = 1 .. Len(r) /\ Len(r) \in Nat
  BY LenProperties
<1>2. ~(i < j)
  BY <1>1 DEF Clear
<1>3. ~(j < i)
  BY <1>1 DEF Clear
<1> QED
  BY <1>1, <1>2, <1>3

\* The delegations of owners stay indexed, and an owner comes only with a list
\* that is clear throughout.
LEMMA OwnersKept ==
    ASSUME IInv, NEW s \in Start, CallStep(s),
           NEW q \in Seq(Start), NEW r \in Seq(Start), NEW x \in Start,
           q = store.delegations, r = store'.delegations, Follows(r, q, x),
           Added(r, q, x) => start[x].pc # "idle",
           Cut(r, q, x) => (r = q \/ (x = s /\ ~Owns(s)')),
           Owns(s)' => (Owns(s) \/ (Has(r, s) /\ \A i \in DOMAIN r : Clear(r, i)'))
    PROVE  Owners'
<1>1. /\ \A j \in DOMAIN q : q[j] \in Start
      /\ \A j \in DOMAIN r : r[j] \in Start
  BY ElementOfSeq, LenProperties
<1>2. Distinct(q) /\ \A j \in DOMAIN q : start[q[j]].pc # "idle"
  BY DEF IInv, Written, Owning, Working, Out
<1>3. \A j \in DOMAIN r : start[r[j]].pc # "idle"
  <2>1. CASE r = q
    BY <1>2, <2>1
  <2>2. CASE Added(r, q, x)
    <3>1. \A j \in DOMAIN r : (j \in DOMAIN q /\ r[j] = q[j]) \/ r[j] = x
      BY <2>2 DEF Added
    <3> QED
      BY <1>2, <2>2, <3>1
  <2>3. CASE Cut(r, q, x)
    <3>1. \A j \in DOMAIN r : \E k \in DOMAIN q : r[j] = q[k]
      BY <2>3 DEF Cut
    <3> QED
      BY <1>2, <3>1
  <2> QED
    BY <2>1, <2>2, <2>3 DEF Follows
<1>4. \A i : Clear(r, i)' <=> Clear(r, i)
  BY <1>3, ClearStays
<1>5. ASSUME NEW t \in Start, Owns(t), Owns(t)' PROVE ClearIn(r, t)
  <2>1. ClearIn(q, t)
    BY <1>5 DEF IInv, Owners, Listed, CallStep, ClearIn
  <2>2. CASE r = q
    BY <2>1, <2>2
  <2>3. CASE r # q
    <3>1. Added(r, q, x) \/ (Cut(r, q, x) /\ t # x)
      BY <1>5, <2>3 DEF Follows
    <3> QED
      BY <1>2, <2>1, <3>1, ClearFollows
  <2> QED
    BY <2>2, <2>3
<1>6. ASSUME NEW t \in Start, Owns(t)' PROVE ClearIn(r, t)
  <2>1. CASE Owns(t)
    BY <1>5, <1>6, <2>1
  <2>2. CASE ~Owns(t)
    <3>1. t = s
      BY <1>6, <2>2 DEF CallStep, Owns
    <3>2. Has(r, s) /\ \A i \in DOMAIN r : Clear(r, i)
      BY <1>4, <1>6, <2>2, <3>1
    <3> QED
      BY <3>1, <3>2 DEF Has, ClearIn
  <2> QED
    BY <2>1, <2>2
<1>7. ASSUME NEW t \in Start, Owns(t)' PROVE Listed(t)'
  BY <1>4, <1>6, <1>7 DEF Listed, ClearIn
<1>8. ASSUME NEW t \in Start, NEW u \in Start, Owns(t)', Owns(u)',
             Asked(t)' = Asked(u)', Asked(t)' # None
      PROVE  t = u
  <2>1. PICK i \in DOMAIN r : r[i] = t /\ Clear(r, i)
    BY <1>6, <1>8 DEF ClearIn
  <2>2. PICK j \in DOMAIN r : r[j] = u /\ Clear(r, j)
    BY <1>6, <1>8 DEF ClearIn
  <2>3. Asked(t)' = Asked(t) /\ Asked(u)' = Asked(u)
    BY <1>3, <2>1, <2>2, AskedStays DEF Asked
  <2>4. i = j
    BY <1>8, <2>1, <2>2, <2>3, ClearOnce
  <2> QED
    BY <2>1, <2>2, <2>4
<1> QED
  BY <1>7, <1>8 DEF Owners

\* Nobody is listed twice, nor before the call came to it.
LEMMA WrittenKept ==
    ASSUME IInv, NEW s \in Start, CallStep(s),
           NEW q \in Seq(Start), NEW r \in Seq(Start), NEW x \in Start,
           q = store.delegations, r = store'.delegations, Follows(r, q, x),
           Added(r, q, x) => (~Has(q, x) /\ start'[x].pc \in Owning \cup Out),
           NEW p \in Seq(Start), NEW o \in Seq(Start),
           p = store.records, o = store'.records, Follows(o, p, s),
           Added(o, p, s) => (start[s].pc = "creating" /\ start'[s].pc \notin Before)
    PROVE  Written'
<1>1. /\ Distinct(q) /\ \A i \in DOMAIN q : start[q[i]].pc \in Owning \cup Out
      /\ Distinct(p) /\ \A i \in DOMAIN p : start[p[i]].pc \notin Before
  BY DEF IInv, Written
<1>2. \A j \in DOMAIN q : q[j] \in Start
  BY ElementOfSeq, LenProperties
<1>3. \A j \in DOMAIN p : p[j] \in Start
  BY ElementOfSeq, LenProperties
<1>4. Added(o, p, s) => ~Has(p, s)
  BY <1>1 DEF Has, Before
<1>5. \A u \in Start : start[u].pc \in Owning \cup Out => start'[u].pc \in Owning \cup Out
  BY DEF CallStep, Advances
<1>6. \A u \in Start : start[u].pc \notin Before => start'[u].pc \notin Before
  BY DEF CallStep, Advances
<1>7. /\ Distinct(r)
      /\ \A j \in DOMAIN r : Has(q, r[j]) \/ (Added(r, q, x) /\ r[j] = x)
  BY <1>1, NamesFollow
<1>8. /\ Distinct(o)
      /\ \A j \in DOMAIN o : Has(p, o[j]) \/ (Added(o, p, s) /\ o[j] = s)
  BY <1>1, <1>4, NamesFollow
<1>9. \A j \in DOMAIN r : start'[r[j]].pc \in Owning \cup Out
  BY <1>1, <1>2, <1>5, <1>7 DEF Has
<1>10. \A j \in DOMAIN o : start'[o[j]].pc \notin Before
  BY <1>1, <1>3, <1>6, <1>8 DEF Has
<1> QED
  BY <1>7, <1>8, <1>9, <1>10 DEF Written, Distinct

\* What others have opened stays.
LEMMA OpenedKept ==
    ASSUME IInv, NEW s \in Start, CallStep(s), OpenedAt(s)', UNCHANGED writing
    PROVE  Opened'
<1>1. ASSUME NEW u \in Start, u # s PROVE OpenedAt(u)'
  <2>1. OpenedAt(u)
    BY DEF IInv, Opened
  <2>2. start'[u] = start[u] /\ session'[u] = session[u]
    BY <1>1 DEF CallStep
  <2> QED
    BY <2>1, <2>2 DEF OpenedAt
<1> QED
  BY <1>1 DEF Opened, CallStep

\* What others have borrowed stays.
LEMMA BorrowedKept ==
    ASSUME IInv, NEW s \in Start, CallStep(s), BorrowedAt(s)'
    PROVE  Borrowed'
<1>1. ASSUME NEW u \in Start, u # s PROVE BorrowedAt(u)'
  <2>1. BorrowedAt(u) /\ start'[u] = start[u]
    BY <1>1 DEF IInv, Borrowed, CallStep
  <2>2. ASSUME start[u].record \notin {None, u}
        PROVE  Asked(start[u].record)' = Asked(start[u].record)
    <3>1. start[u].record \in Start
      BY <2>2 DEF IInv, Types, CallRecord
    <3>2. Asked(start[u].record) # None
      BY <2>1, <2>2 DEF BorrowedAt
    <3>3. start[start[u].record].pc # "idle"
      BY <3>1, <3>2 DEF IInv, Borrowed, BorrowedAt
    <3> QED
      BY <2>1, <3>1, <3>3, AskedStays DEF Asked
  <2> QED
    BY <2>1, <2>2 DEF BorrowedAt, Asked
<1> QED
  BY <1>1 DEF Borrowed

\* What was removed stays so.
LEMMA RemovedStays ==
    ASSUME IInv, NEW s \in Start, CallStep(s),
           start[s].pc \in Out => session'[s] = session[s],
           NEW u \in Start, Removed(u)
    PROVE  Removed(u)'
<1>1. faults # 0 => faults' # 0
  BY DEF CallStep, IInv, Types
<1>2. start[u].pc = "lost" => start'[u].pc = "lost"
  BY DEF CallStep, Advances
<1>3. start[u].pc \in Out => start'[u].pc \in Out
  BY DEF CallStep, Advances, Out
<1>4. start[u].pc \in Out => session'[u] = session[u]
  BY DEF CallStep
<1>5. u \in overtaken => u \in overtaken'
  BY DEF CallStep
<1> QED
  BY <1>1, <1>2, <1>3, <1>4, <1>5 DEF Removed

\* Only a call without a record takes one.
LEMMA OwnRecordWas ==
    ASSUME IInv, NEW s \in Start, CallStep(s), NEW u \in Start, start[u].record = u, OwnRecord(u)'
    PROVE  OwnRecord(u)
<1> SUFFICES ASSUME NEW v \in Start, v # u, start[v].record = u PROVE FALSE
  BY DEF OwnRecord
<1>1. start'[v].record = start[v].record
  <2>1. start[v].record # None
    BY DelegationAssumption
  <2> QED
    BY <2>1 DEF CallStep
<1> QED
  BY <1>1 DEF OwnRecord

\* What the clean-up of others removed does not come back.
LEMMA CleanedKept ==
    ASSUME IInv, NEW s \in Start, CallStep(s), UNCHANGED writing,
           start[s].pc \in Out => session'[s] = session[s],
           \A u \in Start : Has(store'.delegations, u) => Has(store.delegations, u) \/ u = s,
           \A u \in Start : Has(store'.records, u) => Has(store.records, u) \/ u = s,
           Writes(s)', Gone(s)'
    PROVE  CleanedUp'
<1>1. ASSUME NEW u \in Start, u # s PROVE Writes(u)' /\ Gone(u)'
  <2>1. Writes(u) /\ Gone(u) /\ start'[u] = start[u] /\ session'[u] = session[u]
    BY <1>1 DEF IInv, CleanedUp, CallStep
  <2>2. Removed(u) => Removed(u)'
    BY RemovedStays
  <2>3. Left(u)' => Left(u)
    BY <2>1 DEF Left, CallStep, IInv, Types
  <2>4. Writes(u)'
    BY <2>1, <2>2 DEF Writes
  <2>5. ASSUME Left(u)', u \notin overtaken', OwnRecord(u)' PROVE loaded'[u] = None
    <3>1. u \notin overtaken
      BY <2>5 DEF CallStep
    <3>2. start[u].record = u /\ start[s].record # u
      <4>1. start'[u].record = u /\ start'[s].record # u
        BY <1>1, <2>5 DEF OwnRecord
      <4>2. start[s].record \in {start'[s].record, None}
        BY DEF CallStep
      <4> QED
        BY <2>1, <4>1, <4>2, DelegationAssumption
    <3>3. OwnRecord(u)
      BY <2>5, <3>2, OwnRecordWas
    <3>4. loaded[u] = None
      BY <2>1, <2>3, <2>5, <3>1, <3>3 DEF Gone
    <3> QED
      BY <3>2, <3>4 DEF CallStep
  <2>6. /\ start'[u].pc \in {"removing", "failed"} /\ ~Removed(u)' => ~Has(store'.delegations, u)
        /\ Left(u)' => ~Has(store'.records, u)
    BY <1>1, <2>1, <2>2, <2>3 DEF Gone
  <2> QED
    BY <2>4, <2>5, <2>6 DEF Gone
<1> QED
  BY <1>1 DEF CleanedUp

\* A status of the call itself is on its way only while it may be written.
LEMMA WritesKept ==
    ASSUME IInv, NEW s \in Start, CallStep(s), UNCHANGED writing,
           start[s].pc \in Out => session'[s] = session[s],
           start[s].pc \notin Out /\ start'[s].pc \in Out /\ s \in writing => Removed(s)'
    PROVE  Writes(s)'
<1>1. Writes(s)
  BY DEF IInv, CleanedUp
<1>2. start[s].pc \in Owning \cup Out => start'[s].pc \in Owning \cup Out
  BY DEF CallStep, Advances
<1>3. Removed(s) => Removed(s)'
  BY RemovedStays
<1>4. start[s].pc \in Out => start'[s].pc \in Out /\ start[s].pc \notin Owning
  BY DEF CallStep, Advances, Out, Owning, Working
<1> QED
  <2>1. CASE s \notin writing
    BY <2>1 DEF Writes
  <2>2. CASE s \in writing /\ start[s].pc \in Out
    BY <1>1, <1>3, <1>4, <2>2 DEF Writes
  <2>3. CASE s \in writing /\ start[s].pc \notin Out
    BY <1>1, <1>2, <2>3 DEF Writes
  <2> QED
    BY <2>1, <2>2, <2>3

\* Who was to be answered with a child still is.
LEMMA AnsweredKept ==
    ASSUME IInv, NEW s \in Start, CallStep(s), AnsweredAt(s)'
    PROVE  Answered'
<1>1. ASSUME NEW u \in Start, u # s PROVE AnsweredAt(u)'
  <2>1. AnsweredAt(u) /\ start'[u] = start[u] /\ session'[u] = session[u]
    BY <1>1 DEF IInv, Answered, CallStep
  <2>2. ASSUME NEW t \in Start, start[t].pc = "done"
        PROVE  start'[t].pc = "done" /\ start'[t].request = start[t].request
    BY <2>2 DEF CallStep, Advances
  <2> QED
    BY <2>1, <2>2 DEF AnsweredAt, Repeats, Asked
<1> QED
  BY <1>1 DEF Answered

-----------------------------------------------------------------------------
(* Steps that write no list, or nothing new.                               *)

PlainStep(s) ==
    /\ CallStep(s)
    /\ store'.delegations = store.delegations /\ store'.records = store.records
    /\ UNCHANGED writing
    /\ Owns(s)' => Owns(s)
    /\ OpenedAt(s)' /\ BorrowedAt(s)' /\ AnsweredAt(s)'
    /\ start[s].pc \in Out => session'[s] = session[s]
    /\ start'[s].pc \in {"removing", "failed"} =>
          /\ Removed(s)'
          /\ start'[s].pc = "failed" => session'[s] = "none" \/ faults' # 0

\* Such a step keeps the invariant.
LEMMA PlainKeeps ==
    ASSUME IInv, NEW s \in Start, PlainStep(s) PROVE IInv'
<1>1. PICK q \in Seq(Start) : q = store.delegations
  BY DEF IInv, Types, StoreRecord
<1>2. PICK p \in Seq(Start) : p = store.records
  BY DEF IInv, Types, StoreRecord
<1>3. CallStep(s) /\ store'.delegations = q /\ store'.records = p
  BY <1>1, <1>2 DEF PlainStep
<1>4. Follows(q, q, s) /\ Follows(p, p, s)
  BY DEF Follows
<1>5. ~Added(q, q, s) /\ ~Added(p, p, s)
  BY LenProperties DEF Added
<1>6. Owners'
  BY <1>1, <1>3, <1>4, <1>5, OwnersKept DEF PlainStep
<1>7. Written'
  BY <1>1, <1>2, <1>3, <1>4, <1>5, WrittenKept
<1>8. Opened' /\ Borrowed' /\ Answered'
  BY <1>3, OpenedKept, BorrowedKept, AnsweredKept DEF PlainStep
<1>9. Gone(s)'
  BY DEF PlainStep, Gone, Left
<1>10. Writes(s)'
  <2>1. start'[s].pc \in Out /\ start[s].pc \notin Out => Removed(s)'
    BY DEF PlainStep, Out, Removed
  <2> QED
    BY <1>3, <2>1, WritesKept DEF PlainStep
<1>11. CleanedUp'
  BY <1>3, <1>9, <1>10, CleanedKept DEF PlainStep
<1> QED
  BY <1>3, <1>6, <1>7, <1>8, <1>11 DEF IInv, CallStep

\* A call with another place is a call.
LEMMA CallFields ==
    ASSUME NEW c \in CallRecord, NEW p \in Place
    PROVE  /\ [c EXCEPT !.pc = p] \in CallRecord
           /\ [c EXCEPT !.pc = p].pc = p
           /\ [c EXCEPT !.pc = p].request = c.request
           /\ [c EXCEPT !.pc = p].before = c.before
           /\ [c EXCEPT !.pc = p].record = c.record
           /\ [c EXCEPT !.pc = p].answer = c.answer
  BY DEF CallRecord

\* A call that goes on from where it was takes a step of its own.
LEMMA Walks ==
    ASSUME IInv, NEW s \in Start, NEW c \in CallRecord, start' = [start EXCEPT ![s] = c],
           c.request = start[s].request, c.before = start[s].before,
           c.record = start[s].record \/ start[s].record = None,
           start[s].pc \notin Resting, Advances(start[s].pc, c.pc),
           session' \in [Start -> {"none", "open", "left"}],
           \A u \in Start : u # s => session'[u] = session[u],
           loaded' \in [Start -> Owner],
           \A u \in Start : loaded'[u] \in {loaded[u], None} \/ start[s].record = u,
           store' \in StoreRecord, faults' \in Nat, faults' >= faults,
           held' \in SUBSET (Start \cup {None}), overtaken' \in SUBSET Start,
           overtaken \subseteq overtaken',
           UNCHANGED <<writing, down, crashes>>
    PROVE  CallStep(s) /\ start'[s] = c
<1>1. /\ start' \in [Start -> CallRecord] /\ start'[s] = c
      /\ \A u \in Start : u # s => start'[u] = start[u]
  BY DEF IInv, Types
<1>2. ~down /\ ~down'
  BY DEF IInv, Opened, Stopped
<1>3. Types'
  BY <1>1 DEF IInv, Types
<1> QED
  BY <1>1, <1>2, <1>3 DEF CallStep

\* A call that keeps its record and request has borrowed rightly.
LEMMA BorrowedStays ==
    ASSUME IInv, NEW s \in Start, CallStep(s), start[s].pc # "idle",
           start'[s].record = start[s].record
    PROVE  BorrowedAt(s)'
<1>1. BorrowedAt(s)
  BY DEF IInv, Borrowed
<1>2. start'[s].request = start[s].request /\ start'[s].pc # "idle"
  BY AskedStays
<1>3. ASSUME start[s].record \notin {None, s}
      PROVE  Asked(start[s].record)' = Asked(start[s].record)
  <2>1. start[s].record \in Start
    BY <1>3 DEF IInv, Types, CallRecord
  <2>2. Asked(start[s].record) # None
    BY <1>1, <1>3 DEF BorrowedAt
  <2>3. start[start[s].record].pc # "idle"
    BY <2>1, <2>2 DEF IInv, Borrowed, BorrowedAt
  <2>4. PICK t \in Start : t = start[s].record /\ start[t].pc # "idle"
    BY <2>1, <2>3
  <2>5. start'[t].request = start[t].request
    BY <2>4, AskedStays
  <2> QED
    BY <2>4, <2>5 DEF Asked
<1>4. start'[s].pc \in Before => start[s].pc \in Before
  BY DEF CallStep, Advances
<1> QED
  BY <1>1, <1>2, <1>3, <1>4 DEF BorrowedAt, Asked

\* A call that goes on and writes nothing keeps the invariant, unless it comes
\* to own its request or leaves something behind.
LEMMA MoveKeeps ==
    ASSUME IInv, NEW s \in Start, NEW c \in CallRecord, start' = [start EXCEPT ![s] = c],
           c.request = start[s].request, c.before = start[s].before, c.record = start[s].record,
           start[s].pc \notin Resting, Advances(start[s].pc, c.pc),
           start[s].pc = "finding" => start[s].before = {} \/ Asked(s) = None,
           c.pc \in Owning => start[s].pc \in Owning,
           c.pc = "done" => c.answer = s,
           session' \in [Start -> {"none", "open", "left"}],
           \A u \in Start : u # s => session'[u] = session[u],
           loaded' \in [Start -> Owner],
           \A u \in Start : loaded'[u] \in {loaded[u], None} \/ start[s].record = u,
           store' \in StoreRecord,
           store'.delegations = store.delegations, store'.records = store.records,
           faults' \in Nat, faults' >= faults,
           held' \in SUBSET (Start \cup {None}), overtaken' \in SUBSET Start,
           overtaken \subseteq overtaken',
           UNCHANGED <<writing, down, crashes>>,
           OpenedAt(s)', start[s].pc \in Out => session'[s] = session[s],
           c.pc \in {"removing", "failed"} => session'[s] = "none" \/ faults' # 0
    PROVE  IInv'
<1>1. CallStep(s) /\ start'[s] = c
  BY Walks DEF IInv, Types
<1>2. BorrowedAt(s)'
  BY <1>1, BorrowedStays DEF Resting
<1>3. AnsweredAt(s)'
  <2>1. start[s].before = {} \/ Asked(s) = None
    BY DEF IInv, Answered, AnsweredAt, Repeats, Resting
  <2> QED
    BY <1>1, <2>1 DEF AnsweredAt, Repeats, Asked
<1>4. c.pc \in {"removing", "failed"} => Removed(s)'
  BY <1>1 DEF Removed, Out
<1>5. PlainStep(s)
  BY <1>1, <1>2, <1>3, <1>4 DEF PlainStep, Owns
<1> QED
  BY <1>5, PlainKeeps

\* The same for a step that only changes the place.
LEMMA ToKeeps ==
    ASSUME IInv, NEW s \in Start, NEW p \in Place, To(s, p),
           start[s].pc \notin Resting \cup {"finding"}, Advances(start[s].pc, p),
           p \in Owning => start[s].pc \in Owning, p # "done",
           session' \in [Start -> {"none", "open", "left"}],
           \A u \in Start : u # s => session'[u] = session[u],
           loaded' \in [Start -> Owner],
           \A u \in Start : loaded'[u] \in {loaded[u], None} \/ start[s].record = u,
           store' \in StoreRecord,
           store'.delegations = store.delegations, store'.records = store.records,
           faults' \in Nat, faults' >= faults,
           held' \in SUBSET (Start \cup {None}), overtaken' \in SUBSET Start,
           overtaken \subseteq overtaken',
           UNCHANGED <<writing, down, crashes>>,
           OpenedAt(s)', start[s].pc \in Out => session'[s] = session[s],
           p \in {"removing", "failed"} => session'[s] = "none" \/ faults' # 0
    PROVE  IInv'
<1> DEFINE c == [start[s] EXCEPT !.pc = p]
<1>1. start[s] \in CallRecord
  BY DEF IInv, Types
<1>2. /\ c \in CallRecord /\ c.pc = p /\ c.request = start[s].request
      /\ c.before = start[s].before /\ c.record = start[s].record
  BY <1>1, CallFields
<1>3. start' = [start EXCEPT ![s] = c]
  BY DEF To
<1> HIDE DEF c
<1> QED
  BY <1>2, <1>3, MoveKeeps

-----------------------------------------------------------------------------
(* The steps of a call.                                                    *)

\* Where a call goes it is.
LEMMA ToDoes ==
    ASSUME IInv, NEW s \in Start, NEW p \in Place, To(s, p) PROVE start'[s].pc = p
<1>1. start' = [start EXCEPT ![s].pc = p] /\ start \in [Start -> CallRecord]
  BY DEF To, IInv, Types
<1>2. start[s] \in CallRecord
  BY <1>1
<1> QED
  BY <1>1, <1>2, CallFields

\* What a step that changes nothing else leaves.
LEMMA FrameTypes ==
    ASSUME IInv
    PROVE  /\ session \in [Start -> {"none", "open", "left"}]
           /\ loaded \in [Start -> Owner]
           /\ store \in StoreRecord /\ faults \in Nat /\ faults >= faults
           /\ held \in SUBSET (Start \cup {None}) /\ overtaken \in SUBSET Start
           /\ overtaken \subseteq overtaken
  BY DEF IInv, Types

\* A look for the request of another writes nothing.
LEMMA CheckRequestKeeps == ASSUME IInv, NEW s \in Start, CheckRequest(s) PROVE IInv'
<1>1. PICK p \in {"removing", "recording"} : To(s, p)
  BY DEF CheckRequest
<1>2. /\ start[s].pc = "checking"
      /\ UNCHANGED <<session, loaded, store, held, writing, overtaken, down, crashes, faults>>
  BY DEF CheckRequest, At, statusVars
<1>3. p \in Place /\ Advances("checking", p) /\ p # "done" /\ p \notin Owning
  BY DEF Place, Advances, Before, Recording, Owning, Working, Out
<1>4. start'[s].pc = p
  BY <1>1, <1>3, ToDoes
<1>5. OpenedAt(s) /\ session[s] = "none"
  BY <1>2 DEF IInv, Opened, OpenedAt, Recording, Working
<1>6. OpenedAt(s)'
  BY <1>2, <1>4, <1>5 DEF OpenedAt
<1>7. start[s].pc \notin Resting \cup {"finding"} /\ start[s].pc \notin Out
  BY <1>2 DEF Resting, Out
<1> QED
  BY <1>1, <1>2, <1>3, <1>5, <1>6, <1>7, FrameTypes, ToKeeps

\* A first Turn started, or not, writes nothing.
LEMMA TurnStartedKeeps ==
    ASSUME IInv, NEW s \in Start, NEW ok \in BOOLEAN, TurnStarted(s, ok) PROVE IInv'
<1>1. PICK p \in {"closing", "selecting", "identifying"} : To(s, p)
  BY DEF TurnStarted
<1>2. /\ start[s].pc = "starting"
      /\ UNCHANGED <<session, loaded, store, held, writing, overtaken, down, crashes, faults>>
  BY DEF TurnStarted, At, statusVars
<1>3. /\ p \in Place /\ Advances("starting", p) /\ p # "done" /\ "starting" \in Owning
      /\ p \in Working \ {"committing"}
  BY DEF Place, Advances, Before, Recording, Owning, Working, Out
<1>4. start'[s].pc = p
  BY <1>1, <1>3, ToDoes
<1>5. OpenedAt(s)'
  BY <1>2, <1>3, <1>4 DEF OpenedAt, Before, Recording, Working
<1>6. start[s].pc \notin Resting \cup {"finding"} /\ start[s].pc \notin Out
      /\ p \notin {"removing", "failed"}
  BY <1>2, <1>3 DEF Resting, Out, Working
<1> QED
  BY <1>1, <1>2, <1>3, <1>5, <1>6, FrameTypes, ToKeeps

\* Nor does what Select decides.
LEMMA SelectKeeps == ASSUME IInv, NEW s \in Start, Select(s) PROVE IInv'
<1>1. PICK p \in {"reporting", "announcing", "closing"} : To(s, p)
  BY DEF Select
<1>2. /\ start[s].pc = "selecting"
      /\ UNCHANGED <<session, loaded, store, held, writing, overtaken, down, crashes, faults>>
  BY DEF Select, At, statusVars
<1>3. /\ p \in Place /\ Advances("selecting", p) /\ p # "done" /\ "selecting" \in Owning
      /\ p \in Working \ {"committing"}
  BY DEF Place, Advances, Before, Recording, Owning, Working, Out
<1>4. start'[s].pc = p
  BY <1>1, <1>3, ToDoes
<1>5. OpenedAt(s)'
  BY <1>2, <1>3, <1>4 DEF OpenedAt, Before, Recording, Working
<1>6. start[s].pc \notin Resting \cup {"finding"} /\ start[s].pc \notin Out
      /\ p \notin {"removing", "failed"}
  BY <1>2, <1>3 DEF Resting, Out, Working
<1> QED
  BY <1>1, <1>2, <1>3, <1>5, <1>6, FrameTypes, ToKeeps

\* The record of a call that can be updated is a Thread.
LEMMA RecordIsThread ==
    ASSUME IInv, NEW t, Updatable(t) PROVE t \in Start
<1>1. store.records \in Seq(Start)
  BY DEF IInv, Types, StoreRecord
<1>2. \A i \in DOMAIN store.records : store.records[i] \in Start
  BY <1>1, ElementOfSeq, LenProperties
<1> QED
  BY <1>2 DEF Updatable, ToSet

\* An identity that is committed changes neither list.
LEMMA IdentifiedKeeps == ASSUME IInv, NEW s \in Start, Identified(s) PROVE IInv'
<1>1. PICK p \in {"selecting", "closing"} : To(s, p)
  BY DEF Identified
<1>2. /\ start[s].pc = "identifying"
      /\ UNCHANGED <<session, loaded, held, writing, overtaken, down, crashes, faults>>
      /\ \/ store' = store
         \/ Updatable(start[s].record) /\ store' = Committed(start[s].record)
  BY DEF Identified, At, statusVars
<1>3. /\ p \in Place /\ Advances("identifying", p) /\ p # "done" /\ "identifying" \in Owning
      /\ p \in Working \ {"committing"}
  BY DEF Place, Advances, Before, Recording, Owning, Working, Out
<1>4. start'[s].pc = p
  BY <1>1, <1>3, ToDoes
<1>5. OpenedAt(s)'
  BY <1>2, <1>3, <1>4 DEF OpenedAt, Before, Recording, Working
<1>6. start[s].pc \notin Resting \cup {"finding"} /\ start[s].pc \notin Out
      /\ p \notin {"removing", "failed"}
  BY <1>2, <1>3 DEF Resting, Out, Working
<1>7. /\ store' \in StoreRecord
      /\ store'.delegations = store.delegations /\ store'.records = store.records
  <2>1. CASE store' = store
    BY <2>1, FrameTypes
  <2>2. CASE Updatable(start[s].record) /\ store' = Committed(start[s].record)
    BY <2>2, RecordIsThread DEF IInv, Types, StoreRecord, Committed
  <2> QED
    BY <1>2, <2>1, <2>2
<1> QED
  BY <1>1, <1>2, <1>3, <1>5, <1>6, <1>7, FrameTypes, ToKeeps

\* Nor does the commit before the start, which gives the Thread its owner.
LEMMA CommitKeeps == ASSUME IInv, NEW s \in Start, Commit(s) PROVE IInv'
<1> DEFINE t == start[s].record
<1>1. /\ start[s].pc = "committing"
      /\ UNCHANGED <<session, writing, overtaken, down, crashes, faults>>
      /\ store' = store \/ (Updatable(t) /\ store' = Committed(t))
  BY DEF Commit, At
<1>2. /\ store' \in StoreRecord
      /\ store'.delegations = store.delegations /\ store'.records = store.records
  <2>1. CASE store' = store
    BY <2>1, FrameTypes
  <2>2. CASE Updatable(t) /\ store' = Committed(t)
    <3>1. start[s].record \in Start
      BY <2>2, RecordIsThread
    <3> QED
      BY <2>2, <3>1 DEF IInv, Types, StoreRecord, Committed
  <2> QED
    BY <1>1, <2>1, <2>2
<1>3. PICK p \in {"starting", "closing"} :
         To(s, p) /\ \/ UNCHANGED <<loaded, held>>
                     \/ /\ t \in Start /\ loaded' = [loaded EXCEPT ![t] = s]
                        /\ held' = held \cup {t}
  BY RecordIsThread DEF Commit, Load
<1>4. /\ p \in Place /\ Advances("committing", p) /\ p # "done" /\ "committing" \in Owning
      /\ p \in Working \ {"committing"}
  BY DEF Place, Advances, Before, Recording, Owning, Working, Out
<1>5. start'[s].pc = p
  BY <1>3, <1>4, ToDoes
<1>6. OpenedAt(s)'
  BY <1>1, <1>4, <1>5 DEF OpenedAt, Before, Recording, Working
<1>7. start[s].pc \notin Resting \cup {"finding"} /\ start[s].pc \notin Out
      /\ p \notin {"removing", "failed"}
  BY <1>1, <1>4 DEF Resting, Out, Working
<1>8. /\ loaded' \in [Start -> Owner]
      /\ \A u \in Start : loaded'[u] \in {loaded[u], None} \/ start[s].record = u
      /\ held' \in SUBSET (Start \cup {None})
  BY <1>3, FrameTypes DEF Owner
<1> QED
  BY <1>1, <1>2, <1>3, <1>4, <1>6, <1>7, <1>8, FrameTypes, ToKeeps

\* A close leaves neither the Session open nor the Thread its owner.
LEMMA CloseSessionKeeps == ASSUME IInv, NEW s \in Start, CloseSession(s) PROVE IInv'
<1>1. /\ start[s].pc = "closing" /\ To(s, "forgetting")
      /\ session' = [session EXCEPT ![s] = "left"]
      /\ loaded' = [loaded EXCEPT ![s] = None]
      /\ UNCHANGED <<store, held, writing, overtaken, down, crashes, faults>>
  BY DEF CloseSession, At, statusVars
<1>2. /\ "forgetting" \in Place /\ Advances("closing", "forgetting") /\ "closing" \in Owning
  BY DEF Place, Advances, Before, Recording, Owning, Working, Out
<1>3. start'[s].pc = "forgetting"
  BY <1>1, <1>2, ToDoes
<1>4. /\ session' \in [Start -> {"none", "open", "left"}] /\ session'[s] = "left"
      /\ \A u \in Start : u # s => session'[u] = session[u]
      /\ loaded' \in [Start -> Owner] /\ loaded'[s] = None
      /\ \A u \in Start : loaded'[u] \in {loaded[u], None} \/ start[s].record = u
  BY <1>1, FrameTypes DEF Owner
<1>5. OpenedAt(s)'
  BY <1>3, <1>4, DelegationAssumption DEF OpenedAt, Before, Recording
<1>6. start[s].pc \notin Resting \cup {"finding"} /\ start[s].pc \notin Out
  BY <1>1 DEF Resting, Out
<1> QED
  BY <1>1, <1>2, <1>4, <1>5, <1>6, FrameTypes, ToKeeps

\* Only an owner of its request opens a Session.
LEMMA OpenKeeps == ASSUME IInv, NEW s \in Start, Open(s) PROVE IInv'
<1>1. start[s].pc = "opening" /\ UNCHANGED <<store, writing, overtaken, down, crashes, faults>>
  BY DEF Open, At
<1>2. session[s] = "none"
  BY <1>1 DEF IInv, Opened, OpenedAt, Working
<1>3. start[s].pc \notin Resting \cup {"finding"} /\ start[s].pc \notin Out /\ start[s].pc \in Owning
  BY <1>1 DEF Resting, Out, Owning
<1>4. \A p \in {"forgetting", "committing", "starting"} :
         /\ p \in Place /\ Advances("opening", p) /\ p # "done" /\ p \notin {"removing", "failed"}
         /\ p \notin Before \cup Recording \cup {"opening"}
  BY DEF Place, Advances, Before, Recording, Owning, Working, Out
<1>5. CASE To(s, "forgetting") /\ UNCHANGED <<session, loaded, held>>
  <2>1. start'[s].pc = "forgetting"
    BY <1>4, <1>5, ToDoes
  <2>2. OpenedAt(s)'
    BY <1>2, <1>4, <1>5, <2>1 DEF OpenedAt
  <2> QED
    BY <1>1, <1>3, <1>4, <1>5, <2>2, FrameTypes, ToKeeps
<1>6. ASSUME session' = [session EXCEPT ![s] = "open"]
      PROVE  /\ session' \in [Start -> {"none", "open", "left"}] /\ session'[s] = "open"
             /\ \A u \in Start : u # s => session'[u] = session[u]
  BY <1>6, FrameTypes
<1>7. CASE /\ session' = [session EXCEPT ![s] = "open"] /\ UNCHANGED <<loaded, held>>
           /\ start' = [start EXCEPT ![s].pc = "committing", ![s].named = TRUE]
  <2> DEFINE c == [start[s] EXCEPT !.pc = "committing", !.named = TRUE]
  <2>1. start[s] \in CallRecord /\ start \in [Start -> CallRecord]
    BY DEF IInv, Types
  <2>2. /\ c \in CallRecord /\ c.pc = "committing" /\ c.request = start[s].request
        /\ c.before = start[s].before /\ c.record = start[s].record
    BY <1>4, <2>1 DEF CallRecord
  <2>3. start' = [start EXCEPT ![s] = c]
    BY <1>7, <2>1
  <2> HIDE DEF c
  <2>4. start'[s].pc = "committing"
    BY <2>1, <2>2, <2>3
  <2>5. OpenedAt(s)'
    BY <1>2, <1>4, <1>6, <1>7, <2>4 DEF OpenedAt, Working
  <2>6. /\ Advances(start[s].pc, c.pc) /\ start[s].pc # "finding"
        /\ c.pc # "done" /\ c.pc \notin {"removing", "failed"}
    BY <1>1, <1>4, <2>2
  <2>7. /\ store' \in StoreRecord /\ UNCHANGED <<writing, down, crashes>>
        /\ store'.delegations = store.delegations /\ store'.records = store.records
        /\ faults' \in Nat /\ faults' >= faults /\ loaded' \in [Start -> Owner]
        /\ \A u \in Start : loaded'[u] \in {loaded[u], None} \/ start[s].record = u
        /\ held' \in SUBSET (Start \cup {None}) /\ overtaken' \in SUBSET Start
        /\ overtaken \subseteq overtaken'
    BY <1>1, <1>7, FrameTypes
  <2>8. start[s].pc \notin Resting /\ start[s].pc \in Owning /\ start[s].pc \notin Out
    BY <1>3
  <2> QED
    BY <1>6, <1>7, <2>2, <2>3, <2>5, <2>6, <2>7, <2>8, MoveKeeps
<1>8. CASE /\ session' = [session EXCEPT ![s] = "open"]
           /\ To(s, "starting") /\ Load(start[s].record, s)
  <2>1. start'[s].pc = "starting"
    BY <1>4, <1>8, ToDoes
  <2>2. OpenedAt(s)'
    BY <1>4, <2>1 DEF OpenedAt, Working
  <2>3. /\ loaded' \in [Start -> Owner]
        /\ \A u \in Start : loaded'[u] \in {loaded[u], None} \/ start[s].record = u
        /\ held' = held \cup {start[s].record} /\ start[s].record \in Start \cup {None}
    BY <1>8, FrameTypes DEF Load, Owner, IInv, Types, CallRecord
  <2>4. held' \in SUBSET (Start \cup {None})
    BY <2>3, FrameTypes
  <2> QED
    BY <1>1, <1>3, <1>4, <1>6, <1>8, <2>2, <2>3, <2>4, FrameTypes, ToKeeps
<1> QED
  BY <1>5, <1>7, <1>8 DEF Open

\* A call whose request was answered finds the delegation that answered it.
LEMMA FindKeeps == ASSUME IInv, NEW s \in Start, Find(s) PROVE IInv'
<1>1. /\ start[s].pc = "finding"
      /\ UNCHANGED <<session, loaded, store, held, writing, overtaken, down, crashes, faults>>
  BY DEF Find, At, statusVars
<1>2. /\ ~down /\ OpenedAt(s) /\ AnsweredAt(s)
  BY <1>1 DEF IInv, Opened, Stopped, Resting, Answered
<1>3. session[s] = "none"
  BY <1>1, <1>2 DEF OpenedAt, Before, Working
<1>4. start[s] \in CallRecord /\ start \in [Start -> CallRecord]
  BY DEF IInv, Types
<1>5. PICK q \in Seq(Start) : q = store.delegations
  BY DEF IInv, Types, StoreRecord
<1>6. \A i \in DOMAIN q : q[i] \in Start
  BY ElementOfSeq, LenProperties
\* One whose request has an owner finds it.
<1>7. ASSUME start[s].before # {}, Asked(s) # None
      PROVE  \E t \in Start : /\ start[s].before = {t} /\ start[t].pc = "done"
                              /\ Asked(t) = Asked(s) /\ Found(s) = {t}
  <2>1. PICK t \in Start : start[s].before = {t} /\ start[t].pc = "done" /\ Asked(t) = Asked(s)
    BY <1>2, <1>7 DEF AnsweredAt, Repeats
  <2>2. Owns(t)
    BY <2>1 DEF Owns, Owning
  <2>3. ClearIn(q, t)
    BY <1>2, <1>5, <2>2 DEF IInv, Owners, Listed, ClearIn
  <2>4. \A x \in Indexed(q) : Asked(x) = Asked(s) => x = t
    <3> SUFFICES ASSUME NEW x, x \in Indexed(q), Asked(x) = Asked(s) PROVE x = t
      OBVIOUS
    <3>1. ClearIn(q, x)
      BY ClearIsIndexed
    <3>2. PICK i \in DOMAIN q : q[i] = x /\ Clear(q, i)
      BY <3>1 DEF ClearIn
    <3>3. PICK j \in DOMAIN q : q[j] = t /\ Clear(q, j)
      BY <2>3 DEF ClearIn
    <3>4. i = j
      BY <1>7, <2>1, <3>2, <3>3, ClearOnce
    <3> QED
      BY <3>2, <3>3, <3>4
  <2>5. t \in Indexed(q)
    BY <2>3, ClearIsIndexed
  <2>6. DelegationOf(Asked(s)) = t
    <3>1. \E x \in Indexed(q) : Asked(x) = Asked(s)
      BY <2>1, <2>5
    <3>2. DelegationOf(Asked(s)) = CHOOSE x \in Indexed(q) : Asked(x) = Asked(s)
      BY <1>5, <3>1 DEF DelegationOf, Entry
    <3>3. (CHOOSE x \in Indexed(q) : Asked(x) = Asked(s)) \in Indexed(q)
          /\ Asked(CHOOSE x \in Indexed(q) : Asked(x) = Asked(s)) = Asked(s)
      BY <3>1
    <3> QED
      BY <2>4, <3>2, <3>3
  <2> QED
    BY <1>7, <2>1, <2>6 DEF Found
<1>8. CASE None \in Found(s) /\ To(s, "creating")
  <2>1. start[s].before = {} \/ Asked(s) = None
    BY <1>7, <1>8, DelegationAssumption
  <2> DEFINE c == [start[s] EXCEPT !.pc = "creating"]
  <2>2. "creating" \in Place /\ Advances("finding", "creating")
    BY DEF Place, Advances, Before, Owning, Working, Out
  <2>3. /\ c \in CallRecord /\ c.pc = "creating" /\ c.request = start[s].request
        /\ c.before = start[s].before /\ c.record = start[s].record
    BY <1>4, <2>2, CallFields
  <2>4. start' = [start EXCEPT ![s] = c]
    BY <1>8 DEF To
  <2> HIDE DEF c
  <2>5. start'[s] = c
    BY <1>4, <2>3, <2>4
  <2>6. OpenedAt(s)'
    BY <1>1, <1>3, <2>3, <2>5 DEF OpenedAt
  <2>7. start[s].pc \notin Resting /\ c.pc \notin Owning /\ start[s].pc \notin Out
    BY <1>1, <2>3 DEF Resting, Owning, Working, Out
  <2> QED
    BY <1>1, <2>1, <2>2, <2>3, <2>4, <2>6, <2>7, FrameTypes, MoveKeeps
<1>9. ASSUME NEW d \in Found(s), d # None,
             start' = [start EXCEPT ![s].pc = "repeated", ![s].answer = d]
      PROVE  IInv'
  <2> DEFINE c == [start[s] EXCEPT !.pc = "repeated", !.answer = d]
  <2>1. "repeated" \in Place /\ Advances("finding", "repeated")
    BY DEF Place, Advances, Before, Owning, Working, Out
  <2>2. d \in Start
    <3>1. CASE Asked(s) # None
      <4>1. d \in Indexed(q)
        BY <1>5, <1>9, <3>1 DEF Found, DelegationOf, Entry
      <4> QED
        BY <1>6, <4>1 DEF Indexed
    <3>2. CASE Asked(s) = None
      BY <1>5, <1>6, <1>9, <3>2 DEF Found, ToSet
    <3> QED
      BY <3>1, <3>2
  <2>3. /\ c \in CallRecord /\ c.pc = "repeated" /\ c.request = start[s].request
        /\ c.before = start[s].before /\ c.record = start[s].record /\ c.answer = d
    BY <1>4, <2>1, <2>2 DEF CallRecord
  <2>4. start' = [start EXCEPT ![s] = c]
    BY <1>4, <1>9
  <2> HIDE DEF c
  <2>5. start[s].pc \notin Resting
    BY <1>1 DEF Resting
  <2>6. CallStep(s) /\ start'[s] = c
    BY <1>1, <2>1, <2>3, <2>4, <2>5, FrameTypes, Walks DEF IInv, Types
  <2>7. OpenedAt(s)'
    BY <1>1, <1>3, <2>3, <2>6 DEF OpenedAt
  <2>8. BorrowedAt(s)'
    BY <1>1, <2>3, <2>6, BorrowedStays
  <2>9. AnsweredAt(s)'
    <3>1. ASSUME start[s].before # {}, Asked(s) # None PROVE Repeats(s)'
      <4>1. PICK t \in Start : /\ start[s].before = {t} /\ start[t].pc = "done"
                               /\ Asked(t) = Asked(s) /\ d = t
        BY <1>7, <1>9, <3>1
      <4>2. start'[t].pc = "done" /\ start'[t].request = start[t].request
        BY <1>1, <2>6, <4>1 DEF CallStep
      <4> QED
        BY <1>1, <1>3, <2>3, <2>6, <4>1, <4>2 DEF Repeats, Asked
    <3> QED
      BY <2>3, <2>6, <3>1 DEF AnsweredAt, Repeats, Asked
  <2>10. PlainStep(s)
    BY <1>1, <2>3, <2>6, <2>7, <2>8, <2>9 DEF PlainStep, Owns, Owning, Working
  <2> QED
    BY <2>10, PlainKeeps
<1> QED
  BY <1>8, <1>9 DEF Find

\* A record is made before the call owns anything, or borrowed for the same request.
LEMMA CreateRecordKeeps == ASSUME IInv, NEW s \in Start, CreateRecord(s) PROVE IInv'
<1> DEFINE old == IF Asked(s) = None THEN None ELSE RecordOf(Asked(s))
           new == [store EXCEPT !.records = Append(@, s)]
<1>1. start[s].pc = "creating" /\ UNCHANGED <<session, loaded, held, writing, overtaken, down, crashes>>
  BY DEF CreateRecord, At, statusVars
<1>2. session[s] = "none"
  BY <1>1 DEF IInv, Opened, OpenedAt, Before, Working
<1>3. start[s].before = {} \/ Asked(s) = None
  BY <1>1 DEF IInv, Answered, AnsweredAt, Repeats
<1>11. start[s].record = None
  BY <1>1 DEF IInv, Borrowed, BorrowedAt, Before
<1>4. start[s] \in CallRecord /\ start \in [Start -> CallRecord]
  BY DEF IInv, Types
<1>5. start[s].pc \notin Resting \cup {"finding"} /\ start[s].pc \notin Out
  BY <1>1 DEF Resting, Out
<1>6. \A p \in {"checking", "failed"} :
         /\ p \in Place /\ Advances("creating", p) /\ p # "done" /\ p \notin Owning /\ p \notin Before
         /\ p \notin Working \ {"committing"}
  BY DEF Place, Advances, Before, Recording, Owning, Working, Out
<1>7. CASE /\ old # None /\ UNCHANGED <<store, faults>>
           /\ start' = [start EXCEPT ![s].pc = "checking", ![s].record = old,
                                     ![s].named = old \in store.ready]
  <2>1. Asked(s) # None /\ old \in Start /\ Asked(old) = Asked(s)
    <3>1. old = RecordOf(Asked(s)) /\ Asked(s) # None
      BY <1>7
    <3>2. old \in Records /\ Asked(old) = Asked(s)
      BY <1>7, <3>1 DEF RecordOf, Entry
    <3>3. store.records \in Seq(Start)
      BY DEF IInv, Types, StoreRecord
    <3>4. \A i \in DOMAIN store.records : store.records[i] \in Start
      BY <3>3, ElementOfSeq, LenProperties
    <3> QED
      BY <3>1, <3>2, <3>4 DEF Records, Indexed
  <2>3. PICK t \in Start : t = old
    BY <2>1
  <2>2. PICK b \in BOOLEAN : b = (t \in store.ready)
    <3>1. (t \in store.ready) \in BOOLEAN
      OBVIOUS
    <3> WITNESS (t \in store.ready) \in BOOLEAN
    <3> QED
      OBVIOUS
  <2> DEFINE c == [start[s] EXCEPT !.pc = "checking", !.record = t, !.named = b]
  <2>4. /\ c \in CallRecord /\ c.pc = "checking" /\ c.request = start[s].request
        /\ c.before = start[s].before /\ c.record = t
    BY <1>4, <1>6 DEF CallRecord
  <2> HIDE DEF old
  <2>5. start' = [start EXCEPT ![s] = c]
    <3>1. start' = [start EXCEPT ![s].pc = "checking", ![s].record = t,
                                 ![s].named = (t \in store.ready)]
      BY <1>7, <2>3
    <3>2. start' = [start EXCEPT ![s].pc = "checking", ![s].record = t, ![s].named = b]
      BY <2>2, <3>1, Zenon
    <3> QED
      BY <1>4, <3>2
  <2> HIDE DEF c
  <2>6. CallStep(s) /\ start'[s] = c
    <3>1. start[s].pc \notin Resting /\ Advances(start[s].pc, c.pc)
      BY <1>1, <1>5, <1>6, <2>4
    <3>2. /\ session' \in [Start -> {"none", "open", "left"}]
          /\ \A u \in Start : u # s => session'[u] = session[u]
          /\ loaded' \in [Start -> Owner]
          /\ \A u \in Start : loaded'[u] \in {loaded[u], None} \/ start[s].record = u
          /\ store' \in StoreRecord /\ faults' \in Nat /\ faults' >= faults
          /\ held' \in SUBSET (Start \cup {None}) /\ overtaken' \in SUBSET Start
          /\ overtaken \subseteq overtaken'
          /\ UNCHANGED <<writing, down, crashes>>
      BY <1>1, <1>7, FrameTypes DEF IInv, Types
    <3> QED
      BY <1>11, <2>4, <2>5, <3>1, <3>2, Walks
  <2>7. OpenedAt(s)'
    BY <1>1, <1>2, <2>4, <2>6 DEF OpenedAt
  <2>8. BorrowedAt(s)'
    <3>1. start[t].pc # "idle"
      BY <2>1, <2>3 DEF IInv, Borrowed, BorrowedAt
    <3>2. start'[t].request = start[t].request
      BY <2>6, <3>1, AskedStays
    <3> QED
      BY <2>1, <2>3, <2>4, <2>6, <3>2 DEF BorrowedAt, Asked, Before
  <2>9. AnsweredAt(s)'
    BY <1>3, <2>4, <2>6 DEF AnsweredAt, Repeats, Asked
  <2>10. PlainStep(s)
    BY <1>1, <1>2, <1>5, <1>7, <2>4, <2>6, <2>7, <2>8, <2>9
       DEF PlainStep, Owns, Owning, Working
  <2> QED
    BY <2>10, PlainKeeps
<1>8. ASSUME NEW p \in {"checking", "failed"},
             store' = new, UNCHANGED faults,
             start' = [start EXCEPT ![s].record = s, ![s].pc = p]
      PROVE  IInv'
  <2> HIDE DEF old
  <2> DEFINE c == [start[s] EXCEPT !.record = s, !.pc = p]
  <2>1. /\ c \in CallRecord /\ c.pc = p /\ c.request = start[s].request
        /\ c.before = start[s].before /\ c.record = s
    BY <1>4, <1>6 DEF CallRecord
  <2>2. start' = [start EXCEPT ![s] = c]
    BY <1>4, <1>8
  <2> HIDE DEF c
  <2>3. PICK q \in Seq(Start) : q = store.delegations
    BY DEF IInv, Types, StoreRecord
  <2>4. PICK o \in Seq(Start) : o = store.records
    BY DEF IInv, Types, StoreRecord
  <2>5. Added(Append(o, s), o, s)
    BY AppendDoes
  <2>6. PICK r \in Seq(Start) : r = Append(o, s) /\ Added(r, o, s)
    BY <2>5 DEF Added
  <2>7. store' \in StoreRecord /\ store'.delegations = q /\ store'.records = r
    BY <1>8, <2>3, <2>4, <2>6 DEF IInv, Types, StoreRecord
  <2>8. CallStep(s) /\ start'[s] = c
    <3>1. start[s].pc \notin Resting /\ Advances(start[s].pc, c.pc)
      BY <1>1, <1>5, <1>6, <2>1
    <3>2. /\ session' \in [Start -> {"none", "open", "left"}]
          /\ \A u \in Start : u # s => session'[u] = session[u]
          /\ loaded' \in [Start -> Owner]
          /\ \A u \in Start : loaded'[u] \in {loaded[u], None} \/ start[s].record = u
          /\ store' \in StoreRecord /\ faults' \in Nat /\ faults' >= faults
          /\ held' \in SUBSET (Start \cup {None}) /\ overtaken' \in SUBSET Start
          /\ overtaken \subseteq overtaken'
          /\ UNCHANGED <<writing, down, crashes>>
      BY <1>1, <1>8, <2>7, FrameTypes DEF IInv, Types
    <3> QED
      BY <1>11, <2>1, <2>2, <3>1, <3>2, Walks
  <2>9. OpenedAt(s)'
    BY <1>1, <1>2, <1>6, <2>1, <2>8 DEF OpenedAt, Working
  <2>10. BorrowedAt(s)'
    BY <1>6, <2>1, <2>8 DEF BorrowedAt, Before
  <2>11. AnsweredAt(s)'
    BY <1>3, <1>6, <2>1, <2>8 DEF AnsweredAt, Repeats, Asked
  <2>12. Opened' /\ Borrowed' /\ Answered'
    BY <1>1, <2>8, <2>9, <2>10, <2>11, OpenedKept, BorrowedKept, AnsweredKept
  <2>13. Follows(q, q, s) /\ ~Added(q, q, s) /\ Follows(r, o, s)
    BY <2>6, LenProperties DEF Follows, Added
  <2>14. ~Owns(s)'
    BY <1>6, <2>1, <2>8 DEF Owns
  <2>15. Owners'
    BY <2>3, <2>7, <2>8, <2>13, <2>14, OwnersKept
  <2>16. Written'
    BY <1>1, <1>6, <2>1, <2>3, <2>4, <2>7, <2>8, <2>13, WrittenKept
  <2>17. \A u \in Start : Has(r, u) => Has(o, u) \/ u = s
    <3>1. \A j \in DOMAIN r : (j \in DOMAIN o /\ r[j] = o[j]) \/ r[j] = s
      BY <2>6 DEF Added
    <3> QED
      BY <3>1 DEF Has
  <2>18. Gone(s)'
    <3>1. session'[s] = "none"
      BY <1>1, <1>2
    <3> QED
      BY <1>6, <2>1, <2>8, <3>1 DEF Gone, Left, Removed, Out
  <2>20. Writes(s)'
    <3>1. start'[s].pc \in Out => Removed(s)'
      BY <1>1, <1>2 DEF Removed
    <3> QED
      BY <1>1, <1>5, <2>8, <3>1, WritesKept
  <2>19. CleanedUp'
    BY <1>1, <1>2, <1>5, <2>3, <2>4, <2>7, <2>8, <2>17, <2>18, <2>20, CleanedKept
  <2> QED
    BY <2>8, <2>12, <2>15, <2>16, <2>19 DEF IInv, CallStep
<1>9. CASE Fault /\ To(s, "failed") /\ UNCHANGED store
  <2>1. start'[s].pc = "failed"
    BY <1>6, <1>9, ToDoes
  <2>2. OpenedAt(s)'
    BY <1>1, <1>2, <2>1 DEF OpenedAt, Before, Recording
  <2>3. faults' \in Nat /\ faults' >= faults
    BY <1>9, FrameTypes DEF Fault
  <2> HIDE DEF old, new
  <2> QED
    BY <1>1, <1>2, <1>5, <1>6, <1>9, <2>2, <2>3, FrameTypes, ToKeeps
<1> HIDE DEF old, new
<1>10. \/ /\ old # None /\ UNCHANGED <<store, faults>>
          /\ start' = [start EXCEPT ![s].pc = "checking", ![s].record = old,
                                    ![s].named = old \in store.ready]
       \/ /\ store' = new /\ UNCHANGED faults
          /\ \E p \in {"checking", "failed"} :
                start' = [start EXCEPT ![s].record = s, ![s].pc = p]
       \/ Fault /\ To(s, "failed") /\ UNCHANGED store
  BY DEF CreateRecord, old, new
<1> QED
  BY <1>7, <1>8, <1>9, <1>10

\* The delegation is written behind the others, and the whole list checked.
LEMMA RecordDelegationKeeps == ASSUME IInv, NEW s \in Start, RecordDelegation(s) PROVE IInv'
<1>1. start[s].pc = "recording" /\ UNCHANGED <<session, loaded, held, writing, overtaken, down, crashes>>
  BY DEF RecordDelegation, At, statusVars
<1>2. session[s] = "none"
  BY <1>1 DEF IInv, Opened, OpenedAt, Recording, Working
<1>3. start[s] \in CallRecord /\ start \in [Start -> CallRecord]
  BY DEF IInv, Types
<1>4. start[s].pc \notin Resting \cup {"finding"} /\ start[s].pc \notin Out
  BY <1>1 DEF Resting, Out
<1>5. \A p \in {"opening", "removing"} :
         /\ p \in Place /\ Advances("recording", p) /\ p # "done" /\ p \in Owning \cup Out
         /\ p \notin Working /\ p # "idle"
  BY DEF Place, Advances, Before, Recording, Owning, Working, Out
<1>6. start[s].before = {} \/ Asked(s) = None
  BY <1>1 DEF IInv, Answered, AnsweredAt, Repeats
<1>7. ASSUME NEW p \in {"opening", "removing"}, store' = Recorded(s), UNCHANGED faults,
             To(s, p), p = "opening" => Sound(store')
      PROVE  IInv'
  <2> DEFINE c == [start[s] EXCEPT !.pc = p]
  <2>1. /\ c \in CallRecord /\ c.pc = p /\ c.request = start[s].request
        /\ c.before = start[s].before /\ c.record = start[s].record
    BY <1>3, <1>5, CallFields
  <2>2. start' = [start EXCEPT ![s] = c]
    BY <1>7 DEF To
  <2> HIDE DEF c
  <2>3. PICK q \in Seq(Start) : q = store.delegations
    BY DEF IInv, Types, StoreRecord
  <2>4. PICK o \in Seq(Start) : o = store.records
    BY DEF IInv, Types, StoreRecord
  <2>5. ~Has(q, s) /\ \A j \in DOMAIN q : start[q[j]].pc # "idle"
    BY <1>1, <2>3 DEF IInv, Written, Has, Owning, Working, Out
  <2>6. Added(Put(q, s), q, s)
    BY <2>5, PutDoes
  <2>7. PICK r \in Seq(Start) : r = Put(q, s) /\ Added(r, q, s)
    BY <2>6 DEF Added
  <2>8. store' \in StoreRecord /\ store'.delegations = r /\ store'.records = o
    BY <1>7, <2>3, <2>4, <2>7 DEF IInv, Types, StoreRecord, Recorded
  <2>9. CallStep(s) /\ start'[s] = c
    <3>1. /\ session' \in [Start -> {"none", "open", "left"}]
          /\ \A u \in Start : u # s => session'[u] = session[u]
          /\ loaded' \in [Start -> Owner]
          /\ \A u \in Start : loaded'[u] \in {loaded[u], None} \/ start[s].record = u
          /\ held' \in SUBSET (Start \cup {None}) /\ overtaken' \in SUBSET Start
          /\ overtaken \subseteq overtaken' /\ UNCHANGED <<writing, down, crashes>>
          /\ faults' \in Nat /\ faults' >= faults /\ store' \in StoreRecord
      BY <1>1, <1>7, <2>8, FrameTypes
    <3>2. start[s].pc \notin Resting /\ Advances(start[s].pc, c.pc)
      BY <1>1, <1>4, <1>5, <2>1
    <3> QED
      BY <2>1, <2>2, <3>1, <3>2, Walks
  <2>10. OpenedAt(s)'
    BY <1>1, <1>2, <1>5, <2>1, <2>9 DEF OpenedAt, Working
  <2>11. BorrowedAt(s)'
    BY <1>1, <2>1, <2>9, BorrowedStays
  <2>12. AnsweredAt(s)'
    BY <1>5, <1>6, <2>1, <2>9 DEF AnsweredAt, Repeats, Asked
  <2>13. Opened' /\ Borrowed' /\ Answered'
    BY <1>1, <2>9, <2>10, <2>11, <2>12, OpenedKept, BorrowedKept, AnsweredKept
  <2>14. \A j \in DOMAIN r : (j \in DOMAIN q /\ r[j] = q[j]) \/ r[j] = s
    BY <2>7 DEF Added
  <2>15. ASSUME Owns(s)' PROVE Has(r, s) /\ \A i \in DOMAIN r : Clear(r, i)'
    <3>1. p = "opening"
      BY <2>1, <2>9, <2>15 DEF Owns, Owning, Working
    <3>2. Clash(r) = {}
      BY <1>7, <2>8, <3>1 DEF Sound
    <3>3. \A i \in DOMAIN r : Clear(r, i)
      BY <3>2, SoundIsClear
    <3>4. \A j \in DOMAIN r : start[r[j]].pc # "idle"
      BY <1>1, <2>5, <2>14
    <3>5. Has(r, s)
      <4>1. Len(q) + 1 \in DOMAIN r /\ r[Len(q) + 1] = s
        BY <2>7, LenProperties DEF Added
      <4> QED
        BY <4>1 DEF Has
    <3> QED
      BY <2>9, <3>3, <3>4, <3>5, ClearStays
  <2>16. Follows(r, q, s) /\ Follows(o, o, s) /\ ~Added(o, o, s) /\ ~Cut(r, q, s)
    <3>1. ~Cut(r, q, s)
      <4>1. Len(q) + 1 \in DOMAIN r /\ r[Len(q) + 1] = s
        BY <2>7, LenProperties DEF Added
      <4> QED
        BY <4>1 DEF Cut, Has
    <3> QED
      BY <2>7, <3>1, LenProperties DEF Follows, Added
  <2>17. Owners'
    BY <1>1, <2>3, <2>8, <2>9, <2>15, <2>16, OwnersKept
  <2>18. Written'
    BY <1>5, <2>1, <2>3, <2>4, <2>5, <2>8, <2>9, <2>16, WrittenKept
  <2>19. \A u \in Start : Has(r, u) => Has(q, u) \/ u = s
    BY <2>14 DEF Has
  <2>20. Gone(s)'
    <3>1. session'[s] = "none" /\ start'[s].pc # "failed"
      BY <1>1, <1>2, <2>1, <2>9
    <3> QED
      BY <3>1 DEF Gone, Left, Removed, Out
  <2>22. Writes(s)'
    <3>1. start'[s].pc \in Out => Removed(s)'
      BY <1>1, <1>2 DEF Removed
    <3> QED
      BY <1>1, <1>4, <2>9, <3>1, WritesKept
  <2>21. CleanedUp'
    BY <1>1, <1>2, <1>4, <2>3, <2>4, <2>8, <2>9, <2>19, <2>20, <2>22, CleanedKept
  <2> QED
    BY <2>9, <2>13, <2>17, <2>18, <2>21 DEF IInv, CallStep
<1>8. CASE Fault /\ To(s, "removing") /\ UNCHANGED store
  <2>1. start'[s].pc = "removing"
    BY <1>5, <1>8, ToDoes
  <2>2. OpenedAt(s)'
    BY <1>1, <1>2, <2>1 DEF OpenedAt, Before, Recording
  <2>3. faults' \in Nat /\ faults' >= faults
    BY <1>8, FrameTypes DEF Fault
  <2>4. "removing" \notin Owning
    BY DEF Owning, Working
  <2> QED
    BY <1>1, <1>2, <1>4, <1>5, <1>8, <2>2, <2>3, <2>4, FrameTypes, ToKeeps
<1> QED
  BY <1>7, <1>8 DEF RecordDelegation

\* The owner writes the status of a delegation that is there.
LEMMA ReportedKeeps == ASSUME IInv, NEW s \in Start, Reported(s) PROVE IInv'
<1>1. /\ start[s].pc = "reporting"
      /\ UNCHANGED <<session, loaded, held, writing, overtaken, down, crashes>>
  BY DEF Reported, At, statusVars
<1>2. /\ start[s].pc \notin Resting \cup {"finding"} /\ start[s].pc \notin Out
      /\ start[s].pc \in Owning
  BY <1>1 DEF Resting, Out, Owning, Working
<1>3. PICK p \in {"announcing", "closing"} :
         /\ To(s, p) /\ (store' = WithStatus(s) \/ UNCHANGED store)
         /\ UNCHANGED faults \/ Fault
  BY DEF Reported
<1>4. /\ p \in Place /\ Advances("reporting", p) /\ p # "done" /\ p \in Working \ {"committing"}
      /\ p \notin Before \cup Recording \cup {"opening", "removing", "failed"}
  BY DEF Place, Advances, Before, Recording, Owning, Working, Out
<1>5. faults' \in Nat /\ faults' >= faults
  BY <1>3, FrameTypes DEF Fault
\* The delegation is there, since the call owns it.
<1>6. /\ store' \in StoreRecord
      /\ store'.delegations = store.delegations /\ store'.records = store.records
  <2>1. PICK q \in Seq(Start) : q = store.delegations
    BY DEF IInv, Types, StoreRecord
  <2>2. Has(q, s)
    BY <1>2, <2>1 DEF IInv, Owners, Owns, Listed, Has
  <2>3. Put(q, s) = q
    BY <2>2, PutDoes
  <2>4. CASE store' = WithStatus(s)
    BY <2>1, <2>3, <2>4 DEF WithStatus, IInv, Types, StoreRecord
  <2> QED
    BY <1>3, <2>4, FrameTypes
<1>7. start'[s].pc = p
  BY <1>3, <1>4, ToDoes
<1>8. OpenedAt(s)'
  BY <1>4, <1>7 DEF OpenedAt
<1> QED
  BY <1>1, <1>2, <1>3, <1>4, <1>5, <1>6, <1>8, FrameTypes, ToKeeps

\* A call whose Thread has been announced answers with its child.
LEMMA AnnouncedKeeps ==
    ASSUME IInv, NEW s \in Start, NEW ok \in BOOLEAN, Announced(s, ok) PROVE IInv'
<1>1. /\ start[s].pc = "announcing"
      /\ UNCHANGED <<session, loaded, store, held, writing, overtaken, down, crashes, faults>>
  BY DEF Announced, At, statusVars
<1>2. /\ start[s].pc \notin Resting \cup {"finding"} /\ start[s].pc \notin Out
      /\ start[s].pc \in Owning
  BY <1>1 DEF Resting, Out, Owning, Working
<1>3. start[s] \in CallRecord /\ start \in [Start -> CallRecord]
  BY DEF IInv, Types
<1>4. \A p \in {"done", "closing"} :
         /\ p \in Place /\ Advances("announcing", p) /\ p \in (Working \ {"committing"}) \cup {"done"}
         /\ p \notin Before \cup Recording \cup {"opening", "removing", "failed"}
  BY DEF Place, Advances, Before, Recording, Owning, Working, Out
<1>5. CASE start' = [start EXCEPT ![s].pc = "done", ![s].answer = s]
  <2> DEFINE c == [start[s] EXCEPT !.pc = "done", !.answer = s]
  <2>1. /\ c \in CallRecord /\ c.pc = "done" /\ c.request = start[s].request
        /\ c.before = start[s].before /\ c.record = start[s].record /\ c.answer = s
    BY <1>3, <1>4 DEF CallRecord
  <2>2. start' = [start EXCEPT ![s] = c]
    BY <1>3, <1>5
  <2> HIDE DEF c
  <2>3. start'[s].pc = "done"
    BY <1>3, <2>1, <2>2
  <2>4. OpenedAt(s)'
    BY <1>4, <2>3 DEF OpenedAt
  <2>5. /\ Advances(start[s].pc, c.pc) /\ start[s].pc # "finding" /\ start[s].pc \notin Resting
        /\ c.pc \notin {"removing", "failed"}
    BY <1>1, <1>2, <1>4, <2>1
  <2> QED
    BY <1>1, <1>2, <2>1, <2>2, <2>4, <2>5, FrameTypes, MoveKeeps
<1>6. CASE To(s, "closing")
  <2>1. start'[s].pc = "closing"
    BY <1>4, <1>6, ToDoes
  <2>2. OpenedAt(s)'
    BY <1>4, <2>1 DEF OpenedAt, Working
  <2>3. Advances(start[s].pc, "closing") /\ "closing" \in Place
    BY <1>1, <1>4
  <2> QED
    BY <1>1, <1>2, <1>6, <2>2, <2>3, FrameTypes, ToKeeps
<1> QED
  BY <1>5, <1>6 DEF Announced

\* A list that is cut keeps what it had of others, and gains nobody.
LEMMA CutNames ==
    ASSUME NEW q \in Seq(Start), NEW r \in Seq(Start), NEW s, Cut(r, q, s)
    PROVE  ~Has(r, s) /\ \A u : Has(r, u) => Has(q, u)
<1>1. \A j \in DOMAIN r : \E i \in DOMAIN q : r[j] = q[i]
  BY DEF Cut
<1> QED
  BY <1>1 DEF Cut, Has

\* A failed owner takes its delegation out and owns nothing more.
LEMMA ForgetKeeps == ASSUME IInv, NEW s \in Start, Forget(s) PROVE IInv'
<1>1. /\ start[s].pc = "forgetting" /\ UNCHANGED <<session, loaded, held, writing, down, crashes>>
      /\ To(s, "removing")
      /\ overtaken' = IF s \in writing THEN overtaken \cup {s} ELSE overtaken
  BY DEF Forget, At, Overtakes
<1>10. overtaken' \in SUBSET Start /\ overtaken \subseteq overtaken'
  BY <1>1, FrameTypes
<1>2. start[s].pc \notin Resting \cup {"finding"} /\ start[s].pc \notin Out
  BY <1>1 DEF Resting, Out
<1>3. start[s] \in CallRecord /\ start \in [Start -> CallRecord]
  BY DEF IInv, Types
<1>4. /\ "removing" \in Place /\ Advances("forgetting", "removing") /\ "removing" \notin Owning
      /\ "removing" \in Out /\ "forgetting" \notin Working \cup {"done"}
      /\ "removing" \notin Before \cup Recording \cup {"opening"}
  BY DEF Place, Advances, Before, Recording, Owning, Working, Out
<1>5. start'[s].pc = "removing"
  BY <1>1, <1>4, ToDoes
<1>6. session[s] # "open"
  BY <1>1, <1>4 DEF IInv, Opened, OpenedAt
<1>7. OpenedAt(s)'
  BY <1>1, <1>4, <1>5, <1>6 DEF OpenedAt
<1>8. CASE Fault /\ UNCHANGED store
  <2>1. faults' \in Nat /\ faults' >= faults /\ faults' # 0
    BY <1>8, FrameTypes DEF Fault
  <2> QED
    BY <1>1, <1>2, <1>4, <1>7, <1>8, <1>10, <2>1, FrameTypes, ToKeeps
<1>9. CASE /\ store' = [store EXCEPT !.delegations = Without(@, s), !.told = @ \ {s}]
           /\ UNCHANGED faults
  <2> DEFINE c == [start[s] EXCEPT !.pc = "removing"]
  <2>1. /\ c \in CallRecord /\ c.pc = "removing" /\ c.request = start[s].request
        /\ c.before = start[s].before /\ c.record = start[s].record
    BY <1>3, <1>4, CallFields
  <2>2. start' = [start EXCEPT ![s] = c]
    BY <1>1 DEF To
  <2> HIDE DEF c
  <2>3. PICK q \in Seq(Start) : q = store.delegations
    BY DEF IInv, Types, StoreRecord
  <2>4. PICK o \in Seq(Start) : o = store.records
    BY DEF IInv, Types, StoreRecord
  <2>5. Cut(Without(q, s), q, s)
    BY <2>3, WithoutDoes DEF IInv, Written
  <2>6. PICK r \in Seq(Start) : r = Without(q, s) /\ Cut(r, q, s)
    BY <2>5 DEF Cut
  <2>7. store' \in StoreRecord /\ store'.delegations = r /\ store'.records = o
    <3>1. store \in StoreRecord
      BY DEF IInv, Types
    <3> QED
      BY <1>9, <2>3, <2>4, <2>6, <3>1 DEF StoreRecord
  <2>8. CallStep(s) /\ start'[s] = c
    <3>1. /\ session' \in [Start -> {"none", "open", "left"}]
          /\ \A u \in Start : u # s => session'[u] = session[u]
          /\ loaded' \in [Start -> Owner]
          /\ \A u \in Start : loaded'[u] \in {loaded[u], None} \/ start[s].record = u
          /\ held' \in SUBSET (Start \cup {None}) /\ overtaken' \in SUBSET Start
          /\ overtaken \subseteq overtaken' /\ UNCHANGED <<writing, down, crashes>>
          /\ faults' \in Nat /\ faults' >= faults /\ store' \in StoreRecord
      BY <1>1, <1>9, <1>10, <2>7, FrameTypes
    <3>2. start[s].pc \notin Resting /\ Advances(start[s].pc, c.pc)
      BY <1>1, <1>2, <1>4, <2>1
    <3> QED
      BY <2>1, <2>2, <3>1, <3>2, Walks
  <2>9. BorrowedAt(s)'
    BY <1>1, <2>1, <2>8, BorrowedStays
  <2>10. AnsweredAt(s)'
    <3>1. start[s].before = {} \/ Asked(s) = None
      BY <1>1 DEF IInv, Answered, AnsweredAt, Repeats
    <3> QED
      BY <2>1, <2>8, <3>1 DEF AnsweredAt, Repeats, Asked
  <2>11. Opened' /\ Borrowed' /\ Answered'
    BY <1>1, <1>7, <2>8, <2>9, <2>10, OpenedKept, BorrowedKept, AnsweredKept
  <2>12. ~Has(r, s) /\ \A u : Has(r, u) => Has(q, u)
    BY <2>6, CutNames
  <2>13. Follows(r, q, s) /\ Follows(o, o, s) /\ ~Added(o, o, s) /\ ~Added(r, q, s)
    <3>1. ~Added(r, q, s)
      BY <2>12, LenProperties DEF Added, Has
    <3> QED
      BY <2>6, <3>1, LenProperties DEF Follows, Added
  <2>14. ~Owns(s)'
    BY <1>4, <1>5 DEF Owns
  <2>15. Owners'
    BY <2>3, <2>7, <2>8, <2>13, <2>14, OwnersKept
  <2>16. Written'
    BY <2>3, <2>4, <2>7, <2>8, <2>13, WrittenKept
  <2>17. Gone(s)'
    BY <1>5, <2>7, <2>12 DEF Gone, Left
\* A status that is on its way is noted.
  <2>19. Writes(s)'
    <3>1. s \in writing => Removed(s)'
      BY <1>1 DEF Removed
    <3> QED
      BY <1>1, <1>2, <2>8, <3>1, WritesKept
  <2>18. CleanedUp'
    BY <1>1, <1>2, <2>1, <2>3, <2>4, <2>7, <2>8, <2>12, <2>17, <2>19, CleanedKept
  <2> QED
    BY <2>8, <2>11, <2>15, <2>16, <2>18 DEF IInv, CallStep
<1> QED
  BY <1>8, <1>9 DEF Forget

\* A failed call takes its record out.
LEMMA RemoveChildKeeps == ASSUME IInv, NEW s \in Start, RemoveChild(s) PROVE IInv'
<1>1. /\ start[s].pc = "removing" /\ UNCHANGED <<session, loaded, held, writing, down, crashes>>
      /\ To(s, "failed")
      /\ overtaken' = IF loaded[s] # None THEN overtaken \cup {s} ELSE overtaken
  BY DEF RemoveChild, At, Overtakes
<1>10. overtaken' \in SUBSET Start /\ overtaken \subseteq overtaken'
  BY <1>1, FrameTypes
<1>2. start[s].pc \notin Resting \cup {"finding"} /\ start[s].pc \in Out
  BY <1>1 DEF Resting, Out
<1>3. start[s] \in CallRecord /\ start \in [Start -> CallRecord]
  BY DEF IInv, Types
<1>4. /\ "failed" \in Place /\ Advances("removing", "failed") /\ "failed" \notin Owning
      /\ "removing" \notin Working \cup {"done"}
      /\ "failed" \notin Before \cup Recording \cup {"opening"}
  BY DEF Place, Advances, Before, Recording, Owning, Working, Out
<1>5. start'[s].pc = "failed"
  BY <1>1, <1>4, ToDoes
<1>6. session[s] # "open"
  BY <1>1, <1>4 DEF IInv, Opened, OpenedAt
<1>7. OpenedAt(s)'
  BY <1>1, <1>4, <1>5, <1>6 DEF OpenedAt
<1>8. CASE Fault /\ UNCHANGED store
  <2>1. faults' \in Nat /\ faults' >= faults /\ faults' # 0
    BY <1>8, FrameTypes DEF Fault
  <2> QED
    BY <1>1, <1>2, <1>4, <1>7, <1>8, <1>10, <2>1, FrameTypes, ToKeeps
<1>9. CASE /\ store' = [store EXCEPT !.records = Without(@, s), !.ready = @ \ {s}]
           /\ UNCHANGED faults
  <2> DEFINE c == [start[s] EXCEPT !.pc = "failed"]
  <2>1. /\ c \in CallRecord /\ c.pc = "failed" /\ c.request = start[s].request
        /\ c.before = start[s].before /\ c.record = start[s].record
    BY <1>3, <1>4, CallFields
  <2>2. start' = [start EXCEPT ![s] = c]
    BY <1>1 DEF To
  <2> HIDE DEF c
  <2>3. PICK q \in Seq(Start) : q = store.delegations
    BY DEF IInv, Types, StoreRecord
  <2>4. PICK o \in Seq(Start) : o = store.records
    BY DEF IInv, Types, StoreRecord
  <2>5. Cut(Without(o, s), o, s)
    BY <2>4, WithoutDoes DEF IInv, Written
  <2>6. PICK r \in Seq(Start) : r = Without(o, s) /\ Cut(r, o, s)
    BY <2>5 DEF Cut
  <2>7. store' \in StoreRecord /\ store'.delegations = q /\ store'.records = r
    <3>1. store \in StoreRecord
      BY DEF IInv, Types
    <3> QED
      BY <1>9, <2>3, <2>4, <2>6, <3>1 DEF StoreRecord
  <2>8. CallStep(s) /\ start'[s] = c
    <3>1. /\ session' \in [Start -> {"none", "open", "left"}]
          /\ \A u \in Start : u # s => session'[u] = session[u]
          /\ loaded' \in [Start -> Owner]
          /\ \A u \in Start : loaded'[u] \in {loaded[u], None} \/ start[s].record = u
          /\ held' \in SUBSET (Start \cup {None}) /\ overtaken' \in SUBSET Start
          /\ overtaken \subseteq overtaken' /\ UNCHANGED <<writing, down, crashes>>
          /\ faults' \in Nat /\ faults' >= faults /\ store' \in StoreRecord
      BY <1>1, <1>9, <1>10, <2>7, FrameTypes
    <3>2. start[s].pc \notin Resting /\ Advances(start[s].pc, c.pc)
      BY <1>1, <1>2, <1>4, <2>1
    <3> QED
      BY <2>1, <2>2, <3>1, <3>2, Walks
  <2>9. BorrowedAt(s)'
    BY <1>1, <2>1, <2>8, BorrowedStays
  <2>10. AnsweredAt(s)'
    <3>1. start[s].before = {} \/ Asked(s) = None
      BY <1>1 DEF IInv, Answered, AnsweredAt, Repeats
    <3> QED
      BY <2>1, <2>8, <3>1 DEF AnsweredAt, Repeats, Asked
  <2>11. Opened' /\ Borrowed' /\ Answered'
    BY <1>1, <1>7, <2>8, <2>9, <2>10, OpenedKept, BorrowedKept, AnsweredKept
  <2>12. ~Has(r, s) /\ \A u : Has(r, u) => Has(o, u)
    BY <2>6, CutNames
  <2>13. Follows(q, q, s) /\ Follows(r, o, s) /\ ~Added(q, q, s) /\ ~Added(r, o, s)
    <3>1. ~Added(r, o, s)
      BY <2>12, LenProperties DEF Added, Has
    <3> QED
      BY <2>6, <3>1, LenProperties DEF Follows, Added
  <2>14. ~Owns(s)'
    BY <1>4, <1>5 DEF Owns
  <2>15. Owners'
    BY <2>3, <2>7, <2>8, <2>13, <2>14, OwnersKept
  <2>16. Written'
    BY <2>3, <2>4, <2>7, <2>8, <2>13, WrittenKept
  <2>17. Gone(s)'
    <3>1. Removed(s) => Removed(s)'
      BY <1>1, <2>8, RemovedStays
    <3>2. ~Removed(s) => ~Has(q, s)
      BY <1>1, <2>3 DEF IInv, CleanedUp, Gone
\* So is an owner.
    <3>3. s \notin overtaken' => loaded'[s] = None
      BY <1>1
    <3> QED
      BY <1>5, <2>7, <2>12, <3>1, <3>2, <3>3 DEF Gone, Left
  <2>19. Writes(s)'
    BY <1>1, <1>2, <2>8, WritesKept
  <2>18. CleanedUp'
    BY <1>1, <2>1, <2>3, <2>4, <2>7, <2>8, <2>12, <2>17, <2>19, CleanedKept
  <2> QED
    BY <2>8, <2>11, <2>15, <2>16, <2>18 DEF IInv, CallStep
<1> QED
  BY <1>8, <1>9 DEF RemoveChild

\* What calls of a request that were done answered is their one owner.
LEMMA OneAnswer ==
    ASSUME IInv, NEW r \in Request \cup {None}, r # None,
           NEW t \in Start, start[t].pc = "done", Asked(t) = r
    PROVE  {start[u].answer : u \in {v \in Start : At(v, "done") /\ Asked(v) = r}} = {t}
<1>1. ASSUME NEW u \in Start, start[u].pc = "done", Asked(u) = r
      PROVE  u = t /\ start[u].answer = u
  <2>1. Owns(u) /\ Owns(t)
    BY <1>1 DEF Owns, Owning
  <2> QED
    BY <1>1, <2>1 DEF IInv, Owners, Answered, AnsweredAt
<1> QED
  BY <1>1 DEF At

\* A call that begins knows what its request was answered.
LEMMA BeginKeeps ==
    ASSUME IInv, NEW s \in Start, NEW r \in Request \cup {None}, Begin(s, r) PROVE IInv'
<1> DEFINE answers == {start[t].answer : t \in {u \in Start : At(u, "done") /\ Asked(u) = r}}
           c == [Call EXCEPT !.pc = "finding", !.request = r, !.before = answers]
<1>1. /\ start[s].pc = "idle" /\ ~down /\ start' = [start EXCEPT ![s] = c]
      /\ UNCHANGED <<session, loaded, store, held, writing, overtaken, down, crashes, faults>>
  BY DEF Begin, At, statusVars
<1>13. start[s].record = None
  BY <1>1 DEF IInv, Borrowed, BorrowedAt, Before
<1>2. start \in [Start -> CallRecord] /\ answers \in SUBSET (Start \cup {None})
  BY DEF IInv, Types, CallRecord
<1>3. "finding" \in Place /\ Advances("idle", "finding") /\ "finding" \notin Owning
  BY DEF Place, Advances, Before, Owning, Working, Out
<1>4. /\ c \in CallRecord /\ c.pc = "finding" /\ c.request = r /\ c.before = answers
      /\ c.record = None
  BY <1>2, <1>3 DEF CallRecord, Call
<1>5. r = None \/ answers = {} \/ \E t \in Start :
         start[t].pc = "done" /\ Asked(t) = r /\ answers = {t}
  <2>1. ASSUME r # None, answers # {}
        PROVE  \E t \in Start : start[t].pc = "done" /\ Asked(t) = r /\ answers = {t}
    <3>1. PICK t \in Start : start[t].pc = "done" /\ Asked(t) = r
      BY <2>1 DEF At
    <3>2. answers = {t}
      BY <2>1, <3>1, OneAnswer
    <3> QED
      BY <3>1, <3>2
  <2> QED
    BY <2>1
<1> HIDE DEF c, answers
<1>6. /\ start'[s] = c /\ start' \in [Start -> CallRecord]
      /\ \A u \in Start : u # s => start'[u] = start[u]
  BY <1>1, <1>2, <1>4
<1>7. Types'
  BY <1>1, <1>6 DEF IInv, Types
<1>8. CallStep(s)
  BY <1>1, <1>3, <1>4, <1>6, <1>7, <1>13, FrameTypes DEF CallStep
<1>9. OpenedAt(s)'
  BY <1>1, <1>4, <1>6 DEF OpenedAt, IInv, Opened, Before, Working
<1>10. BorrowedAt(s)'
  BY <1>4, <1>6 DEF BorrowedAt
<1>11. AnsweredAt(s)'
  <2>1. session'[s] = "none"
    BY <1>1 DEF IInv, Opened, OpenedAt, Before
  <2>2. ASSUME r # None, answers # {}
        PROVE  \E t \in Start : /\ start'[s].before = {t} /\ start'[t].pc = "done"
                                /\ start'[t].request = r
    <3>1. PICK t \in Start : start[t].pc = "done" /\ Asked(t) = r /\ answers = {t}
      BY <1>5, <2>2
    <3> QED
      BY <1>1, <1>4, <1>6, <3>1 DEF Asked
  <2> QED
    BY <1>4, <1>6, <2>1, <2>2 DEF AnsweredAt, Repeats, Asked
<1>12. PlainStep(s)
  BY <1>1, <1>3, <1>4, <1>6, <1>8, <1>9, <1>10, <1>11 DEF PlainStep, Owns, IInv, Opened, OpenedAt, Before
<1> QED
  BY <1>12, PlainKeeps

-----------------------------------------------------------------------------
(* Statuses that others write, restored owners, and restarts.              *)

\* What depends on the calls, their Sessions and the lists alone stays with them.
LEMMA CallsKept ==
    ASSUME IInv, UNCHANGED <<start, session, store, down>>
    PROVE  Owners' /\ Written' /\ Borrowed' /\ Answered' /\ \A s \in Start : OpenedAt(s)'
<1>1. Owners'
  BY DEF IInv, Owners, Owns, Listed, Clear, Asked
<1>2. Written'
  BY DEF IInv, Written, Distinct
<1>3. Borrowed'
  BY DEF IInv, Borrowed, BorrowedAt, Asked
<1>4. Answered'
  BY DEF IInv, Answered, AnsweredAt, Repeats, Asked
<1>5. \A s \in Start : OpenedAt(s)'
  BY DEF IInv, Opened, OpenedAt
<1> QED
  BY <1>1, <1>2, <1>3, <1>4, <1>5

\* An owner is restored only for a Thread whose record is there.
LEMMA ResolveKeeps == ASSUME IInv, NEW t \in Start, Resolve(t) PROVE IInv'
<1>1. /\ ~down /\ t \in ToSet(store.records)
      /\ loaded' = [loaded EXCEPT ![t] = "restored"] /\ held' = held \cup {t}
      /\ UNCHANGED <<start, session, store, writing, overtaken, down, crashes, faults>>
  BY DEF Resolve, Load
<1>2. Types'
  BY <1>1 DEF IInv, Types, Owner
<1>3. Owners' /\ Written' /\ Borrowed' /\ Answered' /\ \A s \in Start : OpenedAt(s)'
  BY <1>1, CallsKept
<1>4. Opened'
  BY <1>1, <1>3 DEF Opened
<1>5. ASSUME NEW s \in Start PROVE Writes(s)' /\ Gone(s)'
  <2>1. Writes(s) /\ Gone(s)
    BY DEF IInv, CleanedUp
  <2>2. Writes(s)'
    BY <1>1, <2>1 DEF Writes, Removed
  <2>3. /\ Left(s)' <=> Left(s)
        /\ OwnRecord(s)' <=> OwnRecord(s)
        /\ Removed(s)' <=> Removed(s)
    BY <1>1 DEF Left, OwnRecord, Removed
  <2>4. Left(s) => s # t
    BY <1>1, <2>1 DEF Gone, Has, ToSet
  <2>5. s # t => loaded'[s] = loaded[s]
    BY <1>1 DEF IInv, Types
  <2> QED
    BY <1>1, <2>1, <2>2, <2>3, <2>4, <2>5 DEF Gone
<1> QED
  BY <1>2, <1>3, <1>4, <1>5 DEF IInv, CleanedUp

\* A status is written only of a delegation that is there.
LEMMA StatusFoundKeeps == ASSUME IInv, NEW t \in Start, StatusFound(t) PROVE IInv'
<1>1. /\ t \in held /\ t \in Children /\ writing' = writing \cup {t}
      /\ UNCHANGED <<start, session, loaded, store, held, overtaken, down, crashes, faults>>
  BY DEF StatusFound
<1>2. Types'
  BY <1>1 DEF IInv, Types
<1>3. Owners' /\ Written' /\ Borrowed' /\ Answered' /\ \A s \in Start : OpenedAt(s)'
  BY <1>1, CallsKept
<1>4. Opened'
  BY <1>1, <1>3 DEF IInv, Opened
<1>5. Has(store.delegations, t)
  BY <1>1 DEF Children, Has
<1>6. start[t].pc \in Owning \/ (start[t].pc \in Out /\ Removed(t))
  <2>1. start[t].pc \in Owning \cup Out
    BY <1>5 DEF IInv, Written, Has
  <2>2. start[t].pc \in {"removing", "failed"} => Removed(t)
    BY <1>5 DEF IInv, CleanedUp, Gone
  <2> QED
    BY <2>1, <2>2 DEF Out, Removed
<1>7. ASSUME NEW s \in Start PROVE Writes(s)' /\ Gone(s)'
  <2>1. Writes(s) /\ Gone(s)
    BY DEF IInv, CleanedUp
  <2>2. /\ Left(s)' <=> Left(s)
        /\ OwnRecord(s)' <=> OwnRecord(s)
        /\ Removed(s)' <=> Removed(s)
    BY <1>1 DEF Left, OwnRecord, Removed
  <2>3. Writes(s)'
    BY <1>1, <1>6, <2>1, <2>2 DEF Writes
  <2> QED
    BY <1>1, <2>1, <2>2, <2>3 DEF Gone
<1> QED
  BY <1>2, <1>3, <1>4, <1>7 DEF IInv, CleanedUp

\* It may have been removed since, which the invariant has been told.
LEMMA StatusRecordedKeeps == ASSUME IInv, NEW x \in Start, StatusRecorded(x) PROVE IInv'
<1>1. /\ x \in writing /\ store' = WithStatus(x) /\ writing' \subseteq writing
      /\ overtaken \subseteq overtaken' /\ overtaken' \subseteq overtaken \cup {x}
      /\ UNCHANGED <<start, session, loaded, held, down, crashes, faults>>
  BY DEF StatusRecorded, Overtakes
<1>2. start[x].pc \in Owning \/ (start[x].pc \in Out /\ Removed(x))
  BY <1>1 DEF IInv, CleanedUp, Writes
<1>4. PICK q \in Seq(Start) : q = store.delegations
  BY DEF IInv, Types, StoreRecord
<1>5. PICK o \in Seq(Start) : o = store.records
  BY DEF IInv, Types, StoreRecord
<1>6. PICK r \in Seq(Start) : r = Put(q, x) /\ (r = q \/ (Added(r, q, x) /\ ~Has(q, x)))
  <2>1. IF Has(q, x) THEN Put(q, x) = q ELSE Added(Put(q, x), q, x)
    BY PutDoes
  <2> QED
    BY <2>1 DEF Added
<1>7. store' \in StoreRecord /\ store'.delegations = r /\ store'.records = o
  <2>1. store \in StoreRecord
    BY DEF IInv, Types
  <2> QED
    BY <1>1, <1>4, <1>5, <1>6, <2>1 DEF StoreRecord, WithStatus
<1>9. Types'
  BY <1>1, <1>7 DEF IInv, Types
<1>10. ~down
  BY <1>1 DEF IInv, Opened
<1>11. CallStep(x)
  BY <1>1, <1>9, <1>10, FrameTypes DEF CallStep, Advances
<1>12. start[x].pc # "idle"
  BY <1>2 DEF Owning, Working, Out
<1>13. Follows(r, q, x) /\ Follows(o, o, x) /\ ~Added(o, o, x) /\ (Cut(r, q, x) => r = q)
  <2>1. ASSUME Added(r, q, x) PROVE ~Cut(r, q, x)
    <3>1. Len(q) + 1 \in DOMAIN r /\ r[Len(q) + 1] = x
      BY <2>1, LenProperties DEF Added
    <3> QED
      BY <3>1 DEF Cut, Has
  <2> QED
    BY <1>6, <2>1, LenProperties DEF Follows, Added
<1>14. Owners'
  BY <1>1, <1>4, <1>7, <1>11, <1>12, <1>13, OwnersKept DEF Owns
<1>15. Added(r, q, x) => ~Has(q, x)
  BY <1>6, LenProperties DEF Added
<1>16. Written'
  BY <1>1, <1>2, <1>4, <1>5, <1>7, <1>11, <1>13, <1>15, WrittenKept
<1>17. Opened'
  BY <1>1, <1>10 DEF IInv, Opened, OpenedAt
<1>18. Borrowed' /\ Answered'
  BY <1>1 DEF IInv, Borrowed, BorrowedAt, Answered, AnsweredAt, Repeats, Asked
<1>20. ASSUME NEW u \in Start PROVE Writes(u)' /\ Gone(u)'
  <2>1. Writes(u) /\ Gone(u)
    BY DEF IInv, CleanedUp
  <2>2. /\ Left(u)' <=> Left(u)
        /\ OwnRecord(u)' <=> OwnRecord(u)
        /\ Removed(u) => Removed(u)'
    BY <1>1 DEF Left, OwnRecord, Removed
  <2>3. Writes(u)'
    BY <1>1, <2>1, <2>2 DEF Writes
  <2>4. Has(r, u) => Has(q, u) \/ u = x
    <3>1. \A j \in DOMAIN r : (j \in DOMAIN q /\ r[j] = q[j]) \/ r[j] = x
      BY <1>6 DEF Added
    <3> QED
      BY <3>1 DEF Has
  <2>5. u = x /\ start[u].pc \in {"removing", "failed"} => Removed(u)
    BY <1>2 DEF Owning, Working
  <2>6. Gone(u)'
    BY <1>1, <1>4, <1>5, <1>7, <2>1, <2>2, <2>4, <2>5 DEF Gone
  <2> QED
    BY <2>3, <2>6
<1> QED
  BY <1>9, <1>14, <1>16, <1>17, <1>18, <1>20 DEF IInv, CleanedUp

\* A list of Threads names finitely many.
LEMMA NamesFinite ==
    ASSUME NEW q \in Seq(Start), NEW S \in SUBSET ToSet(q)
    PROVE  IsFiniteSet(S) /\ Cardinality(S) \in Nat
<1>1. Len(q) \in Nat /\ DOMAIN q = 1 .. Len(q)
  BY LenProperties
<1>2. q \in [1 .. Len(q) -> ToSet(q)]
  <2>1. \A i \in 1 .. Len(q) : q[i] \in ToSet(q)
    BY <1>1 DEF ToSet
  <2>2. q = [i \in 1 .. Len(q) |-> q[i]]
    BY <1>1
  <2> QED
    BY <2>1, <2>2
<1>3. q \in Surjection(1 .. Len(q), ToSet(q))
  BY <1>1, <1>2 DEF Surjection, ToSet
<1>4. IsFiniteSet(1 .. Len(q))
  BY <1>1, FS_Interval
<1>5. IsFiniteSet(ToSet(q))
  BY <1>3, <1>4, FS_Surjection
<1> QED
  BY <1>5, FS_Subset, FS_CardinalityType

\* A restart loads each entry once, in any order.
LEMMA LoadsAll ==
    ASSUME NEW q \in Seq(Start), NEW S \in SUBSET ToSet(q), NEW r \in SetToSeqs(S)
    PROVE  /\ r \in Seq(Start) /\ Distinct(r)
           /\ \A u : Has(r, u) <=> u \in S
<1> DEFINE n == Cardinality(S)
<1>1. IsFiniteSet(S) /\ n \in Nat
  BY NamesFinite
<1>2. /\ r \in [1 .. n -> S]
      /\ \A i, j \in 1 .. n : i # j => r[i] # r[j]
  BY DEF SetToSeqs
<1>3. S \subseteq Start
  <2>1. \A i \in DOMAIN q : q[i] \in Start
    BY ElementOfSeq, LenProperties
  <2> QED
    BY <2>1 DEF ToSet
<1>4. IsFiniteSet(1 .. n) /\ Cardinality(1 .. n) = n
  BY <1>1, FS_Interval
<1>5. r \in Injection(1 .. n, S)
  BY <1>2 DEF Injection, IsInjective
<1>6. r \in Surjection(1 .. n, S)
  BY <1>1, <1>4, <1>5, FS_Injection
<1> HIDE DEF n
<1>7. r \in Seq(Start) /\ DOMAIN r = 1 .. n
  BY <1>1, <1>2, <1>3, SeqDef
<1>8. Distinct(r)
  BY <1>2, <1>7 DEF Distinct
<1>9. \A u : Has(r, u) <=> u \in S
  BY <1>2, <1>6, <1>7 DEF Surjection, Has
<1> QED
  BY <1>7, <1>8, <1>9

\* A restart loses the calls under way, and loads every delegation.
LEMMA CrashKeeps == ASSUME IInv, Crash PROVE IInv'
<1>1. /\ ~down /\ crashes' = crashes + 1 /\ UNCHANGED faults
      /\ session' = [s \in Start |-> IF session[s] = "none" THEN "none" ELSE "left"]
      /\ loaded' = [s \in Start |-> None]
      /\ held' = {} /\ writing' = {} /\ UNCHANGED overtaken
      /\ down' = ~Sound(store')
  BY DEF Crash
<1>2. start \in [Start -> CallRecord]
  BY DEF IInv, Types
\* Calls at rest stay, the others are lost.
<1>3. ASSUME NEW s \in Start
      PROVE  /\ start'[s] \in CallRecord
             /\ \/ start'[s] = start[s] /\ start[s].pc \in Resting \ {"lost"}
                \/ /\ start[s].pc \notin Resting \ {"lost"}
                   /\ start'[s].pc = "lost" /\ start'[s].record = None
             /\ start'[s].request = start[s].request /\ start'[s].before = start[s].before
  <2> DEFINE c == [Call EXCEPT !.pc = "lost", !.request = start[s].request,
                               !.before = start[s].before]
  <2>1. start[s] \in CallRecord
    BY <1>2
  <2>2. "lost" \in Place
    BY DEF Place, Out
  <2>3. /\ c \in CallRecord /\ c.pc = "lost" /\ c.record = None
        /\ c.request = start[s].request /\ c.before = start[s].before
    BY <2>1, <2>2 DEF Call, CallRecord
  <2>4. start'[s] = IF start[s].pc \in {"idle", "repeated", "done", "failed"} THEN start[s] ELSE c
    BY DEF Crash, Asked
  <2> HIDE DEF c
  <2>5. CASE start[s].pc \in Resting \ {"lost"}
    BY <2>1, <2>4, <2>5 DEF Resting
  <2>6. CASE start[s].pc \notin Resting \ {"lost"}
    BY <2>3, <2>4, <2>6 DEF Resting
  <2> QED
    BY <2>5, <2>6
<1>4. /\ start' \in [Start -> CallRecord]
      /\ session' \in [Start -> {"none", "open", "left"}]
      /\ loaded' \in [Start -> Owner]
      /\ overtaken' \in SUBSET Start
  <2>1. start' \in [Start -> CallRecord]
    <3>1. start' = [s \in Start |-> start'[s]]
      BY DEF Crash
    <3> QED
      BY <1>3, <3>1
  <2> QED
    BY <1>1, <2>1 DEF IInv, Types, Owner
\* Every entry that was written out is loaded again, whatever the order.
<1>5. PICK q \in Seq(Start) : q = store.delegations
  BY DEF IInv, Types, StoreRecord
<1>6. PICK o \in Seq(Start) : o = store.records
  BY DEF IInv, Types, StoreRecord
<1>7. PICK rs \in SetToSeqs(ToSet(o) \cap store.ready), ds \in SetToSeqs(ToSet(q)) :
         store' = [store EXCEPT !.records = rs, !.delegations = ds]
  BY <1>5, <1>6 DEF Crash
<1>8. ds \in Seq(Start) /\ Distinct(ds) /\ \A u : Has(ds, u) <=> Has(q, u)
  <2>1. PICK S \in SUBSET ToSet(q) : S = ToSet(q)
    OBVIOUS
  <2>2. ds \in Seq(Start) /\ Distinct(ds) /\ \A u : Has(ds, u) <=> u \in S
    BY <2>1, LoadsAll
  <2>3. \A u : u \in S <=> Has(q, u)
    BY <2>1 DEF Has, ToSet
  <2> QED
    BY <2>2, <2>3
<1>9. rs \in Seq(Start) /\ Distinct(rs) /\ \A u : Has(rs, u) => Has(o, u)
  <2>1. PICK S \in SUBSET ToSet(o) : S = ToSet(o) \cap store.ready
    OBVIOUS
  <2>2. rs \in Seq(Start) /\ Distinct(rs) /\ \A u : Has(rs, u) <=> u \in S
    BY <2>1, LoadsAll
  <2>3. \A u : u \in S => Has(o, u)
    BY <2>1 DEF Has, ToSet
  <2> QED
    BY <2>2, <2>3
<1>10. store' \in StoreRecord /\ store'.delegations = ds /\ store'.records = rs
  BY <1>7, <1>8, <1>9 DEF IInv, Types, StoreRecord
<1>11. down' \in BOOLEAN
  BY <1>1 DEF Sound
<1>12. Types'
  BY <1>1, <1>4, <1>10, <1>11 DEF IInv, Types
<1>13. \A s \in Start : Owns(s)' => Owns(s) /\ start[s].pc = "done" /\ start'[s] = start[s]
  <2>1. \A p \in Resting : p \in Owning => p = "done"
    BY DEF Resting, Owning, Working
  <2>2. "lost" \notin Owning
    BY DEF Owning, Working
  <2> QED
    BY <1>3, <2>1, <2>2 DEF Owns
<1>14. Owners'
  <2>1. ASSUME NEW s \in Start, Owns(s)' PROVE Listed(s)'
    <3>1. Has(q, s)
      BY <1>5, <1>13, <2>1 DEF IInv, Owners, Listed, Has
    <3>2. PICK i \in DOMAIN ds : ds[i] = s
      BY <1>8, <3>1 DEF Has
    <3>3. ASSUME ~down' PROVE Clear(ds, i)'
      <4>1. Clash(ds) = {}
        BY <1>1, <1>10, <3>3 DEF Sound
      <4>2. Clear(ds, i)
        BY <1>8, <3>2, <4>1, SoundIsClear
      <4>3. \A j \in DOMAIN ds : ds[j] \in Start
        BY <1>8, ElementOfSeq, LenProperties
      <4> QED
        BY <1>3, <4>2, <4>3 DEF Clear, Asked
    <3> QED
      BY <1>10, <3>2, <3>3 DEF Listed
  <2>2. ASSUME NEW s \in Start, NEW t \in Start, Owns(s)', Owns(t)', Asked(s)' = Asked(t)',
               Asked(s)' # None
        PROVE  s = t
    BY <1>3, <1>13, <2>2 DEF IInv, Owners, Asked
  <2> QED
    BY <2>1, <2>2 DEF Owners
<1>15. Written'
  <2>1. \A s \in Start : start[s].pc \in Owning \cup Out => start'[s].pc \in Owning \cup Out
    BY <1>3 DEF Out
  <2>2. \A s \in Start : start[s].pc \notin Before => start'[s].pc \notin Before
    BY <1>3 DEF Before
  <2>3. ASSUME NEW i \in DOMAIN ds PROVE start'[ds[i]].pc \in Owning \cup Out
    <3>1. Has(q, ds[i]) /\ ds[i] \in Start
      BY <1>8, ElementOfSeq, LenProperties DEF Has
    <3>2. start[ds[i]].pc \in Owning \cup Out
      BY <1>5, <3>1 DEF IInv, Written, Has
    <3> QED
      BY <2>1, <3>1, <3>2
  <2>4. ASSUME NEW i \in DOMAIN rs PROVE start'[rs[i]].pc \notin Before
    <3>1. Has(o, rs[i]) /\ rs[i] \in Start
      BY <1>9, ElementOfSeq, LenProperties DEF Has
    <3>2. start[rs[i]].pc \notin Before
      BY <1>6, <3>1 DEF IInv, Written, Has
    <3> QED
      BY <2>2, <3>1, <3>2
  <2> QED
    BY <1>8, <1>9, <1>10, <2>3, <2>4 DEF Written, Distinct
<1>16. Opened'
  <2>1. ASSUME NEW s \in Start PROVE OpenedAt(s)' /\ Stopped(s)'
    <3>1. OpenedAt(s) /\ start'[s].pc \in Resting
      BY <1>3 DEF IInv, Opened, Resting
    <3>2. session'[s] # "open"
      BY <1>1
    <3>3. start'[s].pc \in Before \cup Recording \cup {"opening"} => start'[s] = start[s]
      BY <1>3 DEF Before, Recording
    <3>4. session[s] = "none" => session'[s] = "none"
      BY <1>1
    <3> QED
      BY <3>1, <3>2, <3>3, <3>4 DEF OpenedAt, Stopped
  <2> QED
    BY <1>1, <2>1 DEF Opened
<1>17. Borrowed'
  <2>1. ASSUME NEW s \in Start PROVE BorrowedAt(s)'
    <3>1. BorrowedAt(s)
      BY DEF IInv, Borrowed
    <3>2. CASE start'[s] = start[s]
      <4>1. ASSUME start[s].record \notin {None, s}
            PROVE  start'[start[s].record].request = start[start[s].record].request
        <5>1. start[s].record \in Start
          BY <1>2, <4>1 DEF CallRecord
        <5> QED
          BY <1>3, <5>1
      <4> QED
        BY <3>1, <3>2, <4>1 DEF BorrowedAt, Asked
    <3>3. CASE start'[s].pc = "lost" /\ start'[s].record = None
      BY <3>3 DEF BorrowedAt, Before
    <3> QED
      BY <1>3, <3>2, <3>3
  <2> QED
    BY <2>1 DEF Borrowed
<1>18. CleanedUp'
  <2>1. ASSUME NEW s \in Start PROVE Writes(s)' /\ Gone(s)'
    <3>1. Writes(s)'
      BY <1>1 DEF Writes
    <3>2. CASE start'[s] = start[s]
      <4>1. Gone(s)
        BY DEF IInv, CleanedUp
      <4>2. Removed(s) => Removed(s)'
        BY <1>1, <3>2 DEF Removed
      <4>3. Left(s)' => Left(s)
        BY <1>1, <3>2 DEF Left
      <4>4. loaded'[s] = None
        BY <1>1
      <4> QED
        BY <1>5, <1>6, <1>8, <1>9, <1>10, <3>1, <3>2, <4>1, <4>2, <4>3, <4>4 DEF Gone
    <3>3. CASE start'[s].pc = "lost"
      BY <3>1, <3>3 DEF Gone, Left
    <3> QED
      BY <1>3, <3>2, <3>3
  <2> QED
    BY <2>1 DEF CleanedUp
<1>19. Answered'
  <2>1. ASSUME NEW s \in Start PROVE AnsweredAt(s)'
    <3>1. AnsweredAt(s)
      BY DEF IInv, Answered
    <3>2. start'[s].pc = "done" => start'[s] = start[s]
      BY <1>3
    <3>3. ASSUME start[s].before # {}, Asked(s) # None
          PROVE  Repeats(s)'
      <4>1. PICK t \in Start : /\ start[s].before = {t} /\ start[t].pc = "done"
                               /\ Asked(t) = Asked(s)
                               /\ start[s].pc = "repeated" => start[s].answer = t
        BY <3>1, <3>3 DEF AnsweredAt, Repeats
      <4>2. start'[t] = start[t]
        BY <1>3, <4>1 DEF Resting
      <4>3. start'[s].pc = "lost" \/ (start'[s] = start[s] /\ start[s].pc = "repeated")
        BY <1>3, <3>1, <3>3 DEF AnsweredAt, Repeats, Resting
      <4>4. session'[s] = "none"
        BY <1>1, <3>1, <3>3 DEF AnsweredAt, Repeats
      <4> QED
        BY <1>3, <4>1, <4>2, <4>3, <4>4 DEF Repeats, Asked
    <3>4. start[s].before = {} \/ Asked(s) = None => Repeats(s)'
      BY <1>3 DEF Repeats, Asked
    <3> QED
      BY <3>1, <3>2, <3>3, <3>4 DEF AnsweredAt
  <2> QED
    BY <2>1 DEF Answered
<1> QED
  BY <1>12, <1>14, <1>15, <1>16, <1>17, <1>18, <1>19 DEF IInv

-----------------------------------------------------------------------------
(* The theorems.                                                           *)

\* The invariant holds at the start.
LEMMA InitHolds == Init => IInv
<1> SUFFICES ASSUME Init PROVE IInv
  OBVIOUS
<1>1. Call \in CallRecord /\ Call.pc = "idle" /\ Call.request = None /\ Call.before = {}
      /\ Call.record = None
  BY DEF Call, CallRecord, Place, Before
<1>2. \A s \in Start : start[s] = Call /\ session[s] = "none" /\ loaded[s] = None
  BY DEF Init
<1>3. /\ store = [records |-> <<>>, ready |-> {}, delegations |-> <<>>, told |-> {}]
      /\ held = {} /\ writing = {} /\ overtaken = {}
      /\ down = FALSE /\ crashes = 0 /\ faults = 0
  BY DEF Init
<1>4. /\ <<>> \in Seq(Start) /\ DOMAIN <<>> = {}
  <2>1. <<>> \in Seq(Start) /\ Len(<<>>) = 0
    BY EmptySeq
  <2> QED
    BY <2>1, LenProperties
<1>5. Types
  <2>1. /\ start \in [Start -> CallRecord]
        /\ session \in [Start -> {"none", "open", "left"}]
        /\ loaded \in [Start -> Owner]
    BY <1>1 DEF Init, Owner
  <2>2. store \in StoreRecord
    BY <1>3, <1>4 DEF StoreRecord
  <2> QED
    BY <1>3, <2>1, <2>2 DEF Types
<1>6. "idle" \notin Owning \cup Recording \cup Out /\ "idle" \in Resting
  BY DEF Owning, Working, Recording, Out, Resting
<1>7. Owners
  BY <1>1, <1>2, <1>6 DEF Owners, Owns
<1>8. Written
  BY <1>3, <1>4 DEF Written, Distinct
<1>9. Opened
  BY <1>1, <1>2, <1>3 DEF Opened, OpenedAt
<1>10. Borrowed
  BY <1>1, <1>2 DEF Borrowed, BorrowedAt, Asked
<1>11. CleanedUp
  BY <1>1, <1>2, <1>3 DEF CleanedUp, Writes, Gone, Left
<1>12. Answered
  BY <1>1, <1>2 DEF Answered, AnsweredAt, Repeats
<1> QED
  BY <1>5, <1>7, <1>8, <1>9, <1>10, <1>11, <1>12 DEF IInv

\* Every step keeps it.
LEMMA NextKeeps == IInv /\ [Next]_vars => IInv'
<1> SUFFICES ASSUME IInv, [Next]_vars PROVE IInv'
  OBVIOUS
<1>1. ASSUME NEW s \in Start, NEW r \in Request \cup {None}, Begin(s, r) PROVE IInv'
  BY <1>1, BeginKeeps
<1>2. ASSUME NEW s \in Start, Find(s) PROVE IInv'
  BY <1>2, FindKeeps
<1>3. ASSUME NEW s \in Start, CreateRecord(s) PROVE IInv'
  BY <1>3, CreateRecordKeeps
<1>4. ASSUME NEW s \in Start, CheckRequest(s) PROVE IInv'
  BY <1>4, CheckRequestKeeps
<1>5. ASSUME NEW s \in Start, RecordDelegation(s) PROVE IInv'
  BY <1>5, RecordDelegationKeeps
<1>6. ASSUME NEW s \in Start, Open(s) PROVE IInv'
  BY <1>6, OpenKeeps
<1>7. ASSUME NEW s \in Start, Commit(s) PROVE IInv'
  BY <1>7, CommitKeeps
<1>8. ASSUME NEW s \in Start, Identified(s) PROVE IInv'
  BY <1>8, IdentifiedKeeps
<1>9. ASSUME NEW s \in Start, Select(s) PROVE IInv'
  BY <1>9, SelectKeeps
<1>10. ASSUME NEW s \in Start, Reported(s) PROVE IInv'
  BY <1>10, ReportedKeeps
<1>11. ASSUME NEW s \in Start, CloseSession(s) PROVE IInv'
  BY <1>11, CloseSessionKeeps
<1>12. ASSUME NEW s \in Start, Forget(s) PROVE IInv'
  BY <1>12, ForgetKeeps
<1>13. ASSUME NEW s \in Start, RemoveChild(s) PROVE IInv'
  BY <1>13, RemoveChildKeeps
<1>14. ASSUME NEW s \in Start, Resolve(s) PROVE IInv'
  BY <1>14, ResolveKeeps
<1>15. ASSUME NEW s \in Start, StatusFound(s) PROVE IInv'
  BY <1>15, StatusFoundKeeps
<1>19. ASSUME NEW s \in Start, StatusRecorded(s) PROVE IInv'
  BY <1>19, StatusRecordedKeeps
<1>20. ASSUME NEW s \in Start, NEW ok \in BOOLEAN, Announced(s, ok) PROVE IInv'
  BY <1>20, AnnouncedKeeps
<1>16. ASSUME NEW s \in Start, NEW ok \in BOOLEAN, TurnStarted(s, ok) PROVE IInv'
  BY <1>16, TurnStartedKeeps
<1>17. ASSUME Crash PROVE IInv'
  BY <1>17, CrashKeeps
<1>18. ASSUME UNCHANGED vars PROVE IInv'
  <2>1. UNCHANGED <<start, session, loaded, store, held, writing, overtaken, down, crashes, faults>>
    BY <1>18 DEF vars, statusVars
  <2>2. Types' /\ Owners' /\ Written' /\ Borrowed' /\ Answered'
    BY <2>1, CallsKept DEF IInv, Types
  <2>3. Opened'
    BY <2>1 DEF IInv, Opened, OpenedAt, Stopped
  <2>4. CleanedUp'
    BY <2>1 DEF IInv, CleanedUp, Writes, Gone, Left, OwnRecord, Removed, Has
  <2> QED
    BY <2>2, <2>3, <2>4 DEF IInv
<1> QED
  BY <1>1, <1>2, <1>3, <1>4, <1>5, <1>6, <1>7, <1>8, <1>9, <1>10, <1>11, <1>12, <1>13, <1>14,
     <1>15, <1>16, <1>17, <1>18, <1>19, <1>20 DEF Next

\* The inductive invariant.
THEOREM Delegated == Spec => []IInv
<1>1. Init => IInv
  BY InitHolds
<1>2. IInv /\ [Next]_vars => IInv'
  BY NextKeeps
<1> QED
  BY <1>1, <1>2, PTL DEF Spec

\* However calls of one request overlap, fail, are repeated and meet restarts, only
\* one of them has a Session at work.
THEOREM RequestHasOneSession == Spec => []OneSessionPerRequest
<1>1. ASSUME IInv PROVE OneSessionPerRequest
  <2> SUFFICES ASSUME NEW s \in Start, NEW t \in Start, Asked(s) = Asked(t), Asked(s) # None,
                      session[s] = "open", session[t] = "open"
               PROVE  s = t
    BY DEF OneSessionPerRequest
  <2>1. start[s].pc \in Working \cup {"done"} /\ start[t].pc \in Working \cup {"done"}
    BY <1>1 DEF IInv, Opened, OpenedAt
  <2>2. Owns(s) /\ Owns(t)
    BY <2>1 DEF Owns, Owning
  <2> QED
    BY <1>1, <2>2 DEF IInv, Owners
<1> QED
  BY <1>1, Delegated, PTL

\* A call that comes with a request which succeeded opens no Session, and answers
\* with the child of the one that did.
THEOREM RepeatsAreAnswered == Spec => []RepeatReturnsOriginal
<1>1. ASSUME IInv PROVE RepeatReturnsOriginal
  BY <1>1 DEF IInv, Answered, AnsweredAt, Repeats, RepeatReturnsOriginal
<1> QED
  BY <1>1, Delegated, PTL

\* What a failed call has left once it is cleaned up: no Session at work, no owner
\* of its Thread, no record and no delegation; unless a write failed, its record is
\* shared, or its clean-up met a status on its way or a restored owner.
THEOREM FailedStartLeavesNothing == Spec => []FailedLeavesNothing
<1>1. ASSUME IInv PROVE FailedLeavesNothing
  <2> SUFFICES ASSUME NEW s \in Start, start[s].pc = "failed", session[s] # "none",
                      OwnRecord(s), faults = 0, s \notin overtaken
               PROVE  /\ session[s] # "open" /\ loaded[s] = None
                      /\ s \notin ToSet(store.records) \cup ToSet(store.delegations)
    BY DEF FailedLeavesNothing, At
  <2>1. session[s] # "open"
    BY <1>1 DEF IInv, Opened, OpenedAt, Working
  <2>2. ~Has(store.records, s) /\ ~Has(store.delegations, s) /\ loaded[s] = None
    BY <1>1 DEF IInv, CleanedUp, Gone, Left, Removed, Out
  <2> QED
    BY <2>1, <2>2 DEF Has, ToSet
<1> QED
  BY <1>1, Delegated, PTL

=============================================================================
