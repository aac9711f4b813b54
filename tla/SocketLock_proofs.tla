-------------------------- MODULE SocketLock_proofs --------------------------
(***************************************************************************)
(* Theorems about SocketLock, for every set of contenders and every bound. *)
(* A call is sound while its process lives and no lease of its ran out:    *)
(* nobody unlinks the register of a sound call, so the bakery argument     *)
(* works between sound calls whatever the others do.                       *)
(***************************************************************************)
EXTENDS SocketLock, TLAPS

Sound(i) == alive[i] /\ ~overran[i]
Ticketed == {"listScan", "readScan", "guard", "inspect", "act"}

\* The retry loop has an attempt left whenever it starts a catalog.
AttemptsLeft ==
    \A i \in Contender :
        /\ pc[i] \in {"out", "listChoosing", "readChoosing"} => attempts[i] = 0
        /\ pc[i] = "listScan" => attempts[i] < MaxAttempts

\* A register is stale, or being swept, only if its call is not sound.
SweptUnsound ==
    /\ \A i \in Contender : stale[i] => overran[i]
    /\ \A k, i \in Contender : sweep[k].of = i => ~Sound(i)
    /\ \A k \in Contender : sweep[k] # NoSweep => sweep[k].of \in Contender

\* The register of a sound call is the one its position says.
RegisterAsWritten ==
    \A i \in Contender : Sound(i) =>
        /\ pc[i] \in {"out", "gone"} => register[i] = Absent
        /\ pc[i] \in {"listChoosing", "readChoosing"} => register[i] = Choosing
        /\ pc[i] \in Ticketed => register[i] = ticket[i] /\ ticket[i] > Choosing
        /\ pc[i] = "leaving" => register[i] \in {Choosing, ticket[i]}

\* i has looked at j in its last catalog and did not find it blocking.
Cleared(i, j) ==
    \/ pc[i] = "readScan" /\ ~blocked[i] /\ j \notin todo[i]
    \/ pc[i] \in {"guard", "inspect", "act"}

\* j, still choosing, will see the ticket of i, or has seen it.
Sees(j, i) == i \in todo[j] \/ maximum[j] >= ticket[i]

\* Whom i has cleared is not competing, will take a later ticket or has one.
ClearedBehind ==
    \A i, j \in Contender :
        i # j /\ Sound(i) /\ Sound(j) /\ Cleared(i, j) =>
            /\ pc[j] = "readChoosing" => Sees(j, i)
            /\ pc[j] \in Ticketed => Before(ticket[i], i, ticket[j], j)

\* Whoever waited before j began gets the smaller ticket.
AheadFirst ==
    \A j \in Contender : \A i \in ahead[j] :
        /\ i # j
        /\ Sound(i) /\ Sound(j) =>
            /\ pc[j] # "out"
            /\ pc[i] \in Ticketed \cup {"leaving", "gone"}
            /\ pc[i] \in Ticketed =>
                /\ pc[j] = "readChoosing" => Sees(j, i)
                /\ pc[j] \in Ticketed => ticket[i] < ticket[j]

IInv == TypeOK /\ AttemptsLeft /\ SweptUnsound /\ RegisterAsWritten /\ ClearedBehind /\ AheadFirst

\* The initial state satisfies the inductive invariant.
LEMMA InitInvariant == Init => IInv
<1> USE ContenderAssumption, AttemptAssumption, TicketAssumption
<1> SUFFICES ASSUME Init PROVE IInv
  OBVIOUS
<1>1. TypeOK
  <2>1. NoSweep \in Sweep
    BY DEF NoSweep, Sweep
  <2>2. {NoMarker, Inert} \subseteq Marker
    BY DEF Marker
  <2>3. /\ pc \in [Contender -> Phase] /\ register \in [Contender -> (0 .. MaxTicket) \cup {Absent}]
        /\ maximum \in [Contender -> 0 .. MaxTicket] /\ ticket \in [Contender -> 0 .. MaxTicket]
        /\ attempts \in [Contender -> 0 .. MaxAttempts]
        /\ todo \in [Contender -> SUBSET Contender] /\ ahead \in [Contender -> SUBSET Contender]
    BY DEF Init, Phase
  <2>4. /\ alive \in [Contender -> BOOLEAN] /\ stale \in [Contender -> BOOLEAN]
        /\ overran \in [Contender -> BOOLEAN] /\ ownSeen \in [Contender -> BOOLEAN]
        /\ blocked \in [Contender -> BOOLEAN] /\ guarded \in [Contender -> BOOLEAN]
        /\ exposed \in [Contender -> BOOLEAN] /\ markerStale \in BOOLEAN
        /\ version1 \in {"out", "reclaiming", "acting"}
    BY DEF Init
  <2>5. sweep \in [Contender -> Sweep] /\ marker \in Marker
    BY <2>1, <2>2 DEF Init
  <2>6. QED
    BY <2>3, <2>4, <2>5 DEF TypeOK
<1>2. AttemptsLeft
  BY DEF Init, AttemptsLeft
<1>3. SweptUnsound
  BY DEF Init, SweptUnsound, NoSweep, Nobody
<1>4. RegisterAsWritten
  BY DEF Init, RegisterAsWritten, Ticketed, Absent, Choosing
<1>5. ClearedBehind
  BY DEF Init, ClearedBehind, Cleared
<1>6. AheadFirst
  BY DEF Init, AheadFirst
<1>7. QED
  BY <1>1, <1>2, <1>3, <1>4, <1>5, <1>6 DEF IInv

\* A step keeps the types: the retry loop never exceeds its count, a ticket
\* never exceeds the largest.
LEMMA TypeStep == TypeOK /\ AttemptsLeft /\ [Next]_vars => TypeOK'
<1> USE ContenderAssumption, AttemptAssumption, TicketAssumption
<1> SUFFICES ASSUME TypeOK, AttemptsLeft, [Next]_vars PROVE TypeOK'
  OBVIOUS
<1> USE DEF TypeOK, Phase, Absent, Choosing, Nobody, Go, At, lockVars, scanVars, markerVars, history
<1>1. ASSUME NEW i \in Contender, PublishChoosing(i) PROVE TypeOK'
  BY <1>1 DEF PublishChoosing
<1>2. ASSUME NEW i \in Contender, ListChoosing(i) PROVE TypeOK'
  BY <1>2 DEF ListChoosing, ListEntries
<1>3. ASSUME NEW i \in Contender, ListScan(i) PROVE TypeOK'
  <2>1. attempts[i] + 1 \in 0 .. MaxAttempts
    BY <1>3 DEF ListScan, AttemptsLeft
  <2>2. QED
    BY <1>3, <2>1 DEF ListScan, ListEntries
<1>4. ASSUME NEW i \in Contender, NEW j \in Contender, ReadEntry(i, j) PROVE TypeOK'
  <2>1. maximum' \in [Contender -> 0 .. MaxTicket]
    BY <1>4 DEF ReadEntry
  <2>2. QED
    BY <1>4, <2>1 DEF ReadEntry, Present, Blocks, Before
<1>5. ASSUME NEW i \in Contender, NEW j \in Contender, ReadAbandoned(i, j) PROVE TypeOK'
  BY <1>5 DEF ReadAbandoned, Sweep
<1>6. ASSUME NEW i \in Contender, Recheck(i) PROVE TypeOK'
  <2>1. NoSweep \in Sweep /\ [of |-> sweep[i].of, saw |-> sweep[i].saw, armed |-> TRUE] \in Sweep
    BY DEF NoSweep, Sweep
  <2>2. \/ sweep' = [sweep EXCEPT ![i] = [of |-> sweep[i].of, saw |-> sweep[i].saw,
                                         armed |-> TRUE]] /\ blocked' = blocked
        \/ sweep' = [sweep EXCEPT ![i] = NoSweep] /\ blocked' = [blocked EXCEPT ![i] = TRUE]
    BY <1>6 DEF Recheck
  <2>3. sweep' \in [Contender -> Sweep]
    <3>1. sweep \in [Contender -> Sweep]
      OBVIOUS
    <3>2. \E e \in Sweep : sweep' = [sweep EXCEPT ![i] = e]
      BY <2>1, <2>2
    <3>3. QED
      BY <3>1, <3>2
  <2>4. blocked' \in [Contender -> BOOLEAN]
    BY <2>2
  <2>5. QED
    BY <1>6, <2>3, <2>4 DEF Recheck
<1>7. ASSUME NEW i \in Contender, Unlink(i) PROVE TypeOK'
  BY <1>7 DEF Unlink, NoSweep, Sweep
<1>8. ASSUME NEW i \in Contender, TakeTicket(i) PROVE TypeOK'
  <2>1. CASE maximum[i] >= MaxTicket
    BY <1>8, <2>1 DEF TakeTicket
  <2>2. CASE ~(maximum[i] >= MaxTicket)
    <3>1. NextTicket(i) \in 0 .. MaxTicket
      BY <2>2 DEF NextTicket
    <3>2. /\ ticket' = [ticket EXCEPT ![i] = NextTicket(i)]
          /\ register' = [register EXCEPT ![i] = NextTicket(i)]
          /\ stale' = [stale EXCEPT ![i] = FALSE]
          /\ pc' = [pc EXCEPT ![i] = "listScan"]
      BY <1>8, <2>2 DEF TakeTicket
    <3>3. /\ ticket' \in [Contender -> 0 .. MaxTicket]
          /\ register' \in [Contender -> (0 .. MaxTicket) \cup {Absent}]
          /\ stale' \in [Contender -> BOOLEAN]
          /\ pc' \in [Contender -> Phase]
      BY <3>1, <3>2
    <3>4. QED
      BY <1>8, <3>3 DEF TakeTicket
  <2>3. QED
    BY <2>1, <2>2
<1>9. ASSUME NEW i \in Contender, Decide(i) PROVE TypeOK'
  BY <1>9 DEF Decide, Retry
<1>10. ASSUME NEW i \in Contender, AcquireGuard(i) PROVE TypeOK'
  BY <1>10 DEF AcquireGuard, Marker
<1>11. ASSUME NEW i \in Contender, InspectMarker(i) PROVE TypeOK'
  BY <1>11 DEF InspectMarker, Retry
<1>12. ASSUME NEW i \in Contender, FinishAction(i) PROVE TypeOK'
  BY <1>12 DEF FinishAction, Marker
<1>13. ASSUME NEW i \in Contender, Leave(i) PROVE TypeOK'
  <2>1. NoSweep \in Sweep
    BY DEF NoSweep, Sweep
  <2>2. QED
    BY <1>13, <2>1 DEF Leave, Forget
<1>14. ASSUME NEW i \in Contender, Crash(i) PROVE TypeOK'
  <2>1. NoSweep \in Sweep
    BY DEF NoSweep, Sweep
  <2>2. QED
    BY <1>14, <2>1 DEF Crash, Forget
<1>15. ASSUME NEW i \in Contender, LeaseExpires(i) PROVE TypeOK'
  BY <1>15 DEF LeaseExpires
<1>16. ASSUME NEW i \in Contender, Throw(i) PROVE TypeOK'
  <2>1. NoSweep \in Sweep
    BY DEF NoSweep, Sweep
  <2>2. QED
    BY <1>16, <2>1 DEF Throw
<1>17. CASE MarkerExpires
  BY <1>17 DEF MarkerExpires
<1>18. CASE Version1Step
  <2>1. marker' \in {marker, NoMarker, Version1, Inert}
    BY <1>18 DEF Version1Step, Version1Enters, Version1Judges, Version1Unlinks, Version1Dies
  <2>2. marker' \in Marker
    BY <2>1 DEF Marker
  <2>3. /\ version1' \in {"out", "reclaiming", "acting"} /\ markerStale' \in BOOLEAN
        /\ exposed' \in [Contender -> BOOLEAN]
    BY <1>18 DEF Version1Step, Version1Enters, Version1Judges, Version1Unlinks, Version1Dies
  <2>4. QED
    BY <1>18, <2>2, <2>3 DEF Version1Step
<1>19. CASE UNCHANGED vars
  BY <1>19 DEF vars
<1>20. QED
  BY <1>1, <1>2, <1>3, <1>4, <1>5, <1>6, <1>7, <1>8, <1>9, <1>10, <1>11, <1>12, <1>13,
     <1>14, <1>15, <1>16, <1>17, <1>18, <1>19 DEF Next, CallStep

\* The count of attempts follows the position of the call.
LEMMA AttemptsStep == TypeOK /\ AttemptsLeft /\ [Next]_vars => AttemptsLeft'
<1> USE ContenderAssumption, AttemptAssumption, TicketAssumption
<1> SUFFICES ASSUME TypeOK, AttemptsLeft, [Next]_vars PROVE AttemptsLeft'
  OBVIOUS
<1> USE DEF TypeOK, AttemptsLeft
<1> USE DEF Absent, Choosing, Nobody, Go, At, lockVars, scanVars, markerVars, history
<1>1. ASSUME NEW k \in Contender, PublishChoosing(k) PROVE AttemptsLeft'
  BY <1>1 DEF PublishChoosing
<1>2. ASSUME NEW k \in Contender, ListChoosing(k) PROVE AttemptsLeft'
  BY <1>2 DEF ListChoosing, ListEntries
<1>3. ASSUME NEW k \in Contender, ListScan(k) PROVE AttemptsLeft'
  BY <1>3 DEF ListScan, ListEntries
<1>4. ASSUME NEW k \in Contender, NEW m \in Contender, ReadEntry(k, m) PROVE AttemptsLeft'
  BY <1>4 DEF ReadEntry
<1>5. ASSUME NEW k \in Contender, NEW m \in Contender, ReadAbandoned(k, m) PROVE AttemptsLeft'
  BY <1>5 DEF ReadAbandoned
<1>6. ASSUME NEW k \in Contender, Recheck(k) PROVE AttemptsLeft'
  BY <1>6 DEF Recheck
<1>7. ASSUME NEW k \in Contender, Unlink(k) PROVE AttemptsLeft'
  BY <1>7 DEF Unlink
<1>8. ASSUME NEW k \in Contender, TakeTicket(k) PROVE AttemptsLeft'
  BY <1>8 DEF TakeTicket, NextTicket
<1>9. ASSUME NEW k \in Contender, Decide(k) PROVE AttemptsLeft'
  BY <1>9 DEF Decide, Retry
<1>10. ASSUME NEW k \in Contender, AcquireGuard(k) PROVE AttemptsLeft'
  BY <1>10 DEF AcquireGuard
<1>11. ASSUME NEW k \in Contender, InspectMarker(k) PROVE AttemptsLeft'
  BY <1>11 DEF InspectMarker, Retry
<1>12. ASSUME NEW k \in Contender, FinishAction(k) PROVE AttemptsLeft'
  BY <1>12 DEF FinishAction
<1>13. ASSUME NEW k \in Contender, Throw(k) PROVE AttemptsLeft'
  BY <1>13 DEF Throw
<1>14. ASSUME NEW k \in Contender, Leave(k) PROVE AttemptsLeft'
  BY <1>14 DEF Leave, Forget
<1>15. ASSUME NEW k \in Contender, Crash(k) PROVE AttemptsLeft'
  BY <1>15 DEF Crash, Forget
<1>16. ASSUME NEW k \in Contender, LeaseExpires(k) PROVE AttemptsLeft'
  BY <1>16 DEF LeaseExpires
<1>17. CASE MarkerExpires
  BY <1>17 DEF MarkerExpires
<1>18. CASE Version1Step
  BY <1>18 DEF Version1Step
<1>19. CASE UNCHANGED vars
  BY <1>19 DEF vars
<1>20. QED
  BY <1>1, <1>2, <1>3, <1>4, <1>5, <1>6, <1>7, <1>8, <1>9, <1>10, <1>11, <1>12,
     <1>13, <1>14, <1>15, <1>16, <1>17, <1>18, <1>19 DEF Next, CallStep

\* Only a register whose call is not sound is swept.
LEMMA SweepStep == TypeOK /\ SweptUnsound /\ [Next]_vars => SweptUnsound'
<1> USE ContenderAssumption, AttemptAssumption, TicketAssumption
<1> SUFFICES ASSUME TypeOK, SweptUnsound, [Next]_vars PROVE SweptUnsound'
  OBVIOUS
<1> USE DEF TypeOK, SweptUnsound, Sound, NoSweep, Sweep
<1> USE DEF Absent, Choosing, Nobody, Go, At, lockVars, scanVars, markerVars, history
<1>1. ASSUME NEW k \in Contender, PublishChoosing(k) PROVE SweptUnsound'
  BY <1>1 DEF PublishChoosing
<1>2. ASSUME NEW k \in Contender, ListChoosing(k) PROVE SweptUnsound'
  BY <1>2 DEF ListChoosing, ListEntries
<1>3. ASSUME NEW k \in Contender, ListScan(k) PROVE SweptUnsound'
  BY <1>3 DEF ListScan, ListEntries
<1>4. ASSUME NEW k \in Contender, NEW m \in Contender, ReadEntry(k, m) PROVE SweptUnsound'
  BY <1>4 DEF ReadEntry
<1>5. ASSUME NEW k \in Contender, NEW m \in Contender, ReadAbandoned(k, m) PROVE SweptUnsound'
  BY <1>5 DEF ReadAbandoned, MayBeAbandoned
<1>6. ASSUME NEW k \in Contender, Recheck(k) PROVE SweptUnsound'
  <2>1. sweep[k].of \in Contender
    BY <1>6 DEF Recheck
  <2>2. \/ sweep' = [sweep EXCEPT ![k] = [of |-> sweep[k].of, saw |-> sweep[k].saw, armed |-> TRUE]]
        \/ sweep' = [sweep EXCEPT ![k] = NoSweep]
    BY <1>6 DEF Recheck
  <2>3. \A x \in Contender : /\ sweep'[x].of \in {sweep[x].of, Nobody}
                             /\ sweep'[x] # NoSweep => sweep'[x].of \in Contender
    <3>1. [of |-> sweep[k].of, saw |-> sweep[k].saw, armed |-> TRUE].of = sweep[k].of
      OBVIOUS
    <3>2. NoSweep.of = Nobody
      OBVIOUS
    <3> HIDE DEF NoSweep, Sweep
    <3>3. QED
      BY <2>1, <2>2, <3>1, <3>2
  <2>4. QED
    BY <1>6, <2>3 DEF Recheck
<1>7. ASSUME NEW k \in Contender, Unlink(k) PROVE SweptUnsound'
  <2>1. sweep[k].of \in Contender
    <3>1. sweep[k] # NoSweep
      BY <1>7 DEF Unlink
    <3>2. QED
      BY <3>1
  <2>2. \A x \in Contender : /\ sweep'[x].of \in {sweep[x].of, Nobody}
                             /\ sweep'[x] # NoSweep => sweep'[x].of \in Contender
    BY <1>7 DEF Unlink
  <2>3. UNCHANGED <<alive, overran>> /\ \A x \in Contender : stale'[x] => stale[x]
    BY <1>7 DEF Unlink
  <2>4. \A x, y \in Contender : sweep'[x].of = y => ~Sound(y)'
    <3>1. \A x, y \in Contender : sweep'[x].of = y => sweep[x].of = y
      <4>1. \A y \in Contender : y # Nobody
        BY ONLY ContenderAssumption DEF Nobody
      <4>2. QED
        BY ONLY <2>2, <4>1
    <3>2. QED
      BY <2>3, <3>1
  <2>5. \A x \in Contender : stale'[x] => overran'[x]
    BY <2>3
  <2>6. \A x \in Contender : sweep'[x] # NoSweep => sweep'[x].of \in Contender
    BY ONLY <2>2
  <2>7. QED
    BY ONLY <2>4, <2>5, <2>6 DEF SweptUnsound
<1>8. ASSUME NEW k \in Contender, TakeTicket(k) PROVE SweptUnsound'
  BY <1>8 DEF TakeTicket, NextTicket
<1>9. ASSUME NEW k \in Contender, Decide(k) PROVE SweptUnsound'
  BY <1>9 DEF Decide, Retry
<1>10. ASSUME NEW k \in Contender, AcquireGuard(k) PROVE SweptUnsound'
  BY <1>10 DEF AcquireGuard
<1>11. ASSUME NEW k \in Contender, InspectMarker(k) PROVE SweptUnsound'
  BY <1>11 DEF InspectMarker, Retry
<1>12. ASSUME NEW k \in Contender, FinishAction(k) PROVE SweptUnsound'
  BY <1>12 DEF FinishAction
<1>13. ASSUME NEW k \in Contender, Throw(k) PROVE SweptUnsound'
  <2>1. \A x \in Contender : /\ sweep'[x].of \in {sweep[x].of, Nobody}
                             /\ sweep'[x] # NoSweep => sweep'[x].of \in Contender
    BY <1>13 DEF Throw
  <2>2. UNCHANGED <<alive, overran, stale>>
    BY <1>13 DEF Throw
  <2>3. \A x, y \in Contender : sweep'[x].of = y => ~Sound(y)'
    <3>1. \A y \in Contender : y # Nobody
      BY ONLY ContenderAssumption DEF Nobody
    <3>2. \A x, y \in Contender : sweep'[x].of = y => sweep[x].of = y
      BY ONLY <2>1, <3>1
    <3>3. QED
      BY <2>2, <3>2
  <2>4. \A x \in Contender : stale'[x] => overran'[x]
    BY <2>2
  <2>5. \A x \in Contender : sweep'[x] # NoSweep => sweep'[x].of \in Contender
    BY ONLY <2>1
  <2>6. QED
    BY ONLY <2>3, <2>4, <2>5 DEF SweptUnsound
<1>14. ASSUME NEW k \in Contender, Leave(k) PROVE SweptUnsound'
  <2>1. \A x \in Contender : /\ sweep'[x].of \in {sweep[x].of, Nobody}
                             /\ sweep'[x] # NoSweep => sweep'[x].of \in Contender
    BY <1>14 DEF Leave, Forget
  <2>2. /\ \A x \in Contender : Sound(x)' => Sound(x)
        /\ overran' = overran /\ \A x \in Contender : stale'[x] => stale[x]
    BY <1>14 DEF Leave
  <2>3. \A x, y \in Contender : sweep'[x].of = y => ~Sound(y)'
    <3>1. \A y \in Contender : y # Nobody
      BY ONLY ContenderAssumption DEF Nobody
    <3>2. \A x, y \in Contender : sweep'[x].of = y => sweep[x].of = y
      BY ONLY <2>1, <3>1
    <3>3. QED
      BY <2>2, <3>2
  <2>4. \A x \in Contender : stale'[x] => overran'[x]
    BY <2>2
  <2>5. \A x \in Contender : sweep'[x] # NoSweep => sweep'[x].of \in Contender
    BY ONLY <2>1
  <2>6. QED
    BY ONLY <2>3, <2>4, <2>5 DEF SweptUnsound
<1>15. ASSUME NEW k \in Contender, Crash(k) PROVE SweptUnsound'
  <2>1. \A x \in Contender : /\ sweep'[x].of \in {sweep[x].of, Nobody}
                             /\ sweep'[x] # NoSweep => sweep'[x].of \in Contender
    BY <1>15 DEF Crash, Forget
  <2>2. /\ \A x \in Contender : Sound(x)' => Sound(x)
        /\ overran' = overran /\ \A x \in Contender : stale'[x] => stale[x]
    BY <1>15 DEF Crash
  <2>3. \A x, y \in Contender : sweep'[x].of = y => ~Sound(y)'
    <3>1. \A y \in Contender : y # Nobody
      BY ONLY ContenderAssumption DEF Nobody
    <3>2. \A x, y \in Contender : sweep'[x].of = y => sweep[x].of = y
      BY ONLY <2>1, <3>1
    <3>3. QED
      BY <2>2, <3>2
  <2>4. \A x \in Contender : stale'[x] => overran'[x]
    BY <2>2
  <2>5. \A x \in Contender : sweep'[x] # NoSweep => sweep'[x].of \in Contender
    BY ONLY <2>1
  <2>6. QED
    BY ONLY <2>3, <2>4, <2>5 DEF SweptUnsound
<1>16. ASSUME NEW k \in Contender, LeaseExpires(k) PROVE SweptUnsound'
  BY <1>16 DEF LeaseExpires
<1>17. CASE MarkerExpires
  BY <1>17 DEF MarkerExpires
<1>18. CASE Version1Step
  BY <1>18 DEF Version1Step
<1>19. CASE UNCHANGED vars
  BY <1>19 DEF vars
<1>20. QED
  BY <1>1, <1>2, <1>3, <1>4, <1>5, <1>6, <1>7, <1>8, <1>9, <1>10, <1>11, <1>12,
     <1>13, <1>14, <1>15, <1>16, <1>17, <1>18, <1>19 DEF Next, CallStep

\* Nobody but its call changes the register of a sound call.
LEMMA RegisterStep ==
    TypeOK /\ SweptUnsound /\ RegisterAsWritten /\ [Next]_vars => RegisterAsWritten'
<1> USE ContenderAssumption, AttemptAssumption, TicketAssumption
<1> SUFFICES ASSUME TypeOK, SweptUnsound, RegisterAsWritten, [Next]_vars
             PROVE RegisterAsWritten'
  OBVIOUS
<1> USE DEF TypeOK, SweptUnsound, RegisterAsWritten, Sound, Ticketed
<1> USE DEF Absent, Choosing, Nobody, Go, At, lockVars, scanVars, markerVars, history
<1>1. ASSUME NEW k \in Contender, PublishChoosing(k) PROVE RegisterAsWritten'
  BY <1>1 DEF PublishChoosing
<1>2. ASSUME NEW k \in Contender, ListChoosing(k) PROVE RegisterAsWritten'
  BY <1>2 DEF ListChoosing, ListEntries
<1>3. ASSUME NEW k \in Contender, ListScan(k) PROVE RegisterAsWritten'
  BY <1>3 DEF ListScan, ListEntries
<1>4. ASSUME NEW k \in Contender, NEW m \in Contender, ReadEntry(k, m) PROVE RegisterAsWritten'
  BY <1>4 DEF ReadEntry
<1>5. ASSUME NEW k \in Contender, NEW m \in Contender, ReadAbandoned(k, m) PROVE RegisterAsWritten'
  BY <1>5 DEF ReadAbandoned
<1>6. ASSUME NEW k \in Contender, Recheck(k) PROVE RegisterAsWritten'
  BY <1>6 DEF Recheck
<1>7. ASSUME NEW k \in Contender, Unlink(k) PROVE RegisterAsWritten'
  BY <1>7 DEF Unlink
<1>8. ASSUME NEW k \in Contender, TakeTicket(k) PROVE RegisterAsWritten'
  BY <1>8 DEF TakeTicket, NextTicket
<1>9. ASSUME NEW k \in Contender, Decide(k) PROVE RegisterAsWritten'
  BY <1>9 DEF Decide, Retry
<1>10. ASSUME NEW k \in Contender, AcquireGuard(k) PROVE RegisterAsWritten'
  BY <1>10 DEF AcquireGuard
<1>11. ASSUME NEW k \in Contender, InspectMarker(k) PROVE RegisterAsWritten'
  BY <1>11 DEF InspectMarker, Retry
<1>12. ASSUME NEW k \in Contender, FinishAction(k) PROVE RegisterAsWritten'
  BY <1>12 DEF FinishAction
<1>13. ASSUME NEW k \in Contender, Throw(k) PROVE RegisterAsWritten'
  <2>1. UNCHANGED <<alive, overran, register, ticket>>
    BY <1>13 DEF Throw
  <2>2. \A x \in Contender : Sound(x)' => Sound(x)
    BY <2>1
  <2>3. pc' = [pc EXCEPT ![k] = "leaving"] /\ pc[k] \notin {"out", "act", "leaving", "gone"}
    BY <1>13 DEF Throw
  <2>4. Sound(k) => register[k] \in {Choosing, ticket[k]}
    BY <2>3 DEF Phase
  <2>5. QED
    BY <2>1, <2>2, <2>3, <2>4
<1>14. ASSUME NEW k \in Contender, Leave(k) PROVE RegisterAsWritten'
  BY <1>14 DEF Leave, Forget
<1>15. ASSUME NEW k \in Contender, Crash(k) PROVE RegisterAsWritten'
  BY <1>15 DEF Crash, Forget
<1>16. ASSUME NEW k \in Contender, LeaseExpires(k) PROVE RegisterAsWritten'
  BY <1>16 DEF LeaseExpires
<1>17. CASE MarkerExpires
  BY <1>17 DEF MarkerExpires
<1>18. CASE Version1Step
  BY <1>18 DEF Version1Step
<1>19. CASE UNCHANGED vars
  BY <1>19 DEF vars
<1>20. QED
  BY <1>1, <1>2, <1>3, <1>4, <1>5, <1>6, <1>7, <1>8, <1>9, <1>10, <1>11, <1>12,
     <1>13, <1>14, <1>15, <1>16, <1>17, <1>18, <1>19 DEF Next, CallStep

\* The bakery argument: what i has cleared stays behind i.
LEMMA ClearedStep ==
    TypeOK /\ SweptUnsound /\ RegisterAsWritten /\ ClearedBehind /\ [Next]_vars
        => ClearedBehind'
<1> USE ContenderAssumption, AttemptAssumption, TicketAssumption
<1> SUFFICES ASSUME TypeOK, SweptUnsound, RegisterAsWritten, ClearedBehind, [Next]_vars,
                    NEW i \in Contender, NEW j \in Contender,
                    i # j, Sound(i)', Sound(j)', Cleared(i, j)'
             PROVE (/\ pc[j] = "readChoosing" => Sees(j, i)
                    /\ pc[j] \in Ticketed => Before(ticket[i], i, ticket[j], j))'
  BY DEF ClearedBehind
<1> DEFINE Behind == /\ pc[j] = "readChoosing" => Sees(j, i)
                     /\ pc[j] \in Ticketed => Before(ticket[i], i, ticket[j], j)
<1> USE DEF TypeOK, SweptUnsound, RegisterAsWritten, ClearedBehind, Cleared, Sees, Before, Sound, Ticketed
<1> USE DEF Absent, Choosing, Nobody, Go, At, lockVars, scanVars, markerVars, history
<1>1. ASSUME NEW k \in Contender, PublishChoosing(k) PROVE Behind'
  BY <1>1 DEF PublishChoosing
<1>2. ASSUME NEW k \in Contender, ListChoosing(k) PROVE Behind'
  BY <1>2 DEF ListChoosing, ListEntries, Present
<1>3. ASSUME NEW k \in Contender, ListScan(k) PROVE Behind'
  BY <1>3 DEF ListScan, ListEntries, Present
<1>4. ASSUME NEW k \in Contender, NEW m \in Contender, ReadEntry(k, m) PROVE Behind'
  BY <1>4 DEF ReadEntry, Blocks, Present, MayBeLive, Reading
<1>5. ASSUME NEW k \in Contender, NEW m \in Contender, ReadAbandoned(k, m) PROVE Behind'
  BY <1>5 DEF ReadAbandoned, MayBeAbandoned, Reading
<1>6. ASSUME NEW k \in Contender, Recheck(k) PROVE Behind'
  <2>1. /\ UNCHANGED <<pc, alive, overran, todo, maximum, ticket>>
        /\ ~blocked'[i] => ~blocked[i]
    BY <1>6 DEF Recheck
  <2>2. Sound(i) /\ Sound(j) /\ Cleared(i, j)
    BY <2>1
  <2>3. Behind
    BY <2>2
  <2>4. QED
    BY <2>1, <2>3
<1>7. ASSUME NEW k \in Contender, Unlink(k) PROVE Behind'
  BY <1>7 DEF Unlink, Reading, NoSweep
<1>8. ASSUME NEW k \in Contender, TakeTicket(k) PROVE Behind'
  BY <1>8 DEF TakeTicket, NextTicket, CatalogRead
<1>9. ASSUME NEW k \in Contender, Decide(k) PROVE Behind'
  BY <1>9 DEF Decide, Retry, CatalogRead
<1>10. ASSUME NEW k \in Contender, AcquireGuard(k) PROVE Behind'
  BY <1>10 DEF AcquireGuard
<1>11. ASSUME NEW k \in Contender, InspectMarker(k) PROVE Behind'
  BY <1>11 DEF InspectMarker, Retry
<1>12. ASSUME NEW k \in Contender, FinishAction(k) PROVE Behind'
  BY <1>12 DEF FinishAction
<1>13. ASSUME NEW k \in Contender, Throw(k) PROVE Behind'
  BY <1>13 DEF Throw
<1>14. ASSUME NEW k \in Contender, Leave(k) PROVE Behind'
  BY <1>14 DEF Leave, Forget
<1>15. ASSUME NEW k \in Contender, Crash(k) PROVE Behind'
  BY <1>15 DEF Crash, Forget
<1>16. ASSUME NEW k \in Contender, LeaseExpires(k) PROVE Behind'
  BY <1>16 DEF LeaseExpires
<1>17. CASE MarkerExpires
  BY <1>17 DEF MarkerExpires
<1>18. CASE Version1Step
  BY <1>18 DEF Version1Step
<1>19. CASE UNCHANGED vars
  BY <1>19 DEF vars
<1>20. QED
  BY <1>1, <1>2, <1>3, <1>4, <1>5, <1>6, <1>7, <1>8, <1>9, <1>10, <1>11, <1>12,
     <1>13, <1>14, <1>15, <1>16, <1>17, <1>18, <1>19 DEF Next, CallStep

\* Whoever had a ticket before a call began keeps the smaller one.
LEMMA AheadStep ==
    TypeOK /\ SweptUnsound /\ RegisterAsWritten /\ AheadFirst /\ [Next]_vars => AheadFirst'
<1> USE ContenderAssumption, AttemptAssumption, TicketAssumption
<1> SUFFICES ASSUME TypeOK, SweptUnsound, RegisterAsWritten, AheadFirst, [Next]_vars,
                    NEW j \in Contender, NEW i \in ahead'[j]
             PROVE (/\ i # j
                    /\ Sound(i) /\ Sound(j) =>
                        /\ pc[j] # "out"
                        /\ pc[i] \in Ticketed \cup {"leaving", "gone"}
                        /\ pc[i] \in Ticketed =>
                            /\ pc[j] = "readChoosing" => Sees(j, i)
                            /\ pc[j] \in Ticketed => ticket[i] < ticket[j])'
  BY DEF AheadFirst
<1> DEFINE First == /\ i # j
                    /\ Sound(i) /\ Sound(j) =>
                        /\ pc[j] # "out"
                        /\ pc[i] \in Ticketed \cup {"leaving", "gone"}
                        /\ pc[i] \in Ticketed =>
                            /\ pc[j] = "readChoosing" => Sees(j, i)
                            /\ pc[j] \in Ticketed => ticket[i] < ticket[j]
<1> USE DEF TypeOK, SweptUnsound, RegisterAsWritten, AheadFirst, Sees, Sound, Ticketed
<1> USE DEF Absent, Choosing, Nobody, Go, At, lockVars, scanVars, markerVars, history
<1>1. ASSUME NEW k \in Contender, PublishChoosing(k) PROVE First'
  BY <1>1 DEF PublishChoosing, Waiting
<1>2. ASSUME NEW k \in Contender, ListChoosing(k) PROVE First'
  BY <1>2 DEF ListChoosing, ListEntries, Present
<1>3. ASSUME NEW k \in Contender, ListScan(k) PROVE First'
  BY <1>3 DEF ListScan, ListEntries, Present
<1>4. ASSUME NEW k \in Contender, NEW m \in Contender, ReadEntry(k, m) PROVE First'
  BY <1>4 DEF ReadEntry, Present, MayBeLive, Reading
<1>5. ASSUME NEW k \in Contender, NEW m \in Contender, ReadAbandoned(k, m) PROVE First'
  BY <1>5 DEF ReadAbandoned, MayBeAbandoned, Reading
<1>6. ASSUME NEW k \in Contender, Recheck(k) PROVE First'
  BY <1>6 DEF Recheck, Reading, NoSweep
<1>7. ASSUME NEW k \in Contender, Unlink(k) PROVE First'
  BY <1>7 DEF Unlink, Reading
<1>8. ASSUME NEW k \in Contender, TakeTicket(k) PROVE First'
  BY <1>8 DEF TakeTicket, NextTicket, CatalogRead
<1>9. ASSUME NEW k \in Contender, Decide(k) PROVE First'
  BY <1>9 DEF Decide, Retry
<1>10. ASSUME NEW k \in Contender, AcquireGuard(k) PROVE First'
  BY <1>10 DEF AcquireGuard
<1>11. ASSUME NEW k \in Contender, InspectMarker(k) PROVE First'
  BY <1>11 DEF InspectMarker, Retry
<1>12. ASSUME NEW k \in Contender, FinishAction(k) PROVE First'
  BY <1>12 DEF FinishAction
<1>13. ASSUME NEW k \in Contender, Throw(k) PROVE First'
  BY <1>13 DEF Throw
<1>14. ASSUME NEW k \in Contender, Leave(k) PROVE First'
  BY <1>14 DEF Leave, Forget
<1>15. ASSUME NEW k \in Contender, Crash(k) PROVE First'
  BY <1>15 DEF Crash, Forget
<1>16. ASSUME NEW k \in Contender, LeaseExpires(k) PROVE First'
  BY <1>16 DEF LeaseExpires
<1>17. CASE MarkerExpires
  BY <1>17 DEF MarkerExpires
<1>18. CASE Version1Step
  BY <1>18 DEF Version1Step
<1>19. CASE UNCHANGED vars
  BY <1>19 DEF vars
<1>20. QED
  BY <1>1, <1>2, <1>3, <1>4, <1>5, <1>6, <1>7, <1>8, <1>9, <1>10, <1>11, <1>12,
     <1>13, <1>14, <1>15, <1>16, <1>17, <1>18, <1>19 DEF Next, CallStep

\* Together they are inductive.
LEMMA InvariantStep == IInv /\ [Next]_vars => IInv'
  BY TypeStep, AttemptsStep, SweepStep, RegisterStep, ClearedStep, AheadStep DEF IInv

\* The invariant holds always.
LEMMA Invariant == Spec => []IInv
  BY InitInvariant, InvariantStep, PTL DEF Spec

\* Every variable keeps its type; attempts and tickets keep their bounds.
THEOREM TypeCorrect == Spec => []TypeOK
<1>1. IInv => TypeOK
  BY DEF IInv
<1>2. QED
  BY <1>1, Invariant, PTL

\* Two sound calls never run their actions together: each would have cleared
\* the other and hold the smaller ticket.
THEOREM MutualExclusion == Spec => []Serialized
<1>1. IInv => Serialized
  <2> SUFFICES ASSUME IInv, NEW i \in Contender, NEW j \in Contender,
                      i # j, Acting(i), Acting(j), ~overran[i], ~overran[j]
               PROVE FALSE
    BY DEF Serialized
  <2>1. Sound(i) /\ Sound(j) /\ Cleared(i, j) /\ Cleared(j, i) /\ pc[i] = "act" /\ pc[j] = "act"
    BY DEF Sound, Cleared, Acting, At
  <2>2. Before(ticket[i], i, ticket[j], j) /\ Before(ticket[j], j, ticket[i], i)
    BY <2>1 DEF IInv, ClearedBehind, Ticketed
  <2>3. ticket[i] \in Nat /\ ticket[j] \in Nat /\ i \in Nat /\ j \in Nat
    BY ContenderAssumption, TicketAssumption DEF IInv, TypeOK
  <2>4. QED
    BY <2>2, <2>3 DEF Before
<1>2. QED
  BY <1>1, Invariant, PTL

\* A call that had a ticket before another call began is past its own action
\* when that other call acts.
THEOREM Fairness == Spec => []FirstComeFirstServed
<1>1. IInv => FirstComeFirstServed
  <2> SUFFICES ASSUME IInv, NEW j \in Contender, Acting(j), ~overran[j],
                      NEW i \in ahead[j], ~overran[i], alive[i],
                      pc[i] \notin {"leaving", "gone"}
               PROVE FALSE
    BY DEF FirstComeFirstServed
  <2>1. i \in Contender /\ ticket[i] \in Nat /\ ticket[j] \in Nat
    BY TicketAssumption DEF IInv, TypeOK
  <2>2. Sound(i) /\ Sound(j) /\ Cleared(j, i) /\ pc[j] \in Ticketed
    BY DEF Sound, Cleared, Acting, At, Ticketed
  <2>3. i # j /\ pc[i] \in Ticketed /\ ticket[i] < ticket[j]
    BY <2>2, <2>1 DEF IInv, AheadFirst
  <2>4. Before(ticket[j], j, ticket[i], i)
    BY <2>1, <2>2, <2>3 DEF IInv, ClearedBehind
  <2>5. QED
    BY <2>1, <2>3, <2>4 DEF Before
<1>2. QED
  BY <1>1, Invariant, PTL

\* While no lease of a call ran out, whoever acts holds the marker, relies on
\* one whose owner is dead, or is exposed; a version 1 owner holds its marker.
Fenced(i) ==
    \/ guarded[i] /\ marker = HeldBy(i)
    \/ marker = Inert
    \/ \E k \in Contender : marker = HeldBy(k) /\ ~alive[k]
    \/ exposed[i]
ActsFenced ==
    (\A k \in Contender : ~overran[k]) =>
        /\ version1 = "acting" => marker = Version1
        /\ markerStale => marker \in {Version1, Inert}
        /\ \A i \in Contender : Acting(i) => Fenced(i)

\* The markers of two processes differ.
LEMMA MarkersDiffer ==
    /\ \A i \in Contender : HeldBy(i) \notin {NoMarker, Version1, Inert}
    /\ \A i, k \in Contender : HeldBy(i) = HeldBy(k) => i = k
    /\ \A i \in Contender : HeldBy(i).kind = "version2" /\ HeldBy(i).by = i
    /\ Inert.kind = "inert" /\ NoMarker.kind = "absent" /\ Version1.kind = "version1"
    /\ Inert \notin {NoMarker, Version1} /\ NoMarker # Version1
  BY ContenderAssumption DEF HeldBy, NoMarker, Version1, Inert, Nobody

\* While nobody overran its time, every step keeps those who act fenced.
LEMMA FenceStep == TypeOK /\ ActsFenced /\ [Next]_vars => ActsFenced'
<1> SUFFICES ASSUME TypeOK, ActsFenced, [Next]_vars,
                    \A k \in Contender : ~overran[k]'
             PROVE /\ version1' = "acting" => marker' = Version1
                   /\ markerStale' => marker' \in {Version1, Inert}
                   /\ \A i \in Contender : Acting(i)' => Fenced(i)'
  BY DEF ActsFenced
<1> DEFINE Goal == /\ version1' = "acting" => marker' = Version1
                   /\ markerStale' => marker' \in {Version1, Inert}
                   /\ \A i \in Contender : Acting(i)' => Fenced(i)'
<1> USE MarkersDiffer DEF TypeOK, ActsFenced, Fenced, Acting
<1> USE DEF Absent, Choosing, Go, At, lockVars, scanVars, markerVars, history
<1>1. ASSUME NEW k \in Contender, PublishChoosing(k) PROVE Goal
  BY <1>1 DEF PublishChoosing
<1>2. ASSUME NEW k \in Contender, ListChoosing(k) PROVE Goal
  BY <1>2 DEF ListChoosing, ListEntries
<1>3. ASSUME NEW k \in Contender, ListScan(k) PROVE Goal
  BY <1>3 DEF ListScan, ListEntries
<1>4. ASSUME NEW k \in Contender, NEW m \in Contender, ReadEntry(k, m) PROVE Goal
  BY <1>4 DEF ReadEntry
<1>5. ASSUME NEW k \in Contender, NEW m \in Contender, ReadAbandoned(k, m) PROVE Goal
  BY <1>5 DEF ReadAbandoned
<1>6. ASSUME NEW k \in Contender, Recheck(k) PROVE Goal
  BY <1>6 DEF Recheck
<1>7. ASSUME NEW k \in Contender, Unlink(k) PROVE Goal
  BY <1>7 DEF Unlink
<1>8. ASSUME NEW k \in Contender, TakeTicket(k) PROVE Goal
  BY <1>8 DEF TakeTicket, NextTicket
<1>9. ASSUME NEW k \in Contender, Decide(k) PROVE Goal
  BY <1>9 DEF Decide, Retry
<1>10. ASSUME NEW k \in Contender, AcquireGuard(k) PROVE Goal
  BY <1>10 DEF AcquireGuard
<1>11. ASSUME NEW k \in Contender, InspectMarker(k) PROVE Goal
  BY <1>11 DEF InspectMarker, Retry, Marker, MarkerMayBeAbandoned
<1>12. ASSUME NEW k \in Contender, FinishAction(k) PROVE Goal
  BY <1>12 DEF FinishAction
<1>13. ASSUME NEW k \in Contender, Throw(k) PROVE Goal
  BY <1>13 DEF Throw
<1>14. ASSUME NEW k \in Contender, Leave(k) PROVE Goal
  BY <1>14 DEF Leave, Forget
<1>15. ASSUME NEW k \in Contender, Crash(k) PROVE Goal
  BY <1>15 DEF Crash, Forget
<1>16. ASSUME NEW k \in Contender, LeaseExpires(k) PROVE Goal
  BY <1>16 DEF LeaseExpires
<1>17. CASE MarkerExpires
  BY <1>17 DEF MarkerExpires, Marker
<1>18. CASE Version1Step
  <2>1. CASE Version1Enters
    BY <1>18, <2>1 DEF Version1Step, Version1Enters
  <2>2. CASE Version1Judges
    BY <1>18, <2>2 DEF Version1Step, Version1Judges
  <2>3. CASE Version1Unlinks
    BY <1>18, <2>3 DEF Version1Step, Version1Unlinks
  <2>4. CASE Version1Dies
    BY <1>18, <2>4 DEF Version1Step, Version1Dies
  <2>5. QED
    BY <1>18, <2>1, <2>2, <2>3, <2>4 DEF Version1Step
<1>19. CASE UNCHANGED vars
  BY <1>19 DEF vars
<1>20. QED
  BY <1>1, <1>2, <1>3, <1>4, <1>5, <1>6, <1>7, <1>8, <1>9, <1>10, <1>11, <1>12,
     <1>13, <1>14, <1>15, <1>16, <1>17, <1>18, <1>19 DEF Next, CallStep

\* A version 1 owner and a call act together only when a call outlived its
\* lease or version 1 gave up the marker that call acts behind.
THEOREM Version1Exclusion == Spec => []Version1Excluded
<1>1. Init => ActsFenced
  BY DEF Init, ActsFenced, Acting, At
<1>2. ActsFenced => Version1Excluded
  BY MarkersDiffer DEF ActsFenced, Fenced, Version1Excluded
<1>3. QED
  BY <1>1, <1>2, FenceStep, TypeCorrect, PTL DEF Spec
=============================================================================
