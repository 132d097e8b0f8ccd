----------------------- MODULE BlockingLimiterProofs -----------------------
(***************************************************************************)
(* Proofs about BlockingLimiter for any finite set of threads, any caps and *)
(* any number of calls: its counters, its caps, that no wakeup is lost, and *)
(* that every step is a step of AdmissionControl.                          *)
(***************************************************************************)
EXTENDS BlockingLimiter, FiniteSetTheorems, TLAPS

-----------------------------------------------------------------------------
(***************************************************************************)
(* Counting threads.                                                       *)
(***************************************************************************)

\* The threads whose program counter, as pcs has it, is in A.
Having(pcs, A) == {u \in Threads : pcs[u] \in A}

\* 1 if the program counter value s is in A, and 0 otherwise.
One(s, A) == IF s \in A THEN 1 ELSE 0

\* A set of threads selected by program counter is finite and has a count.
LEMMA HavingFinite ==
  ASSUME NEW pcs, NEW A
  PROVE  /\ IsFiniteSet(Having(pcs, A))
         /\ Cardinality(Having(pcs, A)) \in Nat
         /\ Cardinality(Having(pcs, A)) = 0 <=> Having(pcs, A) = {}
<1>1. Having(pcs, A) \in SUBSET Threads
  BY DEF Having
<1>2. IsFiniteSet(Having(pcs, A))
  BY <1>1, ThreadsFinite, FS_Subset
<1> QED
  BY <1>2, FS_CardinalityType, FS_EmptySet

\* What one thread's move, the only change a mutex-protected section makes to a
\* program counter, does to the number of threads in A.
LEMMA CountAfterMove ==
  ASSUME NEW pcs \in [Threads -> States], NEW t \in Threads, NEW s \in States, NEW A
  PROVE  Cardinality(Having([pcs EXCEPT ![t] = s], A)) =
           Cardinality(Having(pcs, A)) + One(s, A) - One(pcs[t], A)
<1> DEFINE H == Having(pcs, A)
           K == Having([pcs EXCEPT ![t] = s], A)
<1>1. IsFiniteSet(H) /\ Cardinality(H) \in Nat
  BY HavingFinite
<1>2. t \in H <=> pcs[t] \in A
  BY DEF Having
<1>3. s \in A => K = H \cup {t}
  BY DEF Having
<1>4. s \notin A => K = H \ {t}
  BY DEF Having
<1>5. Cardinality(H \cup {t}) = IF t \in H THEN Cardinality(H) ELSE Cardinality(H) + 1
  BY <1>1, FS_AddElement
<1>6. Cardinality(H \ {t}) = IF t \in H THEN Cardinality(H) - 1 ELSE Cardinality(H)
  BY <1>1, FS_RemoveElement
<1> HIDE DEF H, K
<1>7. Cardinality(K) = Cardinality(H) + One(s, A) - One(pcs[t], A)
  <2>1. CASE s \in A
    <3>1. Cardinality(K) = IF t \in H THEN Cardinality(H) ELSE Cardinality(H) + 1
      BY <1>3, <1>5, <2>1
    <3> QED
      BY <1>1, <1>2, <2>1, <3>1 DEF One
  <2>2. CASE s \notin A
    <3>1. Cardinality(K) = IF t \in H THEN Cardinality(H) - 1 ELSE Cardinality(H)
      BY <1>4, <1>6, <2>2
    <3> QED
      BY <1>1, <1>2, <2>2, <3>1 DEF One
  <2> QED
    BY <2>1, <2>2
<1> QED
  BY <1>7 DEF H, K

\* The two moves of a release that finds a parked thread.
LEMMA CountAfterTwoMoves ==
  ASSUME NEW pcs \in [Threads -> States], NEW A,
         NEW t \in Threads, NEW s \in States, NEW u \in Threads, NEW r \in States,
         u # t
  PROVE  Cardinality(Having([[pcs EXCEPT ![t] = s] EXCEPT ![u] = r], A)) =
           Cardinality(Having(pcs, A)) + One(s, A) - One(pcs[t], A)
                                       + One(r, A) - One(pcs[u], A)
<1> DEFINE q == [pcs EXCEPT ![t] = s]
<1>1. q \in [Threads -> States] /\ q[u] = pcs[u]
  OBVIOUS
<1>2. Cardinality(Having(q, A)) = Cardinality(Having(pcs, A)) + One(s, A) - One(pcs[t], A)
  BY CountAfterMove, Zenon
<1> HIDE DEF q
<1>3. Cardinality(Having([q EXCEPT ![u] = r], A)) =
        Cardinality(Having(q, A)) + One(r, A) - One(q[u], A)
  BY <1>1, CountAfterMove, ZenonT(30)
<1>4. Cardinality(Having([q EXCEPT ![u] = r], A)) =
        Cardinality(Having(pcs, A)) + One(s, A) - One(pcs[t], A)
                                    + One(r, A) - One(pcs[u], A)
  BY <1>1, <1>2, <1>3
<1> QED
  BY <1>4 DEF q

\* The counts of CountersMatch, CapsRespected and NoLostWakeup are numbers.
LEMMA CountsAreNat ==
  /\ Cardinality(Holders) \in Nat /\ Cardinality(Waiters) \in Nat
  /\ Cardinality(Notified) \in Nat
BY HavingFinite DEF Holders, Waiters, Notified, In, Having

\* What a step that moves thread t to s does to the counts.
Moved(t, s) ==
  /\ pc' \in [Threads -> States]
  /\ Cardinality(Holders)' =
       Cardinality(Holders) + One(s, {"holding"}) - One(pc[t], {"holding"})
  /\ Cardinality(Notified)' =
       Cardinality(Notified) + One(s, {"notified"}) - One(pc[t], {"notified"})
  /\ Cardinality(Waiters)' =
       Cardinality(Waiters) + One(s, {"parked", "notified", "expired"})
                            - One(pc[t], {"parked", "notified", "expired"})

\* CountAfterMove for a step of the specification.
LEMMA CountsAfterStep ==
  ASSUME TypeOK, NEW t \in Threads, NEW s \in States,
         pc' = [pc EXCEPT ![t] = s]
  PROVE  Moved(t, s)
<1>0. pc \in [Threads -> States]
  BY DEF TypeOK
<1>1. pc' \in [Threads -> States]
  BY <1>0
<1>2. ASSUME NEW A
      PROVE  Cardinality(Having(pc', A)) =
               Cardinality(Having(pc, A)) + One(s, A) - One(pc[t], A)
  BY <1>0, CountAfterMove, Zenon
<1>3. Holders' = Having(pc', {"holding"}) /\ Holders = Having(pc, {"holding"})
  BY DEF Holders, In, Having
<1>4. Notified' = Having(pc', {"notified"}) /\ Notified = Having(pc, {"notified"})
  BY DEF Notified, In, Having
<1>5. /\ Waiters' = Having(pc', {"parked", "notified", "expired"})
      /\ Waiters = Having(pc, {"parked", "notified", "expired"})
  BY DEF Waiters, In, Having
<1> QED
  BY <1>1, <1>2, <1>3, <1>4, <1>5 DEF Moved

-----------------------------------------------------------------------------
(***************************************************************************)
(* The inductive invariant.  The caps and the wakeups are about sets of     *)
(* threads and the guards of the code are about counters: CountersMatch     *)
(* ties them, and TypeOK lets the provers count.                           *)
(***************************************************************************)

IInv == TypeOK /\ CountersMatch /\ CapsRespected /\ NoLostWakeup

\* BlockingLimiter::new establishes the invariant.
LEMMA InitIInv == Init => IInv
<1> SUFFICES ASSUME Init PROVE IInv
  OBVIOUS
<1>1. TypeOK
  BY DEF Init, TypeOK, States
<1>2. Holders = {} /\ Waiters = {} /\ Parked = {}
  BY DEF Init, Holders, Waiters, Parked, In
<1>3. Cardinality(Holders) = 0 /\ Cardinality(Waiters) = 0
  BY <1>2, FS_EmptySet
<1> QED
  BY <1>1, <1>2, <1>3, CapsAreNat
  DEF Init, IInv, CountersMatch, CapsRespected, NoLostWakeup

\* The parts of a call that acquire and acquire_timeout share.
LEMMA EntryPreservesIInv ==
  ASSUME IInv, NEW t \in Threads, pc[t] = "idle"
  PROVE  /\ RejectNow(t) \/ ExpireAtOnce(t) \/ DeadlineOverflows(t) => IInv'
         /\ FastPath(t) => IInv'
         /\ Enqueue(t) /\ timed' \in {timed, timed \cup {t}} => IInv'
<1> USE DEF IInv, TypeOK, CountersMatch, CapsRespected
<1>1. ASSUME RejectNow(t) \/ ExpireAtOnce(t) \/ DeadlineOverflows(t) PROVE IInv'
  <2>1. Holders' = Holders /\ Waiters' = Waiters /\ Notified' = Notified /\ Parked' = Parked
    BY <1>1 DEF RejectNow, ExpireAtOnce, DeadlineOverflows, Holders, Waiters, Notified, Parked, In
  <2> QED
    BY <1>1, <2>1, CountsAreNat DEF RejectNow, ExpireAtOnce, DeadlineOverflows, NoLostWakeup
<1>2. ASSUME FastPath(t) PROVE IInv'
  <2>0. pc' = [pc EXCEPT ![t] = "holding"] /\ "holding" \in States
    BY <1>2 DEF FastPath, States
  <2>1. Moved(t, "holding")
    BY <2>0, CountsAfterStep, Zenon DEF IInv
  <2>2. /\ pc' \in [Threads -> States]
        /\ Cardinality(Holders)' = Cardinality(Holders) + 1
        /\ Cardinality(Waiters)' = Cardinality(Waiters)
        /\ Cardinality(Notified)' = Cardinality(Notified)
    BY <2>1, CountsAreNat DEF Moved, One
  <2>3. Waiters' = Waiters /\ Parked' = Parked
    BY <2>0 DEF Waiters, Parked, In
  <2> QED
    BY <1>2, <2>2, <2>3, CountsAreNat, CapsAreNat DEF FastPath, NoLostWakeup
<1>3. ASSUME Enqueue(t), timed' \in {timed, timed \cup {t}} PROVE IInv'
  <2>0. pc' = [pc EXCEPT ![t] = "parked"] /\ "parked" \in States
    BY <1>3 DEF Enqueue, States
  <2>1. Moved(t, "parked")
    BY <2>0, CountsAfterStep, Zenon DEF IInv
  <2>2. /\ pc' \in [Threads -> States]
        /\ Cardinality(Holders)' = Cardinality(Holders)
        /\ Cardinality(Waiters)' = Cardinality(Waiters) + 1
        /\ Cardinality(Notified)' = Cardinality(Notified)
    BY <2>1, CountsAreNat DEF Moved, One
  <2>3. Waiters' = Waiters \cup {t}
    BY <2>0 DEF Waiters, In
  <2> QED
    BY <1>3, <2>2, <2>3, CountsAreNat, CapsAreNat DEF Enqueue, MustQueue, NoLostWakeup
<1> QED
  BY <1>1, <1>2, <1>3

\* A thread that left the condition variable.
LEMMA ResumePreservesIInv ==
  ASSUME IInv, NEW t \in Threads, Resume(t)
  PROVE  IInv'
<1> USE DEF IInv, TypeOK, CountersMatch, CapsRespected
<1>0. pc[t] \in {"notified", "expired"}
  BY DEF Resume, ResumeNotified, ResumeExpired
<1>1. CASE TakeSlot(t)
  <2>0. pc' = [pc EXCEPT ![t] = "holding"] /\ "holding" \in States
    BY <1>1 DEF TakeSlot, States
  <2>1. Moved(t, "holding")
    BY <2>0, CountsAfterStep, Zenon DEF IInv
  <2>2. /\ pc' \in [Threads -> States]
        /\ Cardinality(Holders)' = Cardinality(Holders) + 1
        /\ Cardinality(Waiters)' = Cardinality(Waiters) - 1
        /\ Cardinality(Notified)' \in {Cardinality(Notified), Cardinality(Notified) - 1}
    BY <1>0, <2>1, CountsAreNat DEF Moved, One
  <2>3. Waiters' = Waiters \ {t} /\ Parked' = Parked
    BY <1>0, <2>0 DEF Waiters, Parked, In
  <2>4. Cardinality(Waiters)' \in Nat /\ Cardinality(Notified)' \in Nat
    BY HavingFinite DEF Waiters, Notified, In, Having
  <2> QED
    BY <1>1, <2>2, <2>3, <2>4, CountsAreNat, CapsAreNat DEF TakeSlot, NoLostWakeup
<1>2. CASE WaitAgain(t)
  <2>0. pc' = [pc EXCEPT ![t] = "parked"] /\ "parked" \in States
    BY <1>2 DEF WaitAgain, States
  <2>1. Moved(t, "parked")
    BY <2>0, CountsAfterStep, Zenon DEF IInv
  <2>2. /\ pc' \in [Threads -> States]
        /\ Cardinality(Holders)' = Cardinality(Holders)
        /\ Cardinality(Waiters)' = Cardinality(Waiters)
    BY <1>0, <2>1, CountsAreNat DEF Moved, One
  <2>3. Waiters' = Waiters
    BY <1>0, <2>0 DEF Waiters, In
  <2>4. Cardinality(Notified)' \in Nat
    BY HavingFinite DEF Notified, In, Having
  <2> QED
    BY <1>2, <2>2, <2>3, <2>4, CountsAreNat, CapsAreNat DEF WaitAgain, NoLostWakeup
<1>3. CASE GiveUp(t)
  <2>0. pc' = [pc EXCEPT ![t] = "idle"] /\ "idle" \in States
    BY <1>3 DEF GiveUp, States
  <2>1. Moved(t, "idle")
    BY <2>0, CountsAfterStep, Zenon DEF IInv
  <2>2. /\ pc' \in [Threads -> States]
        /\ Cardinality(Holders)' = Cardinality(Holders)
        /\ Cardinality(Waiters)' = Cardinality(Waiters) - 1
    BY <1>0, <2>1, CountsAreNat DEF Moved, One
  <2>3. Waiters' = Waiters \ {t}
    BY <1>0, <2>0 DEF Waiters, In
  <2>4. Cardinality(Waiters)' \in Nat /\ Cardinality(Notified)' \in Nat
    BY HavingFinite DEF Waiters, Notified, In, Having
  <2> QED
    BY <1>3, <2>2, <2>3, <2>4, CountsAreNat, CapsAreNat DEF GiveUp, NoLostWakeup
<1> QED
  BY <1>1, <1>2, <1>3 DEF Resume, ResumeNotified, ResumeExpired

\* The timeout of wait_for: the thread is still counted as queued.
LEMMA TimeOutPreservesIInv ==
  ASSUME IInv, NEW t \in Threads, TimeOut(t)
  PROVE  IInv'
<1> USE DEF IInv, TypeOK, CountersMatch, CapsRespected
<1>1. pc' = [pc EXCEPT ![t] = "expired"] /\ "expired" \in States /\ pc[t] = "parked"
  BY DEF TimeOut, States
<1>2. Moved(t, "expired")
  BY <1>1, CountsAfterStep, Zenon DEF IInv
<1>3. /\ pc' \in [Threads -> States]
      /\ Cardinality(Holders)' = Cardinality(Holders)
      /\ Cardinality(Waiters)' = Cardinality(Waiters)
      /\ Cardinality(Notified)' = Cardinality(Notified)
  BY <1>1, <1>2, CountsAreNat DEF Moved, One
<1>4. Waiters' = Waiters /\ Parked' \subseteq Parked
  BY <1>1 DEF Waiters, Parked, In
<1> QED
  BY <1>3, <1>4, CountsAreNat, CapsAreNat DEF TimeOut, NoLostWakeup

\* A release, and the thread it notifies if one is parked.
LEMMA ReleasePreservesIInv ==
  ASSUME IInv, NEW t \in Threads, Release(t)
  PROVE  IInv'
<1> USE DEF IInv, TypeOK, CountersMatch, CapsRespected
<1> DEFINE pcNow == [pc EXCEPT ![t] = "idle"]
<1>1. pc[t] = "holding" /\ inflight' = inflight - 1
      /\ UNCHANGED <<queued, total_acquired, total_rejected, timed, timeouts, leaked>>
  BY DEF Release
<1>2. CASE {u \in Threads : pcNow[u] = "parked"} = {}
  <2>1. pc' = pcNow /\ "idle" \in States
    BY <1>2 DEF Release, NotifyOne, States
  <2>2. Moved(t, "idle")
    BY <2>1, CountsAfterStep, Zenon DEF IInv
  <2>3. /\ pc' \in [Threads -> States]
        /\ Cardinality(Holders)' = Cardinality(Holders) - 1
        /\ Cardinality(Waiters)' = Cardinality(Waiters)
    BY <1>1, <2>2, CountsAreNat DEF Moved, One
  <2>4. Waiters' = Waiters /\ Parked' = {}
    BY <1>1, <1>2, <2>1 DEF Waiters, Parked, In
  <2>5. Cardinality(Holders)' \in Nat
    BY HavingFinite DEF Holders, In, Having
  <2> QED
    BY <1>1, <2>3, <2>4, <2>5, CountsAreNat, CapsAreNat DEF NoLostWakeup
<1>3. CASE {u \in Threads : pcNow[u] = "parked"} # {}
  <2>1. PICK u \in Threads : pcNow[u] = "parked" /\ pc' = [pcNow EXCEPT ![u] = "notified"]
    BY <1>3 DEF Release, NotifyOne
  <2>2. u # t /\ pc[u] = "parked" /\ u \in Parked
    BY <2>1 DEF Parked, In
  <2>3. /\ pc \in [Threads -> States] /\ pc' \in [Threads -> States]
        /\ "idle" \in States /\ "notified" \in States
    BY <2>1 DEF States
  <2>4. ASSUME NEW A
        PROVE  Cardinality(Having(pc', A)) =
                 Cardinality(Having(pc, A)) + One("idle", A) - One(pc[t], A)
                                            + One("notified", A) - One(pc[u], A)
    <3> HIDE DEF IInv, TypeOK, CountersMatch, CapsRespected
    <3>0. pc \in [Threads -> States] /\ u # t
      BY <2>2, <2>3
    <3>1. ASSUME NEW s \in States, NEW r \in States
          PROVE  Cardinality(Having([[pc EXCEPT ![t] = s] EXCEPT ![u] = r], A)) =
                   Cardinality(Having(pc, A)) + One(s, A) - One(pc[t], A)
                                              + One(r, A) - One(pc[u], A)
      BY <3>0, CountAfterTwoMoves, ZenonT(60)
    <3>2. pc' = [[pc EXCEPT ![t] = "idle"] EXCEPT ![u] = "notified"]
      BY <2>1
    <3> QED
      BY <2>3, <3>1, <3>2
  <2>5. Holders' = Having(pc', {"holding"}) /\ Holders = Having(pc, {"holding"})
    BY DEF Holders, In, Having
  <2>6. Cardinality(Holders)' = Cardinality(Holders) - 1
    BY <1>1, <2>2, <2>4, <2>5, CountsAreNat DEF One
  <2>7. Notified' = Having(pc', {"notified"}) /\ Notified = Having(pc, {"notified"})
    BY DEF Notified, In, Having
  <2>8. Cardinality(Notified)' = Cardinality(Notified) + 1
    BY <1>1, <2>2, <2>4, <2>7, CountsAreNat DEF One
  <2>9. Waiters' = Waiters
    BY <1>1, <2>1, <2>2 DEF Waiters, In
  <2>10. Cardinality(Holders)' \in Nat
    BY HavingFinite DEF Holders, In, Having
  <2> QED
    BY <1>1, <2>2, <2>3, <2>6, <2>8, <2>9, <2>10, CountsAreNat, CapsAreNat DEF NoLostWakeup
<1> QED
  BY <1>2, <1>3

\* Every step of the limiter preserves the invariant.
LEMMA NextPreservesIInv == IInv /\ [Next]_vars => IInv'
<1> SUFFICES ASSUME IInv, [Next]_vars PROVE IInv'
  OBVIOUS
<1>1. ASSUME NEW t \in Threads, Acquire(t) \/ AcquireTimeout(t) PROVE IInv'
  <2>1. pc[t] = "idle"
    BY <1>1 DEF Acquire, AcquireTimeout, MayCall
  <2>2. \/ RejectNow(t) \/ ExpireAtOnce(t) \/ DeadlineOverflows(t) \/ FastPath(t)
        \/ Enqueue(t) /\ timed' \in {timed, timed \cup {t}}
    BY <1>1 DEF Acquire, AcquireTimeout
  <2> QED
    BY <2>1, <2>2, EntryPreservesIInv
<1>2. ASSUME NEW t \in Threads, Resume(t) PROVE IInv'
  BY <1>2, ResumePreservesIInv
<1>3. ASSUME NEW t \in Threads, TimeOut(t) PROVE IInv'
  BY <1>3, TimeOutPreservesIInv
<1>4. ASSUME NEW t \in Threads, Release(t) PROVE IInv'
  BY <1>4, ReleasePreservesIInv
<1>5. CASE UNCHANGED vars
  <2>1. Holders' = Holders /\ Waiters' = Waiters /\ Notified' = Notified /\ Parked' = Parked
    BY <1>5 DEF vars, Holders, Waiters, Notified, Parked, In
  <2> QED
    BY <1>5, <2>1 DEF vars, IInv, TypeOK, CountersMatch, CapsRespected, NoLostWakeup
<1> QED
  BY <1>1, <1>2, <1>3, <1>4, <1>5 DEF Next, Done

\* The invariant holds of every behaviour of the limiter.
THEOREM Invariance == SafeSpec => []IInv
BY InitIInv, NextPreservesIInv, PTL DEF SafeSpec

\* The variables of the limiter keep their types: no counter goes negative.
THEOREM TypeCorrect == SafeSpec => []TypeOK
BY Invariance, PTL DEF IInv

\* inflight counts the threads that hold a slot, queued those that wait and the
\* calls that panicked in the queue.
THEOREM CountersCorrect == SafeSpec => []CountersMatch
BY Invariance, PTL DEF IInv

\* The caps hold for every number of threads and every interleaving.
THEOREM CapsCorrect == SafeSpec => []CapsRespected
BY Invariance, PTL DEF IInv

\* No wakeup is lost: a free slot is never left to parked threads alone.
THEOREM WakeupsCorrect == SafeSpec => []NoLostWakeup
BY Invariance, PTL DEF IInv

-----------------------------------------------------------------------------
(***************************************************************************)
(* Refinement.  The invariant turns the counters in the guards of the code  *)
(* into the sets in the guards of AdmissionControl.                        *)
(***************************************************************************)

\* The two modules count with the same operator.
LEMMA SameCount == ASSUME NEW S PROVE AC!Cardinality(S) = Cardinality(S)
BY DEF AC!Cardinality, Cardinality

\* A call maps to Enter, Wait, TurnAway, TooLate or BreakDown.
LEMMA EntryRefines ==
  ASSUME IInv, NEW t \in Threads, Acquire(t) \/ AcquireTimeout(t)
  PROVE  AC!Next
<1> USE DEF IInv, TypeOK, CountersMatch
<1>0. pc[t] = "idle" /\ t \in AC!Outside
  BY DEF Acquire, AcquireTimeout, MayCall, AC!Outside, Holders, Waiters, In
<1>1. CASE RejectNow(t)
  <2>1. Holders' = Holders /\ Waiters' = Waiters
    BY <1>1 DEF RejectNow, Holders, Waiters, In
  <2>2. AC!TurnAway(t)
    BY <1>0, <1>1, <2>1, SameCount, CountsAreNat, CapsAreNat DEF RejectNow, AC!TurnAway, AC!Full, AC!NoPlace
  <2> QED
    BY <2>2 DEF AC!Next
<1>2. CASE ExpireAtOnce(t)
  <2>1. Holders' = Holders /\ Waiters' = Waiters
    BY <1>2 DEF ExpireAtOnce, Holders, Waiters, In
  <2>2. AC!TooLate(t)
    BY <1>0, <1>2, <2>1, SameCount, CountsAreNat, CapsAreNat DEF ExpireAtOnce, MustQueue, AC!TooLate, AC!Full
  <2> QED
    BY <2>2 DEF AC!Next
<1>3. CASE FastPath(t)
  <2>1. Holders' = Holders \cup {t} /\ Waiters' = Waiters
    BY <1>0, <1>3 DEF FastPath, Holders, Waiters, In
  <2>2. AC!Enter(t)
    BY <1>0, <1>3, <2>1, SameCount, CountsAreNat, CapsAreNat DEF FastPath, AC!Enter, AC!Full
  <2> QED
    BY <2>2 DEF AC!Next
<1>4. CASE Enqueue(t) /\ timed' \in {timed, timed \cup {t}}
  <2>1. Holders' = Holders /\ Waiters' = Waiters \cup {t}
    BY <1>0, <1>4 DEF Enqueue, Holders, Waiters, In
  <2>2. AC!Wait(t)
    BY <1>0, <1>4, <2>1, SameCount, CountsAreNat, CapsAreNat DEF Enqueue, MustQueue, AC!Wait, AC!Full, AC!NoPlace
  <2> QED
    BY <2>2 DEF AC!Next
<1>5. CASE DeadlineOverflows(t)
  <2>1. Holders' = Holders /\ Waiters' = Waiters
    BY <1>5 DEF DeadlineOverflows, Holders, Waiters, In
  <2>2. AC!BreakDown(t)
    BY <1>0, <1>5, <2>1, SameCount, CountsAreNat, CapsAreNat
    DEF DeadlineOverflows, MustQueue, AC!BreakDown, AC!Full, AC!NoPlace
  <2> QED
    BY <2>2 DEF AC!Next
<1> QED
  BY <1>1, <1>2, <1>3, <1>4, <1>5 DEF Acquire, AcquireTimeout

\* A return from the condition variable maps to Admit or GiveUp, or to no step.
LEMMA ResumeRefines ==
  ASSUME IInv, NEW t \in Threads, Resume(t)
  PROVE  AC!Next \/ UNCHANGED AC!avars
<1> USE DEF IInv, TypeOK, CountersMatch
<1>0. pc[t] \in {"notified", "expired"} /\ t \in Waiters
  BY DEF Resume, ResumeNotified, ResumeExpired, Waiters, In
<1>1. CASE TakeSlot(t)
  <2>1. Holders' = Holders \cup {t} /\ Waiters' = Waiters \ {t}
    BY <1>0, <1>1 DEF TakeSlot, Holders, Waiters, In
  <2>2. AC!Admit(t)
    BY <1>0, <1>1, <2>1, SameCount, CountsAreNat, CapsAreNat DEF TakeSlot, AC!Admit, AC!Full
  <2> QED
    BY <2>2 DEF AC!Next
<1>2. CASE WaitAgain(t)
  <2>1. Holders' = Holders /\ Waiters' = Waiters
    BY <1>0, <1>2 DEF WaitAgain, Holders, Waiters, In
  <2> QED
    BY <1>2, <2>1 DEF WaitAgain, AC!avars
<1>3. CASE GiveUp(t)
  <2>1. Holders' = Holders /\ Waiters' = Waiters \ {t}
    BY <1>0, <1>3 DEF GiveUp, Holders, Waiters, In
  <2>2. AC!GiveUp(t)
    BY <1>0, <1>3, <2>1, SameCount, CountsAreNat, CapsAreNat DEF GiveUp, AC!GiveUp, AC!Full
  <2> QED
    BY <2>2 DEF AC!Next
<1> QED
  BY <1>1, <1>2, <1>3 DEF Resume, ResumeNotified, ResumeExpired

\* A release maps to Leave: whom it notifies does not show.
LEMMA ReleaseRefines ==
  ASSUME IInv, NEW t \in Threads, Release(t)
  PROVE  AC!Next
<1> USE DEF IInv, TypeOK, CountersMatch
<1> DEFINE pcNow == [pc EXCEPT ![t] = "idle"]
<1>0. pc[t] = "holding" /\ t \in Holders
  BY DEF Release, Holders, In
<1>1. pc' = pcNow \/ \E u \in Threads : pcNow[u] = "parked" /\ pc' = [pcNow EXCEPT ![u] = "notified"]
  BY DEF Release, NotifyOne
<1>2. Holders' = Holders \ {t} /\ Waiters' = Waiters
  BY <1>0, <1>1 DEF Holders, Waiters, In
<1>3. AC!Leave(t)
  BY <1>0, <1>2 DEF Release, AC!Leave
<1> QED
  BY <1>3 DEF AC!Next

\* Every step of the limiter is a step of AdmissionControl or changes nothing
\* that AdmissionControl can see.
LEMMA NextRefines == IInv /\ [Next]_vars => [AC!Next]_AC!avars
<1> SUFFICES ASSUME IInv, [Next]_vars PROVE AC!Next \/ UNCHANGED AC!avars
  OBVIOUS
<1>1. ASSUME NEW t \in Threads, Acquire(t) \/ AcquireTimeout(t) PROVE AC!Next
  BY <1>1, EntryRefines
<1>2. ASSUME NEW t \in Threads, Resume(t) PROVE AC!Next \/ UNCHANGED AC!avars
  BY <1>2, ResumeRefines
<1>3. ASSUME NEW t \in Threads, TimeOut(t) PROVE UNCHANGED AC!avars
  BY <1>3 DEF TimeOut, AC!avars, Holders, Waiters, In, IInv, TypeOK
<1>4. ASSUME NEW t \in Threads, Release(t) PROVE AC!Next
  BY <1>4, ReleaseRefines
<1>5. CASE UNCHANGED vars
  BY <1>5 DEF vars, AC!avars, Holders, Waiters, In
<1> QED
  BY <1>1, <1>2, <1>3, <1>4, <1>5 DEF Next, Done

\* A new limiter maps to the initial state of AdmissionControl.
LEMMA InitRefines == Init => AC!Init
BY DEF Init, AC!Init, Holders, Waiters, In

\* The limiter implements the safety part of AdmissionControl.
THEOREM RefinesAdmissionControl == SafeSpec => AC!SafeSpec
BY InitRefines, Invariance, NextRefines, PTL DEF SafeSpec, AC!SafeSpec
=============================================================================
