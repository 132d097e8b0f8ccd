--------------------------- MODULE BlockingLimiter ---------------------------
(***************************************************************************)
(* BlockingLimiter of fusecraft-core/src/limiter/concurrency.rs: a counter  *)
(* of slots in use and a counter of waiters behind one mutex, and one       *)
(* condition variable.                                                     *)
(*                                                                         *)
(* What runs between two points where the mutex is free is one step: a call *)
(* up to its return or its wait on the condition variable, a return from    *)
(* the wait up to the next wait or the return, a release.  The mutex itself *)
(* is therefore not a variable.  A thread that waits on the condition       *)
(* variable is "parked"; a notify makes it "notified", the timeout of       *)
(* wait_for makes it "expired", and in both cases it runs again only when   *)
(* it has the mutex back, which is a later step: any other thread may go    *)
(* first.  parking_lot's condition variable has no spurious wakeups, and its *)
(* mutex is not poisoned by a panic: a call that panics leaves the state as  *)
(* it is at that point.                                                    *)
(*                                                                         *)
(* Left out: total_queue_wait_ns and the durations (a deadline passes at    *)
(* any time), and stats(), which reads the state of one step.              *)
(***************************************************************************)
EXTENDS Naturals, FiniteSets

CONSTANTS Threads,   \* threads that call the limiter
          Cap,       \* BlockingLimiter.cap
          QueueCap,  \* BlockingLimiter.queue_cap
          MaxCalls   \* bound: calls of acquire and acquire_timeout made

ASSUME ThreadsFinite == IsFiniteSet(Threads)
ASSUME CapsAreNat == Cap \in Nat /\ QueueCap \in Nat
ASSUME MaxCallsIsNat == MaxCalls \in Nat

VARIABLES inflight, queued, total_acquired, total_rejected, \* LimiterState
          pc,        \* what each thread does
          timed,     \* threads whose wait is acquire_timeout's
          timeouts,  \* history: the rejections that were timeouts
          leaked     \* history: the calls that panicked in the queue

vars == <<inflight, queued, total_acquired, total_rejected, pc, timed, timeouts, leaked>>

States == {"idle", "parked", "notified", "expired", "holding"}

In(S) == {t \in Threads : pc[t] \in S}

Holders  == In({"holding"})
Parked   == In({"parked"})
Notified == In({"notified"})
Waiters  == In({"parked", "notified", "expired"})

Calls == total_acquired + total_rejected + queued

Init ==
  /\ inflight = 0 /\ queued = 0
  /\ total_acquired = 0 /\ total_rejected = 0
  /\ pc = [t \in Threads |-> "idle"]
  /\ timed = {}
  /\ timeouts = 0 /\ leaked = 0

-----------------------------------------------------------------------------
(***************************************************************************)
(* Calls.  The first three cases are common to acquire and acquire_timeout. *)
(***************************************************************************)

\* cap is zero, or there is neither a slot nor a place in the queue: EAGAIN.
RejectNow(t) ==
  /\ Cap = 0 \/ (inflight >= Cap /\ queued >= QueueCap)
  /\ total_rejected' = total_rejected + 1
  /\ UNCHANGED <<inflight, queued, total_acquired, pc, timed, timeouts, leaked>>

FastPath(t) ==
  /\ inflight < Cap
  /\ inflight' = inflight + 1
  /\ total_acquired' = total_acquired + 1
  /\ pc' = [pc EXCEPT ![t] = "holding"]
  /\ UNCHANGED <<queued, total_rejected, timed, timeouts, leaked>>

\* No slot, but a place in the queue: counts as queued and waits.
MustQueue == Cap # 0 /\ inflight >= Cap /\ queued < QueueCap

Enqueue(t) ==
  /\ MustQueue
  /\ queued' = queued + 1
  /\ pc' = [pc EXCEPT ![t] = "parked"]
  /\ UNCHANGED <<inflight, total_acquired, total_rejected, timeouts, leaked>>

\* Mutant: leaves the queue though it was never counted in.
ExpireAtOnceUncounted(t) ==
  /\ MustQueue
  /\ queued' = queued - 1
  /\ total_rejected' = total_rejected + 1
  /\ timeouts' = timeouts + 1
  /\ UNCHANGED <<inflight, total_acquired, pc, timed, leaked>>

\* acquire_timeout with no time left when it has queued: it leaves the queue
\* before it has released the mutex.
ExpireAtOnce(t) ==
  /\ MustQueue
  /\ total_rejected' = total_rejected + 1
  /\ timeouts' = timeouts + 1
  /\ UNCHANGED <<inflight, queued, total_acquired, pc, timed, leaked>>

\* acquire_timeout with a timeout past the end of Instant: start + timeout
\* panics, and the place it has just taken in the queue is never given back.
DeadlineOverflows(t) ==
  /\ MustQueue
  /\ queued' = queued + 1
  /\ leaked' = leaked + 1
  /\ UNCHANGED <<inflight, total_acquired, total_rejected, pc, timed, timeouts>>

MayCall(t) == pc[t] = "idle" /\ Calls < MaxCalls

Acquire(t) ==
  /\ MayCall(t)
  /\ \/ RejectNow(t)
     \/ FastPath(t)
     \/ Enqueue(t) /\ UNCHANGED timed

AcquireTimeout(t) ==
  /\ MayCall(t)
  /\ \/ RejectNow(t)
     \/ FastPath(t)
     \/ Enqueue(t) /\ timed' = timed \cup {t}
     \/ ExpireAtOnce(t)
     \/ DeadlineOverflows(t)

-----------------------------------------------------------------------------
(***************************************************************************)
(* A thread that left the condition variable runs with the mutex held.     *)
(***************************************************************************)

\* Mutant: a wakeup is taken for a slot.
TakeSlotUnchecked(t) ==
  /\ inflight' = inflight + 1
  /\ queued' = queued - 1
  /\ total_acquired' = total_acquired + 1
  /\ pc' = [pc EXCEPT ![t] = "holding"]
  /\ timed' = timed \ {t}
  /\ UNCHANGED <<total_rejected, timeouts, leaked>>

TakeSlot(t) ==
  /\ inflight < Cap
  /\ inflight' = inflight + 1
  /\ queued' = queued - 1
  /\ total_acquired' = total_acquired + 1
  /\ pc' = [pc EXCEPT ![t] = "holding"]
  /\ timed' = timed \ {t}
  /\ UNCHANGED <<total_rejected, timeouts, leaked>>

\* Somebody else took the slot: wait again.
WaitAgain(t) ==
  /\ inflight >= Cap
  /\ pc' = [pc EXCEPT ![t] = "parked"]
  /\ UNCHANGED <<inflight, queued, total_acquired, total_rejected, timed, timeouts, leaked>>

\* Mutant: the clock is looked at before the slot.
GiveUpUnchecked(t) ==
  /\ t \in timed
  /\ queued' = queued - 1
  /\ total_rejected' = total_rejected + 1
  /\ pc' = [pc EXCEPT ![t] = "idle"]
  /\ timed' = timed \ {t}
  /\ timeouts' = timeouts + 1
  /\ UNCHANGED <<inflight, total_acquired, leaked>>

\* Mutant: the place in the queue is not given back.
GiveUpKeepsPlace(t) ==
  /\ t \in timed
  /\ inflight >= Cap
  /\ total_rejected' = total_rejected + 1
  /\ pc' = [pc EXCEPT ![t] = "idle"]
  /\ timed' = timed \ {t}
  /\ timeouts' = timeouts + 1
  /\ UNCHANGED <<inflight, queued, total_acquired, leaked>>

\* The deadline has passed and there is no slot: EAGAIN.
GiveUp(t) ==
  /\ t \in timed
  /\ inflight >= Cap
  /\ queued' = queued - 1
  /\ total_rejected' = total_rejected + 1
  /\ pc' = [pc EXCEPT ![t] = "idle"]
  /\ timed' = timed \ {t}
  /\ timeouts' = timeouts + 1
  /\ UNCHANGED <<inflight, total_acquired, leaked>>

\* wait, or wait_for, returns because of a notify.  A thread of acquire_timeout
\* that finds no slot looks at the clock before it waits again.
ResumeNotified(t) ==
  /\ pc[t] = "notified"
  /\ TakeSlot(t) \/ WaitAgain(t) \/ GiveUp(t)

\* Mutant: the result of wait_for is ignored.
ResumeExpiredLoops(t) ==
  /\ pc[t] = "expired"
  /\ TakeSlot(t) \/ WaitAgain(t)

\* wait_for returns with timed_out(): the slot is looked at first.
ResumeExpired(t) ==
  /\ pc[t] = "expired"
  /\ TakeSlot(t) \/ GiveUp(t)

Resume(t) == ResumeNotified(t) \/ ResumeExpired(t)

-----------------------------------------------------------------------------
(***************************************************************************)
(* External: parking_lot::Condvar.                                         *)
(***************************************************************************)

\* The timeout of wait_for takes the thread off the condition variable.
TimeOut(t) ==
  /\ pc[t] = "parked" /\ t \in timed
  /\ pc' = [pc EXCEPT ![t] = "expired"]
  /\ UNCHANGED <<inflight, queued, total_acquired, total_rejected, timed, timeouts, leaked>>

\* One parked thread, any of them, leaves the condition variable; with no
\* parked thread nothing happens and nothing is remembered.
NotifyOne(pcNow) ==
  LET asleep == {u \in Threads : pcNow[u] = "parked"}
  IN  IF asleep = {} THEN pc' = pcNow
                     ELSE \E u \in asleep : pc' = [pcNow EXCEPT ![u] = "notified"]

\* Mutant: the slot is given back in silence.
ReleaseInSilence(t) ==
  /\ pc[t] = "holding"
  /\ inflight' = inflight - 1
  /\ pc' = [pc EXCEPT ![t] = "idle"]
  /\ UNCHANGED <<queued, total_acquired, total_rejected, timed, timeouts, leaked>>

\* LimiterGuard::drop.
Release(t) ==
  /\ pc[t] = "holding"
  /\ inflight' = inflight - 1
  /\ NotifyOne([pc EXCEPT ![t] = "idle"])
  /\ UNCHANGED <<queued, total_acquired, total_rejected, timed, timeouts, leaked>>

-----------------------------------------------------------------------------
\* All calls made and all returned: the only state where nothing need happen.
Done ==
  /\ Calls = MaxCalls
  /\ \A t \in Threads : pc[t] = "idle"
  /\ UNCHANGED vars

Next ==
  \/ \E t \in Threads :
       Acquire(t) \/ AcquireTimeout(t) \/ Resume(t) \/ TimeOut(t) \/ Release(t)
  \/ Done

SafeSpec == Init /\ [][Next]_vars

\* A thread that has left the condition variable gets the mutex, and a
\* timeout fires: what the scheduler and the clock give.  Nobody is assumed to
\* release a slot.
Fairness == \A t \in Threads : WF_vars(Resume(t)) /\ WF_vars(TimeOut(t))

Spec == SafeSpec /\ Fairness

\* Every operation ends, so every guard is dropped.
HoldersReturn == \A t \in Threads : WF_vars(Release(t))

-----------------------------------------------------------------------------
(***************************************************************************)
(* Properties.                                                             *)
(***************************************************************************)

\* The variables have their types.
TypeOK ==
  /\ inflight \in Nat /\ queued \in Nat
  /\ total_acquired \in Nat /\ total_rejected \in Nat
  /\ pc \in [Threads -> States]
  /\ timed \subseteq Threads
  /\ timeouts \in Nat /\ leaked \in Nat

\* The counters of LimiterState count threads: no path of acquire,
\* acquire_timeout or release counts a thread twice or forgets one, so the
\* subtractions never underflow, no slot is leaked, and the queue places that
\* serve nobody are those of the acquire_timeout calls that panicked.
CountersMatch ==
  /\ inflight = Cardinality(Holders)
  /\ queued = Cardinality(Waiters) + leaked
  /\ timed \subseteq Waiters

\* No more than cap threads are in the section the limiter protects and no
\* more than queue_cap wait for it, whatever the order in which notified,
\* expired and newly arrived threads get the mutex.
CapsRespected == Cardinality(Holders) <= Cap /\ Cardinality(Waiters) <= QueueCap

\* release notifies one thread and remembers nothing, a new arrival may take
\* the slot first and a timeout may race the notify: still, while a thread is
\* parked, every free slot has a notified thread on its way to it.
NoLostWakeup == Parked # {} => Cap <= inflight + Cardinality(Notified)

\* What LimiterStats says of queued, "number of operations waiting in the queue
\* for a slot".  A call of acquire_timeout that panics stays counted there.
QueuedAreWaiting == queued = Cardinality(Waiters)

\* The limiter implements AdmissionControl: it refuses only who it must, given
\* the places its panics have lost, and a slot does not stay free for ever
\* while somebody waits, though holders may hold their slots for ever.
AC == INSTANCE AdmissionControl WITH
        Callers <- Threads, admitted <- Holders, room <- Waiters, timed <- timed,
        granted <- total_acquired, refused <- total_rejected - timeouts,
        late <- timeouts, lost <- leaked

ImplementsAdmissionControl == AC!Spec

\* A thread in acquire_timeout returns even when no slot is ever released.
TimedCallReturns == \A t \in Threads : t \in timed ~> t \notin timed

\* When operations end, every waiting thread is admitted or gives up: a wakeup
\* that is spent on a thread that loses the slot strands nobody.  (The calls
\* are bounded by MaxCalls: new arrivals that kept taking the slots could
\* starve a waiting thread.)
WaiterLeaves ==
  HoldersReturn => \A t \in Threads : t \in Waiters ~> t \notin Waiters
=============================================================================
