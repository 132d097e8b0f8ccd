------------------------------ MODULE SimEngine ------------------------------
(***************************************************************************)
(* SimEngine::run_op of fusecraft-core/src/engine/mod.rs, run by several    *)
(* handler threads at once: the sequence number, the limiter of the         *)
(* operation's kind, sampling and the size tier, the bandwidth reservation, *)
(* the sleep, the body or the injected fault, the event, the metrics and    *)
(* the release of the slot.  A step ends wherever another thread can run in *)
(* between: after the fetch_add, after each critical section, before and    *)
(* after the sleep.                                                        *)
(*                                                                         *)
(* The limiters appear as what they promise, AdmissionControl: a thread     *)
(* holds a slot, waits for one, or is refused.  BlockingLimiter implements  *)
(* that.  Of a bandwidth limiter the engine sees the wait it returns (none, *)
(* finite, or Duration::MAX where the rate is tiny) and the bytes charged.  *)
(* The samplers are pure functions of the key, and the key contains seq:   *)
(* faulty, fixed at the start, is the set of sequence numbers whose draw    *)
(* makes a fault rule fire, where the effective profile has one; the rule    *)
(* fails with the errno of its configuration, which may be any, EAGAIN too. *)
(*                                                                         *)
(* Left out: durations and time stamps, and the order of the event log      *)
(* (events is a bag).                                                      *)
(***************************************************************************)
EXTENDS Integers, FiniteSetsExt, Bags

CONSTANTS Threads,   \* FUSE handler threads
          Ops,       \* FsOp: the kinds of operation
          DataOps,   \* FsOp::Read and FsOp::Write
          Policy,    \* OpPolicy of each op
          Contexts,  \* the OpContexts of the requests
          BodyErrnos,\* what the reply closure may return
          Waits,     \* what BandwidthLimiter::reserve may return
          NoCall,    \* a thread that runs no operation
          MaxOps     \* bound: operations started

ASSUME OpsAreFinite == IsFiniteSet(Ops) /\ DataOps \subseteq Ops
ASSUME ContextsOk ==
  \A c \in Contexts : c.op \in Ops /\ c.len \in Nat /\ c.requested_len \in Nat
\* Config::validate: a positive cap.
ASSUME PolicyValid ==
  \A o \in Ops : Policy[o].concurrency_cap \in Nat \ {0} /\ Policy[o].queue_cap \in Nat
ASSUME WaitsOk == Waits \subseteq {"zero", "finite", "max"}
ASSUME ThreadsFinite == IsFiniteSet(Threads)
ASSUME MaxOpsIsNat == MaxOps \in Nat

VARIABLES seq,       \* SimEngine.seq
          events,    \* what the EventSink was given, a bag
          metrics,   \* HistogramRecorder: count_ok and count_err of each op
          granted, refused,  \* total_acquired and total_rejected of each limiter
          charged,   \* bytes reserved from each bandwidth limiter
          pc,        \* where in run_op each thread is
          call,      \* the operation each thread runs
          held,      \* threads that own a LimiterGuard of each op's limiter
          faulty,    \* the sequence numbers at which fault rules fire
          returned,  \* history: operations that returned, and their result
          aborted    \* history: operations that panicked

limiters == <<granted, refused, held>>
history == <<returned, aborted>>
vars == <<seq, events, metrics, limiters, charged, pc, call, faulty, history>>

Tiers == {"base", "large"}
Ok == "none"          \* no errno
EAGAIN == "EAGAIN"

\* The errnos of the fault rules.
FaultErrnos == UNION {Policy[o][tier].faults : o \in Ops, tier \in Tiers}

Errnos == BodyErrnos \cup FaultErrnos \cup {Ok, EAGAIN}

\* The operation of a thread: its context, number, result so far and wait, and
\* whether the limiter gave it a guard.
Calls == [ctx : Contexts, seq : Nat, errno : Errnos, wait : {"zero", "finite", "max"},
          guard : BOOLEAN]

ASSUME NoCallIsNone == NoCall \notin Calls

OpsIn(S, o) == {t \in S : call[t] # NoCall /\ call[t].ctx.op = o}

Waiting(o) == OpsIn({t \in Threads : pc[t] = "queued"}, o)

Init ==
  /\ seq = 0
  /\ events = EmptyBag
  /\ metrics = [o \in Ops |-> [count_ok |-> 0, count_err |-> 0]]
  /\ granted = [o \in Ops |-> 0] /\ refused = [o \in Ops |-> 0]
  /\ charged = [o \in Ops |-> [tier \in Tiers |-> 0]]
  /\ pc = [t \in Threads |-> "idle"]
  /\ call = [t \in Threads |-> NoCall]
  /\ held = [o \in Ops |-> {}]
  /\ faulty \in SUBSET (0 .. MaxOps - 1)
  /\ returned = {} /\ aborted = {}

Go(t, from, to) == pc[t] = from /\ pc' = [pc EXCEPT ![t] = to]

-----------------------------------------------------------------------------
\* Mutant: the number is read and not advanced.
BeginRepeats(t, ctx) ==
  /\ seq < MaxOps
  /\ Go(t, "idle", "numbered")
  /\ call' = [call EXCEPT ![t] = [ctx |-> ctx, seq |-> seq, errno |-> Ok, wait |-> "zero",
                                   guard |-> FALSE]]
  /\ UNCHANGED <<seq, events, metrics, limiters, charged, faulty, history>>

\* A handler calls run_op, which takes the next sequence number.
Begin(t, ctx) ==
  /\ seq < MaxOps
  /\ Go(t, "idle", "numbered")
  /\ call' = [call EXCEPT ![t] = [ctx |-> ctx, seq |-> seq, errno |-> Ok, wait |-> "zero",
                                   guard |-> FALSE]]
  /\ seq' = seq + 1
  /\ UNCHANGED <<events, metrics, limiters, charged, faulty, history>>

-----------------------------------------------------------------------------
(***************************************************************************)
(* The limiter of the operation's kind: acquire, in AdmissionControl's      *)
(* terms.                                                                  *)
(***************************************************************************)

\* Mutant: one limiter for all kinds of operation.
FullAcrossKinds(o) == Cardinality(UNION {held[p] : p \in Ops}) >= Policy[o].concurrency_cap

Full(o) == Cardinality(held[o]) >= Policy[o].concurrency_cap

QueueFull(o) == Cardinality(Waiting(o)) >= Policy[o].queue_cap

Grant(t) ==
  /\ granted' = [granted EXCEPT ![call[t].ctx.op] = @ + 1]
  /\ held' = [held EXCEPT ![call[t].ctx.op] = @ \cup {t}]
  /\ call' = [call EXCEPT ![t].guard = TRUE]
  /\ UNCHANGED <<refused, seq, events, metrics, charged, faulty, history>>

\* LimiterGuard::drop.
Release(t) == held' = [held EXCEPT ![call[t].ctx.op] = @ \ {t}]

AcquireFree(t) ==
  /\ Go(t, "numbered", "admitted")
  /\ ~Full(call[t].ctx.op)
  /\ Grant(t)

AcquireQueued(t) ==
  /\ Go(t, "numbered", "queued")
  /\ Full(call[t].ctx.op) /\ ~QueueFull(call[t].ctx.op)
  /\ UNCHANGED <<seq, events, metrics, limiters, charged, call, faulty, history>>

\* Mutant: the early return of a refused operation skips event and metrics.
AcquireRejectedUnlogged(t) ==
  /\ Go(t, "numbered", "recorded")
  /\ Full(call[t].ctx.op) /\ QueueFull(call[t].ctx.op)
  /\ refused' = [refused EXCEPT ![call[t].ctx.op] = @ + 1]
  /\ call' = [call EXCEPT ![t].errno = EAGAIN]
  /\ UNCHANGED <<seq, events, metrics, granted, held, charged, faulty, history>>

AcquireRejected(t) ==
  /\ Go(t, "numbered", "settled")
  /\ Full(call[t].ctx.op) /\ QueueFull(call[t].ctx.op)
  /\ refused' = [refused EXCEPT ![call[t].ctx.op] = @ + 1]
  /\ call' = [call EXCEPT ![t].errno = EAGAIN]
  /\ UNCHANGED <<seq, events, metrics, granted, held, charged, faulty, history>>

AcquireAfterWait(t) ==
  /\ Go(t, "queued", "admitted")
  /\ ~Full(call[t].ctx.op)
  /\ Grant(t)

-----------------------------------------------------------------------------
\* Mutant: the clamped length decides.
TierByLen(ctx) ==
  IF /\ ctx.op \in DataOps
     /\ \E threshold_bytes \in Policy[ctx.op].size_tier : ctx.len > threshold_bytes
  THEN "large" ELSE "base"

\* select_tier: only data ops have tiers, and the request as the caller made it
\* decides, not what is left of it after clamping at the end of the file.
Tier(ctx) ==
  IF /\ ctx.op \in DataOps
     /\ \E threshold_bytes \in Policy[ctx.op].size_tier : ctx.requested_len > threshold_bytes
  THEN "large" ELSE "base"

Profile(ctx) == Policy[ctx.op][Tier(ctx)]

\* Whether the operation reserves bandwidth; a reservation of no bytes is none.
Reserves(ctx) == ctx.op \in DataOps /\ Profile(ctx).bandwidth /\ ctx.len > 0

\* The addition of latency and wait overflows when the one is positive and the
\* other Duration::MAX.
Overflows(ctx, wait) == Profile(ctx).latency /\ wait = "max"

\* Mutant: the large tier is charged what exceeds its threshold.
ChargeAboveThreshold(ctx) ==
  charged' = [charged EXCEPT ![ctx.op][Tier(ctx)] =
                @ + (IF ~Reserves(ctx) THEN 0
                     ELSE IF Tier(ctx) = "base" THEN ctx.len
                     ELSE ctx.len - (CHOOSE threshold_bytes \in Policy[ctx.op].size_tier : TRUE))]

\* reserve, which every admitted data operation calls once.
Charge(ctx) ==
  charged' = [charged EXCEPT ![ctx.op][Tier(ctx)] = @ + (IF Reserves(ctx) THEN ctx.len ELSE 0)]

\* From the admission to the sleep: the samples, the reservation, the addition.
Sample(t) ==
  LET ctx == call[t].ctx
  IN  /\ Go(t, "admitted", "sleeping")
      /\ \E wait \in IF Reserves(ctx) THEN Waits ELSE {"zero"} :
           /\ ~Overflows(ctx, wait)
           /\ call' = [call EXCEPT ![t].wait = wait]
      /\ Charge(ctx)
      /\ UNCHANGED <<seq, events, metrics, limiters, faulty, history>>

\* The addition panics: run_op unwinds, which drops the guard and nothing else,
\* and the thread is gone.
Panic(t) ==
  LET ctx == call[t].ctx
  IN  /\ Go(t, "admitted", "dead")
      /\ Reserves(ctx)
      /\ \E wait \in Waits : Overflows(ctx, wait)
      /\ Charge(ctx)
      /\ Release(t)
      /\ aborted' = aborted \cup {[seq |-> call[t].seq, ctx |-> ctx]}
      /\ call' = [call EXCEPT ![t] = NoCall]
      /\ UNCHANGED <<seq, events, metrics, granted, refused, faulty, returned>>

\* A sleep of Duration::MAX does not end.
Asleep(t) == pc[t] = "sleeping" /\ call[t].wait = "max"

\* sample_fault: the errno of a rule of the effective profile, if one fires.
FaultOf(op) == IF op.seq \in faulty THEN Profile(op.ctx).faults ELSE {}

\* Mutant: the guard is dropped when the body has run.
ExecuteReleases(t) ==
  /\ Go(t, "sleeping", "settled")
  /\ ~Asleep(t)
  /\ \E errno \in IF FaultOf(call[t]) # {} THEN FaultOf(call[t]) ELSE BodyErrnos :
       call' = [call EXCEPT ![t].errno = errno]
  /\ Release(t)
  /\ UNCHANGED <<seq, events, metrics, granted, refused, charged, faulty, history>>

\* The sleep ends and the operation fails with its fault or runs its body.
Execute(t) ==
  /\ Go(t, "sleeping", "settled")
  /\ ~Asleep(t)
  /\ \E errno \in IF FaultOf(call[t]) # {} THEN FaultOf(call[t]) ELSE BodyErrnos :
       call' = [call EXCEPT ![t].errno = errno]
  /\ UNCHANGED <<seq, events, metrics, limiters, charged, faulty, history>>

-----------------------------------------------------------------------------
\* One path for refused and admitted operations: the event, then the metrics,
\* then the return, which drops the guard if there is one.
EventOf(op) == [seq |-> op.seq, op |-> op.ctx.op, len |-> op.ctx.len, errno |-> op.errno]

Emit(t) ==
  /\ Go(t, "settled", "emitted")
  /\ events' = events (+) SetToBag({EventOf(call[t])})
  /\ UNCHANGED <<seq, metrics, limiters, charged, call, faulty, history>>

Outcome(errno) == IF errno = Ok THEN "count_ok" ELSE "count_err"

\* Mutant: a refused operation is recorded as a success.
RecordRefusedAsOk(t) ==
  /\ Go(t, "emitted", "recorded")
  /\ metrics' = [metrics EXCEPT ![call[t].ctx.op]
                   [IF ~call[t].guard THEN "count_ok" ELSE Outcome(call[t].errno)] = @ + 1]
  /\ UNCHANGED <<seq, events, limiters, charged, call, faulty, history>>

Record(t) ==
  /\ Go(t, "emitted", "recorded")
  /\ metrics' = [metrics EXCEPT ![call[t].ctx.op][Outcome(call[t].errno)] = @ + 1]
  /\ UNCHANGED <<seq, events, limiters, charged, call, faulty, history>>

\* Mutant: the guard is forgotten where the operation failed.
ReturnLeaksOnError(t) ==
  /\ Go(t, "recorded", "idle")
  /\ IF call[t].errno = Ok THEN Release(t) ELSE UNCHANGED held
  /\ returned' = returned \cup
       {[seq |-> call[t].seq, ctx |-> call[t].ctx, errno |-> call[t].errno,
         guard |-> call[t].guard]}
  /\ call' = [call EXCEPT ![t] = NoCall]
  /\ UNCHANGED <<seq, events, metrics, granted, refused, charged, faulty, aborted>>

Return(t) ==
  /\ Go(t, "recorded", "idle")
  /\ Release(t)
  /\ returned' = returned \cup
       {[seq |-> call[t].seq, ctx |-> call[t].ctx, errno |-> call[t].errno,
         guard |-> call[t].guard]}
  /\ call' = [call EXCEPT ![t] = NoCall]
  /\ UNCHANGED <<seq, events, metrics, granted, refused, charged, faulty, aborted>>

-----------------------------------------------------------------------------
\* The states where nothing need happen: no more operations, but for threads
\* that panicked, that sleep for Duration::MAX, or that wait behind such a one.
Done ==
  /\ \A t \in Threads :
       \/ pc[t] = "dead"
       \/ pc[t] = "idle" /\ seq = MaxOps
       \/ Asleep(t)
       \/ pc[t] = "queued" /\ Full(call[t].ctx.op)
  /\ UNCHANGED vars

Step(t) ==
  \/ AcquireFree(t) \/ AcquireQueued(t) \/ AcquireRejected(t)
  \/ Sample(t) \/ Panic(t) \/ Execute(t)
  \/ Emit(t) \/ Record(t) \/ Return(t)

Next ==
  \/ \E t \in Threads :
       \/ \E ctx \in Contexts : Begin(t, ctx)
       \/ Step(t)
       \/ AcquireAfterWait(t)
  \/ Done

SafeSpec == Init /\ [][Next]_vars

\* Threads that can run do run, and a limiter admits somebody when it can
\* (AdmissionControl's own fairness): it owes nothing to a particular waiter.
Fairness ==
  /\ \A t \in Threads : WF_vars(Step(t))
  /\ \A o \in Ops : WF_vars(\E t \in Threads : t \in Waiting(o) /\ AcquireAfterWait(t))

Spec == SafeSpec /\ Fairness

-----------------------------------------------------------------------------
(***************************************************************************)
(* Properties.                                                             *)
(***************************************************************************)

Places == {"idle", "numbered", "queued", "admitted", "sleeping", "settled",
           "emitted", "recorded", "dead"}

\* The variables have their types, and a thread has an operation exactly
\* between the start and the end of run_op.
TypeOK ==
  /\ seq \in 0 .. MaxOps
  /\ IsABag(events)
  /\ metrics \in [Ops -> [count_ok : Nat, count_err : Nat]]
  /\ granted \in [Ops -> Nat] /\ refused \in [Ops -> Nat]
  /\ charged \in [Ops -> [Tiers -> Nat]]
  /\ pc \in [Threads -> Places]
  /\ \A t \in Threads : call[t] = NoCall <=> pc[t] \in {"idle", "dead"}
  /\ held \in [Ops -> SUBSET Threads]

Running == {call[t] : t \in {u \in Threads : call[u] # NoCall}}

\* Every sequence number that was handed out belongs to one operation, which
\* is running, has returned or has panicked: no two threads share a number and
\* none is skipped.
NumbersAreUnique ==
  /\ \A n \in 0 .. seq - 1 :
       Cardinality({t \in Threads : call[t] # NoCall /\ call[t].seq = n})
         + Cardinality({r \in returned : r.seq = n})
         + Cardinality({r \in aborted : r.seq = n}) = 1
  /\ \A r \in Running \cup returned \cup aborted : r.seq < seq

EventCount(S) == MapThenSumSet(LAMBDA e : events[e], S)

Logged(o) == {e \in BagToSet(events) : e.op = o}

\* An operation that has returned has exactly one event, and the event says
\* what the caller was told: refused, faulted, failed or done.  Nothing is in
\* the log for an operation that has not got that far.
OneEventPerReturn ==
  /\ \A r \in returned :
       /\ {e \in BagToSet(events) : e.seq = r.seq} = {EventOf(r)}
       /\ events[EventOf(r)] = 1
  /\ \A e \in BagToSet(events) :
       \/ \E r \in returned : e = EventOf(r)
       \/ \E t \in Threads : pc[t] \in {"emitted", "recorded"} /\ e = EventOf(call[t])

\* The metrics agree with the event log, operation by operation and outcome by
\* outcome, but for the threads between their event and their sample.
MetricsMatchLog ==
  \A o \in Ops : \A outcome \in {"count_ok", "count_err"} :
    EventCount({e \in Logged(o) : Outcome(e.errno) = outcome}) =
      metrics[o][outcome] +
      Cardinality({t \in OpsIn(Threads, o) :
                     pc[t] = "emitted" /\ Outcome(call[t].errno) = outcome})

\* The number n belongs to an operation that the limiter admitted.
Admitted(n) == \E r \in Running \cup returned : r.guard /\ r.seq = n

\* The log lags behind the limiter by no more operations than the cap: a slot
\* is given back only when its operation is in the log.  Which events are of
\* admitted operations does not show in the log: an injected fault may have the
\* errno of a refusal.
LogLagBounded ==
  \A o \in Ops :
    granted[o] - EventCount({e \in Logged(o) : Admitted(e.seq)})
               - Cardinality({r \in aborted : r.ctx.op = o})
      <= Policy[o].concurrency_cap

\* The bytes charged to a bandwidth limiter are those of the operations that
\* were admitted and whose request belongs to its tier, each charged once, the
\* clamped, the faulted and the panicked ones too and the refused ones not.
ChargedOnce ==
  \A o \in DataOps : \A tier \in Tiers :
    LET past == {call[t] : t \in {u \in held[o] : pc[u] # "admitted"}}
                \cup {r \in returned : r.guard} \cup aborted
        here == {r \in past : /\ r.ctx.op = o
                              /\ (tier = "large") <=>
                                   \E threshold_bytes \in Policy[o].size_tier :
                                     r.ctx.requested_len > threshold_bytes}
        bytes == [r \in here |-> r.ctx.len]
    IN  charged[o][tier] = IF Policy[o][tier].bandwidth
                           THEN MapThenSumSet(LAMBDA r : bytes[r], here) ELSE 0

\* Each operation uses the limiter of its kind as AdmissionControl has it: no
\* kind of operation is refused or held up for another, a slot is given back
\* once, and it covers the operation from its admission to its return or its
\* panic: it is not given back earlier, and never kept longer.
AC(o) == INSTANCE AdmissionControl WITH
           Callers <- Threads,
           Cap <- Policy[o].concurrency_cap, QueueCap <- Policy[o].queue_cap,
           admitted <- held[o], room <- Waiting(o), timed <- {},
           granted <- granted[o], refused <- refused[o], late <- 0, lost <- 0

LimitersRespected ==
  [][\A o \in Ops :
       /\ AC(o)!Next \/ UNCHANGED <<held[o], Waiting(o), granted[o], refused[o]>>
       /\ \A t \in held[o] : t \in held'[o] <=> call'[t] # NoCall]_vars

\* Every operation returns, waiting, refused or faulted, and frees its thread,
\* where the bandwidth limiter tells finite waits.
EveryOpReturns == \A t \in Threads : pc[t] # "idle" ~> pc[t] = "idle"

-----------------------------------------------------------------------------
(***************************************************************************)
(* What the documents say and the code does not do.                        *)
(***************************************************************************)

\* docs/architecture.md: every op produces exactly one event,
\* "unconditionally".  An operation that panics in the addition of latency and
\* wait produces none.
EventUnconditional == \A r \in aborted : \E e \in BagToSet(events) : e.seq = r.seq

\* README.md: "Every decision is a pure function of (seed, op, ino, offset, len,
\* seq)", so logs are identical across runs: what an event reports is what the
\* sampler decided for its number, or what the body returned.  A refusal by
\* the limiter depends on the other threads.
DecisionsAreSampled ==
  \A r \in returned : r.errno \in IF FaultOf(r) # {} THEN FaultOf(r) ELSE BodyErrnos
=============================================================================
