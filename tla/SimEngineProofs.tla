--------------------------- MODULE SimEngineProofs ---------------------------
(***************************************************************************)
(* The safety properties of SimEngine for every number of threads and      *)
(* operations, every policy and every set of contexts.                     *)
(*                                                                         *)
(* The inductive invariant has one part for each thing that run_op changes *)
(* step by step and without a lock around it: who holds a slot (Slots),    *)
(* who owns a number (Owners), what is in the log (Log), what the counters *)
(* count (Counted), which granted calls are not in the log yet (Lag) and   *)
(* what was charged (Billed).  Each part relates the shared state to the   *)
(* places of all threads, so that the step of one thread is seen to move   *)
(* exactly its own share.                                                  *)
(***************************************************************************)
EXTENDS SimEngine, SumTheorems

\* The results of calls, and the calls that panicked.
Results == [seq : Nat, ctx : Contexts, errno : Errnos, guard : BOOLEAN]
Aborts == [seq : Nat, ctx : Contexts]

\* A call has a guard from its admission on.
Guards ==
  \A t \in Threads : /\ pc[t] \in {"numbered", "queued"} => ~call[t].guard
                     /\ pc[t] \in {"admitted", "sleeping"} => call[t].guard

\* The values of the variables that TypeOK leaves open.
Typed ==
  /\ TypeOK /\ Guards
  /\ call \in [Threads -> Calls \cup {NoCall}]
  /\ returned \subseteq Results /\ IsFiniteSet(returned)
  /\ aborted \subseteq Aborts /\ IsFiniteSet(aborted)

\* From the admission to the return.
InSlot(t) ==
  \/ pc[t] \in {"admitted", "sleeping"}
  \/ pc[t] \in {"settled", "emitted", "recorded"} /\ call[t].guard

\* The slots of an operation are held by the calls that were admitted and have not
\* returned, and there are no more of them than the cap.
Slots ==
  \A o \in Ops :
    /\ held[o] = {t \in Threads : InSlot(t) /\ call[t].ctx.op = o}
    /\ Cardinality(held[o]) <= Policy[o].concurrency_cap

\* Each number that was handed out has one owner.
Owners ==
  /\ \A t \in Threads : call[t] # NoCall => call[t].seq < seq
  /\ \A r \in returned \cup aborted : r.seq < seq
  /\ \A t, u \in Threads :
       call[t] # NoCall /\ call[u] # NoCall /\ call[t].seq = call[u].seq => t = u
  /\ \A t \in Threads, r \in returned \cup aborted : call[t] # NoCall => call[t].seq # r.seq
  /\ \A r, s \in returned : r.seq = s.seq => r = s
  /\ \A r, s \in aborted : r.seq = s.seq => r = s
  /\ \A r \in returned, s \in aborted : r.seq # s.seq
  /\ \A n \in 0 .. seq - 1 :
       \/ \E t \in Threads : call[t] # NoCall /\ call[t].seq = n
       \/ \E r \in returned \cup aborted : r.seq = n

\* The threads whose event is in the log and that have not returned.
Emitted == {t \in Threads : pc[t] \in {"emitted", "recorded"}}

\* The log has one event for each returned call and each call that has emitted.
Log ==
  /\ DOMAIN events = {EventOf(r) : r \in returned} \cup {EventOf(call[t]) : t \in Emitted}
  /\ \A e \in DOMAIN events : events[e] = 1
  /\ IsFiniteSet(DOMAIN events)

\* The granted calls whose event is not in the log yet, and the events of granted
\* calls: together with the aborted calls they are all that was granted.
Lagging(o) == {t \in held[o] : pc[t] \in {"admitted", "sleeping", "settled"}}

Served(o) == {e \in DOMAIN events : e.op = o /\ Admitted(e.seq)}

Lag ==
  \A o \in Ops :
    granted[o] = Cardinality(Served(o)) + Cardinality({r \in aborted : r.ctx.op = o})
                   + Cardinality(Lagging(o))

-----------------------------------------------------------------------------
(***************************************************************************)
(* Types.                                                                  *)
(***************************************************************************)

\* A thread inside run_op has a call with the types of one.
LEMMA CallOfRunning ==
  ASSUME Typed, NEW t \in Threads, pc[t] \notin {"idle", "dead"}
  PROVE  /\ call[t] \in Calls /\ call[t] # NoCall
         /\ call[t].ctx \in Contexts /\ call[t].seq \in Nat
         /\ call[t].errno \in Errnos /\ call[t].guard \in BOOLEAN
         /\ call[t].wait \in {"zero", "finite", "max"}
         /\ call[t].ctx.op \in Ops /\ call[t].ctx.len \in Nat
         /\ call[t].ctx.requested_len \in Nat
BY ContextsOk DEF Typed, TypeOK, Calls

\* At the start nothing runs.
LEMMA InitTyped == Init => Typed
<1> SUFFICES ASSUME Init PROVE Typed
  OBVIOUS
<1>1. IsABag(events)
  BY DEF Init, IsABag, EmptyBag, SetToBag
<1>2. TypeOK
  BY <1>1, MaxOpsIsNat DEF Init, TypeOK, Places, Tiers
<1>3. IsFiniteSet(returned) /\ IsFiniteSet(aborted)
  BY FS_EmptySet DEF Init
<1> QED BY <1>2, <1>3 DEF Init, Typed, Guards

\* A new call takes the next number.
LEMMA BeginTyped ==
  ASSUME Typed, NEW t \in Threads, NEW ctx \in Contexts, Begin(t, ctx) PROVE Typed'
<1> DEFINE op == [ctx |-> ctx, seq |-> seq, errno |-> Ok, wait |-> "zero",
                  guard |-> FALSE]
<1>1. op \in Calls
  BY MaxOpsIsNat DEF Typed, TypeOK, Calls, Errnos
<1>2. op # NoCall /\ ~op.guard
  BY <1>1, NoCallIsNone
<1>3. /\ call' = [call EXCEPT ![t] = op] /\ pc' = [pc EXCEPT ![t] = "numbered"]
      /\ seq' = seq + 1 /\ seq < MaxOps
      /\ UNCHANGED <<events, metrics, limiters, charged, faulty, history>>
  BY DEF Begin, Go
<1> HIDE DEF op
<1>4. TypeOK'
  BY <1>1, <1>2, <1>3, MaxOpsIsNat DEF Typed, TypeOK, limiters, Places
<1>5. Guards'
  BY <1>2, <1>3 DEF Typed, TypeOK, Guards
<1> QED BY <1>1, <1>3, <1>4, <1>5 DEF Typed, history

\* The limiter admits, queues or refuses; nothing else changes type.
LEMMA AcquireTyped ==
  ASSUME Typed, NEW t \in Threads,
         AcquireFree(t) \/ AcquireQueued(t) \/ AcquireRejected(t) \/ AcquireAfterWait(t)
  PROVE  Typed'
<1> DEFINE o == call[t].ctx.op
<1>1. call[t] \in Calls /\ call[t] # NoCall /\ o \in Ops
  BY CallOfRunning DEF AcquireFree, AcquireQueued, AcquireRejected, AcquireAfterWait, Go
<1>2. ASSUME AcquireFree(t) \/ AcquireAfterWait(t) PROVE Typed'
  <2> DEFINE op == [call[t] EXCEPT !.guard = TRUE]
  <2> HIDE DEF o
  <2>1. /\ granted' = [granted EXCEPT ![o] = @ + 1]
        /\ held' = [held EXCEPT ![o] = @ \cup {t}]
        /\ pc' = [pc EXCEPT ![t] = "admitted"] /\ pc[t] \notin {"idle", "dead"}
        /\ call' = [call EXCEPT ![t] = op]
        /\ UNCHANGED <<refused, seq, events, metrics, charged, faulty, history>>
    BY <1>2 DEF AcquireFree, AcquireAfterWait, Grant, Go, o
  <2>2. op \in Calls /\ op # NoCall /\ op.guard
    BY <1>1, NoCallIsNone DEF Calls
  <2> HIDE DEF op
  <2>3. TypeOK'
    BY <1>1, <2>1, <2>2 DEF Typed, TypeOK, Guards, Places
  <2> QED BY <2>1, <2>2, <2>3 DEF Typed, TypeOK, Guards, history
<1>3. ASSUME AcquireQueued(t) PROVE Typed'
  BY <1>1, <1>3 DEF AcquireQueued, Go, Typed, TypeOK, Places, limiters, history, Guards
<1>4. ASSUME AcquireRejected(t) PROVE Typed'
  <2> DEFINE op == [call[t] EXCEPT !.errno = EAGAIN]
  <2>1. op \in Calls /\ op # NoCall
    BY <1>1, NoCallIsNone DEF Calls, Errnos
  <2>2. /\ call' = [call EXCEPT ![t] = op]
        /\ refused' = [refused EXCEPT ![o] = @ + 1]
        /\ pc' = [pc EXCEPT ![t] = "settled"]
        /\ UNCHANGED <<seq, events, metrics, granted, held, charged, faulty, history>>
    BY <1>4 DEF AcquireRejected, Go
  <2> HIDE DEF op, o
  <2> QED BY <1>1, <2>1, <2>2 DEF Typed, TypeOK, Guards, Places, history
<1> QED BY <1>2, <1>3, <1>4

\* Sampling charges the bytes of the request and sets the wait.
LEMMA SampleTyped == ASSUME Typed, NEW t \in Threads, Sample(t) PROVE Typed'
<1> DEFINE ctx == call[t].ctx
<1>1. call[t] \in Calls /\ ctx.op \in Ops /\ ctx.len \in Nat /\ Tier(ctx) \in Tiers
  BY CallOfRunning DEF Sample, Go, Tier, Tiers
<1>2. PICK wait \in {"zero", "finite", "max"} : call' = [call EXCEPT ![t].wait = wait]
  BY WaitsOk DEF Sample
<1> DEFINE op == [call[t] EXCEPT !.wait = wait]
<1>3. op \in Calls /\ op # NoCall /\ call' = [call EXCEPT ![t] = op] /\ op.guard
  BY <1>1, <1>2, NoCallIsNone DEF Calls, Sample, Go, Typed, Guards
<1>4. charged' \in [Ops -> [Tiers -> Nat]]
  <2> DEFINE tier == Tier(ctx)
             o == ctx.op
             n == IF Reserves(ctx) THEN ctx.len ELSE 0
  <2>1. n \in Nat
    BY <1>1
  <2>2. charged' = [charged EXCEPT ![o][tier] = @ + n]
    BY DEF Sample, Charge
  <2> HIDE DEF o, n, tier
  <2> QED BY <1>1, <2>1, <2>2 DEF Typed, TypeOK, o, tier
<1>5. /\ pc' = [pc EXCEPT ![t] = "sleeping"]
      /\ UNCHANGED <<seq, events, metrics, limiters, faulty, history>>
  BY DEF Sample, Go
<1> HIDE DEF op
<1> QED BY <1>3, <1>4, <1>5 DEF Typed, TypeOK, Guards, Places, limiters, history

\* An addition of waits that overflows panics: the thread ends and its slot is free.
LEMMA PanicTyped == ASSUME Typed, NEW t \in Threads, Panic(t) PROVE Typed'
<1> DEFINE ctx == call[t].ctx
           r == [seq |-> call[t].seq, ctx |-> ctx]
<1>1. /\ ctx \in Contexts /\ ctx.op \in Ops /\ ctx.len \in Nat /\ Tier(ctx) \in Tiers
      /\ r \in Aborts
  BY CallOfRunning DEF Panic, Go, Tier, Tiers, Aborts
<1>2. charged' \in [Ops -> [Tiers -> Nat]]
  <2> DEFINE tier == Tier(ctx)
             o == ctx.op
             n == IF Reserves(ctx) THEN ctx.len ELSE 0
  <2>1. n \in Nat
    BY <1>1
  <2>2. charged' = [charged EXCEPT ![o][tier] = @ + n]
    BY DEF Panic, Charge
  <2> HIDE DEF o, n, tier
  <2> QED BY <1>1, <2>1, <2>2 DEF Typed, TypeOK, o, tier
<1>3. held' \in [Ops -> SUBSET Threads]
  BY <1>1 DEF Typed, TypeOK, Panic, Release
<1>4. /\ pc' = [pc EXCEPT ![t] = "dead"] /\ call' = [call EXCEPT ![t] = NoCall]
      /\ aborted' = aborted \cup {r}
      /\ UNCHANGED <<seq, events, metrics, granted, refused, faulty, returned>>
  BY DEF Panic, Go
<1>5. aborted' \subseteq Aborts /\ IsFiniteSet(aborted')
  <2> HIDE DEF r
  <2> QED BY <1>1, <1>4, FS_AddElement DEF Typed
<1> HIDE DEF r
<1> QED BY <1>2, <1>3, <1>4, <1>5 DEF Typed, TypeOK, Guards, Places

\* Fault injection or the closure decides the errno and nothing else of the call.
LEMMA ExecuteSettles ==
  ASSUME Typed, NEW t \in Threads, Execute(t)
  PROVE  /\ \E errno \in Errnos : call' = [call EXCEPT ![t].errno = errno]
         /\ pc[t] = "sleeping" /\ pc'[t] = "settled" /\ call[t] \in Calls
         /\ call'[t].ctx = call[t].ctx /\ call'[t].seq = call[t].seq
         /\ call[t].guard /\ call'[t].guard
<1>1. call[t] \in Calls /\ call[t].ctx.op \in Ops /\ Tier(call[t].ctx) \in Tiers
  BY CallOfRunning DEF Execute, Go, Tier, Tiers
<1>2. FaultOf(call[t]) \subseteq Errnos
  BY <1>1 DEF FaultOf, Profile, Errnos, FaultErrnos
<1>3. PICK errno \in Errnos : call' = [call EXCEPT ![t].errno = errno]
  BY <1>2 DEF Execute, Errnos
<1>4. pc[t] = "sleeping" /\ pc'[t] = "settled" /\ call[t].guard
  BY DEF Execute, Go, Typed, TypeOK, Guards
<1> QED BY <1>1, <1>3, <1>4 DEF Typed, Calls

\* Fault injection or the closure settles the result.
LEMMA ExecuteTyped == ASSUME Typed, NEW t \in Threads, Execute(t) PROVE Typed'
<1>1. call[t] \in Calls
  BY CallOfRunning DEF Execute, Go
<1>2. PICK errno \in Errnos : call' = [call EXCEPT ![t].errno = errno]
  BY ExecuteSettles
<1> DEFINE op == [call[t] EXCEPT !.errno = errno]
<1>3. op \in Calls /\ op # NoCall /\ call' = [call EXCEPT ![t] = op]
  BY <1>1, <1>2, NoCallIsNone DEF Calls
<1>4. /\ pc' = [pc EXCEPT ![t] = "settled"]
      /\ UNCHANGED <<seq, events, metrics, limiters, charged, faulty, history>>
  BY DEF Execute, Go
<1> HIDE DEF op
<1> QED BY <1>3, <1>4 DEF Typed, TypeOK, Guards, Places, limiters, history

\* Adding an event to the log raises its own count only.
LEMMA AddToBag ==
  ASSUME NEW B, IsABag(B), NEW e
  PROVE  /\ IsABag(B (+) SetToBag({e}))
         /\ DOMAIN (B (+) SetToBag({e})) = DOMAIN B \cup {e}
         /\ \A x \in DOMAIN B : x # e => (B (+) SetToBag({e}))[x] = B[x]
         /\ e \notin DOMAIN B => (B (+) SetToBag({e}))[e] = 1
BY DEF IsABag, SetToBag, (+)

\* emit appends one event.
LEMMA EmitTyped == ASSUME Typed, NEW t \in Threads, Emit(t) PROVE Typed'
<1>1. IsABag(events')
  BY AddToBag DEF Emit, Typed, TypeOK
<1>2. call[t] # NoCall
  BY CallOfRunning DEF Emit, Go
<1>3. /\ pc' = [pc EXCEPT ![t] = "emitted"]
      /\ UNCHANGED <<seq, metrics, limiters, charged, call, faulty, history>>
  BY DEF Emit, Go
<1> QED BY <1>1, <1>2, <1>3 DEF Typed, TypeOK, Guards, Places, limiters, history

\* record counts the outcome of the call.
LEMMA RecordTyped == ASSUME Typed, NEW t \in Threads, Record(t) PROVE Typed'
<1> DEFINE o == call[t].ctx.op
           k == Outcome(call[t].errno)
<1>1. call[t] # NoCall /\ o \in Ops /\ k \in {"count_ok", "count_err"}
  BY CallOfRunning DEF Record, Go, Outcome
<1>2. /\ pc' = [pc EXCEPT ![t] = "recorded"]
      /\ metrics' = [metrics EXCEPT ![o][k] = @ + 1]
      /\ UNCHANGED <<seq, events, limiters, charged, call, faulty, history>>
  BY DEF Record, Go
<1> HIDE DEF o, k
<1>3. metrics' \in [Ops -> [count_ok : Nat, count_err : Nat]]
  BY <1>1, <1>2 DEF Typed, TypeOK
<1> QED BY <1>1, <1>2, <1>3 DEF Typed, TypeOK, Guards, Places, limiters, history

\* The return drops the permit and hands the result to the caller.
LEMMA ReturnTyped == ASSUME Typed, NEW t \in Threads, Return(t) PROVE Typed'
<1> DEFINE r == [seq |-> call[t].seq, ctx |-> call[t].ctx, errno |-> call[t].errno,
                 guard |-> call[t].guard]
<1>1. call[t].ctx.op \in Ops /\ r \in Results
  BY CallOfRunning DEF Return, Go, Results
<1>2. held' \in [Ops -> SUBSET Threads]
  BY <1>1 DEF Typed, TypeOK, Return, Release
<1>3. /\ pc' = [pc EXCEPT ![t] = "idle"] /\ call' = [call EXCEPT ![t] = NoCall]
      /\ returned' = returned \cup {r}
      /\ UNCHANGED <<seq, events, metrics, granted, refused, charged, faulty, aborted>>
  BY DEF Return, Go
<1> HIDE DEF r
<1>4. returned' \subseteq Results /\ IsFiniteSet(returned')
  BY <1>1, <1>3, FS_AddElement DEF Typed
<1> QED BY <1>2, <1>3, <1>4 DEF Typed, TypeOK, Guards, Places

\* Every step keeps the types.
LEMMA NextTyped == Typed /\ [Next]_vars => Typed'
<1> SUFFICES ASSUME Typed, [Next]_vars PROVE Typed'
  OBVIOUS
<1>1. ASSUME NEW t \in Threads, NEW ctx \in Contexts, Begin(t, ctx) PROVE Typed'
  BY <1>1, BeginTyped
<1>2. ASSUME NEW t \in Threads, Step(t) \/ AcquireAfterWait(t) PROVE Typed'
  BY <1>2, AcquireTyped, SampleTyped, PanicTyped, ExecuteTyped, EmitTyped, RecordTyped,
     ReturnTyped DEF Step
<1>3. ASSUME UNCHANGED vars PROVE Typed'
  BY <1>3 DEF vars, limiters, history, Typed, TypeOK, Guards
<1> QED BY <1>1, <1>2, <1>3 DEF Next, Done

\* The variables of the engine have their types in every reachable state.
THEOREM TypesCorrect == SafeSpec => []TypeOK
<1>1. Typed => TypeOK
  BY DEF Typed
<1> QED BY <1>1, InitTyped, NextTyped, PTL DEF SafeSpec

-----------------------------------------------------------------------------
(***************************************************************************)
(* Slots.                                                                  *)
(***************************************************************************)

\* The step of a thread leaves the others where they are.
Moves(t) ==
  /\ pc' \in [Threads -> Places] /\ DOMAIN call' = Threads
  /\ \A u \in Threads \ {t} : pc'[u] = pc[u] /\ call'[u] = call[u]

\* A step of one thread leaves the place and the call of the others alone.
LEMMA StepMoves ==
  ASSUME Typed, NEW t \in Threads,
         (\E ctx \in Contexts : Begin(t, ctx)) \/ Step(t) \/ AcquireAfterWait(t)
  PROVE  Moves(t)
<1>1. Typed'
  BY NextTyped DEF Next
<1>2. PICK s \in Places : pc' = [pc EXCEPT ![t] = s]
  BY DEF Begin, Step, AcquireFree, AcquireQueued, AcquireRejected, AcquireAfterWait, Sample,
     Panic, Execute, Emit, Record, Return, Go, Places
<1>3. \A u \in Threads \ {t} : call'[u] = call[u]
  <2> USE DEF Typed
  <2>1. ASSUME UNCHANGED call PROVE \A u \in Threads \ {t} : call'[u] = call[u]
    BY <2>1
  <2>2. ASSUME NEW c, call' = [call EXCEPT ![t] = c]
        PROVE  \A u \in Threads \ {t} : call'[u] = call[u]
    BY <2>2
  <2>3. CASE \E ctx \in Contexts : Begin(t, ctx)
    BY <2>2, <2>3 DEF Begin
  <2>4. CASE AcquireQueued(t) \/ Emit(t) \/ Record(t)
    BY <2>1, <2>4 DEF AcquireQueued, Emit, Record
  <2>5. CASE AcquireFree(t) \/ AcquireAfterWait(t) \/ AcquireRejected(t) \/ Sample(t) \/ Execute(t)
    BY <2>2, <2>5 DEF AcquireFree, AcquireAfterWait, Grant, AcquireRejected, Sample, Execute
  <2>6. CASE Panic(t) \/ Return(t)
    BY <2>2, <2>6 DEF Panic, Return
  <2> QED BY <2>3, <2>4, <2>5, <2>6 DEF Step
<1> QED BY <1>1, <1>2, <1>3 DEF Typed, TypeOK, Moves

\* The count of a finite set and one element more.
LEMMA CountAdd ==
  ASSUME NEW S, IsFiniteSet(S), NEW x
  PROVE  /\ IsFiniteSet(S \cup {x}) /\ Cardinality(S) \in Nat
         /\ Cardinality(S \cup {x}) \in Nat
         /\ x \in S => Cardinality(S \cup {x}) = Cardinality(S)
         /\ x \notin S => Cardinality(S \cup {x}) = Cardinality(S) + 1
BY FS_AddElement, FS_CardinalityType

\* The count of a finite set and one element less.
LEMMA CountRemove ==
  ASSUME NEW S, IsFiniteSet(S), NEW x
  PROVE  /\ IsFiniteSet(S \ {x}) /\ Cardinality(S) \in Nat
         /\ Cardinality(S \ {x}) \in Nat
         /\ x \notin S => Cardinality(S \ {x}) = Cardinality(S)
         /\ x \in S => Cardinality(S \ {x}) = Cardinality(S) - 1
         /\ Cardinality(S \ {x}) <= Cardinality(S)
<1>1. /\ IsFiniteSet(S \ {x})
      /\ Cardinality(S \ {x}) = IF x \in S THEN Cardinality(S) - 1 ELSE Cardinality(S)
  BY FS_RemoveElement, Zenon
<1>2. Cardinality(S) \in Nat /\ Cardinality(S \ {x}) \in Nat
  BY <1>1, FS_CardinalityType, Zenon
<1> QED
  BY <1>1, <1>2

\* At the start no slot is taken.
LEMMA InitSlots == Init => Slots
<1> SUFFICES ASSUME Init, NEW o \in Ops
             PROVE  /\ held[o] = {t \in Threads : InSlot(t) /\ call[t].ctx.op = o}
                    /\ Cardinality(held[o]) <= Policy[o].concurrency_cap
  BY DEF Slots
<1>1. held[o] = {} /\ Cardinality({}) = 0
  BY FS_EmptySet DEF Init
<1>2. \A t \in Threads : ~InSlot(t)
  BY DEF Init, InSlot
<1> QED BY <1>1, <1>2, PolicyValid

\* A step takes a slot only when one is free and gives it up when the call
\* leaves.
LEMMA NextSlots ==
  ASSUME Typed, Slots, NEW t \in Threads,
         (\E ctx \in Contexts : Begin(t, ctx)) \/ Step(t) \/ AcquireAfterWait(t)
  PROVE  Slots'
<1>0. Moves(t) /\ Typed'
  BY StepMoves, NextTyped DEF Next
<1> SUFFICES ASSUME NEW o \in Ops
             PROVE  /\ held'[o] = {u \in Threads : InSlot(u)' /\ call'[u].ctx.op = o}
                    /\ Cardinality(held'[o]) <= Policy[o].concurrency_cap
  BY DEF Slots
<1>1. held[o] = {u \in Threads : InSlot(u) /\ call[u].ctx.op = o}
      /\ Cardinality(held[o]) <= Policy[o].concurrency_cap
  BY DEF Slots
<1>2. \A u \in Threads \ {t} : (InSlot(u) <=> InSlot(u)') /\ call'[u] = call[u]
  BY <1>0 DEF Moves, InSlot
<1>3. ASSUME UNCHANGED held,
             (InSlot(t) /\ call[t].ctx.op = o) <=> (InSlot(t)' /\ call'[t].ctx.op = o)
      PROVE  /\ held'[o] = {u \in Threads : InSlot(u)' /\ call'[u].ctx.op = o}
             /\ Cardinality(held'[o]) <= Policy[o].concurrency_cap
  <2>1. \A u \in Threads :
          (InSlot(u) /\ call[u].ctx.op = o) <=> (InSlot(u)' /\ call'[u].ctx.op = o)
    BY <1>2, <1>3
  <2> QED BY <1>1, <1>3, <2>1
<1>4. IsFiniteSet(held[o]) /\ Cardinality(held[o]) \in Nat
  BY FS_Subset, FS_CardinalityType, ThreadsFinite DEF Typed, TypeOK
<1> DEFINE p == call[t].ctx.op
<1>5. ASSUME AcquireFree(t) \/ AcquireAfterWait(t)
      PROVE  /\ held'[o] = {u \in Threads : InSlot(u)' /\ call'[u].ctx.op = o}
             /\ Cardinality(held'[o]) <= Policy[o].concurrency_cap
  <2>1. p \in Ops /\ ~InSlot(t) /\ InSlot(t)' /\ call'[t].ctx = call[t].ctx
    BY <1>5, CallOfRunning
    DEF AcquireFree, AcquireAfterWait, Go, InSlot, Grant, Typed, TypeOK, Calls
  <2>2. held' = [held EXCEPT ![p] = @ \cup {t}]
    BY <1>5 DEF AcquireFree, AcquireAfterWait, Grant
  <2>3. ~(Cardinality(held[p]) >= Policy[p].concurrency_cap)
    BY <1>5 DEF AcquireFree, AcquireAfterWait, Full
  <2>4. held'[o] = IF o = p THEN held[o] \cup {t} ELSE held[o]
    BY <2>1, <2>2 DEF Typed, TypeOK
  <2>5. held'[o] = {u \in Threads : InSlot(u)' /\ call'[u].ctx.op = o}
    BY <1>1, <1>2, <2>1, <2>4
  <2>6. Cardinality(held'[o]) <= Policy[o].concurrency_cap
    <3>1. /\ Cardinality(held[o] \cup {t}) \in Nat
          /\ Cardinality(held[o] \cup {t}) <= Cardinality(held[o]) + 1
      BY <1>4, CountAdd
    <3>2. o = p => Cardinality(held[o]) + 1 <= Policy[o].concurrency_cap
      BY <1>4, <2>3, PolicyValid
    <3>3. Policy[o].concurrency_cap \in Nat
      BY PolicyValid
    <3> QED BY <1>1, <1>4, <2>4, <3>1, <3>2, <3>3
  <2> QED BY <2>5, <2>6
<1>6. ASSUME Panic(t) \/ Return(t)
      PROVE  /\ held'[o] = {u \in Threads : InSlot(u)' /\ call'[u].ctx.op = o}
             /\ Cardinality(held'[o]) <= Policy[o].concurrency_cap
  <2>1. p \in Ops /\ ~InSlot(t)'
    BY <1>6, CallOfRunning DEF Panic, Return, Go, InSlot, Typed, TypeOK
  <2>2. held' = [held EXCEPT ![p] = @ \ {t}]
    BY <1>6 DEF Panic, Return, Release
  <2>3. held'[o] = IF o = p THEN held[o] \ {t} ELSE held[o]
    BY <2>1, <2>2 DEF Typed, TypeOK
  <2>4. held'[o] = {u \in Threads : InSlot(u)' /\ call'[u].ctx.op = o}
    BY <1>1, <1>2, <2>1, <2>3
  <2>5. Cardinality(held'[o]) <= Policy[o].concurrency_cap
    <3>1. /\ Cardinality(held[o] \ {t}) \in Nat
          /\ Cardinality(held[o] \ {t}) <= Cardinality(held[o])
      BY <1>4, CountRemove
    <3>2. Policy[o].concurrency_cap \in Nat
      BY PolicyValid
    <3> QED BY <1>1, <1>4, <2>3, <3>1, <3>2
  <2> QED BY <2>4, <2>5
<1>7. CASE \E ctx \in Contexts : Begin(t, ctx)
  <2>1. UNCHANGED held /\ ~InSlot(t) /\ ~InSlot(t)'
    BY <1>7 DEF Begin, Go, limiters, InSlot, Typed, TypeOK
  <2> QED BY <1>3, <2>1
<1>8. CASE AcquireQueued(t)
  <2>1. UNCHANGED held /\ ~InSlot(t) /\ ~InSlot(t)'
    BY <1>8 DEF AcquireQueued, Go, limiters, InSlot, Typed, TypeOK
  <2> QED BY <1>3, <2>1
<1>9. CASE AcquireRejected(t)
  <2>1. call[t] \in Calls
    BY <1>9, CallOfRunning DEF AcquireRejected, Go
  <2>2. ~call'[t].guard
    BY <1>9, <2>1 DEF AcquireRejected, Go, Typed, Calls, Guards
  <2>3. UNCHANGED held /\ ~InSlot(t) /\ ~InSlot(t)'
    BY <1>9, <2>2 DEF AcquireRejected, Go, InSlot, Typed, TypeOK
  <2> QED BY <1>3, <2>3
<1>10. CASE Sample(t)
  <2>1. call[t] \in Calls
    BY <1>10, CallOfRunning DEF Sample, Go
  <2>2. call'[t].ctx = call[t].ctx
    BY <1>10, <2>1 DEF Sample, Typed, Calls
  <2>3. UNCHANGED held /\ InSlot(t) /\ InSlot(t)'
    BY <1>10 DEF Sample, Go, limiters, InSlot, Typed, TypeOK
  <2> QED BY <1>3, <2>2, <2>3
<1>11. CASE Execute(t)
  <2>1. call'[t].ctx = call[t].ctx /\ UNCHANGED held /\ InSlot(t) /\ InSlot(t)'
    BY <1>11, ExecuteSettles DEF Execute, limiters, InSlot
  <2> QED BY <1>3, <2>1
<1>12. CASE Emit(t) \/ Record(t)
  <2>1. UNCHANGED held /\ UNCHANGED call /\ (InSlot(t) <=> InSlot(t)')
    BY <1>12 DEF Emit, Record, Go, limiters, InSlot, Typed, TypeOK
  <2> QED BY <1>3, <2>1
<1> QED BY <1>5, <1>6, <1>7, <1>8, <1>9, <1>10, <1>11, <1>12 DEF Step

-----------------------------------------------------------------------------
(***************************************************************************)
(* The abstract limiter.                                                   *)
(***************************************************************************)

\* The abstract limiter counts as the engine does.
LEMMA SameCount == ASSUME NEW o, NEW S PROVE AC(o)!Cardinality(S) = Cardinality(S)
BY DEF AC!Cardinality, Cardinality

\* A step of the limiter of o, or none.
Respected(o) == AC(o)!Next \/ UNCHANGED <<held[o], Waiting(o), granted[o], refused[o]>>

\* A step of a thread is a step of the abstract limiter of every operation, or
\* leaves it alone.
LEMMA StepRespects ==
  ASSUME Typed, Slots, NEW t \in Threads,
         (\E ctx \in Contexts : Begin(t, ctx)) \/ Step(t) \/ AcquireAfterWait(t),
         NEW o \in Ops
  PROVE  Respected(o)
<1>0. Moves(t) /\ Typed'
  BY StepMoves, NextTyped DEF Next
<1> DEFINE p == call[t].ctx.op
           InRoom(u) == pc[u] = "queued" /\ call[u] # NoCall /\ call[u].ctx.op = o
<1>1. Waiting(o) = {u \in Threads : InRoom(u)}
  BY DEF Waiting, OpsIn
<1>2. Waiting(o)' = {u \in Threads : InRoom(u)'}
  BY DEF Waiting, OpsIn
<1>3. \A u \in Threads \ {t} : InRoom(u) <=> InRoom(u)'
  BY <1>0 DEF Moves
<1>4. (InRoom(t) <=> InRoom(t)') => UNCHANGED Waiting(o)
  BY <1>1, <1>2, <1>3
<1>5. InRoom(t)' => Waiting(o)' = Waiting(o) \cup {t}
  BY <1>1, <1>2, <1>3
<1>6. ~InRoom(t)' => Waiting(o)' = Waiting(o) \ {t}
  BY <1>1, <1>2, <1>3
<1>7. /\ Cardinality(Waiting(o)) \in Nat /\ Cardinality(held[o]) \in Nat
      /\ Policy[o].concurrency_cap \in Nat \ {0} /\ Policy[o].queue_cap \in Nat
  BY <1>1, FS_Subset, FS_CardinalityType, ThreadsFinite, PolicyValid DEF Typed, TypeOK
<1>8. ~InSlot(t) => t \notin held[o]
  BY DEF Slots
<1> HIDE DEF InRoom
<1>9. ASSUME UNCHANGED <<held, granted, refused>>, InRoom(t) <=> InRoom(t)' PROVE Respected(o)
  BY <1>4, <1>9 DEF Respected
<1>10. CASE AcquireFree(t)
  <2>1. /\ p \in Ops /\ pc[t] = "numbered" /\ pc'[t] = "admitted"
        /\ held' = [held EXCEPT ![p] = @ \cup {t}]
        /\ granted' = [granted EXCEPT ![p] = @ + 1] /\ UNCHANGED refused
        /\ ~(Cardinality(held[p]) >= Policy[p].concurrency_cap)
    BY <1>10, CallOfRunning DEF AcquireFree, Grant, Go, Full, Typed, TypeOK
  <2>2. UNCHANGED Waiting(o) /\ t \notin held[o] /\ t \notin Waiting(o)
    BY <1>1, <1>4, <1>8, <2>1 DEF InRoom, InSlot
  <2>3. CASE p = o
    <3>1. held'[o] = held[o] \cup {t} /\ granted'[o] = granted[o] + 1 /\ UNCHANGED refused[o]
      BY <2>1, <2>3 DEF Typed, TypeOK
    <3>2. AC(o)!Enter(t)
      BY <2>1, <2>2, <2>3, <3>1, SameCount DEF AC!Enter, AC!Outside, AC!Full
    <3> QED BY <3>2 DEF Respected, AC!Next
  <2>4. CASE p # o
    BY <2>1, <2>2, <2>4 DEF Respected, Typed, TypeOK
  <2> QED BY <2>3, <2>4
<1>11. CASE AcquireAfterWait(t)
  <2>1. /\ p \in Ops /\ pc[t] = "queued" /\ pc'[t] = "admitted" /\ call[t] # NoCall
        /\ held' = [held EXCEPT ![p] = @ \cup {t}]
        /\ granted' = [granted EXCEPT ![p] = @ + 1] /\ UNCHANGED refused
        /\ ~(Cardinality(held[p]) >= Policy[p].concurrency_cap)
    BY <1>11, CallOfRunning DEF AcquireAfterWait, Grant, Go, Full, Typed, TypeOK
  <2>2. ~InRoom(t)' /\ (InRoom(t) <=> p = o)
    BY <2>1 DEF InRoom
  <2>3. CASE p = o
    <3>1. held'[o] = held[o] \cup {t} /\ granted'[o] = granted[o] + 1 /\ UNCHANGED refused[o]
      BY <2>1, <2>3 DEF Typed, TypeOK
    <3>2. t \in Waiting(o) /\ Waiting(o)' = Waiting(o) \ {t}
      BY <1>1, <1>6, <2>2, <2>3
    <3>3. AC(o)!Admit(t)
      BY <2>1, <2>3, <3>1, <3>2, SameCount DEF AC!Admit, AC!Full
    <3> QED BY <3>3 DEF Respected, AC!Next
  <2>4. CASE p # o
    BY <1>4, <2>1, <2>2, <2>4 DEF Respected, Typed, TypeOK
  <2> QED BY <2>3, <2>4
<1>12. CASE AcquireQueued(t)
  <2>1. /\ p \in Ops /\ pc[t] = "numbered" /\ pc'[t] = "queued" /\ call'[t] = call[t]
        /\ call[t] # NoCall /\ UNCHANGED <<held, granted, refused>>
        /\ Cardinality(held[p]) >= Policy[p].concurrency_cap
        /\ ~(Cardinality(Waiting(p)) >= Policy[p].queue_cap)
    BY <1>12, CallOfRunning DEF AcquireQueued, Go, Full, QueueFull, limiters, Typed, TypeOK
  <2>2. ~InRoom(t) /\ (InRoom(t)' <=> p = o) /\ t \notin held[o]
    BY <1>8, <2>1 DEF InRoom, InSlot
  <2>3. CASE p = o
    <3>1. t \notin Waiting(o) /\ Waiting(o)' = Waiting(o) \cup {t}
      BY <1>1, <1>5, <2>2, <2>3
    <3>2. Cardinality(Waiting(o)) < Policy[o].queue_cap
      BY <1>7, <2>1, <2>3
    <3>3. AC(o)!Wait(t)
      BY <1>7, <2>1, <2>2, <2>3, <3>1, <3>2, SameCount DEF AC!Wait, AC!Outside, AC!Full, AC!NoPlace
    <3> QED BY <3>3 DEF Respected, AC!Next
  <2>4. CASE p # o
    BY <1>9, <2>1, <2>2, <2>4
  <2> QED BY <2>3, <2>4
<1>13. CASE AcquireRejected(t)
  <2>1. /\ p \in Ops /\ pc[t] = "numbered" /\ pc'[t] = "settled"
        /\ refused' = [refused EXCEPT ![p] = @ + 1] /\ UNCHANGED <<held, granted>>
        /\ Cardinality(held[p]) >= Policy[p].concurrency_cap
        /\ Cardinality(Waiting(p)) >= Policy[p].queue_cap
    BY <1>13, CallOfRunning DEF AcquireRejected, Go, Full, QueueFull, Typed, TypeOK
  <2>2. UNCHANGED Waiting(o) /\ t \notin held[o] /\ t \notin Waiting(o)
    BY <1>1, <1>4, <1>8, <2>1 DEF InRoom, InSlot
  <2>3. CASE p = o
    <3>1. refused'[o] = refused[o] + 1
      BY <2>1, <2>3 DEF Typed, TypeOK
    <3>2. AC(o)!TurnAway(t)
      BY <1>7, <2>1, <2>2, <2>3, <3>1, SameCount DEF AC!TurnAway, AC!Outside, AC!Full, AC!NoPlace
    <3> QED BY <3>2 DEF Respected, AC!Next
  <2>4. CASE p # o
    BY <2>1, <2>2, <2>4 DEF Respected, Typed, TypeOK
  <2> QED BY <2>3, <2>4
<1>14. CASE Panic(t) \/ Return(t)
  <2>1. /\ p \in Ops /\ pc[t] # "queued" /\ pc'[t] # "queued"
        /\ held' = [held EXCEPT ![p] = @ \ {t}] /\ UNCHANGED <<granted, refused>>
    BY <1>14, CallOfRunning DEF Panic, Return, Go, Release, Typed, TypeOK
  <2>2. UNCHANGED Waiting(o)
    BY <1>4, <2>1 DEF InRoom
  <2>3. held'[o] = IF p = o THEN held[o] \ {t} ELSE held[o]
    BY <2>1 DEF Typed, TypeOK
  <2>4. CASE p = o /\ t \in held[o]
    <3>1. AC(o)!Leave(t)
      BY <2>1, <2>2, <2>3, <2>4 DEF AC!Leave
    <3> QED BY <3>1 DEF Respected, AC!Next
  <2>5. CASE p # o \/ t \notin held[o]
    <3>1. held'[o] = held[o]
      BY <2>3, <2>5
    <3> QED BY <2>1, <2>2, <3>1 DEF Respected
  <2> QED BY <2>4, <2>5
<1>15. CASE (\E ctx \in Contexts : Begin(t, ctx)) \/ Sample(t) \/ Execute(t) \/ Emit(t) \/ Record(t)
  <2>1. pc[t] # "queued" /\ pc'[t] # "queued" /\ UNCHANGED <<held, granted, refused>>
    BY <1>15 DEF Begin, Sample, Execute, Emit, Record, Go, limiters, Typed, TypeOK
  <2> QED BY <1>9, <2>1 DEF InRoom
<1> QED BY <1>10, <1>11, <1>12, <1>13, <1>14, <1>15 DEF Step

\* A call that has a slot keeps it as long as it runs, and no longer.
Covered(o) == \A u \in held[o] : u \in held'[o] <=> call'[u] # NoCall

\* No step takes the slot of a running call, and none but a return or a panic
\* ends a call.
LEMMA StepCovers ==
  ASSUME Typed, Slots, NEW t \in Threads,
         (\E ctx \in Contexts : Begin(t, ctx)) \/ Step(t) \/ AcquireAfterWait(t),
         NEW o \in Ops
  PROVE  Covered(o)
<1>0. Moves(t) /\ Typed' /\ Slots'
  BY StepMoves, NextTyped, NextSlots DEF Next
<1>1. /\ held[o] = {u \in Threads : InSlot(u) /\ call[u].ctx.op = o}
      /\ held'[o] = {u \in Threads : InSlot(u)' /\ call'[u].ctx.op = o}
  BY <1>0 DEF Slots
<1>2. \A u \in Threads \ {t} : (InSlot(u) <=> InSlot(u)') /\ call'[u] = call[u]
  BY <1>0 DEF Moves, InSlot
<1>3. \A u \in Threads : InSlot(u) => call[u] # NoCall
  BY DEF InSlot, Typed, TypeOK
<1>4. ASSUME InSlot(t), call[t].ctx.op = o
      PROVE  (InSlot(t)' /\ call'[t].ctx.op = o) <=> call'[t] # NoCall
  <2>1. CASE Panic(t) \/ Return(t)
    <3>1. pc'[t] \in {"dead", "idle"}
      BY <2>1 DEF Panic, Return, Go, Typed, TypeOK
    <3> QED BY <1>0, <3>1 DEF InSlot, Typed, TypeOK
  <2>2. CASE Sample(t)
    <3>1. call[t] \in Calls
      BY <2>2, CallOfRunning DEF Sample, Go
    <3>2. call'[t].ctx = call[t].ctx
      BY <2>2, <3>1 DEF Sample, Typed, Calls
    <3>3. pc'[t] = "sleeping"
      BY <2>2 DEF Sample, Go, Typed, TypeOK
    <3> QED BY <1>0, <1>4, <3>2, <3>3 DEF InSlot, Typed, TypeOK
  <2>3. CASE Execute(t)
    BY <1>0, <1>4, <2>3, ExecuteSettles DEF InSlot, Typed, TypeOK
  <2>4. CASE Emit(t) \/ Record(t)
    <3>1. /\ UNCHANGED call /\ pc[t] \in {"settled", "emitted"}
          /\ pc'[t] \in {"emitted", "recorded"}
      BY <2>4 DEF Emit, Record, Go, Typed, TypeOK
    <3> QED BY <1>3, <1>4, <3>1 DEF InSlot
  <2>5. CASE (\E ctx \in Contexts : Begin(t, ctx)) \/ AcquireFree(t) \/ AcquireQueued(t)
               \/ AcquireRejected(t) \/ AcquireAfterWait(t)
    BY <1>4, <2>5 DEF Begin, AcquireFree, AcquireQueued, AcquireRejected, AcquireAfterWait, Go,
       InSlot
  <2> QED BY <2>1, <2>2, <2>3, <2>4, <2>5 DEF Step
<1> QED BY <1>1, <1>2, <1>3, <1>4 DEF Covered

-----------------------------------------------------------------------------
(***************************************************************************)
(* Numbers.                                                                *)
(***************************************************************************)

\* At the start no number is handed out.
LEMMA InitOwners == Init => Owners
BY DEF Init, Owners

\* A step that touches neither seq nor the histories nor who has a call keeps
\* the owners.
LEMMA KeepsNumbers ==
  ASSUME Owners, UNCHANGED <<seq, returned, aborted>>,
         \A u \in Threads : /\ call'[u] = NoCall <=> call[u] = NoCall
                            /\ call[u] # NoCall => call'[u].seq = call[u].seq
  PROVE  Owners'
BY DEF Owners

\* A new call gets a number that nobody has: fetch_add.
LEMMA BeginOwners ==
  ASSUME Typed, Owners, NEW t \in Threads, NEW ctx \in Contexts, Begin(t, ctx)
  PROVE  Owners'
<1>1. Moves(t) /\ Typed'
  BY StepMoves, NextTyped DEF Next
<1>2. /\ call[t] = NoCall /\ call'[t] # NoCall /\ call'[t].seq = seq
      /\ seq' = seq + 1 /\ seq \in Nat /\ UNCHANGED <<returned, aborted>>
  BY <1>1, MaxOpsIsNat DEF Begin, Go, history, Typed, TypeOK
<1>3. \A u \in Threads : u # t => call'[u] = call[u]
  BY <1>1 DEF Moves
<1>4. /\ \A u \in Threads : call[u] # NoCall => call[u].seq \in Nat
      /\ \A r \in returned \cup aborted : r.seq \in Nat
  BY DEF Typed, Calls, Results, Aborts
<1>5. /\ \A u \in Threads : call'[u] # NoCall => call'[u].seq < seq'
      /\ \A r \in returned' \cup aborted' : r.seq < seq'
  BY <1>2, <1>3, <1>4 DEF Owners
<1>6. \A u, v \in Threads :
        call'[u] # NoCall /\ call'[v] # NoCall /\ call'[u].seq = call'[v].seq => u = v
  BY <1>2, <1>3, <1>4 DEF Owners
<1>7. \A u \in Threads, r \in returned' \cup aborted' :
        call'[u] # NoCall => call'[u].seq # r.seq
  BY <1>2, <1>3, <1>4 DEF Owners
<1>8. ASSUME NEW n \in 0 .. seq' - 1
      PROVE  \/ \E u \in Threads : call'[u] # NoCall /\ call'[u].seq = n
             \/ \E r \in returned' \cup aborted' : r.seq = n
  <2>1. CASE n = seq
    BY <1>2, <2>1
  <2>2. CASE n # seq
    <3>1. n \in 0 .. seq - 1
      BY <1>2, <2>2
    <3> QED BY <1>2, <1>3, <3>1 DEF Owners
  <2> QED BY <2>1, <2>2
<1> QED BY <1>2, <1>5, <1>6, <1>7, <1>8 DEF Owners

\* A call that returns or panics hands its number to the history.
LEMMA LeaveOwners ==
  ASSUME Typed, Owners, NEW t \in Threads, Panic(t) \/ Return(t)
  PROVE  Owners'
<1>1. Moves(t) /\ Typed'
  BY StepMoves, NextTyped DEF Next, Step
<1>2. PICK r : /\ r.seq = call[t].seq
               /\ \/ returned' = returned \cup {r} /\ UNCHANGED aborted
                  \/ aborted' = aborted \cup {r} /\ UNCHANGED returned
  BY DEF Panic, Return
<1>3. /\ call[t] # NoCall /\ call'[t] = NoCall /\ UNCHANGED seq
  BY CallOfRunning DEF Panic, Return, Go, Typed, TypeOK
<1>4. \A u \in Threads : u # t => call'[u] = call[u]
  BY <1>1 DEF Moves
<1>5. \A s \in returned \cup aborted : s.seq # r.seq
  BY <1>2, <1>3 DEF Owners
<1>6. /\ \A u \in Threads : call'[u] # NoCall => call'[u].seq < seq'
      /\ \A s \in returned' \cup aborted' : s.seq < seq'
  BY <1>2, <1>3, <1>4 DEF Owners
<1>7. /\ \A u, v \in Threads :
           call'[u] # NoCall /\ call'[v] # NoCall /\ call'[u].seq = call'[v].seq => u = v
      /\ \A u \in Threads, s \in returned' \cup aborted' :
           call'[u] # NoCall => call'[u].seq # s.seq
  BY <1>2, <1>3, <1>4 DEF Owners
<1>8. /\ \A s, x \in returned' : s.seq = x.seq => s = x
      /\ \A s, x \in aborted' : s.seq = x.seq => s = x
      /\ \A s \in returned', x \in aborted' : s.seq # x.seq
  BY <1>2, <1>5 DEF Owners
<1>9. ASSUME NEW n \in 0 .. seq' - 1
      PROVE  \/ \E u \in Threads : call'[u] # NoCall /\ call'[u].seq = n
             \/ \E s \in returned' \cup aborted' : s.seq = n
  <2>1. CASE \E u \in Threads : call[u] # NoCall /\ call[u].seq = n
    BY <1>2, <1>3, <1>4, <2>1
  <2>2. CASE \E s \in returned \cup aborted : s.seq = n
    BY <1>2, <2>2
  <2> QED BY <1>3, <2>1, <2>2 DEF Owners
<1> QED BY <1>6, <1>7, <1>8, <1>9 DEF Owners

\* All other steps keep the owners.
LEMMA StepOwners ==
  ASSUME Typed, Owners, NEW t \in Threads, Step(t) \/ AcquireAfterWait(t)
  PROVE  Owners'
<1>1. Moves(t) /\ Typed'
  BY StepMoves, NextTyped DEF Next
<1>2. CASE Panic(t) \/ Return(t)
  BY <1>2, LeaveOwners
<1>3. CASE ~(Panic(t) \/ Return(t))
  <2>1. /\ UNCHANGED <<seq, returned, aborted>>
        /\ pc[t] \notin {"idle", "dead"} /\ pc'[t] \notin {"idle", "dead"}
    BY <1>3 DEF Step, AcquireFree, AcquireQueued, AcquireRejected, AcquireAfterWait, Grant,
       Sample, Execute, Emit, Record, Go, history, Typed, TypeOK
  <2>2. call[t] \in Calls /\ call[t] # NoCall /\ call'[t] # NoCall
    BY <1>1, <2>1, CallOfRunning DEF Typed, TypeOK
  <2>3. call'[t].seq = call[t].seq
    BY <1>3, <2>2 DEF Step, AcquireFree, AcquireQueued, AcquireRejected, AcquireAfterWait, Grant,
       Sample, Execute, Emit, Record, Typed, Calls
  <2> QED BY <1>1, <2>1, <2>2, <2>3, KeepsNumbers DEF Moves
<1> QED BY <1>2, <1>3

\* From one owner per number to the counts of NumbersAreUnique.
LEMMA OneOwner ==
  ASSUME Typed, Owners
  PROVE  NumbersAreUnique
<1>1. ASSUME NEW r \in Running \cup returned \cup aborted PROVE r.seq < seq
  BY DEF Owners, Running
<1>2. ASSUME NEW n \in 0 .. seq - 1
      PROVE  Cardinality({t \in Threads : call[t] # NoCall /\ call[t].seq = n})
               + Cardinality({r \in returned : r.seq = n})
               + Cardinality({r \in aborted : r.seq = n}) = 1
  <2> DEFINE T == {t \in Threads : call[t] # NoCall /\ call[t].seq = n}
             R == {r \in returned : r.seq = n}
             A == {r \in aborted : r.seq = n}
  <2> SUFFICES Cardinality(T) + Cardinality(R) + Cardinality(A) = 1
    OBVIOUS
  <2>0. Cardinality({}) = 0 /\ \A x : Cardinality({x}) = 1
    BY FS_EmptySet, FS_Singleton
  <2>1. CASE \E t \in Threads : call[t] # NoCall /\ call[t].seq = n
    <3>1. PICK t \in Threads : call[t] # NoCall /\ call[t].seq = n
      BY <2>1
    <3>2. T = {t} /\ R = {} /\ A = {}
      BY <3>1 DEF Owners
    <3>3. Cardinality(T) = 1
      BY <2>0, <3>2
    <3>4. Cardinality(R) = 0 /\ Cardinality(A) = 0
      BY <2>0, <3>2
    <3> HIDE DEF T, R, A
    <3> QED BY <3>3, <3>4
  <2>2. CASE \E r \in returned : r.seq = n
    <3>1. PICK r \in returned : r.seq = n
      BY <2>2
    <3>2. T = {} /\ R = {r} /\ A = {}
      BY <3>1 DEF Owners
    <3>3. Cardinality(R) = 1
      BY <2>0, <3>2
    <3>4. Cardinality(T) = 0 /\ Cardinality(A) = 0
      BY <2>0, <3>2
    <3> HIDE DEF T, R, A
    <3> QED BY <3>3, <3>4
  <2>3. CASE \E r \in aborted : r.seq = n
    <3>1. PICK r \in aborted : r.seq = n
      BY <2>3
    <3>2. T = {} /\ R = {} /\ A = {r}
      BY <3>1 DEF Owners
    <3>3. Cardinality(A) = 1
      BY <2>0, <3>2
    <3>4. Cardinality(T) = 0 /\ Cardinality(R) = 0
      BY <2>0, <3>2
    <3> HIDE DEF T, R, A
    <3> QED BY <3>3, <3>4
  <2> QED BY <2>1, <2>2, <2>3 DEF Owners
<1> QED BY <1>1, <1>2 DEF NumbersAreUnique

-----------------------------------------------------------------------------
(***************************************************************************)
(* The log.                                                                *)
(***************************************************************************)

\* At the start the log is empty.
LEMMA InitLog == Init => Log
<1> SUFFICES ASSUME Init PROVE Log
  OBVIOUS
<1>1. DOMAIN events = {}
  BY DEF Init, EmptyBag, SetToBag
<1>2. returned = {} /\ Emitted = {}
  BY DEF Init, Emitted
<1> QED BY <1>1, <1>2, FS_EmptySet DEF Log

\* No event in the log has the number of a call that has not emitted its own.
LEMMA EventIsNew ==
  ASSUME Owners, Log, NEW t \in Threads, call[t] # NoCall, t \notin Emitted,
         \A u \in Emitted : call[u] # NoCall
  PROVE  \A e \in DOMAIN events : e.seq # call[t].seq
<1> SUFFICES ASSUME NEW e \in DOMAIN events, e.seq = call[t].seq PROVE FALSE
  OBVIOUS
<1>1. CASE \E r \in returned : e = EventOf(r)
  <2>1. PICK r \in returned : e = EventOf(r)
    BY <1>1
  <2>2. call[t].seq = r.seq
    BY <2>1 DEF EventOf
  <2> QED BY <2>2 DEF Owners
<1>2. CASE \E u \in Emitted : e = EventOf(call[u])
  <2>1. PICK u \in Emitted : e = EventOf(call[u])
    BY <1>2
  <2>2. call[t].seq = call[u].seq /\ u \in Threads /\ u # t
    BY <2>1 DEF EventOf, Emitted
  <2> QED BY <2>2 DEF Owners
<1> QED BY <1>1, <1>2 DEF Log

\* So emit adds one event, once.
LEMMA EmitAdds ==
  ASSUME Typed, Owners, Log, NEW t \in Threads, Emit(t)
  PROVE  LET e == EventOf(call[t]) IN
         /\ e \notin DOMAIN events
         /\ DOMAIN events' = DOMAIN events \cup {e}
         /\ \A x \in DOMAIN events : x # e => events'[x] = events[x]
         /\ events'[e] = 1
<1> DEFINE e == EventOf(call[t])
           B == events (+) SetToBag({e})
<1>1. t \notin Emitted /\ call[t] # NoCall /\ \A u \in Emitted : call[u] # NoCall
  BY CallOfRunning DEF Emitted, Emit, Go, Typed, TypeOK
<1>2. e \notin DOMAIN events
  <2>1. \A x \in DOMAIN events : x.seq # call[t].seq
    BY <1>1, EventIsNew
  <2> QED BY <2>1 DEF EventOf
<1>3. IsABag(events)
  BY DEF Typed, TypeOK
<1>4. events' = B
  BY DEF Emit
<1> HIDE DEF e
<1>5. DOMAIN B = DOMAIN events \cup {e} /\ \A x \in DOMAIN events : x # e => B[x] = events[x]
  BY <1>3, AddToBag
<1>6. B[e] = 1
  BY <1>2, <1>3, AddToBag
<1> HIDE DEF B
<1> QED BY <1>2, <1>4, <1>5, <1>6 DEF e

\* Every step keeps the log exact.
LEMMA StepLog ==
  ASSUME Typed, Owners, Log, NEW t \in Threads,
         (\E ctx \in Contexts : Begin(t, ctx)) \/ Step(t) \/ AcquireAfterWait(t)
  PROVE  Log'
<1>0. Moves(t) /\ Typed'
  BY StepMoves, NextTyped DEF Next
<1>1. \A u \in Threads \ {t} : (u \in Emitted' <=> u \in Emitted) /\ call'[u] = call[u]
  BY <1>0 DEF Moves, Emitted
<1>2. \A u \in Emitted : u \in Threads /\ call[u] # NoCall
  BY DEF Emitted, Typed, TypeOK
<1>3. CASE Emit(t)
  <2> DEFINE e == EventOf(call[t])
  <2>1. pc[t] = "settled" /\ pc'[t] = "emitted" /\ UNCHANGED <<call, returned>>
    BY <1>3 DEF Emit, Go, history, Typed, TypeOK
  <2>4. /\ DOMAIN events' = DOMAIN events \cup {e}
        /\ \A x \in DOMAIN events : x # e => events'[x] = events[x]
        /\ events'[e] = 1
    BY <1>3, EmitAdds
  <2> HIDE DEF e
  <2>5. Emitted' = Emitted \cup {t}
    BY <1>1, <2>1 DEF Emitted
  <2>6. {EventOf(call'[u]) : u \in Emitted'} = {EventOf(call[u]) : u \in Emitted} \cup {e}
    BY <2>1, <2>5 DEF e
  <2>7. DOMAIN events' = {EventOf(r) : r \in returned'} \cup {EventOf(call'[u]) : u \in Emitted'}
    BY <2>1, <2>4, <2>6 DEF Log
  <2>8. \A x \in DOMAIN events' : events'[x] = 1
    BY <2>4 DEF Log
  <2>9. IsFiniteSet(DOMAIN events')
    BY <2>4, FS_AddElement DEF Log
  <2> QED BY <2>7, <2>8, <2>9 DEF Log
<1>4. CASE Return(t)
  <2> DEFINE r == [seq |-> call[t].seq, ctx |-> call[t].ctx, errno |-> call[t].errno,
                   guard |-> call[t].guard]
  <2>1. /\ pc[t] = "recorded" /\ pc'[t] = "idle" /\ UNCHANGED events
        /\ returned' = returned \cup {r}
    BY <1>4 DEF Return, Go, Typed, TypeOK
  <2>2. t \in Emitted /\ Emitted' = Emitted \ {t}
    BY <1>1, <2>1 DEF Emitted
  <2>3. EventOf(r) = EventOf(call[t])
    BY DEF EventOf
  <2> HIDE DEF r
  <2>4. {EventOf(s) : s \in returned'} = {EventOf(s) : s \in returned} \cup {EventOf(call[t])}
    BY <2>1, <2>3
  <2>5. {EventOf(call'[u]) : u \in Emitted'} = {EventOf(call[u]) : u \in Emitted \ {t}}
    BY <1>1, <1>2, <2>2
  <2>6. {EventOf(call[u]) : u \in Emitted} =
          {EventOf(call[u]) : u \in Emitted \ {t}} \cup {EventOf(call[t])}
    BY <2>2
  <2>7. DOMAIN events' = {EventOf(s) : s \in returned'} \cup {EventOf(call'[u]) : u \in Emitted'}
    BY <2>1, <2>4, <2>5, <2>6 DEF Log
  <2> QED BY <2>1, <2>7 DEF Log
<1>5. CASE ~(Emit(t) \/ Return(t))
  <2>1. UNCHANGED <<events, returned>> /\ (t \in Emitted' <=> t \in Emitted)
        /\ (t \in Emitted => call'[t] = call[t])
    BY <1>5 DEF Begin, Step, AcquireFree, AcquireQueued, AcquireRejected, AcquireAfterWait, Grant,
       Sample, Panic, Execute, Record, Go, history, Emitted, Typed, TypeOK
  <2>2. Emitted' = Emitted /\ \A u \in Emitted : call'[u] = call[u]
    BY <1>1, <2>1 DEF Emitted
  <2>3. {EventOf(call'[u]) : u \in Emitted'} = {EventOf(call[u]) : u \in Emitted}
    BY <2>2
  <2> QED BY <2>1, <2>3 DEF Log
<1> QED BY <1>3, <1>4, <1>5

\* From the log to OneEventPerReturn.
LEMMA LogIsExact ==
  ASSUME Typed, Owners, Log
  PROVE  OneEventPerReturn
<1>1. \A u \in Emitted : u \in Threads /\ call[u] # NoCall /\ pc[u] \in {"emitted", "recorded"}
  BY DEF Emitted, Typed, TypeOK
<1>2. ASSUME NEW r \in returned
      PROVE  /\ {e \in BagToSet(events) : e.seq = r.seq} = {EventOf(r)}
             /\ events[EventOf(r)] = 1
  <2>1. EventOf(r) \in DOMAIN events /\ EventOf(r).seq = r.seq
    BY DEF Log, EventOf
  <2>2. ASSUME NEW e \in DOMAIN events, e.seq = r.seq PROVE e = EventOf(r)
    <3>1. CASE \E s \in returned : e = EventOf(s)
      <4>1. PICK s \in returned : e = EventOf(s)
        BY <3>1
      <4>2. s.seq = r.seq
        BY <2>2, <4>1 DEF EventOf
      <4> QED BY <4>1, <4>2 DEF Owners
    <3>2. CASE \E u \in Emitted : e = EventOf(call[u])
      <4>1. PICK u \in Emitted : e = EventOf(call[u])
        BY <3>2
      <4>2. call[u].seq = r.seq
        BY <2>2, <4>1 DEF EventOf
      <4> QED BY <1>1, <4>2 DEF Owners
    <3> QED BY <3>1, <3>2 DEF Log
  <2> QED BY <2>1, <2>2 DEF Log, BagToSet
<1>3. ASSUME NEW e \in BagToSet(events)
      PROVE  \/ \E r \in returned : e = EventOf(r)
             \/ \E t \in Threads : pc[t] \in {"emitted", "recorded"} /\ e = EventOf(call[t])
  BY <1>1, <1>3 DEF Log, BagToSet
<1> QED BY <1>2, <1>3 DEF OneEventPerReturn

-----------------------------------------------------------------------------
(***************************************************************************)
(* The counters.                                                           *)
(***************************************************************************)

\* The events of operation o with outcome k, and the threads that have emitted one
\* and not yet counted it: the counter is the difference.
Entries(o, k) == {e \in DOMAIN events : e.op = o /\ Outcome(e.errno) = k}

Between(o, k) ==
  {t \in Threads : pc[t] = "emitted" /\ call[t].ctx.op = o /\ Outcome(call[t].errno) = k}

Counted ==
  \A o \in Ops, k \in {"count_ok", "count_err"} :
    Cardinality(Entries(o, k)) = metrics[o][k] + Cardinality(Between(o, k))

\* At the start the counters are 0.
LEMMA InitCounted == Init => Counted
<1> SUFFICES ASSUME Init, NEW o \in Ops, NEW k \in {"count_ok", "count_err"}
             PROVE  Cardinality(Entries(o, k)) = metrics[o][k] + Cardinality(Between(o, k))
  BY DEF Counted
<1>1. Entries(o, k) = {}
  BY DEF Init, Entries, EmptyBag, SetToBag
<1>2. Between(o, k) = {} /\ metrics[o][k] = 0
  BY DEF Init, Between
<1> QED BY <1>1, <1>2, FS_EmptySet

\* emit and record, each a step of its own, keep log and counters together but
\* for the calls between the two.
LEMMA StepCounted ==
  ASSUME Typed, Owners, Log, Counted, NEW t \in Threads,
         (\E ctx \in Contexts : Begin(t, ctx)) \/ Step(t) \/ AcquireAfterWait(t)
  PROVE  Counted'
<1>0. Moves(t) /\ Typed'
  BY StepMoves, NextTyped DEF Next
<1> SUFFICES ASSUME NEW o \in Ops, NEW k \in {"count_ok", "count_err"}
             PROVE  Cardinality(Entries(o, k)') = metrics'[o][k] + Cardinality(Between(o, k)')
  BY DEF Counted
<1>1. Cardinality(Entries(o, k)) = metrics[o][k] + Cardinality(Between(o, k))
  BY DEF Counted
<1>2. metrics[o][k] \in Nat
  BY DEF Typed, TypeOK
<1>3. IsFiniteSet(Entries(o, k)) /\ IsFiniteSet(Between(o, k))
  BY FS_Subset, ThreadsFinite DEF Log, Entries, Between
<1>4. \A u \in Threads \ {t} : u \in Between(o, k)' <=> u \in Between(o, k)
  BY <1>0 DEF Moves, Between
<1> DEFINE mine == call[t].ctx.op = o /\ Outcome(call[t].errno) = k
<1>5. CASE Emit(t)
  <2> DEFINE e == EventOf(call[t])
  <2>1. pc[t] = "settled" /\ pc'[t] = "emitted" /\ UNCHANGED <<call, metrics>>
    BY <1>5 DEF Emit, Go, Typed, TypeOK
  <2>2. e \notin DOMAIN events /\ DOMAIN events' = DOMAIN events \cup {e}
    BY <1>5, EmitAdds
  <2>3. mine <=> e.op = o /\ Outcome(e.errno) = k
    BY DEF EventOf
  <2> HIDE DEF e, mine
  <2>4. CASE mine
    <3>1. Entries(o, k)' = Entries(o, k) \cup {e} /\ e \notin Entries(o, k)
      BY <2>2, <2>3, <2>4 DEF Entries
    <3>2. Between(o, k)' = Between(o, k) \cup {t} /\ t \notin Between(o, k)
      BY <1>4, <2>1, <2>4 DEF Between, mine
    <3>3. Cardinality(Entries(o, k)') = Cardinality(Entries(o, k)) + 1
      BY <1>3, <3>1, CountAdd
    <3>4. Cardinality(Between(o, k)') = Cardinality(Between(o, k)) + 1
          /\ Cardinality(Between(o, k)) \in Nat
      BY <1>3, <3>2, CountAdd
    <3> QED BY <1>1, <1>2, <2>1, <3>3, <3>4
  <2>5. CASE ~mine
    <3>1. Entries(o, k)' = Entries(o, k)
      BY <2>2, <2>3, <2>5 DEF Entries
    <3>2. Between(o, k)' = Between(o, k)
      BY <1>4, <2>1, <2>5 DEF Between, mine
    <3> QED BY <1>1, <2>1, <3>1, <3>2
  <2> QED BY <2>4, <2>5
<1>6. CASE Record(t)
  <2> DEFINE p == call[t].ctx.op
             c == Outcome(call[t].errno)
  <2>1. /\ pc[t] = "emitted" /\ pc'[t] = "recorded" /\ UNCHANGED <<call, events>>
        /\ metrics' = [metrics EXCEPT ![p][c] = @ + 1]
        /\ p \in Ops /\ c \in {"count_ok", "count_err"}
    BY <1>6, CallOfRunning DEF Record, Go, Outcome, Typed, TypeOK
  <2>2. Entries(o, k)' = Entries(o, k)
    BY <2>1 DEF Entries
  <2>3. CASE mine
    <3> HIDE DEF p, c
    <3>1. p = o /\ c = k
      BY <2>3 DEF p, c
    <3>2. metrics'[o][k] = metrics[o][k] + 1
      BY <2>1, <3>1 DEF Typed, TypeOK
    <3>3. Between(o, k)' = Between(o, k) \ {t} /\ t \in Between(o, k)
      BY <1>4, <2>1, <2>3 DEF Between
    <3>4. Cardinality(Between(o, k)') = Cardinality(Between(o, k)) - 1
          /\ Cardinality(Between(o, k)) \in Nat
      BY <1>3, <3>3, CountRemove
    <3> QED BY <1>1, <1>2, <2>2, <3>2, <3>4
  <2>4. CASE ~mine
    <3>1. Between(o, k)' = Between(o, k)
      BY <1>4, <2>1, <2>4 DEF Between
    <3>2. p # o \/ c # k
      BY <2>4
    <3> HIDE DEF p, c
    <3>3. metrics'[o][k] = metrics[o][k]
      BY <2>1, <3>2 DEF Typed, TypeOK
    <3> QED BY <1>1, <2>2, <3>1, <3>3
  <2> QED BY <2>3, <2>4
<1>7. CASE ~(Emit(t) \/ Record(t))
  <2>1. /\ UNCHANGED <<events, metrics>>
        /\ pc[t] # "emitted" /\ pc'[t] # "emitted"
    BY <1>7 DEF Begin, Step, AcquireFree, AcquireQueued, AcquireRejected, AcquireAfterWait, Grant,
       Sample, Panic, Execute, Return, Go, Typed, TypeOK
  <2>2. Entries(o, k)' = Entries(o, k) /\ Between(o, k)' = Between(o, k)
    BY <1>4, <2>1 DEF Entries, Between
  <2> QED BY <1>1, <2>1, <2>2
<1> QED BY <1>5, <1>6, <1>7

\* Every event is in the log once, so counting copies is counting events.
LEMMA CountOfEvents ==
  ASSUME Log, NEW S \in SUBSET DOMAIN events
  PROVE  EventCount(S) = Cardinality(S) /\ IsFiniteSet(S)
<1>1. IsFiniteSet(S) /\ \A e \in S : events[e] = 1
  BY FS_Subset DEF Log
<1>2. EventCount(S) = SumOver(events, S)
  BY DEF EventCount, SumOver
<1> QED BY <1>1, <1>2, SumOfOnes

\* From Counted to MetricsMatchLog.
LEMMA MetricsAgree ==
  ASSUME Typed, Log, Counted
  PROVE  MetricsMatchLog
<1> SUFFICES ASSUME NEW o \in Ops, NEW k \in {"count_ok", "count_err"}
             PROVE  EventCount({e \in Logged(o) : Outcome(e.errno) = k}) =
                      metrics[o][k] +
                      Cardinality({t \in OpsIn(Threads, o) :
                                     pc[t] = "emitted" /\ Outcome(call[t].errno) = k})
  BY DEF MetricsMatchLog
<1>1. {e \in Logged(o) : Outcome(e.errno) = k} = Entries(o, k)
  BY DEF Logged, Entries, BagToSet
<1>2. {t \in OpsIn(Threads, o) : pc[t] = "emitted" /\ Outcome(call[t].errno) = k} = Between(o, k)
  BY DEF OpsIn, Between, Typed, TypeOK
<1>3. EventCount(Entries(o, k)) = Cardinality(Entries(o, k))
  BY CountOfEvents DEF Entries
<1> QED BY <1>1, <1>2, <1>3 DEF Counted

-----------------------------------------------------------------------------
(***************************************************************************)
(* The lag of the log.                                                     *)
(***************************************************************************)

\* From the admission to the event.
Early(t) ==
  \/ pc[t] \in {"admitted", "sleeping"}
  \/ pc[t] = "settled" /\ call[t].guard

\* The calls of o that panicked.
Panicked(o) == {r \in aborted : r.ctx.op = o}

\* Who was admitted, thread by thread.
LEMMA AdmittedIs ==
  /\ \A n : Admitted(n) <=> \/ \E u \in Threads : call[u] # NoCall /\ call[u].guard /\ call[u].seq = n
                           \/ \E r \in returned : r.guard /\ r.seq = n
  /\ \A n : Admitted(n)' <=> \/ \E u \in Threads : call'[u] # NoCall /\ call'[u].guard /\ call'[u].seq = n
                            \/ \E r \in returned' : r.guard /\ r.seq = n
BY DEF Admitted, Running

\* A number in the log is admitted after a step exactly if it was before.
LEMMA StepAdmitted ==
  ASSUME Typed, Owners, Log, NEW t \in Threads,
         (\E ctx \in Contexts : Begin(t, ctx)) \/ Step(t) \/ AcquireAfterWait(t),
         NEW e \in DOMAIN events
  PROVE  Admitted(e.seq)' <=> Admitted(e.seq)
<1>0. Moves(t) /\ Typed'
  BY StepMoves, NextTyped DEF Next
<1>1. \A u \in Threads \ {t} : call'[u] = call[u]
  BY <1>0 DEF Moves
<1>2. ASSUME t \notin Emitted, call[t] # NoCall PROVE e.seq # call[t].seq
  <2>1. \A u \in Emitted : call[u] # NoCall
    BY DEF Emitted, Typed, TypeOK
  <2> QED BY <1>2, <2>1, EventIsNew
<1>3. ASSUME UNCHANGED returned, call[t] = NoCall \/ e.seq # call[t].seq,
             call'[t] = NoCall \/ ~call'[t].guard \/ e.seq # call'[t].seq
      PROVE  Admitted(e.seq)' <=> Admitted(e.seq)
  BY <1>1, <1>3, AdmittedIs
<1>4. CASE \E ctx \in Contexts : Begin(t, ctx)
  <2>1. PICK ctx \in Contexts : Begin(t, ctx)
    BY <1>4
  <2>2. call[t] = NoCall /\ pc'[t] = "numbered" /\ UNCHANGED returned
    BY <2>1 DEF Begin, Go, history, Typed, TypeOK
  <2>3. ~call'[t].guard
    BY <1>0, <2>2 DEF Typed, Guards
  <2> QED BY <1>3, <2>2, <2>3
<1>5. CASE AcquireFree(t) \/ AcquireQueued(t) \/ AcquireRejected(t) \/ AcquireAfterWait(t)
             \/ Sample(t) \/ Execute(t)
  <2>1. /\ pc[t] \in {"numbered", "queued", "admitted", "sleeping"} /\ UNCHANGED returned
    BY <1>5 DEF AcquireFree, AcquireQueued, AcquireRejected, AcquireAfterWait, Grant, Sample,
       Execute, Go, history
  <2>2. call[t] \in Calls /\ call[t] # NoCall /\ t \notin Emitted
    BY <2>1, CallOfRunning DEF Emitted
  <2>3. call'[t].seq = call[t].seq
    BY <1>5, <2>2 DEF AcquireFree, AcquireQueued, AcquireRejected, AcquireAfterWait, Grant,
       Sample, Execute, Typed, Calls
  <2> QED BY <1>2, <1>3, <2>1, <2>2, <2>3
<1>6. CASE Emit(t) \/ Record(t)
  <2>1. UNCHANGED <<call, returned>>
    BY <1>6 DEF Emit, Record, history
  <2> QED BY <2>1, AdmittedIs
<1>7. CASE Panic(t)
  <2>1. pc[t] = "admitted" /\ pc'[t] = "dead" /\ UNCHANGED returned
    BY <1>7 DEF Panic, Go, Typed, TypeOK
  <2>2. call[t] # NoCall /\ t \notin Emitted /\ call'[t] = NoCall
    BY <1>0, <2>1 DEF Emitted, Typed, TypeOK
  <2> QED BY <1>2, <1>3, <2>1, <2>2
<1>8. CASE Return(t)
  <2> DEFINE r == [seq |-> call[t].seq, ctx |-> call[t].ctx, errno |-> call[t].errno,
                   guard |-> call[t].guard]
  <2>1. returned' = returned \cup {r} /\ pc[t] = "recorded" /\ pc'[t] = "idle"
    BY <1>8 DEF Return, Go, Typed, TypeOK
  <2>2. call[t] # NoCall /\ call'[t] = NoCall
    BY <1>0, <2>1 DEF Typed, TypeOK
  <2>3. r.seq = call[t].seq /\ (r.guard <=> call[t].guard)
    OBVIOUS
  <2> HIDE DEF r
  <2> QED BY <1>1, <2>1, <2>2, <2>3, AdmittedIs
<1> QED BY <1>4, <1>5, <1>6, <1>7, <1>8 DEF Step

\* The event a call emits counts as served exactly if the call has a guard.
LEMMA EmitAdmitted ==
  ASSUME Typed, Owners, NEW t \in Threads, call[t] # NoCall, UNCHANGED <<call, returned>>,
         NEW n, n = call[t].seq
  PROVE  Admitted(n)' <=> call[t].guard
BY AdmittedIs DEF Owners

\* At the start nothing was granted.
LEMMA InitLag == Init => Lag
<1> SUFFICES ASSUME Init, NEW o \in Ops
             PROVE  granted[o] = Cardinality(Served(o))
                      + Cardinality({r \in aborted : r.ctx.op = o}) + Cardinality(Lagging(o))
  BY DEF Lag
<1>1. Served(o) = {} /\ Lagging(o) = {} /\ {r \in aborted : r.ctx.op = o} = {}
  BY DEF Init, Served, Lagging, EmptyBag, SetToBag
<1>2. granted[o] = 0
  BY DEF Init
<1> QED BY <1>1, <1>2, FS_EmptySet

\* A grant starts a lag that emit or a panic ends.
LEMMA StepLag ==
  ASSUME Typed, Slots, Owners, Log, Lag, NEW t \in Threads,
         (\E ctx \in Contexts : Begin(t, ctx)) \/ Step(t) \/ AcquireAfterWait(t)
  PROVE  Lag'
<1>0. Moves(t) /\ Typed' /\ Slots'
  BY StepMoves, NextTyped, NextSlots DEF Next
<1> SUFFICES ASSUME NEW o \in Ops
             PROVE  granted'[o] = Cardinality(Served(o)') + Cardinality(Panicked(o)')
                                    + Cardinality(Lagging(o)')
  BY DEF Lag, Panicked
<1>1. granted[o] = Cardinality(Served(o)) + Cardinality(Panicked(o)) + Cardinality(Lagging(o))
  BY DEF Lag, Panicked
<1>2. IsFiniteSet(Served(o)) /\ IsFiniteSet(Panicked(o)) /\ IsFiniteSet(Lagging(o))
  <2>1. Lagging(o) \in SUBSET Threads
    BY DEF Lagging, Typed, TypeOK
  <2> QED BY <2>1, FS_Subset, ThreadsFinite DEF Log, Served, Panicked, Typed
<1>3. /\ Cardinality(Served(o)) \in Nat /\ Cardinality(Panicked(o)) \in Nat
      /\ Cardinality(Lagging(o)) \in Nat
  BY <1>2, FS_CardinalityType
<1>4. /\ Lagging(o) = {u \in Threads : Early(u) /\ call[u].ctx.op = o}
      /\ Lagging(o)' = {u \in Threads : Early(u)' /\ call'[u].ctx.op = o}
  BY <1>0 DEF Lagging, Slots, InSlot, Early
<1>5. \A u \in Threads \ {t} : (Early(u) <=> Early(u)') /\ call'[u] = call[u]
  BY <1>0 DEF Moves, Early
<1>16. \A e \in DOMAIN events : Admitted(e.seq)' <=> Admitted(e.seq)
  BY StepAdmitted
<1> DEFINE p == call[t].ctx.op
<1>6. CASE AcquireFree(t) \/ AcquireAfterWait(t)
  <2>1. /\ pc[t] \in {"numbered", "queued"} /\ pc'[t] = "admitted"
        /\ UNCHANGED <<events, aborted>>
        /\ granted' = [granted EXCEPT ![p] = @ + 1]
        /\ call' = [call EXCEPT ![t].guard = TRUE]
    BY <1>6 DEF AcquireFree, AcquireAfterWait, Grant, Go, history, Typed, TypeOK
  <2>8. call[t] \in Calls
    BY <2>1, CallOfRunning
  <2>9. call'[t].ctx = call[t].ctx
    BY <2>1, <2>8 DEF Typed, Calls
  <2>2. Served(o)' = Served(o) /\ Panicked(o)' = Panicked(o)
    BY <1>16, <2>1 DEF Served, Panicked
  <2>3. ~Early(t) /\ Early(t)'
    BY <2>1 DEF Early
  <2>4. CASE p = o
    <3>1. granted'[o] = granted[o] + 1
      BY <2>1, <2>4 DEF Typed, TypeOK
    <3>2. Lagging(o)' = Lagging(o) \cup {t} /\ t \notin Lagging(o)
      BY <1>4, <1>5, <2>3, <2>4, <2>9
    <3>3. Cardinality(Lagging(o)') = Cardinality(Lagging(o)) + 1
      BY <1>2, <3>2, CountAdd
    <3> QED BY <1>1, <1>3, <2>2, <3>1, <3>3
  <2>5. CASE p # o
    <3>1. granted'[o] = granted[o]
      BY <2>1, <2>5 DEF Typed, TypeOK
    <3>2. Lagging(o)' = Lagging(o)
      BY <1>4, <1>5, <2>3, <2>5, <2>9
    <3> QED BY <1>1, <2>2, <3>1, <3>2
  <2> QED BY <2>4, <2>5
<1>7. CASE Emit(t)
  <2>0. PICK e : e = EventOf(call[t])
    OBVIOUS
  <2>1. /\ pc[t] = "settled" /\ pc'[t] = "emitted"
        /\ UNCHANGED <<call, granted, aborted, returned>>
    BY <1>7 DEF Emit, Go, limiters, history, Typed, TypeOK
  <2>2. e \notin DOMAIN events /\ DOMAIN events' = DOMAIN events \cup {e}
    BY <1>7, <2>0, EmitAdds
  <2>3. e.op = p /\ (Admitted(e.seq)' <=> call[t].guard)
    <3>1. e.op = p /\ e.seq = call[t].seq /\ call[t] # NoCall
      BY <2>0, <2>1 DEF EventOf, Typed, TypeOK
    <3> QED BY <2>1, <3>1, EmitAdmitted
  <2>4. Panicked(o)' = Panicked(o)
    BY <2>1 DEF Panicked
  <2>5. ~Early(t)' /\ (Early(t) <=> call[t].guard)
    BY <2>1 DEF Early
  <2>6. CASE p = o /\ call[t].guard
    <3>1. Served(o)' = Served(o) \cup {e} /\ e \notin Served(o)
      BY <1>16, <2>2, <2>3, <2>6 DEF Served
    <3>2. Lagging(o)' = Lagging(o) \ {t} /\ t \in Lagging(o)
      BY <1>4, <1>5, <2>5, <2>6
    <3>3. Cardinality(Served(o)') = Cardinality(Served(o)) + 1
      BY <1>2, <3>1, CountAdd
    <3>4. Cardinality(Lagging(o)') = Cardinality(Lagging(o)) - 1
      BY <1>2, <3>2, CountRemove
    <3> QED BY <1>1, <1>3, <2>1, <2>4, <3>3, <3>4
  <2>7. CASE ~(p = o /\ call[t].guard)
    <3>1. Served(o)' = Served(o)
      BY <1>16, <2>2, <2>3, <2>7 DEF Served
    <3>2. Lagging(o)' = Lagging(o)
      BY <1>4, <1>5, <2>5, <2>7
    <3> QED BY <1>1, <2>1, <2>4, <3>1, <3>2
  <2> QED BY <2>6, <2>7
<1>8. CASE Panic(t)
  <2> DEFINE r == [seq |-> call[t].seq, ctx |-> call[t].ctx]
  <2>1. /\ pc[t] = "admitted" /\ pc'[t] = "dead" /\ call[t] # NoCall
        /\ aborted' = aborted \cup {r} /\ UNCHANGED <<granted, events>>
    BY <1>8, CallOfRunning DEF Panic, Go, Typed, TypeOK
  <2>2. r \notin aborted
    <3>1. r.seq = call[t].seq
      OBVIOUS
    <3> QED BY <2>1, <3>1 DEF Owners
  <2>3. r.ctx.op = p
    OBVIOUS
  <2> HIDE DEF r
  <2>4. Early(t) /\ ~Early(t)'
    BY <2>1 DEF Early
  <2>5. Served(o)' = Served(o)
    BY <1>16, <2>1 DEF Served
  <2>6. CASE p = o
    <3>1. Panicked(o)' = Panicked(o) \cup {r} /\ r \notin Panicked(o)
      BY <2>1, <2>2, <2>3, <2>6 DEF Panicked
    <3>2. Lagging(o)' = Lagging(o) \ {t} /\ t \in Lagging(o)
      BY <1>4, <1>5, <2>4, <2>6
    <3>3. Cardinality(Panicked(o)') = Cardinality(Panicked(o)) + 1
      BY <1>2, <3>1, CountAdd
    <3>4. Cardinality(Lagging(o)') = Cardinality(Lagging(o)) - 1
      BY <1>2, <3>2, CountRemove
    <3> QED BY <1>1, <1>3, <2>1, <2>5, <3>3, <3>4
  <2>7. CASE p # o
    <3>1. Panicked(o)' = Panicked(o)
      BY <2>1, <2>3, <2>7 DEF Panicked
    <3>2. Lagging(o)' = Lagging(o)
      BY <1>4, <1>5, <2>4, <2>7
    <3> QED BY <1>1, <2>1, <2>5, <3>1, <3>2
  <2> QED BY <2>6, <2>7
<1>9. ASSUME UNCHANGED <<granted, events, aborted>>,
             (Early(t) /\ call[t].ctx.op = o) <=> (Early(t)' /\ call'[t].ctx.op = o)
      PROVE  granted'[o] = Cardinality(Served(o)') + Cardinality(Panicked(o)')
                             + Cardinality(Lagging(o)')
  <2>1. Served(o)' = Served(o) /\ Panicked(o)' = Panicked(o)
    BY <1>16, <1>9 DEF Served, Panicked
  <2>2. Lagging(o)' = Lagging(o)
    BY <1>4, <1>5, <1>9
  <2> QED BY <1>1, <1>9, <2>1, <2>2
<1>10. CASE (\E ctx \in Contexts : Begin(t, ctx)) \/ AcquireQueued(t) \/ Record(t) \/ Return(t)
  <2>1. UNCHANGED <<granted, events, aborted>> /\ ~Early(t) /\ ~Early(t)'
    BY <1>10 DEF Begin, AcquireQueued, Record, Return, Go, limiters, history, Early, Typed, TypeOK
  <2> QED BY <1>9, <2>1
<1>11. CASE AcquireRejected(t)
  <2>1. call[t] \in Calls
    BY <1>11, CallOfRunning DEF AcquireRejected, Go
  <2>2. ~call'[t].guard
    BY <1>11, <2>1 DEF AcquireRejected, Go, Typed, Calls, Guards
  <2>3. UNCHANGED <<granted, events, aborted>> /\ ~Early(t) /\ ~Early(t)'
    BY <1>11, <2>2 DEF AcquireRejected, Go, history, Early, Typed, TypeOK
  <2> QED BY <1>9, <2>3
<1>12. CASE Sample(t)
  <2>1. call[t] \in Calls
    BY <1>12, CallOfRunning DEF Sample, Go
  <2>2. call'[t].ctx = call[t].ctx
    BY <1>12, <2>1 DEF Sample, Typed, Calls
  <2>3. UNCHANGED <<granted, events, aborted>> /\ Early(t) /\ Early(t)'
    BY <1>12 DEF Sample, Go, limiters, history, Early, Typed, TypeOK
  <2> QED BY <1>9, <2>2, <2>3
<1>13. CASE Execute(t)
  <2>1. /\ call'[t].ctx = call[t].ctx /\ UNCHANGED <<granted, events, aborted>>
        /\ Early(t) /\ Early(t)'
    BY <1>13, ExecuteSettles DEF Execute, limiters, history, Early
  <2> QED BY <1>9, <2>1
<1> QED BY <1>6, <1>7, <1>8, <1>10, <1>11, <1>12, <1>13 DEF Step

\* Lagging calls have slots, so there are at most concurrency_cap of them.
LEMMA LagIsBounded ==
  ASSUME Typed, Slots, Log, Lag
  PROVE  LogLagBounded
<1> SUFFICES ASSUME NEW o \in Ops
             PROVE  granted[o] - EventCount({e \in Logged(o) : Admitted(e.seq)})
                               - Cardinality({r \in aborted : r.ctx.op = o})
                      <= Policy[o].concurrency_cap
  BY DEF LogLagBounded
<1> DEFINE A == {r \in aborted : r.ctx.op = o}
           E == {e \in Logged(o) : Admitted(e.seq)}
<1>1. {e \in Logged(o) : Admitted(e.seq)} = Served(o)
  BY DEF Logged, Served, BagToSet
<1>2. EventCount(Served(o)) = Cardinality(Served(o)) /\ IsFiniteSet(Served(o))
  BY CountOfEvents DEF Served
<1>3. IsFiniteSet(held[o]) /\ Lagging(o) \in SUBSET held[o]
  BY FS_Subset, ThreadsFinite DEF Typed, TypeOK, Lagging
<1>4. Cardinality(Lagging(o)) <= Cardinality(held[o]) /\ IsFiniteSet(Lagging(o))
  BY <1>3, FS_Subset
<1>5. IsFiniteSet({r \in aborted : r.ctx.op = o})
  BY FS_Subset DEF Typed
<1>6. /\ Cardinality(Served(o)) \in Nat /\ Cardinality({r \in aborted : r.ctx.op = o}) \in Nat
      /\ Cardinality(Lagging(o)) \in Nat /\ Cardinality(held[o]) \in Nat
  BY <1>2, <1>3, <1>4, <1>5, FS_CardinalityType
<1>7. Cardinality(held[o]) <= Policy[o].concurrency_cap /\ Policy[o].concurrency_cap \in Nat
  BY PolicyValid DEF Slots
<1>8. granted[o] = Cardinality(Served(o)) + Cardinality({r \in aborted : r.ctx.op = o})
                     + Cardinality(Lagging(o))
  BY DEF Lag
<1>9. E = Served(o) /\ Cardinality(A) \in Nat
      /\ granted[o] = Cardinality(Served(o)) + Cardinality(A) + Cardinality(Lagging(o))
  BY <1>1, <1>6, <1>8
<1> SUFFICES granted[o] - EventCount(E) - Cardinality(A) <= Policy[o].concurrency_cap
  OBVIOUS
<1> HIDE DEF A, E
<1>10. EventCount(E) = Cardinality(Served(o))
  BY <1>2, <1>9
<1> QED BY <1>4, <1>6, <1>7, <1>9, <1>10

-----------------------------------------------------------------------------
(***************************************************************************)
(* Charges.                                                                *)
(***************************************************************************)

\* The bytes of a set of calls.
Bytes(S) == SumOver([r \in S |-> r.ctx.len], S)

\* The bytes of a set of calls and one call more.
LEMMA BytesAdd ==
  ASSUME NEW S, IsFiniteSet(S), \A r \in S : r.ctx.len \in Nat,
         NEW x, x \notin S, x.ctx.len \in Nat
  PROVE  Bytes(S) \in Nat /\ Bytes(S \cup {x}) = Bytes(S) + x.ctx.len
<1> DEFINE f == [r \in S |-> r.ctx.len]
           R == S \cup {x}
           g == [r \in R |-> r.ctx.len]
<1>1. /\ \A r \in S : f[r] \in Nat /\ g[r] = f[r] /\ g[r] \in Nat
      /\ g[x] = x.ctx.len /\ g[x] \in Nat
  OBVIOUS
<1>2. Bytes(S) = SumOver(f, S) /\ Bytes(R) = SumOver(g, R)
  BY DEF Bytes
<1> HIDE DEF f, g
<1>3. SumOver(f, S) \in Nat
  BY <1>1, SumType
<1>4. SumOver(g, S) = SumOver(f, S)
  BY <1>1, SumSame
<1>5. SumOver(g, S \cup {x}) = SumOver(g, S) + g[x]
  BY <1>1, SumAdd
<1> QED BY <1>1, <1>2, <1>3, <1>4, <1>5

\* The operation belongs to the tier's bandwidth limiter of o.
Fits(r, o, tier) ==
  /\ r.ctx.op = o
  /\ (tier = "large") <=>
       \E threshold_bytes \in Policy[o].size_tier : r.ctx.requested_len > threshold_bytes

\* The threads that have been charged and have not returned.
Late(o, tier) == {u \in Threads : InSlot(u) /\ pc[u] # "admitted" /\ Fits(call[u], o, tier)}

\* The calls of the tier that were charged and are over, and all that were charged.
Gone(o, tier) ==
  {r \in returned : r.guard /\ Fits(r, o, tier)} \cup {r \in aborted : Fits(r, o, tier)}

Paid(o, tier) == {call[u] : u \in Late(o, tier)} \cup Gone(o, tier)

\* What was paid for others than t.
Rest(t, o, tier) == {call[u] : u \in Late(o, tier) \ {t}} \cup Gone(o, tier)

\* A tier with a bandwidth was charged the bytes of its calls.
Billed ==
  \A o \in DataOps, tier \in Tiers :
    charged[o][tier] = IF Policy[o][tier].bandwidth THEN Bytes(Paid(o, tier)) ELSE 0

\* From Billed to ChargedOnce.
LEMMA BilledIsChargedOnce == ASSUME Slots, Billed PROVE ChargedOnce
<1> SUFFICES ASSUME NEW o \in DataOps, NEW tier \in Tiers
             PROVE  LET past == {call[t] : t \in {u \in held[o] : pc[u] # "admitted"}}
                                \cup {r \in returned : r.guard} \cup aborted
                        here == {r \in past : Fits(r, o, tier)}
                        bytes == [r \in here |-> r.ctx.len]
                    IN  charged[o][tier] = IF Policy[o][tier].bandwidth
                                           THEN SumOver(bytes, here) ELSE 0
  BY DEF ChargedOnce, Fits, SumOver
<1> DEFINE past == {call[t] : t \in {u \in held[o] : pc[u] # "admitted"}}
                   \cup {r \in returned : r.guard} \cup aborted
           here == {r \in past : Fits(r, o, tier)}
           bytes == [r \in here |-> r.ctx.len]
<1> SUFFICES charged[o][tier] = IF Policy[o][tier].bandwidth THEN SumOver(bytes, here) ELSE 0
  OBVIOUS
<1>1. {u \in held[o] : pc[u] # "admitted"} =
        {u \in Threads : InSlot(u) /\ pc[u] # "admitted" /\ call[u].ctx.op = o}
  BY OpsAreFinite DEF Slots
<1>2. here = Paid(o, tier)
  BY <1>1 DEF Paid, Late, Gone, Fits
<1>3. Bytes(here) = SumOver(bytes, here)
  BY DEF Bytes
<1>4. charged[o][tier] = IF Policy[o][tier].bandwidth THEN Bytes(here) ELSE 0
  BY <1>2 DEF Billed
<1> HIDE DEF bytes, here
<1> QED BY <1>3, <1>4

\* At the start nothing was charged.
LEMMA InitBilled == Init => Billed
<1> SUFFICES ASSUME Init, NEW o \in DataOps, NEW tier \in Tiers
             PROVE  charged[o][tier] = IF Policy[o][tier].bandwidth
                                       THEN Bytes(Paid(o, tier)) ELSE 0
  BY DEF Billed
<1>1. Paid(o, tier) = {}
  BY DEF Init, Paid, Late, Gone, InSlot
<1>2. Bytes({}) = 0
  BY SumEmpty DEF Bytes
<1>3. charged[o][tier] = 0
  BY OpsAreFinite DEF Init
<1> QED BY <1>1, <1>2, <1>3

\* The calls that have been charged, apart from the one of thread t: finitely
\* many, none with the number of t.
LEMMA RestFacts ==
  ASSUME Typed, Owners, NEW t \in Threads, NEW o, NEW tier
  PROVE  /\ IsFiniteSet(Rest(t, o, tier))
         /\ \A r \in Rest(t, o, tier) : r.ctx.len \in Nat
         /\ call[t] # NoCall => \A r \in Rest(t, o, tier) : r.seq # call[t].seq
         /\ t \in Late(o, tier) => Paid(o, tier) = Rest(t, o, tier) \cup {call[t]}
         /\ t \notin Late(o, tier) => Paid(o, tier) = Rest(t, o, tier)
<1> DEFINE H == Late(o, tier) \ {t}
           C == {call[u] : u \in H}
           G == Gone(o, tier)
<1>1. IsFiniteSet(C)
  <2>1. IsFiniteSet(H)
    BY FS_Subset, ThreadsFinite DEF Late
  <2> HIDE DEF H
  <2> DEFINE f == [u \in H |-> call[u]]
  <2>2. f \in Surjection(H, C)
    BY DEF Surjection
  <2> HIDE DEF C, f
  <2> QED BY <2>1, <2>2, FS_Surjection
<1>2. IsFiniteSet(G)
  <2>1. /\ IsFiniteSet({r \in returned : r.guard /\ Fits(r, o, tier)})
        /\ IsFiniteSet({r \in aborted : Fits(r, o, tier)})
    BY FS_Subset DEF Typed
  <2> QED BY <2>1, FS_Union DEF Gone
<1>3. IsFiniteSet(Rest(t, o, tier))
  BY <1>1, <1>2, FS_Union DEF Rest
<1>4. \A u \in H : u \in Threads /\ u # t /\ call[u] \in Calls /\ call[u] # NoCall
  BY CallOfRunning DEF Late, InSlot
<1>5. G \subseteq returned \cup aborted
  BY DEF Gone
<1>6. \A r \in Rest(t, o, tier) : r.ctx.len \in Nat
  BY <1>4, <1>5, ContextsOk DEF Rest, Calls, Typed, Results, Aborts
<1>7. call[t] # NoCall => \A r \in Rest(t, o, tier) : r.seq # call[t].seq
  BY <1>4, <1>5 DEF Rest, Owners
<1> QED BY <1>3, <1>6, <1>7 DEF Paid, Rest

\* Charge adds the length of the call to its own tier when that tier has a
\* bandwidth.
LEMMA ChargeFits ==
  ASSUME Typed, NEW ctx \in Contexts, Charge(ctx), NEW r, r.ctx = ctx,
         NEW o \in DataOps, NEW tier \in Tiers
  PROVE  charged'[o][tier] = charged[o][tier] +
           (IF Fits(r, o, tier) /\ Policy[o][tier].bandwidth THEN ctx.len ELSE 0)
<1> DEFINE p == ctx.op
           d == Tier(ctx)
           n == IF Reserves(ctx) THEN ctx.len ELSE 0
<1>1. o \in Ops /\ p \in Ops /\ d \in Tiers /\ ctx.len \in Nat /\ n \in Nat
  BY ContextsOk, OpsAreFinite DEF Tier, Tiers
<1>2. charged' = [charged EXCEPT ![p][d] = @ + n]
  BY DEF Charge
<1>3. Fits(r, o, tier) <=> p = o /\ d = tier
  BY DEF Fits, Tier, Tiers
<1>4. p = o /\ d = tier => n = IF Policy[o][tier].bandwidth THEN ctx.len ELSE 0
  BY <1>1 DEF Reserves, Profile
<1>5. charged[o][tier] \in Nat
  BY <1>1 DEF Typed, TypeOK
<1> HIDE DEF p, d, n
<1>6. charged'[o][tier] = IF p = o /\ d = tier THEN charged[o][tier] + n ELSE charged[o][tier]
  BY <1>1, <1>2 DEF Typed, TypeOK
<1> QED BY <1>1, <1>3, <1>4, <1>5, <1>6

\* A step charges the call it samples and no other, and no call twice.
LEMMA StepBilled ==
  ASSUME Typed, Slots, Owners, Billed, NEW t \in Threads,
         (\E ctx \in Contexts : Begin(t, ctx)) \/ Step(t) \/ AcquireAfterWait(t)
  PROVE  Billed'
<1>0. Moves(t) /\ Typed'
  BY StepMoves, NextTyped DEF Next
<1> SUFFICES ASSUME NEW o \in DataOps, NEW tier \in Tiers
             PROVE  charged'[o][tier] = IF Policy[o][tier].bandwidth
                                        THEN Bytes(Paid(o, tier)') ELSE 0
  BY DEF Billed
<1>1. charged[o][tier] = IF Policy[o][tier].bandwidth THEN Bytes(Paid(o, tier)) ELSE 0
  BY DEF Billed
<1> DEFINE R == Rest(t, o, tier)
<1>2. /\ IsFiniteSet(R) /\ \A r \in R : r.ctx.len \in Nat
      /\ call[t] # NoCall => \A r \in R : r.seq # call[t].seq
      /\ t \in Late(o, tier) => Paid(o, tier) = R \cup {call[t]}
      /\ t \notin Late(o, tier) => Paid(o, tier) = R
  BY RestFacts
<1>3. \A u \in Threads \ {t} : (u \in Late(o, tier)' <=> u \in Late(o, tier)) /\ call'[u] = call[u]
  BY <1>0 DEF Moves, Late, InSlot
<1>4. {call'[u] : u \in Late(o, tier)' \ {t}} = {call[u] : u \in Late(o, tier) \ {t}}
  BY <1>3 DEF Late
<1>5. ASSUME UNCHANGED <<returned, aborted>>
      PROVE  /\ t \in Late(o, tier)' => Paid(o, tier)' = R \cup {call'[t]}
             /\ t \notin Late(o, tier)' => Paid(o, tier)' = R
  <2>1. Gone(o, tier)' = Gone(o, tier)
    BY <1>5 DEF Gone
  <2> QED BY <1>4, <2>1 DEF Paid, Rest
<1>6. ASSUME NEW x, x.seq = call[t].seq, call[t] # NoCall, x.ctx.len \in Nat
      PROVE  x \notin R /\ Bytes(R) \in Nat /\ Bytes(R \cup {x}) = Bytes(R) + x.ctx.len
  <2>1. x \notin R
    BY <1>2, <1>6
  <2> HIDE DEF R
  <2> QED BY <1>2, <1>6, <2>1, BytesAdd
<1> HIDE DEF R
<1>7. ASSUME UNCHANGED charged, Paid(o, tier)' = Paid(o, tier)
      PROVE  charged'[o][tier] = IF Policy[o][tier].bandwidth THEN Bytes(Paid(o, tier)') ELSE 0
  BY <1>1, <1>7
<1>8. CASE (\E ctx \in Contexts : Begin(t, ctx)) \/ AcquireFree(t) \/ AcquireQueued(t)
             \/ AcquireAfterWait(t)
  <2>1. /\ UNCHANGED <<charged, returned, aborted>>
        /\ pc[t] \in {"idle", "numbered", "queued"}
        /\ pc'[t] \in {"numbered", "queued", "admitted"}
    BY <1>8 DEF Begin, AcquireFree, AcquireQueued, AcquireAfterWait, Grant, Go, history, Typed, TypeOK
  <2>2. t \notin Late(o, tier) /\ t \notin Late(o, tier)'
    BY <2>1 DEF Late, InSlot
  <2> QED BY <1>2, <1>5, <1>7, <2>1, <2>2
<1>9. CASE AcquireRejected(t)
  <2>1. call[t] \in Calls
    BY <1>9, CallOfRunning DEF AcquireRejected, Go
  <2>2. ~call'[t].guard
    BY <1>9, <2>1 DEF AcquireRejected, Go, Typed, Calls, Guards
  <2>3. /\ UNCHANGED <<charged, returned, aborted>> /\ pc[t] = "numbered" /\ pc'[t] = "settled"
    BY <1>9 DEF AcquireRejected, Go, history, Typed, TypeOK
  <2>4. t \notin Late(o, tier) /\ t \notin Late(o, tier)'
    BY <2>2, <2>3 DEF Late, InSlot
  <2> QED BY <1>2, <1>5, <1>7, <2>3, <2>4
<1>10. CASE Emit(t) \/ Record(t)
  <2>1. /\ UNCHANGED <<charged, returned, aborted, call>>
        /\ pc[t] \in {"settled", "emitted"} /\ pc'[t] \in {"emitted", "recorded"}
    BY <1>10 DEF Emit, Record, Go, history, Typed, TypeOK
  <2>2. t \in Late(o, tier) <=> t \in Late(o, tier)'
    BY <2>1 DEF Late, InSlot
  <2> QED BY <1>2, <1>5, <1>7, <2>1, <2>2
<1>11. CASE Sample(t)
  <2>1. /\ call[t] \in Calls /\ call[t] # NoCall /\ call[t].ctx \in Contexts
        /\ call[t].ctx.len \in Nat
    BY <1>11, CallOfRunning DEF Sample, Go
  <2>2. call'[t].ctx = call[t].ctx /\ call'[t].seq = call[t].seq
    BY <1>11, <2>1 DEF Sample, Typed, Calls
  <2>3. /\ UNCHANGED <<returned, aborted>> /\ pc[t] = "admitted" /\ pc'[t] = "sleeping"
        /\ Charge(call[t].ctx)
    BY <1>11 DEF Sample, Go, history, Typed, TypeOK
  <2>4. t \notin Late(o, tier) /\ (t \in Late(o, tier)' <=> Fits(call[t], o, tier))
    BY <2>2, <2>3 DEF Late, InSlot, Fits
  <2>5. charged'[o][tier] = charged[o][tier] +
          (IF Fits(call[t], o, tier) /\ Policy[o][tier].bandwidth THEN call[t].ctx.len ELSE 0)
    BY <2>1, <2>3, ChargeFits
  <2>6. Bytes(R) \in Nat /\ Bytes(R \cup {call'[t]}) = Bytes(R) + call[t].ctx.len
    BY <1>6, <2>1, <2>2
  <2>7. /\ Paid(o, tier) = R
        /\ Paid(o, tier)' = IF Fits(call[t], o, tier) THEN R \cup {call'[t]} ELSE R
    BY <1>2, <1>5, <2>3, <2>4
  <2> QED BY <1>1, <2>1, <2>5, <2>6, <2>7
<1>12. CASE Panic(t)
  <2> DEFINE r == [seq |-> call[t].seq, ctx |-> call[t].ctx]
  <2>1. /\ call[t] # NoCall /\ call[t].ctx \in Contexts /\ call[t].ctx.len \in Nat
    BY <1>12, CallOfRunning DEF Panic, Go
  <2>2. r.seq = call[t].seq /\ r.ctx = call[t].ctx
    OBVIOUS
  <2>3. /\ aborted' = aborted \cup {r} /\ UNCHANGED returned
        /\ pc[t] = "admitted" /\ pc'[t] = "dead" /\ Charge(call[t].ctx)
    BY <1>12 DEF Panic, Go, Typed, TypeOK
  <2> HIDE DEF r
  <2>4. t \notin Late(o, tier) /\ t \notin Late(o, tier)'
    BY <2>3 DEF Late, InSlot
  <2>5. charged'[o][tier] = charged[o][tier] +
          (IF Fits(r, o, tier) /\ Policy[o][tier].bandwidth THEN call[t].ctx.len ELSE 0)
    BY <2>1, <2>2, <2>3, ChargeFits
  <2>6. Bytes(R) \in Nat /\ Bytes(R \cup {r}) = Bytes(R) + call[t].ctx.len
    BY <1>6, <2>1, <2>2
  <2>7. Gone(o, tier)' = IF Fits(r, o, tier) THEN Gone(o, tier) \cup {r} ELSE Gone(o, tier)
    BY <2>3 DEF Gone
  <2>8. Paid(o, tier)' = IF Fits(r, o, tier) THEN R \cup {r} ELSE R
    BY <1>4, <2>4, <2>7 DEF Paid, Rest, R
  <2> QED BY <1>1, <1>2, <2>1, <2>4, <2>5, <2>6, <2>8
<1>13. CASE Execute(t)
  <2>1. /\ call[t] \in Calls /\ call[t] # NoCall /\ call[t].ctx.len \in Nat
    BY <1>13, CallOfRunning DEF Execute, Go
  <2>3. /\ call'[t].ctx = call[t].ctx /\ call'[t].seq = call[t].seq
        /\ call[t].guard /\ call'[t].guard
    BY <1>13, ExecuteSettles
  <2>4. /\ UNCHANGED <<charged, returned, aborted>> /\ pc[t] = "sleeping" /\ pc'[t] = "settled"
    BY <1>13 DEF Execute, Go, history, Typed, TypeOK
  <2>5. t \in Late(o, tier) <=> t \in Late(o, tier)'
    BY <2>3, <2>4 DEF Late, InSlot, Fits
  <2>6. Bytes(R \cup {call'[t]}) = Bytes(R \cup {call[t]})
    BY <1>6, <2>1, <2>3
  <2> QED BY <1>1, <1>2, <1>5, <2>4, <2>5, <2>6
<1>14. CASE Return(t)
  <2> DEFINE r == [seq |-> call[t].seq, ctx |-> call[t].ctx, errno |-> call[t].errno,
                   guard |-> call[t].guard]
  <2>1. /\ call[t] # NoCall /\ call[t].ctx.len \in Nat
    BY <1>14, CallOfRunning DEF Return, Go
  <2>2. r.seq = call[t].seq /\ r.ctx = call[t].ctx /\ (r.guard <=> call[t].guard)
    OBVIOUS
  <2>3. /\ returned' = returned \cup {r} /\ UNCHANGED <<charged, aborted>>
        /\ pc[t] = "recorded" /\ pc'[t] = "idle"
    BY <1>14 DEF Return, Go, Typed, TypeOK
  <2> HIDE DEF r
  <2>4. t \notin Late(o, tier)' /\ (t \in Late(o, tier) <=> r.guard /\ Fits(r, o, tier))
    BY <2>2, <2>3 DEF Late, InSlot, Fits
  <2>5. Gone(o, tier)' = IF r.guard /\ Fits(r, o, tier)
                         THEN Gone(o, tier) \cup {r} ELSE Gone(o, tier)
    BY <2>3 DEF Gone
  <2>6. Paid(o, tier)' = IF t \in Late(o, tier) THEN R \cup {r} ELSE R
    BY <1>4, <2>4, <2>5 DEF Paid, Rest, R
  <2>7. Bytes(R \cup {r}) = Bytes(R \cup {call[t]})
    BY <1>6, <2>1, <2>2
  <2> QED BY <1>1, <1>2, <2>3, <2>6, <2>7
<1> QED BY <1>8, <1>9, <1>10, <1>11, <1>12, <1>13, <1>14 DEF Step

-----------------------------------------------------------------------------
(***************************************************************************)
(* The invariant and what follows from it.                                 *)
(***************************************************************************)

\* The inductive invariant.
IInv == Typed /\ Slots /\ Owners /\ Log /\ Counted /\ Lag /\ Billed

\* The invariant holds at the start.
LEMMA InitIInv == Init => IInv
BY InitTyped, InitSlots, InitOwners, InitLog, InitCounted, InitLag, InitBilled DEF IInv

\* Every step keeps the invariant.
LEMMA NextIInv == IInv /\ [Next]_vars => IInv'
<1> SUFFICES ASSUME IInv, [Next]_vars PROVE IInv'
  OBVIOUS
<1>1. Typed'
  BY NextTyped DEF IInv
<1>2. CASE UNCHANGED vars
  <2> USE <1>2 DEF vars, limiters, history
  <2>1. Slots'
    BY DEF IInv, Slots, InSlot
  <2>2. Owners'
    BY DEF IInv, Owners
  <2>3. Log'
    BY DEF IInv, Log, Emitted
  <2>4. Counted'
    <3>1. ASSUME NEW o, NEW k
          PROVE  Entries(o, k)' = Entries(o, k) /\ Between(o, k)' = Between(o, k)
      BY DEF Entries, Between
    <3> QED BY <3>1 DEF IInv, Counted
  <2>5. Lag'
    BY DEF IInv, Lag, Served, Lagging, Admitted, Running
  <2>6. Billed'
    BY DEF IInv, Billed, Paid, Late, Gone, InSlot
  <2> QED BY <1>1, <2>1, <2>2, <2>3, <2>4, <2>5, <2>6 DEF IInv
<1>3. CASE \E t \in Threads :
             (\E ctx \in Contexts : Begin(t, ctx)) \/ Step(t) \/ AcquireAfterWait(t)
  BY <1>1, <1>3, NextSlots, BeginOwners, StepOwners, StepLog, StepCounted, StepLag, StepBilled
  DEF IInv
<1> QED BY <1>2, <1>3 DEF Next, Done

\* The invariant holds in every reachable state.
LEMMA Invariance == SafeSpec => []IInv
BY InitIInv, NextIInv, PTL DEF SafeSpec

\* Every number below seq has exactly one owner: a running, a returned or an
\* aborted call.  fetch_add never hands a number out twice and none is lost.
THEOREM NumbersUnique == SafeSpec => []NumbersAreUnique
<1>1. IInv => NumbersAreUnique
  BY OneOwner DEF IInv
<1> QED BY <1>1, Invariance, PTL

\* A call that has returned has exactly one event in the log, with its own
\* number, operation and errno; no event is emitted twice or for nobody.
THEOREM EventsExact == SafeSpec => []OneEventPerReturn
<1>1. IInv => OneEventPerReturn
  BY LogIsExact DEF IInv
<1> QED BY <1>1, Invariance, PTL

\* The counters of the metrics recorder are what the event log counts, but for
\* the calls between emit and record.
THEOREM MetricsCorrect == SafeSpec => []MetricsMatchLog
<1>1. IInv => MetricsMatchLog
  BY MetricsAgree DEF IInv
<1> QED BY <1>1, Invariance, PTL

\* The log lags behind the limiter by no more calls than have slots: a granted
\* call that is neither in the log nor aborted still holds its slot.
THEOREM LagBounded == SafeSpec => []LogLagBounded
<1>1. IInv => LogLagBounded
  BY LagIsBounded DEF IInv
<1> QED BY <1>1, Invariance, PTL

\* The bandwidth limiter of each tier has been charged the bytes of the
\* admitted calls of that tier, each once: refused calls pay nothing and panics
\* pay once.
THEOREM ChargesCorrect == SafeSpec => []ChargedOnce
<1>1. IInv => ChargedOnce
  BY BilledIsChargedOnce DEF IInv
<1> QED BY <1>1, Invariance, PTL

\* Each operation of the engine refines the abstract limiter: slots never
\* exceed the cap and change only by granted, refused and released calls, and a
\* call keeps its slot until it returns or panics.
THEOREM LimitersCorrect == SafeSpec => LimitersRespected
<1>1. IInv /\ [Next]_vars =>
        [\A o \in Ops :
           /\ AC(o)!Next \/ UNCHANGED <<held[o], Waiting(o), granted[o], refused[o]>>
           /\ \A t \in held[o] : t \in held'[o] <=> call'[t] # NoCall]_vars
  <2> SUFFICES ASSUME IInv, [Next]_vars, ~UNCHANGED vars, NEW o \in Ops
               PROVE  Respected(o) /\ Covered(o)
    BY DEF Respected, Covered
  <2> QED BY StepRespects, StepCovers DEF IInv, Next, Done
<1> QED BY <1>1, Invariance, PTL DEF SafeSpec, LimitersRespected
====
