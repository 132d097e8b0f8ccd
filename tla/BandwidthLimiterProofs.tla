---------------------- MODULE BandwidthLimiterProofs ----------------------
(***************************************************************************)
(* Proofs about BandwidthLimiter for any threads, request sizes, capacity,  *)
(* rate and length of the run: the rate is respected, throttled callers are *)
(* paced, and the bucket implements PacedLink.                             *)
(***************************************************************************)
EXTENDS BandwidthLimiter, TLAPS

\* The smaller of two integers.
LEMMA MinOfTwo ==
  ASSUME NEW a \in Int, NEW b \in Int
  PROVE  /\ Min({a, b}) \in Int
         /\ Min({a, b}) = IF a <= b THEN a ELSE b
<1>1. CASE a <= b
  <2>1. a \in {a, b} /\ \A y \in {a, b} : a <= y
    BY <1>1
  <2>2. \A x \in {a, b} : (\A y \in {a, b} : x <= y) => x = a
    BY <1>1
  <2> QED
    BY <1>1, <2>1, <2>2 DEF Min
<1>2. CASE ~(a <= b)
  <2>1. b \in {a, b} /\ \A y \in {a, b} : b <= y
    BY <1>2
  <2>2. \A x \in {a, b} : (\A y \in {a, b} : x <= y) => x = b
    BY <1>2
  <2> QED
    BY <1>2, <2>1, <2>2 DEF Min
<1> QED
  BY <1>1, <1>2

\* The larger of two integers.
LEMMA MaxOfTwo ==
  ASSUME NEW a \in Int, NEW b \in Int
  PROVE  /\ Max({a, b}) \in Int
         /\ Max({a, b}) = IF a >= b THEN a ELSE b
<1>1. CASE a >= b
  <2>1. a \in {a, b} /\ \A y \in {a, b} : a >= y
    BY <1>1
  <2>2. \A x \in {a, b} : (\A y \in {a, b} : x >= y) => x = a
    BY <1>1
  <2> QED
    BY <1>1, <2>1, <2>2 DEF Max
<1>2. CASE ~(a >= b)
  <2>1. b \in {a, b} /\ \A y \in {a, b} : b >= y
    BY <1>2
  <2>2. \A x \in {a, b} : (\A y \in {a, b} : x >= y) => x = b
    BY <1>2
  <2> QED
    BY <1>2, <2>1, <2>2 DEF Max
<1> QED
  BY <1>1, <1>2

-----------------------------------------------------------------------------
\* The three amounts the steps compute, without Min and Max.

\* refill adds at most the elapsed time and stops at the capacity.
LEMMA RefilledBounds ==
  ASSUME TypeOK
  PROVE  /\ Refilled \in Int /\ Refilled <= Burst
         /\ Rate > 0 => Refilled <= tokens + (now - last)
         /\ Rate > 0 => Refilled = tokens + (now - last) \/ Refilled = Burst
         /\ Rate <= 0 => Refilled = tokens
<1>1. /\ tokens \in Int /\ tokens <= Burst /\ now \in Int /\ last \in Int
      /\ tokens + (now - last) \in Int /\ Burst \in Int
  BY TimeIsShort, BucketIsNat DEF TypeOK
<1>2. Min({tokens + (now - last), Burst}) =
        IF tokens + (now - last) <= Burst THEN tokens + (now - last) ELSE Burst
  BY <1>1, MinOfTwo
<1> QED
  BY <1>1, <1>2, RateIsUnit DEF Refilled

\* The wait is the deficit unless the deficit is more than a Duration can hold.
LEMMA WaitForBounds ==
  ASSUME NEW b \in Int
  PROVE  /\ WaitFor(b) \in Nat
         /\ WaitFor(b) = IF b >= 0 THEN 0
                         ELSE IF -b <= DurationMax THEN -b ELSE DurationMax
<1>1. Max({0, -b}) = IF 0 >= -b THEN 0 ELSE -b
  BY MaxOfTwo
<1>2. Max({0, -b}) \in Int /\ DurationMax \in Int
  BY <1>1, TimeIsShort
<1>3. Min({Max({0, -b}), DurationMax}) =
        IF Max({0, -b}) <= DurationMax THEN Max({0, -b}) ELSE DurationMax
  BY <1>2, MinOfTwo
<1> HIDE DEF Min, Max
<1> QED
  BY <1>1, <1>2, <1>3, TimeIsShort DEF WaitFor

-----------------------------------------------------------------------------
(***************************************************************************)
(* The inductive invariant.  last - tokens is the time at which the bucket  *)
(* is out of debt.  A thread that still waits never waits longer than that  *)
(* (DebtOwned), the bucket never has more than the burst and the elapsed    *)
(* time less all that was reserved (Balance), and so what was reserved up   *)
(* to a thread's own bytes fits into the rate when its wait ends (Prefix).  *)
(***************************************************************************)

DebtOwned ==
  Rate > 0 => \A t \in Threads :
    due[t] # Idle /\ due[t] > now => due[t] <= last - tokens

Balance == Rate > 0 => tokens + reserved <= Burst + last

Prefix ==
  Rate > 0 => \A t \in Threads :
    due[t] # Idle /\ due[t] <= MaxTime => upto[t] <= Burst + due[t]

IInv == TypeOK /\ DebtOwned /\ Balance /\ Prefix

\* BandwidthLimiter::new establishes the invariant.
LEMMA InitIInv == Init => IInv
BY BucketIsNat, TimeIsShort
DEF Init, IInv, TypeOK, DebtOwned, Balance, Prefix

\* A reservation of no bytes, or from a limiter without a rate.
LEMMA FreeReserve ==
  ASSUME TypeOK, NEW t \in Threads, NEW bytes \in Sizes, Reserve(t, bytes),
         bytes = 0 \/ Rate <= 0
  PROVE  /\ tokens' = tokens /\ last' = last /\ total_throttled' = total_throttled
         /\ due' = [due EXCEPT ![t] = now]
<1>1. due' = [due EXCEPT ![t] = now]
  BY DEF Reserve
<1>2. CASE bytes = 0
  BY <1>1, <1>2 DEF Reserve, bucket
<1>3. CASE bytes # 0
  <2>1. ~(Rate > 0)
    BY <1>3, RateIsUnit
  <2>2. UNCHANGED <<tokens, last, total_throttled>>
    BY <1>3, <2>1 DEF Reserve, Take
  <2> QED
    BY <1>1, <2>2
<1> QED
  BY <1>2, <1>3

\* A reservation that is charged to the bucket.
LEMMA PaidReserve ==
  ASSUME TypeOK, NEW t \in Threads, NEW bytes \in Sizes, Reserve(t, bytes),
         bytes # 0, Rate > 0
  PROVE  /\ tokens' = Refilled - bytes /\ last' = now /\ total_throttled' \in Nat
         /\ due' = [due EXCEPT ![t] = now + WaitFor(tokens')]
<1>1. ~(Rate <= 0)
  BY RateIsUnit
<1>2. due' = [due EXCEPT ![t] = now + WaitFor(tokens')]
  BY <1>1 DEF Reserve
<1>3. /\ tokens' = Refilled - bytes /\ last' = now
      /\ total_throttled' = total_throttled + (IF tokens' < 0 THEN 1 ELSE 0)
  BY DEF Reserve, Take
<1>4. total_throttled \in Nat
  BY DEF TypeOK
<1>5. total_throttled' \in Nat
  BY <1>3, <1>4
<1> QED
  BY <1>2, <1>3, <1>5

\* total_bytes_reserved saturates.
LEMMA TotalSaturates ==
  ASSUME TypeOK, NEW t \in Threads, NEW bytes \in Sizes, Reserve(t, bytes)
  PROVE  total_bytes_reserved' \in 0..U64Max
<1>1. total_bytes_reserved \in 0..U64Max /\ bytes \in Nat /\ U64Max \in Nat
  BY SizesAreNat, BucketIsNat DEF TypeOK
<1>2. CASE bytes = 0
  BY <1>1, <1>2 DEF Reserve, bucket
<1>3. CASE bytes # 0
  <2>1. total_bytes_reserved' = Min({total_bytes_reserved + bytes, U64Max})
    BY <1>3 DEF Reserve, Take
  <2>2. total_bytes_reserved + bytes \in Int /\ U64Max \in Int
    BY <1>1
  <2>3. Min({total_bytes_reserved + bytes, U64Max}) =
          IF total_bytes_reserved + bytes <= U64Max THEN total_bytes_reserved + bytes
                                                    ELSE U64Max
    BY <2>2, MinOfTwo
  <2> QED
    BY <1>1, <2>1, <2>3
<1> QED
  BY <1>2, <1>3

\* A reservation keeps the types, and the time at which the bucket is out of
\* debt moves back by at least the bytes reserved.
LEMMA ReserveStep ==
  ASSUME TypeOK, NEW t \in Threads, NEW bytes \in Sizes, Reserve(t, bytes)
  PROVE  /\ TypeOK'
         /\ bytes \in Nat /\ now' = now /\ reserved' = reserved + bytes
         /\ Rate > 0 => tokens' + bytes <= tokens + (last' - last)
         /\ \A u \in Threads : u # t => due'[u] = due[u] /\ upto'[u] = upto[u]
         /\ due[t] = Idle
         /\ upto'[t] = IF bytes = 0 THEN 0 ELSE reserved'
         /\ due'[t] = IF bytes = 0 \/ Rate <= 0 THEN now ELSE now + WaitFor(tokens')
         /\ bytes # 0 /\ Rate > 0 => last' = now
<1>1. /\ bytes \in Nat /\ tokens \in Int /\ now \in Int /\ last \in Int
      /\ tokens <= Burst /\ last <= now /\ 0 <= last
      /\ due \in [Threads -> Int \cup {Idle}] /\ upto \in [Threads -> Nat]
      /\ reserved \in Nat /\ total_throttled \in Nat
  BY SizesAreNat, TimeIsShort DEF TypeOK
<1>2. /\ now' = now /\ reserved' = reserved + bytes
      /\ upto' = [upto EXCEPT ![t] = IF bytes = 0 THEN 0 ELSE reserved'] /\ due[t] = Idle
  BY DEF Reserve
<1>3. upto' \in [Threads -> Nat] /\ reserved' \in Nat
  BY <1>1, <1>2
<1>4. /\ upto'[t] = IF bytes = 0 THEN 0 ELSE reserved'
      /\ \A u \in Threads : u # t => upto'[u] = upto[u]
  BY <1>1, <1>2
<1>5. CASE bytes = 0 \/ Rate <= 0
  <2>1. tokens' = tokens /\ last' = last /\ total_throttled' = total_throttled
    BY <1>5, FreeReserve
  <2>2. due' = [due EXCEPT ![t] = now]
    BY <1>5, FreeReserve
  <2>3. /\ due' \in [Threads -> Int \cup {Idle}] /\ due'[t] = now
        /\ \A u \in Threads : u # t => due'[u] = due[u]
    BY <1>1, <2>2
  <2>4. TypeOK'
    BY <1>2, <1>3, <2>1, <2>3, TotalSaturates DEF TypeOK
  <2>5. Rate > 0 => tokens' + bytes <= tokens + (last' - last)
    BY <1>1, <1>5, <2>1, RateIsUnit
  <2>6. ~(bytes # 0 /\ Rate > 0)
    BY <1>5, RateIsUnit
  <2> QED
    BY <1>1, <1>2, <1>4, <1>5, <2>3, <2>4, <2>5, <2>6
<1>6. CASE bytes # 0 /\ Rate > 0
  <2>1. tokens' = Refilled - bytes /\ last' = now /\ total_throttled' \in Nat
    BY <1>6, PaidReserve
  <2>2. due' = [due EXCEPT ![t] = now + WaitFor(tokens')]
    BY <1>6, PaidReserve
  <2>3. Refilled \in Int /\ Refilled <= Burst /\ Refilled <= tokens + (now - last)
    BY <1>6, RefilledBounds
  <2>4. tokens' \in Int /\ tokens' <= Burst /\ tokens' + bytes <= tokens + (last' - last)
    BY <1>1, <2>1, <2>3, BucketIsNat
  <2>5. now + WaitFor(tokens') \in Int
    BY <1>1, <2>4, WaitForBounds
  <2>6. /\ due' \in [Threads -> Int \cup {Idle}] /\ due'[t] = now + WaitFor(tokens')
        /\ \A u \in Threads : u # t => due'[u] = due[u]
    BY <1>1, <2>2, <2>5
  <2>7. last' \in 0..now'
    BY <1>1, <1>2, <2>1
  <2>8. TypeOK'
    BY <1>2, <1>3, <2>1, <2>4, <2>6, <2>7, TotalSaturates DEF TypeOK
  <2>9. ~(bytes = 0 \/ Rate <= 0)
    BY <1>6, RateIsUnit
  <2> QED
    BY <1>1, <1>2, <1>4, <1>6, <2>1, <2>4, <2>6, <2>8, <2>9
<1> QED
  BY <1>5, <1>6, RateIsUnit

\* A reservation preserves the invariant.
LEMMA ReservePreservesIInv ==
  ASSUME IInv, NEW t \in Threads, NEW bytes \in Sizes, Reserve(t, bytes)
  PROVE  IInv'
<1>0. TypeOK /\ TypeOK'
  BY ReserveStep DEF IInv
<1>1. /\ now \in Int /\ last \in Int /\ tokens \in Int /\ reserved \in Nat /\ now <= MaxTime
      /\ last' \in Int /\ tokens' \in Int /\ 0 <= now /\ Burst \in Nat
  BY <1>0, TimeIsShort, BucketIsNat DEF TypeOK
<1>9. PICK ls \in Int, tk \in Int : last' = ls /\ tokens' = tk
  BY <1>1
<1>2. /\ bytes \in Nat /\ now' = now /\ reserved' = reserved + bytes
      /\ Rate > 0 => tokens' + bytes <= tokens + (last' - last)
  BY <1>0, ReserveStep
<1>3. \A u \in Threads : u # t => due'[u] = due[u] /\ upto'[u] = upto[u]
  BY <1>0, ReserveStep
<1>4. /\ upto'[t] = IF bytes = 0 THEN 0 ELSE reserved'
      /\ due'[t] = IF bytes = 0 \/ Rate <= 0 THEN now ELSE now + WaitFor(tokens')
      /\ bytes # 0 /\ Rate > 0 => last' = now
  BY <1>0, ReserveStep
<1>5. /\ WaitFor(tokens') \in Nat
      /\ WaitFor(tokens') = IF tokens' >= 0 THEN 0
                            ELSE IF -tokens' <= DurationMax THEN -tokens' ELSE DurationMax
  BY <1>1, WaitForBounds
<1>6. Balance'
  <2>1. Rate > 0 => tokens + reserved <= Burst + last
    BY DEF IInv, Balance
  <2>2. Rate > 0 => tokens' + reserved' <= Burst + last'
    BY <1>1, <1>2, <1>9, <2>1
  <2> QED
    BY <2>2 DEF Balance
<1>7. DebtOwned'
  <2> SUFFICES ASSUME Rate > 0, NEW u \in Threads, due'[u] # Idle, due'[u] > now
               PROVE  due'[u] <= last' - tokens'
    BY <1>2 DEF DebtOwned
  <2>1. CASE u = t
    <3>1. bytes # 0
      BY <1>1, <1>4, <2>1
    <3>2. due'[u] = now + WaitFor(tokens') /\ last' = now
      BY <1>4, <2>1, <3>1, RateIsUnit
    <3>3. WaitFor(tokens') > 0
      BY <1>1, <1>5, <1>9, <3>2
    <3> QED
      BY <1>1, <1>5, <1>9, <3>2, <3>3, TimeIsShort
  <2>2. CASE u # t
    <3>1. due'[u] = due[u] /\ due[u] \in Int
      BY <1>0, <1>3, <2>2 DEF TypeOK
    <3>2. due[u] <= last - tokens
      BY <3>1 DEF IInv, DebtOwned
    <3> QED
      BY <1>1, <1>2, <1>9, <3>1, <3>2
  <2> QED
    BY <2>1, <2>2
<1>8. Prefix'
  <2> SUFFICES ASSUME Rate > 0, NEW u \in Threads, due'[u] # Idle, due'[u] <= MaxTime
               PROVE  upto'[u] <= Burst + due'[u]
    BY DEF Prefix
  <2>1. CASE u # t
    BY <1>3, <2>1 DEF IInv, Prefix
  <2>2. CASE u = t /\ bytes = 0
    BY <1>1, <1>4, <2>2
  <2>3. CASE u = t /\ bytes # 0
    <3>1. upto'[u] = reserved' /\ due'[u] = now + WaitFor(tokens') /\ last' = now
      BY <1>4, <2>3, RateIsUnit
    <3>2. WaitFor(tokens') >= -tokens'
      BY <1>1, <1>5, <1>9, <3>1, TimeIsShort
    <3>3. tokens' + reserved' <= Burst + now
      BY <1>6, <3>1 DEF Balance
    <3>4. PICK w \in Nat : WaitFor(tokens') = w
      BY <1>5
    <3>5. reserved + bytes <= Burst + (now + w)
      BY <1>1, <1>2, <1>9, <3>2, <3>3, <3>4
    <3> QED
      BY <1>2, <3>1, <3>4, <3>5
  <2> QED
    BY <2>1, <2>2, <2>3
<1> QED
  BY <1>0, <1>6, <1>7, <1>8 DEF IInv

\* The other steps preserve the invariant: stats credits what has elapsed, the
\* clock only brings waits to their end.
LEMMA OthersPreserveIInv ==
  ASSUME IInv, Stats \/ Tick \/ UNCHANGED vars \/ \E t \in Threads : Proceed(t)
  PROVE  IInv'
<1>0. TypeOK
  BY DEF IInv
<1>1. CASE Stats
  <2>1. /\ Refilled \in Int /\ Refilled <= Burst
        /\ Rate > 0 => Refilled <= tokens + (now - last)
    BY <1>0, RefilledBounds
  <2>2. /\ tokens \in Int /\ now \in Int /\ last \in Int /\ 0 <= now /\ reserved \in Nat
        /\ Burst \in Nat
    BY <1>0, TimeIsShort, BucketIsNat DEF TypeOK
  <2>3. tokens' = Refilled /\ last' = now
    BY <1>1 DEF Stats
  <2>4. UNCHANGED <<total_bytes_reserved, total_throttled, now, due, reserved, upto>>
    BY <1>1 DEF Stats
  <2>5. TypeOK'
    BY <1>0, <2>1, <2>2, <2>3, <2>4 DEF TypeOK
  <2>6. Balance'
    <3>1. Rate > 0 => tokens + reserved <= Burst + last
      BY DEF IInv, Balance
    <3>2. Rate > 0 => tokens' + reserved <= Burst + last'
      BY <2>1, <2>2, <2>3, <3>1
    <3> QED
      BY <2>4, <3>2 DEF Balance
  <2>7. DebtOwned'
    <3> SUFFICES ASSUME Rate > 0, NEW u \in Threads, due[u] # Idle, due[u] > now
                 PROVE  due[u] <= last' - tokens'
      BY <2>4 DEF DebtOwned
    <3>1. due[u] \in Int /\ due[u] <= last - tokens
      BY <1>0 DEF TypeOK, IInv, DebtOwned
    <3> QED
      BY <2>1, <2>2, <2>3, <3>1
  <2>8. Prefix'
    BY <2>4 DEF IInv, Prefix
  <2> QED
    BY <2>5, <2>6, <2>7, <2>8 DEF IInv
<1>2. CASE Tick
  <2>1. now' = now + 1 /\ now < MaxTime /\ UNCHANGED <<bucket, due, reserved, upto>>
    BY <1>2 DEF Tick
  <2>2. TypeOK'
    BY <1>0, <2>1, TimeIsShort DEF TypeOK, bucket
  <2>3. DebtOwned'
    <3> SUFFICES ASSUME Rate > 0, NEW u \in Threads, due[u] # Idle, due[u] > now + 1
                 PROVE  due[u] <= last - tokens
      BY <2>1 DEF DebtOwned, bucket
    <3>1. due[u] \in Int /\ now \in Int
      BY <1>0, TimeIsShort DEF TypeOK
    <3> QED
      BY <3>1 DEF IInv, DebtOwned
  <2> QED
    BY <2>1, <2>2, <2>3 DEF IInv, Balance, Prefix, bucket
<1>3. ASSUME NEW t \in Threads, Proceed(t) PROVE IInv'
  <2>1. /\ due' = [due EXCEPT ![t] = Idle] /\ upto' = [upto EXCEPT ![t] = 0]
        /\ UNCHANGED <<bucket, now, reserved>>
    BY <1>3 DEF Proceed
  <2>2. TypeOK'
    BY <1>0, <2>1 DEF TypeOK, bucket
  <2>3. due'[t] = Idle /\ \A u \in Threads : u # t => due'[u] = due[u] /\ upto'[u] = upto[u]
    BY <1>0, <2>1 DEF TypeOK
  <2> QED
    BY <2>1, <2>2, <2>3 DEF IInv, DebtOwned, Balance, Prefix, bucket
<1>4. CASE UNCHANGED vars
  BY <1>4 DEF IInv, TypeOK, DebtOwned, Balance, Prefix, vars, bucket
<1> QED
  BY <1>1, <1>2, <1>3, <1>4

\* Every step preserves the invariant.
LEMMA NextPreservesIInv == IInv /\ [Next]_vars => IInv'
BY ReservePreservesIInv, OthersPreserveIInv DEF Next

\* The invariant holds of every behaviour of the bucket.
THEOREM Invariance == Spec => []IInv
BY InitIInv, NextPreservesIInv, PTL DEF Spec

\* The bucket keeps its types: never above its capacity, never a wrapped count.
THEOREM TypeCorrect == Spec => []TypeOK
BY Invariance, PTL DEF IInv

\* What callers are let through never runs ahead of the rate.
THEOREM RateCorrect == Spec => []RateRespected
<1>1. IInv => RateRespected
  <2> SUFFICES ASSUME IInv, NEW t \in Threads, due[t] # Idle, Rate > 0, due[t] <= now
               PROVE  upto[t] <= Burst + now
    BY DEF RateRespected, Waiting
  <2>1. /\ due[t] \in Int /\ now \in Int /\ now <= MaxTime /\ upto[t] \in Int
        /\ Burst \in Int /\ MaxTime \in Int
    BY TimeIsShort, BucketIsNat DEF IInv, TypeOK
  <2>2. due[t] <= MaxTime
    BY <2>1
  <2>3. upto[t] <= Burst + due[t]
    BY <2>2 DEF IInv, Prefix
  <2> QED
    BY <2>1, <2>3
<1> QED
  BY <1>1, Invariance, PTL

-----------------------------------------------------------------------------
\* A step that gives a thread a wait is its own reservation.
LEMMA NewWaitIsReserve ==
  ASSUME TypeOK, [Next]_vars, NEW t \in Threads, due[t] = Idle, due'[t] # Idle
  PROVE  \E bytes \in Sizes : Reserve(t, bytes)
<1>1. due \in [Threads -> Int \cup {Idle}]
  BY DEF TypeOK
<1>2. ~(Stats \/ Tick \/ UNCHANGED vars)
  BY DEF Stats, Tick, vars
<1>3. ASSUME NEW v \in Threads, Proceed(v) PROVE FALSE
  BY <1>1, <1>3 DEF Proceed
<1>4. ASSUME NEW v \in Threads, NEW bytes \in Sizes, Reserve(v, bytes) PROVE v = t
  BY <1>4, ReserveStep
<1> QED
  BY <1>2, <1>3, <1>4 DEF Next

\* The wait of a reservation ends no earlier than that of a thread that
\* already waits, plus the time of its own bytes.
LEMMA StepIsPaced == IInv /\ [Next]_vars => PacedStep
<1> SUFFICES ASSUME IInv, [Next]_vars, NEW t \in Threads, NEW u \in Threads,
                    Rate > 0, due[t] = Idle, due'[t] # Idle, reserved' > reserved,
                    due[u] # Idle, due[u] > now
             PROVE  due'[t] >= Min({due[u] + (reserved' - reserved), now + DurationMax})
  BY DEF PacedStep
<1>0. TypeOK
  BY DEF IInv
<1>1. PICK bytes \in Sizes : Reserve(t, bytes)
  BY <1>0, NewWaitIsReserve
<1>2. /\ now \in Int /\ last \in Int /\ tokens \in Int /\ reserved \in Nat
      /\ due[u] \in Int /\ DurationMax \in Int
  BY <1>0, TimeIsShort DEF TypeOK
<1>3. TypeOK'
  BY <1>0, <1>1, ReserveStep
<1>4. PICK tk \in Int : tokens' = tk
  BY <1>3 DEF TypeOK
<1>5. bytes \in Nat /\ reserved' = reserved + bytes
  BY <1>0, <1>1, ReserveStep
<1>6. bytes # 0
  BY <1>2, <1>5
<1>7. last' = now /\ due'[t] = now + WaitFor(tokens')
  BY <1>0, <1>1, <1>6, RateIsUnit, ReserveStep
<1>8. tokens' + bytes <= tokens + (last' - last)
  BY <1>0, <1>1, ReserveStep
<1>9. due[u] <= last - tokens
  BY DEF IInv, DebtOwned
<1>10. due[u] + bytes <= now - tk
  BY <1>2, <1>4, <1>5, <1>7, <1>8, <1>9
<1>11. WaitFor(tk) \in Nat /\ WaitFor(tk) = IF tk >= 0 THEN 0
                              ELSE IF -tk <= DurationMax THEN -tk ELSE DurationMax
  BY WaitForBounds
<1>12. reserved' - reserved = bytes
  BY <1>2, <1>5
<1>13. /\ due[u] + bytes \in Int /\ now + DurationMax \in Int
  BY <1>2, <1>5
<1>14. Min({due[u] + bytes, now + DurationMax}) =
         IF due[u] + bytes <= now + DurationMax THEN due[u] + bytes ELSE now + DurationMax
  BY <1>13, MinOfTwo
<1>15. now + WaitFor(tk) >= IF due[u] + bytes <= now + DurationMax THEN due[u] + bytes
                                                                  ELSE now + DurationMax
  BY <1>2, <1>5, <1>10, <1>11
<1> QED
  BY <1>4, <1>7, <1>12, <1>14, <1>15

\* Throttled callers are let through one after another.
THEOREM PacingCorrect == Spec => Paced
<1>1. IInv /\ [Next]_vars => [PacedStep]_vars
  BY StepIsPaced
<1> QED
  BY <1>1, Invariance, PTL DEF Spec, Paced

-----------------------------------------------------------------------------
(***************************************************************************)
(* Refinement.  BusyUntil is the current time less the balance the bucket   *)
(* would have if it were refilled now, so a refill does not move it.       *)
(***************************************************************************)

\* The two modules use the same Min and Max.
LEMMA SameMinMax == ASSUME NEW S PROVE Link!Min(S) = Min(S) /\ Link!Max(S) = Max(S)
BY DEF Link!Min, Link!Max, Min, Max

\* BusyUntil in terms of the refilled balance.
LEMMA BusyUntilIsRefilled ==
  ASSUME TypeOK, Rate > 0
  PROVE  BusyUntil = now - Refilled
<1>1. tokens \in Int /\ now \in Int /\ last \in Int /\ Burst \in Int
  BY TimeIsShort, BucketIsNat DEF TypeOK
<1>2. last - tokens \in Int /\ now - Burst \in Int /\ tokens + (now - last) \in Int
  BY <1>1
<1>3. Max({last - tokens, now - Burst}) =
        IF last - tokens >= now - Burst THEN last - tokens ELSE now - Burst
  BY <1>2, MaxOfTwo
<1>4. Min({tokens + (now - last), Burst}) =
        IF tokens + (now - last) <= Burst THEN tokens + (now - last) ELSE Burst
  BY <1>1, <1>2, MinOfTwo
<1>5. (IF last - tokens >= now - Burst THEN last - tokens ELSE now - Burst) =
        now - (IF tokens + (now - last) <= Burst THEN tokens + (now - last) ELSE Burst)
  BY <1>1
<1> QED
  BY <1>3, <1>4, <1>5 DEF BusyUntil, Refilled

\* After a refill, or a reservation, BusyUntil is now less the balance.
LEMMA BusyUntilAfterRefill ==
  ASSUME TypeOK, TypeOK', Rate > 0, last' = now, now' = now
  PROVE  BusyUntil' = now - tokens'
<1>1. PICK tk \in Int : tokens' = tk
  BY DEF TypeOK
<1>2. now \in Int /\ Burst \in Int /\ tk <= Burst
  BY <1>1, TimeIsShort, BucketIsNat DEF TypeOK
<1>3. now - tk \in Int /\ now - Burst \in Int
  BY <1>2
<1>4. Max({now - tk, now - Burst}) = IF now - tk >= now - Burst THEN now - tk ELSE now - Burst
  BY <1>3, MaxOfTwo
<1>5. now - tk >= now - Burst
  BY <1>2
<1> QED
  BY <1>1, <1>4, <1>5 DEF BusyUntil

\* A reservation maps to a reservation of the same bytes.
LEMMA ReserveRefines ==
  ASSUME TypeOK, NEW t \in Threads, NEW bytes \in Sizes, Reserve(t, bytes)
  PROVE  Link!Reserve(t, bytes)
<1>1. TypeOK' /\ now' = now /\ due[t] = Idle
  BY ReserveStep
<1>2. CASE bytes = 0 \/ Rate <= 0
  <2>1. tokens' = tokens /\ last' = last /\ due' = [due EXCEPT ![t] = now]
    BY <1>2, FreeReserve
  <2>2. BusyUntil' = BusyUntil
    BY <1>1, <2>1 DEF BusyUntil
  <2> QED
    BY <1>1, <1>2, <2>1, <2>2 DEF Link!Reserve
<1>3. CASE bytes # 0 /\ Rate > 0
  <2>1. tokens' = Refilled - bytes /\ last' = now
    BY <1>3, PaidReserve
  <2>2. due' = [due EXCEPT ![t] = now + WaitFor(tokens')]
    BY <1>3, PaidReserve
  <2>3. BusyUntil' = now - tokens' /\ BusyUntil = now - Refilled
    BY <1>1, <1>3, <2>1, BusyUntilAfterRefill, BusyUntilIsRefilled
  <2>4. now \in Int /\ Refilled \in Int /\ bytes \in Nat
    BY RefilledBounds, SizesAreNat, TimeIsShort DEF TypeOK
  <2>5. BusyUntil' = BusyUntil + bytes /\ BusyUntil' - now = -tokens'
    BY <2>1, <2>3, <2>4
  <2>6. Link!WaitFor(BusyUntil') = WaitFor(tokens')
    BY <2>5, SameMinMax DEF Link!WaitFor, WaitFor
  <2>7. ~(bytes = 0 \/ Rate <= 0)
    BY <1>3, RateIsUnit
  <2> QED
    BY <1>1, <2>2, <2>5, <2>6, <2>7 DEF Link!Reserve
<1> QED
  BY <1>2, <1>3, RateIsUnit

\* stats maps to no step.
LEMMA StatsRefines == ASSUME TypeOK, TypeOK', Stats PROVE UNCHANGED Link!avars
<1>1. tokens' = Refilled /\ last' = now /\ now' = now /\ due' = due
  BY DEF Stats
<1>2. CASE Rate > 0
  <2>1. BusyUntil' = now - tokens' /\ BusyUntil = now - Refilled
    BY <1>1, <1>2, BusyUntilAfterRefill, BusyUntilIsRefilled
  <2> QED
    BY <1>1, <2>1 DEF Link!avars
<1>3. CASE ~(Rate > 0)
  BY <1>1, <1>3 DEF Link!avars, BusyUntil
<1> QED
  BY <1>2, <1>3

\* The clock maps to the clock.
LEMMA TickRefines == ASSUME TypeOK, Tick PROVE Link!Tick
<1>1. tokens' = tokens /\ last' = last /\ now' = now + 1 /\ due' = due
  BY DEF Tick, bucket
<1>2. CASE Rate > 0
  <2>1. tokens \in Int /\ now \in Int /\ last \in Int /\ Burst \in Int
    BY TimeIsShort, BucketIsNat DEF TypeOK
  <2> DEFINE z == last - tokens
             a == now - Burst
             b == now + 1 - Burst
  <2>2. z \in Int /\ a \in Int /\ b \in Int /\ a <= b
    BY <2>1
  <2> HIDE DEF z, a, b
  <2>3. Max({z, a}) = IF z >= a THEN z ELSE a
    BY <2>2, MaxOfTwo
  <2>4. Max({z, b}) = IF z >= b THEN z ELSE b
    BY <2>2, MaxOfTwo
  <2>5. Max({z, a}) \in Int
    BY <2>2, MaxOfTwo
  <2>6. Max({Max({z, a}), b}) = IF Max({z, a}) >= b THEN Max({z, a}) ELSE b
    BY <2>2, <2>5, MaxOfTwo
  <2>7. Max({Max({z, a}), b}) = Max({z, b})
    BY <2>2, <2>3, <2>4, <2>6
  <2>8. BusyUntil = Max({z, a}) /\ BusyUntil' = Max({z, b}) /\ b = now' - Burst
    <3>1. b = now' - Burst
      BY <1>1, <2>1 DEF b
    <3>2. BusyUntil = Max({z, a})
      BY <1>2 DEF BusyUntil, z, a
    <3>3. BusyUntil' = Max({last' - tokens', now' - Burst})
      BY <1>2 DEF BusyUntil
    <3>4. z = last' - tokens'
      BY <1>1 DEF z
    <3> QED
      BY <3>1, <3>2, <3>3, <3>4
  <2>9. BusyUntil' = Link!Max({BusyUntil, now' - Burst})
    BY <2>7, <2>8, SameMinMax
  <2> QED
    BY <1>1, <1>2, <2>9 DEF Link!Tick
<1>3. CASE ~(Rate > 0)
  BY <1>1, <1>3 DEF Link!Tick, BusyUntil
<1> QED
  BY <1>2, <1>3

\* A new bucket is full: a link with a whole burst saved.
LEMMA InitRefines == Init => Link!Init
<1> SUFFICES ASSUME Init PROVE Link!Init
  OBVIOUS
<1>1. now = 0 /\ last = 0 /\ tokens = Burst /\ due = [t \in Threads |-> Idle]
  BY DEF Init
<1>2. 0 - Burst \in Int /\ 0 - Burst = -Burst
  BY BucketIsNat
<1>3. Max({0 - Burst, 0 - Burst}) = 0 - Burst
  BY <1>2, MaxOfTwo
<1> QED
  BY <1>1, <1>2, <1>3 DEF Link!Init, BusyUntil

\* Every step of the bucket is a step of the link, or no step.
LEMMA NextRefines == IInv /\ IInv' /\ [Next]_vars => [Link!Next]_Link!avars
<1> SUFFICES ASSUME TypeOK, TypeOK', [Next]_vars PROVE Link!Next \/ UNCHANGED Link!avars
  BY DEF IInv
<1>1. ASSUME NEW t \in Threads, NEW bytes \in Sizes, Reserve(t, bytes) PROVE Link!Next
  BY <1>1, ReserveRefines DEF Link!Next
<1>2. ASSUME NEW t \in Threads, Proceed(t) PROVE Link!Next
  BY <1>2 DEF Proceed, Link!Next, Link!Proceed, BusyUntil, bucket
<1>3. CASE Stats
  BY <1>3, StatsRefines
<1>4. CASE Tick
  BY <1>4, TickRefines DEF Link!Next
<1>5. CASE UNCHANGED vars
  BY <1>5 DEF vars, bucket, Link!avars, BusyUntil
<1> QED
  BY <1>1, <1>2, <1>3, <1>4, <1>5 DEF Next

\* The token bucket implements the paced link.
THEOREM RefinesPacedLink == Spec => ImplementsPacedLink
BY InitRefines, Invariance, NextRefines, PTL DEF Spec, ImplementsPacedLink, Link!Spec
=============================================================================
