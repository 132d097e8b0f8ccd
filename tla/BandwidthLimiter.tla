-------------------------- MODULE BandwidthLimiter --------------------------
(***************************************************************************)
(* BandwidthLimiter of fusecraft-core/src/limiter/bandwidth.rs: a token     *)
(* bucket behind a mutex.  Tokens are credited lazily, when reserve or      *)
(* stats looks, and may go negative: a caller that overdraws the bucket is  *)
(* told how long to wait, and waits outside the mutex, so any number of     *)
(* callers can be waiting while others reserve.                            *)
(*                                                                         *)
(* Time is counted in byte-times, 1/bytes_per_sec of a second: the credit   *)
(* for an elapsed time and the wait for a deficit are then the same number, *)
(* and the rounding of f64 and of Duration is left out.  Duration keeps its *)
(* maximum, and u64 its saturation.  The rate is a constant of the limiter: *)
(* positive, hence one byte per byte-time, or not.                         *)
(***************************************************************************)
EXTENDS Integers, FiniteSetsExt

CONSTANTS Threads,
          Sizes,        \* the numbers of bytes a caller may ask for
          Burst,        \* capacity, BandwidthProfile.burst_bytes
          Rate,         \* rate: one byte per byte-time, or 0 for rate <= 0
          DurationMax,  \* Duration::MAX
          U64Max,       \* u64::MAX
          Idle,         \* due of a thread that waits for nothing
          MaxTime,      \* bound: the run ends at this time
          MaxBytes      \* bound: bytes reserved in a run

ASSUME SizesAreNat == Sizes \subseteq Nat
ASSUME BucketIsNat == Burst \in Nat /\ U64Max \in Nat /\ MaxBytes \in Nat
ASSUME RateIsUnit == Rate \in {0, 1}
\* No process lives as long as Duration::MAX, half a trillion years.
ASSUME TimeIsShort == DurationMax \in Nat /\ MaxTime \in Nat /\ MaxTime < DurationMax
ASSUME IdleIsNoTime == Idle \notin Int

VARIABLES tokens, last, total_bytes_reserved, total_throttled, \* BucketState
          now,       \* Instant::now()
          due,       \* when each thread's wait ends
          reserved,  \* history: all bytes ever reserved
          upto       \* history: reserved, as of the reservation each thread waits for

bucket == <<tokens, last, total_bytes_reserved, total_throttled>>
vars == <<bucket, now, due, reserved, upto>>

Waiting == {t \in Threads : due[t] # Idle}

Init ==
  /\ tokens = Burst /\ last = 0
  /\ total_bytes_reserved = 0 /\ total_throttled = 0
  /\ now = 0
  /\ due = [t \in Threads |-> Idle]
  /\ reserved = 0
  /\ upto = [t \in Threads |-> 0]

-----------------------------------------------------------------------------
\* Mutant: the bucket overflows its capacity.
RefilledUncapped == IF Rate > 0 THEN tokens + (now - last) ELSE tokens

\* Mutant: a refill forgives the debt.
RefilledForgivesDebt ==
  IF Rate > 0 THEN Min({Max({0, tokens}) + (now - last), Burst}) ELSE tokens

\* refill: the balance once the time since last has been credited.  It sets
\* last to now in any case.
Refilled == IF Rate > 0 THEN Min({tokens + (now - last), Burst}) ELSE tokens

\* The wait for a balance: the deficit, or Duration::MAX if it is more.
WaitFor(balance) == Min({Max({0, -balance}), DurationMax})

\* Mutant: total_bytes_reserved is not saturated.
TakeUnsaturated(bytes) ==
  /\ total_bytes_reserved' = total_bytes_reserved + bytes
  /\ IF Rate > 0
     THEN /\ tokens' = Refilled - bytes
          /\ last' = now
          /\ total_throttled' = total_throttled + (IF tokens' < 0 THEN 1 ELSE 0)
     ELSE UNCHANGED <<tokens, last, total_throttled>>

\* What reserve does to the bucket for a positive number of bytes.
Take(bytes) ==
  /\ total_bytes_reserved' = Min({total_bytes_reserved + bytes, U64Max})
  /\ IF Rate > 0
     THEN /\ tokens' = Refilled - bytes
          /\ last' = now
          /\ total_throttled' = total_throttled + (IF tokens' < 0 THEN 1 ELSE 0)
     ELSE UNCHANGED <<tokens, last, total_throttled>>

\* reserve, and the caller that starts to wait for as long as it was told.  A
\* reservation of no bytes touches nothing and waits for nothing.
Reserve(t, bytes) ==
  /\ due[t] = Idle
  /\ reserved + bytes <= MaxBytes
  /\ IF bytes = 0 THEN UNCHANGED bucket ELSE Take(bytes)
  /\ due' = [due EXCEPT ![t] = IF bytes = 0 \/ Rate <= 0 THEN now
                                                        ELSE now + WaitFor(tokens')]
  /\ reserved' = reserved + bytes
  /\ upto' = [upto EXCEPT ![t] = IF bytes = 0 THEN 0 ELSE reserved']
  /\ UNCHANGED now

\* The caller has slept at least as long as it was told and goes on.
Proceed(t) ==
  /\ due[t] # Idle /\ due[t] <= now
  /\ due' = [due EXCEPT ![t] = Idle]
  /\ upto' = [upto EXCEPT ![t] = 0]
  /\ UNCHANGED <<bucket, now, reserved>>

\* Mutant: stats credits a time that the next refill credits again.
StatsKeepsLast ==
  /\ tokens' = Refilled
  /\ UNCHANGED <<last, total_bytes_reserved, total_throttled, now, due, reserved, upto>>

\* stats() credits the elapsed time too.
Stats ==
  /\ tokens' = Refilled
  /\ last' = now
  /\ UNCHANGED <<total_bytes_reserved, total_throttled, now, due, reserved, upto>>

\* External: the monotonic clock.
Tick ==
  /\ now < MaxTime
  /\ now' = now + 1
  /\ UNCHANGED <<bucket, due, reserved, upto>>

Next ==
  \/ \E t \in Threads : Proceed(t) \/ \E bytes \in Sizes : Reserve(t, bytes)
  \/ Stats
  \/ Tick

Spec == Init /\ [][Next]_vars

-----------------------------------------------------------------------------
(***************************************************************************)
(* Properties.                                                             *)
(***************************************************************************)

\* The variables have their types; the balance never exceeds the capacity and
\* total_bytes_reserved stays a u64.
TypeOK ==
  /\ tokens \in Int /\ tokens <= Burst
  /\ now \in 0..MaxTime /\ last \in 0..now
  /\ total_bytes_reserved \in 0..U64Max /\ total_throttled \in Nat
  /\ due \in [Threads -> Int \cup {Idle}]
  /\ reserved \in Nat
  /\ upto \in [Threads -> Nat]

\* When a caller may go on, everything reserved up to and including its own
\* bytes fits into what the configured rate allows since the start plus one
\* burst: however reservations, waits and stats interleave, the bytes that
\* have been let through never run ahead of the rate.
RateRespected == \A t \in Waiting : Rate > 0 /\ due[t] <= now => upto[t] <= Burst + now

\* A later reservation never gets ahead of an earlier one that still waits,
\* and ends later by at least the time its own bytes take: throttled callers
\* are let through one after another and not in a bunch.
PacedStep ==
  \A t, u \in Threads :
    /\ Rate > 0
    /\ due[t] = Idle /\ due'[t] # Idle /\ reserved' > reserved
    /\ due[u] # Idle /\ due[u] > now
    => due'[t] >= Min({due[u] + (reserved' - reserved), now + DurationMax})

Paced == [][PacedStep]_vars

\* The bucket, credited lazily and by whoever looks, is the paced link: in
\* particular stats() changes no wait that any caller will be told.
BusyUntil == IF Rate > 0 THEN Max({last - tokens, now - Burst}) ELSE -Burst

Link == INSTANCE PacedLink WITH Callers <- Threads, busyUntil <- BusyUntil

ImplementsPacedLink == Link!Spec
=============================================================================
