------------------------------ MODULE PacedLink ------------------------------
(***************************************************************************)
(* What a bandwidth limiter promises, without a bucket: the callers share a *)
(* link that carries one byte per unit of time.  The link is busy with what *)
(* has been reserved until the time busyUntil; an idle link saves up to     *)
(* Burst units.  A caller may go on when the link has carried all that was  *)
(* reserved up to and including its own bytes, less the savings.           *)
(*                                                                         *)
(* Source: the contract in the doc comments of                             *)
(* fusecraft-core/src/limiter/bandwidth.rs.                                *)
(***************************************************************************)
EXTENDS Integers, FiniteSetsExt

CONSTANTS Callers,
          Sizes,        \* the numbers of bytes a caller may ask for
          Burst,        \* burst_bytes
          Rate,         \* bytes per unit of time: 1, or 0 for no limit
          DurationMax,  \* the longest wait that can be told
          Idle          \* due of a caller that waits for nothing

VARIABLES now,
          busyUntil,    \* when the link will have carried all reserved bytes
          due           \* when each caller may go on

avars == <<now, busyUntil, due>>

Init ==
  /\ now = 0
  /\ busyUntil = -Burst
  /\ due = [c \in Callers |-> Idle]

\* How long a caller waits for the link to reach the time end.
WaitFor(end) == Min({Max({0, end - now}), DurationMax})

Reserve(c, bytes) ==
  /\ due[c] = Idle
  /\ UNCHANGED now
  /\ IF bytes = 0 \/ Rate <= 0
     THEN /\ due' = [due EXCEPT ![c] = now]
          /\ UNCHANGED busyUntil
     ELSE /\ busyUntil' = busyUntil + bytes
          /\ due' = [due EXCEPT ![c] = now + WaitFor(busyUntil')]

\* A caller goes on once its time has come.
Proceed(c) ==
  /\ due[c] # Idle /\ due[c] <= now
  /\ due' = [due EXCEPT ![c] = Idle]
  /\ UNCHANGED <<now, busyUntil>>

Tick ==
  /\ now' = now + 1
  /\ busyUntil' = IF Rate > 0 THEN Max({busyUntil, now' - Burst}) ELSE busyUntil
  /\ UNCHANGED due

Next ==
  \/ \E c \in Callers : Proceed(c) \/ \E bytes \in Sizes : Reserve(c, bytes)
  \/ Tick

Spec == Init /\ [][Next]_avars
=============================================================================
