----------------------------- MODULE MCSimEngine -----------------------------
(***************************************************************************)
(* Instances of SimEngine for TLC: a read with a size tier and bandwidth    *)
(* limits, and a metadata operation.  The fault rule of the large reads has  *)
(* the errno of a refusal.                                                 *)
(***************************************************************************)
EXTENDS SimEngine, TLC

Read == "read"
GetAttr == "getattr"

Plain == [latency |-> FALSE, faults |-> {}, bandwidth |-> FALSE]
Limited == [latency |-> FALSE, faults |-> {}, bandwidth |-> TRUE]
Slow == [latency |-> TRUE, faults |-> {EAGAIN}, bandwidth |-> TRUE]

MCPolicy ==
  (Read :> [concurrency_cap |-> 1, queue_cap |-> 1, size_tier |-> {2},
            base |-> Limited, large |-> Slow]) @@
  (GetAttr :> [concurrency_cap |-> 1, queue_cap |-> 0, size_tier |-> {},
               base |-> Plain, large |-> Plain])

\* A small read and a large read clamped at the end of the file.
SmallRead == [op |-> Read, len |-> 2, requested_len |-> 2]
TailRead == [op |-> Read, len |-> 1, requested_len |-> 3]
Stat == [op |-> GetAttr, len |-> 0, requested_len |-> 0]

MCContexts == {SmallRead, TailRead, Stat}
MCFewContexts == {TailRead, Stat}

ThreadSymmetry == Permutations(Threads)
=============================================================================
