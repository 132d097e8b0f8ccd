------------------------------ MODULE MCSampling ------------------------------
(***************************************************************************)
(* Instances of Sampling for TLC: configuration files with nothing, one     *)
(* thing or several things wrong, in a read policy, in its large tier, in   *)
(* the policy of fsync and in the files table, with numbers around F64Exact *)
(* where f64 begins to round.                                              *)
(***************************************************************************)
EXTENDS Sampling

Str(name) == [string |-> name]
Half == Fin(1)

\* Latency tables: sound ones with extreme draws, and one for every rule.
SoundLatency ==
  {<<>>, [base_us |-> 5, max_us |-> 5],
   [base_us |-> 5, lognormal_median_us |-> Zero],
   [base_us |-> 5, lognormal_sigma |-> Zero, pareto_weight |-> One, pareto_xm_us |-> Zero,
    pareto_alpha |-> Half],
   [base_us |-> 5, pareto_weight |-> Half, pareto_xm_us |-> Whole(-3)],
   [pareto_weight |-> Zero, pareto_alpha |-> Zero],
   [base_us |-> F64Exact + 1, max_us |-> F64Exact + 1, lognormal_median_us |-> Zero],
   [base_us |-> F64Exact - 1, max_us |-> F64Exact + 3]}
WrongLatency ==
  {[lognormal_median_us |-> NaN], [lognormal_sigma |-> Infinity], [pareto_weight |-> NaN],
   [pareto_xm_us |-> NegInfinity], [pareto_weight |-> One, pareto_alpha |-> NaN],
   [base_us |-> 6, max_us |-> 5], [pareto_weight |-> Fin(3)], [pareto_weight |-> Fin(-1)],
   [pareto_weight |-> Half, pareto_alpha |-> Zero], [lognormal_median_us |-> Fin(-1)],
   [lognormal_sigma |-> Fin(-1)]}

Bandwidth(mib) == [mib_per_sec |-> mib, burst_bytes |-> 1]
\* 300 MiB/s is beyond F64Max: the multiplication overflows.
Bandwidths == {Bandwidth(Half), Bandwidth(NaN), Bandwidth(Whole(300))}

Rule(op, rate) == [op |-> op, errno |-> Str("EIO"), rate |-> rate]
Again(op, rate) == [op |-> op, errno |-> Str("EAGAIN"), rate |-> rate]
SoundFaults(op) ==
  {<<Rule(op, Half), Again(op, Half)>>, <<Rule(op, Zero), Again(op, One), Rule(op, One)>>}
WrongFaults(op) ==
  {<<Rule("open", One)>>, <<Rule(op, Half), Again(op, NaN)>>, <<Rule(op, Fin(3))>>,
   <<Rule(op, Fin(-1))>>, <<Rule("unlink", One)>>, <<[Rule(op, One) EXCEPT !.errno = Str("EPERM")]>>}

\* Policies and large tiers with one table each.
OneTable(op) ==
  {[latency |-> l] : l \in SoundLatency \cup WrongLatency} \cup
  {[bandwidth |-> b] : b \in Bandwidths} \cup
  {[faults |-> f] : f \in SoundFaults(op) \cup WrongFaults(op)}

\* A large tier beside a base profile with a fault rule and some latency.
Tiered(threshold, large) ==
  [latency |-> [base_us |-> 1], faults |-> <<Rule("read", Half)>>,
   size_tier |-> [threshold_bytes |-> threshold, large |-> large]]

ReadPolicies ==
  OneTable("read") \cup {Tiered(4096, p) : p \in OneTable("read")} \cup
  {Tiered(0, <<>>), [concurrency_cap |-> 0, latency |-> [max_us |-> 1, base_us |-> 2]]} \cup
  {[queue_cap |-> 2, size_tier |-> [threshold_bytes |-> 4096, large |-> p]]
     : p \in {[latency |-> [base_us |-> 5]], [bandwidth |-> Bandwidth(Half)]}}

FsyncPolicies ==
  {<<>>, [concurrency_cap |-> 0], [faults |-> <<Rule("fsync", One)>>],
   [faults |-> <<Rule("read", One)>>],
   [size_tier |-> [threshold_bytes |-> 1, large |-> <<>>]]}

MCTexts ==
  {Garbage, <<>>, [files |-> [inode_count |-> 0]], [files |-> [file_size_bytes |-> 0]]} \cup
  {[ops |-> [read |-> r]] : r \in ReadPolicies} \cup
  {[ops |-> [read |-> r, fsync |-> f]] : r \in OneTable("read"), f \in FsyncPolicies}

\* A request above the threshold at the end of a file, a small one of the same
\* length, one of more than 32 bits far away, and one without an offset.
TailRead == [op |-> "read", ino |-> Bits(3), offset |-> {}, len |-> Bits(100), requested_len |-> 131072]
SmallRead == [TailRead EXCEPT !.ino = Bits(2), !.requested_len = 100]
FarRead == [TailRead EXCEPT !.ino = 2 .. 13, !.offset = (0 .. 48) \ {12, 15}, !.len = {39}]
Sync == [op |-> "fsync", ino |-> Bits(3), offset |-> {}, len |-> {}, requested_len |-> 0]
MCRequests == {TailRead, SmallRead, FarRead, Sync}

MCProbes == {{}, Bits(1), Bits(65536), {17, 40}, 0 .. 63}

\* A file read from start to end, 64 KiB at a time.
SequentialReads ==
  {[op |-> "read", ino |-> Bits(3), offset |-> Bits(65536 * k), len |-> Bits(65536),
    requested_len |-> 65536] : k \in 0 .. 3}
PlainTexts == {<<>>, [ops |-> [read |-> [faults |-> <<Rule("read", Half)>>]]]}
=============================================================================
