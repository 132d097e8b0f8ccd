------------------------------- MODULE Sampling -------------------------------
(***************************************************************************)
(* From a configuration file to the samples of the operations: load_config  *)
(* of fusecraft-cli/src/config_io.rs, which is all of validate-config and   *)
(* the start of mount, and then the sampling part of SimEngine::run_op.     *)
(*                                                                         *)
(* The ops of a configuration are in a HashMap, so they are validated in    *)
(* any order, up to the first error.  StdRng::seed_from_u64 is a function   *)
(* of the seed that nothing is known of: rng holds the numbers drawn for    *)
(* the seeds that occurred, and a seed that occurs again gets the same.     *)
(***************************************************************************)
EXTENDS Samplers, SampleKey

CONSTANTS Texts,     \* the configuration files
          Requests,  \* the OpContexts of the operations
          Probes,    \* words that a field of a key may be changed to
          MaxOps     \* bound: operations sampled

ASSUME TextsTyped == \A t \in Texts : TextTyped(t)
ASSUME MaxOpsIsNat == MaxOps \in Nat
ASSUME RequestsOk ==
  \A r \in Requests : r.op \in ToSet(FsOp) /\ {r.ino, r.offset, r.len} \subseteq Word
ASSUME ProbesAreWords == Probes \subseteq Word

VARIABLES text,     \* the configuration file
          stage,    \* how far load_config is, then "accepted" or why not
          config,   \* the Config
          pending,  \* the ops not validated yet
          error,    \* the path that validate reports
          seq,      \* SimEngine.seq
          rng,      \* the numbers drawn, by seed
          samples   \* history: the sampled operations, in order

vars == <<text, stage, config, pending, error, seq, rng, samples>>
loading == <<text, stage, config, pending, error>>
sampling == <<seq, rng, samples>>

Init ==
  /\ text \in Texts
  /\ stage = "reading"
  /\ config = DefaultConfig /\ pending = {} /\ error = Ok
  /\ seq = 0 /\ rng = <<>> /\ samples = <<>>

\* print-default-config, its output being the file that is read next.
PrintDefault ==
  /\ stage = "reading"
  /\ text' = ConfigToml(DefaultConfig)
  /\ UNCHANGED <<stage, config, pending, error, sampling>>

ReadFails ==
  /\ stage = "reading"
  /\ stage' = "unreadable"
  /\ UNCHANGED <<text, config, pending, error, sampling>>

Parse ==
  /\ stage = "reading"
  /\ IF ConfigReads(text)
     THEN stage' = "parsed" /\ config' = ConfigOf(text)
     ELSE stage' = "unreadable" /\ UNCHANGED config
  /\ UNCHANGED <<text, pending, error, sampling>>

\* Config::validate, one op after the other.
Report(path, next) ==
  /\ error' = path
  /\ stage' = IF path = Ok THEN next ELSE "rejected"

\* Mutant: the policies of all the ops are looked for, not those in the map.
CheckFilesAllOps ==
  /\ stage = "parsed"
  /\ Report(ValidateFiles(config.files), "validating")
  /\ pending' = ToSet(FsOp)
  /\ UNCHANGED <<text, config, sampling>>

CheckFiles ==
  /\ stage = "parsed"
  /\ Report(ValidateFiles(config.files), "validating")
  /\ pending' = DOMAIN config.ops
  /\ UNCHANGED <<text, config, sampling>>

CheckOp(o) ==
  /\ stage = "validating" /\ o \in pending
  /\ Report(validate_op_policy(o, config.ops[o], <<"ops", o>>), "validating")
  /\ pending' = pending \ {o}
  /\ UNCHANGED <<text, config, sampling>>

Accept ==
  /\ stage = "validating" /\ pending = {}
  /\ stage' = "accepted"
  /\ UNCHANGED <<text, config, pending, error, sampling>>

\* toml::to_string of a loaded configuration, as a user of the library may do.
Save ==
  /\ stage = "accepted"
  /\ stage' = "saved"
  /\ text' = ConfigToml(config)
  /\ UNCHANGED <<config, pending, error, sampling>>

-----------------------------------------------------------------------------
PolicyFor(op) == Get(config.ops, op, PolicyDefaults)

\* select_tier, of a policy or of its large tier.
ProfileFor(r) ==
  LET large == {t \in PolicyFor(r.op).size_tier : r.op \in DataOps /\ r.requested_len > t.threshold_bytes}
  IN  IF large = {} THEN PolicyFor(r.op) ELSE (CHOOSE t \in large : TRUE).large

OpIndex(op) == (CHOOSE i \in 1 .. Len(FsOp) : FsOp[i] = op) - 1

\* Mutant: a long request's length is not cut to 32 bits.
KeyUnclamped(r, n) ==
  [seed |-> Bits(config.seed), op |-> Bits(OpIndex(r.op)), ino |-> r.ino,
   offset |-> r.offset, len |-> r.len, seq |-> Bits(n)]

KeyOf(r, n) ==
  [seed |-> Bits(config.seed), op |-> Bits(OpIndex(r.op)), ino |-> r.ino, offset |-> r.offset,
   len |-> IF r.len \subseteq 0 .. 31 THEN r.len ELSE 0 .. 31, seq |-> Bits(n)]

\* The first n numbers, or more, that the generator with this seed can give.
Drawn(seed, n) ==
  LET known == Get(rng, seed, <<>>)
  IN  {d \in [1 .. Max({n, Len(known)}) -> Draw] : IsPrefix(known, d)}

\* How many numbers a latency takes at most.
LatencyDraws(l) == IF Less(Zero, l.pareto_weight) THEN 3 ELSE 2

\* run_op takes a number and samples fault and latency.
RunOp(r) ==
  LET key == KeyOf(r, seq)
      fault_seed == fault_rng(key)
      latency_seed == latency_rng(key)
      profile == ProfileFor(r)
  IN  /\ stage = "accepted" /\ seq < MaxOps
      /\ \E f \in Drawn(fault_seed, Len(profile.faults)),
            l \in Drawn(latency_seed, LatencyDraws(profile.latency)) :
           /\ rng' = [z \in DOMAIN rng \cup {latency_seed, fault_seed} |->
                        IF z = latency_seed THEN l ELSE IF z = fault_seed THEN f ELSE rng[z]]
           /\ samples' = Append(samples,
                [request |-> r, key |-> key,
                 fault_seed |-> fault_seed, latency_seed |-> latency_seed,
                 fault |-> sample_fault(profile.faults, r.op, f),
                 latency |-> sample_latency_us(profile.latency, l)])
      /\ seq' = seq + 1
      /\ UNCHANGED loading

Done == stage \in {"unreadable", "rejected", "saved"} /\ UNCHANGED vars

Next ==
  \/ PrintDefault \/ ReadFails \/ Parse \/ CheckFiles \/ Accept \/ Save
  \/ \E o \in pending : CheckOp(o)
  \/ \E r \in Requests : RunOp(r)
  \/ Done

Spec == Init /\ [][Next]_vars

-----------------------------------------------------------------------------
(***************************************************************************)
(* Properties.                                                             *)
(***************************************************************************)

\* The names in the path of an error.
PathNames ==
  ToSet(FsOp) \cup
  {"files", "inode_count", "file_size_bytes", "ops", "concurrency_cap", "latency", "bandwidth",
   "mib_per_sec", "faults", "op", "rate", "size_tier", "threshold_bytes", "large", "max_us",
   "lognormal_median_us", "lognormal_sigma", "pareto_weight", "pareto_xm_us", "pareto_alpha"}

\* The variables have their types.
TypeOK ==
  /\ stage \in {"reading", "unreadable", "parsed", "validating", "rejected", "accepted", "saved"}
  /\ DOMAIN config = DOMAIN DefaultConfig
  /\ pending \subseteq DOMAIN config.ops
  /\ error \in Seq(PathNames)
  /\ seq = Len(samples) /\ seq <= MaxOps
  /\ \A s \in ToSet(samples) : s.latency \in Nat /\ s.key \in [Fields -> Word]
  /\ \A z \in DOMAIN rng : z.finalized \in Word

\* The rules of docs/config.md, each in the form that is false of NaN, and where
\* the code is stricter the rule of the code (BandwidthMeets).
LatencyMeets(l) ==
  /\ \A f \in ToSet(FloatFields) : is_finite(l[f])
  /\ l.base_us <= l.max_us
  /\ LessEq(Zero, l.pareto_weight) /\ LessEq(l.pareto_weight, One)
  /\ Less(Zero, l.pareto_weight) => Less(Zero, l.pareto_alpha)
  /\ LessEq(Zero, l.lognormal_median_us) /\ LessEq(Zero, l.lognormal_sigma)
\* The document asks that mib_per_sec be finite.  The code asks it of the product
\* in bytes, so it turns down finite ones too: those for which this is infinite.
BandwidthMeets(b) == is_finite(b.bytes_per_sec)
ProfileMeets(p, op) ==
  /\ LatencyMeets(p.latency)
  /\ \A b \in p.bandwidth : BandwidthMeets(b)
  /\ \A f \in ToSet(p.faults) : f.op = op /\ LessEq(Zero, f.rate) /\ LessEq(f.rate, One)
PolicyMeets(p, op) ==
  /\ p.concurrency_cap > 0
  /\ ProfileMeets(p, op)
  /\ \A t \in p.size_tier : op \in DataOps /\ t.threshold_bytes > 0 /\ ProfileMeets(t.large, op)

\* Whatever the order in which the ops come out of the HashMap, and though the
\* first error ends the validation, a configuration is accepted exactly when all
\* of it meets the rules, and the error is in an op that breaks one.
VerdictIsRight ==
  /\ stage \in {"accepted", "saved"} =>
       /\ config.files.inode_count > 0 /\ config.files.file_size_bytes > 0
       /\ \A o \in DOMAIN config.ops : PolicyMeets(config.ops[o], o)
  /\ stage = "rejected" =>
       \/ error[1] = "files" /\ config.files[error[2]] = 0
       \/ error[1] = "ops" /\ ~PolicyMeets(config.ops[error[2]], error[2])

\* The profiles of a configuration, base and large, with their op.
Profiles ==
  UNION {{<<config.ops[o], o>>} \cup {<<t.large, o>> : t \in config.ops[o].size_tier}
           : o \in DOMAIN config.ops}

\* No rule of an accepted configuration is dead: one with a positive rate is
\* drawn by some operation unless an earlier rule always fires.  Validation and
\* the sampler, which skips rules of other ops, agree on what a rule is for.
RulesCanFire ==
  stage = "accepted" =>
    \A p \in Profiles : \A i \in DOMAIN p[1].faults :
      LET faults == p[1].faults
      IN  Less(Zero, faults[i].rate) /\ (\A j \in 1 .. i - 1 : Less(faults[j].rate, One))
            => \E d \in [DOMAIN faults -> Draw] : sample_fault(faults, p[2], d) = {faults[i].errno}

\* A rate of 0 never injects, a rate of 1 always does, and an errno comes from
\* a rule of the tier that the requested length selects.
FaultsFollowRates ==
  \A s \in ToSet(samples) :
    LET faults == ProfileFor(s.request).faults
    IN  /\ \A e \in s.fault : \E i \in DOMAIN faults :
             /\ faults[i].errno = e /\ Less(Zero, faults[i].rate)
             /\ \A j \in 1 .. i - 1 : faults[j].rate # One
        /\ s.fault = {} => \A i \in DOMAIN faults : faults[i].rate # One

\* Every sampled latency of an accepted configuration is a number of
\* microseconds up to max_us, infinite and undefined bodies and a max_us that
\* f64 rounds up included; and from base_us on, except that a negative
\* pareto_xm_us, which validate lets pass, takes away from it, and so does the
\* conversion to f64 from a base_us above 2^53.
LatencyInBounds ==
  \A s \in ToSet(samples) :
    LET l == ProfileFor(s.request).latency
    IN  /\ s.latency <= l.max_us
        /\ LessEq(Zero, l.pareto_xm_us) /\ l.base_us <= F64Exact => s.latency >= l.base_us

\* Faults and latencies are drawn from different generators: no operation's
\* fault shares its numbers with the latency of any operation, as long as inode
\* numbers are below 2^63, offsets below 2^49 and there are at most 2^33
\* operations.  Lengths can be any: mix gets 32 bits of them.
StreamsApart ==
  LET Ordinary(key) == /\ key.ino \subseteq 0 .. 62 /\ key.offset \subseteq 0 .. 48
                       /\ key.seq \subseteq 0 .. 32
  IN  \A s, t \in ToSet(samples) :
        Ordinary(s.key) /\ Ordinary(t.key) => s.latency_seed # t.fault_seed

\* How far the promise of key.rs holds, that different keys get different
\* streams: for operations of one length, on one inode or at one offset (so for
\* all metadata operations), with inode numbers below 2^30, offsets below 64 KiB
\* and at most 2^22 operations.
SeedsSeparate ==
  LET Near(key) == /\ key.ino \subseteq 0 .. 29 /\ key.offset \subseteq 0 .. 15
                   /\ key.seq \subseteq 0 .. 21
  IN  \A s, t \in ToSet(samples) :
        /\ Near(s.key) /\ Near(t.key) /\ s.key # t.key /\ s.key.len = t.key.len
        /\ s.key.ino = t.key.ino \/ s.key.offset = t.key.offset
        => s.latency_seed # t.latency_seed /\ s.fault_seed # t.fault_seed

\* A key that differs from the last sampled one in one field gets another seed.
FieldChangeSeparates ==
  samples # <<>> =>
    LET s == Last(samples)
    IN  \A f \in Fields, w \in Probes :
          w # s.key[f] => latency_rng([s.key EXCEPT ![f] = w]) # s.latency_seed

\* What SampleKey says, "any field change yields an independent stream": two
\* operations never share a seed, their seq being different.
SeedsDiffer ==
  \A i, j \in DOMAIN samples : i # j => samples[i].latency_seed # samples[j].latency_seed

\* A saved configuration can be loaded exactly when no profile in it has a
\* bandwidth or a fault rule, and what is loaded is what was saved: derived and
\* hand-written serde code disagree, but never silently.
SavedIsKept ==
  stage = "saved" =>
    /\ ConfigReads(text) <=> \A p \in Profiles : p[1].bandwidth = {} /\ p[1].faults = <<>>
    /\ ConfigReads(text) => ConfigOf(text) = config
=============================================================================
