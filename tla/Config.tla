-------------------------------- MODULE Config --------------------------------
(***************************************************************************)
(* fusecraft-core/src/config.rs: the defaults, what deserialization makes   *)
(* of a TOML document, what serialization makes of a configuration, and     *)
(* validation.                                                             *)
(*                                                                         *)
(* A TOML table is a function from the keys that are present to their       *)
(* values; serde ignores keys it does not know and takes the default of an  *)
(* optional one that is missing.  An Option is a set of at most one value.  *)
(* An errno in a document is [string |-> name] or [integer |-> number].     *)
(* Documents that are no TOML, or hold a value of the wrong type anywhere   *)
(* but in an errno, are all one: Garbage.  fs_name, subtype, root_layout    *)
(* and write_mode decide nothing and are left out.                         *)
(***************************************************************************)
EXTENDS Floats, SequencesExt, TLC

FsOp == <<"lookup", "getattr", "open", "read", "write", "flush", "release",
          "fsync", "readdir", "statfs", "access">>
DataOps == {"read", "write"}

-----------------------------------------------------------------------------
(***************************************************************************)
(* Defaults.                                                               *)
(***************************************************************************)

MountDefaults == [auto_unmount |-> TRUE, default_permissions |-> TRUE,
                  read_only |-> FALSE, direct_io |-> FALSE]

FilesDefaults == [inode_count |-> 1000, file_size_bytes |-> 65536]

LatencyDefaults ==
  [base_us |-> 0, lognormal_median_us |-> Whole(100), lognormal_sigma |-> Fin(1),
   pareto_weight |-> Zero, pareto_xm_us |-> Whole(1000), pareto_alpha |-> Fin(3),
   max_us |-> 1000000]

PolicyDefaults ==
  [concurrency_cap |-> 64, queue_cap |-> 0, latency |-> LatencyDefaults,
   bandwidth |-> {}, faults |-> <<>>, size_tier |-> {}]

DefaultConfig ==
  [seed |-> 42, mount |-> MountDefaults, files |-> FilesDefaults, ops |-> <<>>,
   jsonl_path |-> {}]

ASSUME DefaultsAreExact == LatencyDefaults.max_us <= F64Exact

-----------------------------------------------------------------------------
(***************************************************************************)
(* Deserialization: Reads says whether a table has the shape that is asked  *)
(* for, Of what it becomes.                                                *)
(***************************************************************************)

Garbage == [syntax |-> "error"]

Get(table, key, default) == IF key \in DOMAIN table THEN table[key] ELSE default
Option(table, key) == IF key \in DOMAIN table THEN {table[key]} ELSE {}
TableOf(table, defaults) == [k \in DOMAIN defaults |-> Get(table, k, defaults[k])]

\* The errno names that fault rules may use, and libc's numbers for them.
parse_errno ==
  [EIO |-> 5, ENOENT |-> 2, ESTALE |-> 116, ENOSPC |-> 28, EAGAIN |-> 11, EINTR |-> 4]

BandwidthReads(b) == {"mib_per_sec", "burst_bytes"} \subseteq DOMAIN b
BandwidthOf(b) ==
  [bytes_per_sec |-> Times(b.mib_per_sec, 1024 * 1024), burst_bytes |-> b.burst_bytes]

FaultReads(f) ==
  /\ {"op", "errno", "rate"} \subseteq DOMAIN f /\ f.op \in ToSet(FsOp)
  /\ \E name \in Option(f.errno, "string") : name \in DOMAIN parse_errno
FaultOf(f) == [op |-> f.op, errno |-> parse_errno[f.errno.string], rate |-> f.rate]

\* The part that a policy and its large tier share.
ProfileReads(p) ==
  /\ \A b \in Option(p, "bandwidth") : BandwidthReads(b)
  /\ \A f \in ToSet(Get(p, "faults", <<>>)) : FaultReads(f)
ProfileOf(p) ==
  LET faults == Get(p, "faults", <<>>)
  IN  [latency |-> TableOf(Get(p, "latency", <<>>), LatencyDefaults),
       bandwidth |-> {BandwidthOf(b) : b \in Option(p, "bandwidth")},
       faults |-> [i \in DOMAIN faults |-> FaultOf(faults[i])]]

TierReads(t) == {"threshold_bytes", "large"} \subseteq DOMAIN t /\ ProfileReads(t.large)
TierOf(t) == [threshold_bytes |-> t.threshold_bytes, large |-> ProfileOf(t.large)]

PolicyReads(p) == ProfileReads(p) /\ \A t \in Option(p, "size_tier") : TierReads(t)
PolicyOf(p) ==
  [concurrency_cap |-> Get(p, "concurrency_cap", PolicyDefaults.concurrency_cap),
   queue_cap |-> Get(p, "queue_cap", PolicyDefaults.queue_cap),
   latency |-> ProfileOf(p).latency,
   bandwidth |-> ProfileOf(p).bandwidth,
   faults |-> ProfileOf(p).faults,
   size_tier |-> {TierOf(t) : t \in Option(p, "size_tier")}]

ConfigReads(text) ==
  /\ text # Garbage
  /\ LET ops == Get(text, "ops", <<>>) IN
       \A o \in DOMAIN ops : o \in ToSet(FsOp) /\ PolicyReads(ops[o])
ConfigOf(text) ==
  LET ops == Get(text, "ops", <<>>)
  IN  [seed |-> Get(text, "seed", DefaultConfig.seed),
       mount |-> TableOf(Get(text, "mount", <<>>), MountDefaults),
       files |-> TableOf(Get(text, "files", <<>>), FilesDefaults),
       ops |-> [o \in DOMAIN ops |-> PolicyOf(ops[o])],
       jsonl_path |-> Option(Get(text, "metrics", <<>>), "jsonl_path")]

-----------------------------------------------------------------------------
(***************************************************************************)
(* The types of what a document holds that is not Garbage.  A key may be    *)
(* missing, and an op or an errno may be any name.                          *)
(***************************************************************************)

FloatFields ==
  <<"lognormal_median_us", "lognormal_sigma", "pareto_weight", "pareto_xm_us", "pareto_alpha">>

\* u64 and usize: their largest value is far below the largest f64.
U64 == 0 .. F64Max \div 2

LatencyTyped(l) ==
  /\ \A k \in DOMAIN l \cap {"base_us", "max_us"} : l[k] \in U64
  /\ \A k \in DOMAIN l \cap ToSet(FloatFields) : IsF64(l[k])
BandwidthTyped(b) ==
  /\ \A rate \in Option(b, "mib_per_sec") : IsF64(rate)
  /\ \A burst \in Option(b, "burst_bytes") : burst \in U64
FaultsTyped(faults) ==
  /\ faults \in Seq(ToSet(faults))
  /\ \A i \in DOMAIN faults : \A rate \in Option(faults[i], "rate") : IsF64(rate)
ProfileTyped(p) ==
  /\ LatencyTyped(Get(p, "latency", <<>>))
  /\ \A b \in Option(p, "bandwidth") : BandwidthTyped(b)
  /\ FaultsTyped(Get(p, "faults", <<>>))
TierTyped(t) ==
  /\ \A n \in Option(t, "threshold_bytes") : n \in U64
  /\ \A large \in Option(t, "large") : ProfileTyped(large)
PolicyTyped(p) ==
  /\ ProfileTyped(p)
  /\ \A k \in DOMAIN p \cap {"concurrency_cap", "queue_cap"} : p[k] \in U64
  /\ \A t \in Option(p, "size_tier") : TierTyped(t)
TextTyped(text) ==
  LET files == Get(text, "files", <<>>)
      ops == Get(text, "ops", <<>>)
  IN  /\ \A k \in DOMAIN files \cap DOMAIN FilesDefaults : files[k] \in U64
      /\ \A o \in DOMAIN ops : PolicyTyped(ops[o])

-----------------------------------------------------------------------------
(***************************************************************************)
(* Serialization.  None is left out; a bandwidth and an errno are written   *)
(* as the fields of the Rust types, which is not how they are read.         *)
(***************************************************************************)

Some(key, opt) == [k \in {key : v \in opt} |-> CHOOSE v \in opt : TRUE]
And(f, g) == [k \in DOMAIN f \cup DOMAIN g |-> IF k \in DOMAIN f THEN f[k] ELSE g[k]]

BandwidthToml(b) == [bytes_per_sec |-> b.bytes_per_sec, burst_bytes |-> b.burst_bytes]
FaultToml(f) == [op |-> f.op, errno |-> [integer |-> f.errno], rate |-> f.rate]

ProfileToml(p) ==
  And([latency |-> p.latency, faults |-> [i \in DOMAIN p.faults |-> FaultToml(p.faults[i])]],
      Some("bandwidth", {BandwidthToml(b) : b \in p.bandwidth}))

\* The fields of an OpPolicy that a large tier has not.
CapsToml(p) == [concurrency_cap |-> p.concurrency_cap, queue_cap |-> p.queue_cap]

\* Mutant: the tier is not written.
PolicyTomlUntiered(p) == And(ProfileToml(p), CapsToml(p))

PolicyToml(p) ==
  And(And(ProfileToml(p), CapsToml(p)),
      Some("size_tier", {[threshold_bytes |-> t.threshold_bytes, large |-> ProfileToml(t.large)]
                           : t \in p.size_tier}))

ConfigToml(c) ==
  [seed |-> c.seed, mount |-> c.mount, files |-> c.files,
   ops |-> [o \in DOMAIN c.ops |-> PolicyToml(c.ops[o])],
   metrics |-> Some("jsonl_path", c.jsonl_path)]

-----------------------------------------------------------------------------
(***************************************************************************)
(* Validation.  A result is the path of the first field found wrong, or Ok. *)
(***************************************************************************)

Ok == <<>>

\* The ? operator over a list of checks.
First(results) ==
  LET wrong == {i \in DOMAIN results : results[i] # Ok}
  IN  IF wrong = {} THEN Ok ELSE results[Min(wrong)]

\* The check of an Option, if there is something to check.
IfSome(results) == IF results = {} THEN Ok ELSE CHOOSE r \in results : TRUE

Check(wrong, path) == IF wrong THEN path ELSE Ok

\* Mutant: comparisons only, which let NaN and infinity pass.
ValidateLatencyComparing(l, prefix) ==
  First(<<Check(l.max_us < l.base_us, prefix \o <<"max_us">>),
          Check(Less(l.pareto_weight, Zero) \/ Less(One, l.pareto_weight), prefix \o <<"pareto_weight">>),
          Check(Less(Zero, l.pareto_weight) /\ LessEq(l.pareto_alpha, Zero), prefix \o <<"pareto_alpha">>),
          Check(Less(l.lognormal_median_us, Zero), prefix \o <<"lognormal_median_us">>),
          Check(Less(l.lognormal_sigma, Zero), prefix \o <<"lognormal_sigma">>)>>)

validate_latency(l, prefix) ==
  First(<<First([i \in DOMAIN FloatFields |->
                   Check(~is_finite(l[FloatFields[i]]), prefix \o <<FloatFields[i]>>)]),
          Check(l.max_us < l.base_us, prefix \o <<"max_us">>),
          Check(Less(l.pareto_weight, Zero) \/ Less(One, l.pareto_weight), prefix \o <<"pareto_weight">>),
          Check(Less(Zero, l.pareto_weight) /\ LessEq(l.pareto_alpha, Zero), prefix \o <<"pareto_alpha">>),
          Check(Less(l.lognormal_median_us, Zero), prefix \o <<"lognormal_median_us">>),
          Check(Less(l.lognormal_sigma, Zero), prefix \o <<"lognormal_sigma">>)>>)

validate_bandwidth(b, prefix) == Check(~is_finite(b.bytes_per_sec), prefix \o <<"mib_per_sec">>)

\* Mutant: any op may stand in a rule.
ValidateFaultsOfAnyOp(faults, op, prefix) ==
  First([i \in DOMAIN faults |->
           Check(~is_finite(faults[i].rate) \/ Less(faults[i].rate, Zero) \/ Less(One, faults[i].rate),
                 prefix \o <<"rate">>)])

validate_faults(faults, op, prefix) ==
  First([i \in DOMAIN faults |->
           First(<<Check(faults[i].op # op, prefix \o <<"op">>),
                   Check(\/ ~is_finite(faults[i].rate)
                         \/ Less(faults[i].rate, Zero) \/ Less(One, faults[i].rate),
                         prefix \o <<"rate">>)>>)])

\* The three checks of a policy, and of the large tier in its turn.
ValidateProfile(p, op, prefix) ==
  First(<<validate_latency(p.latency, prefix \o <<"latency">>),
          IfSome({validate_bandwidth(b, prefix \o <<"bandwidth">>) : b \in p.bandwidth}),
          validate_faults(p.faults, op, prefix \o <<"faults">>)>>)

ValidateTier(t, op, prefix) ==
  First(<<Check(op \notin DataOps, prefix),
          Check(t.threshold_bytes = 0, prefix \o <<"threshold_bytes">>),
          ValidateProfile(t.large, op, prefix \o <<"large">>)>>)

validate_op_policy(op, policy, prefix) ==
  First(<<Check(policy.concurrency_cap = 0, prefix \o <<"concurrency_cap">>),
          ValidateProfile(policy, op, prefix),
          IfSome({ValidateTier(t, op, prefix \o <<"size_tier">>) : t \in policy.size_tier})>>)

ValidateFiles(files) ==
  First(<<Check(files.inode_count = 0, <<"files", "inode_count">>),
          Check(files.file_size_bytes = 0, <<"files", "file_size_bytes">>)>>)
=============================================================================
