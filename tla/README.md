# fusecraft: TLA+ models and proofs

fusecraft mounts a synthetic file system whose operations are slowed down,
limited and made to fail by a simulation engine. This directory holds TLA+
models of it, the TLC configurations that check them, and TLAPS proofs.
`PROJECT.json` maps every definition to the source lines it models and lists
runs, mutants, hazards, findings and theorems.

## The system

| Component | State | Operations | Module |
|---|---|---|---|
| Concurrency limiter (`limiter/concurrency.rs`) | `inflight`, `queued`, totals behind a mutex; one condition variable | `acquire`, `acquire_timeout`, guard drop, `stats` | `BlockingLimiter`, abstract: `AdmissionControl` |
| Bandwidth limiter (`limiter/bandwidth.rs`) | tokens, last refill, totals behind a mutex | `reserve`, `stats`, both refill | `BandwidthLimiter`, abstract: `PacedLink` |
| Engine (`engine/`) | atomic `seq`; per kind of operation one concurrency limiter and up to two bandwidth limiters | `run_op` | `SimEngine` |
| Metrics (`metrics/`) | counters and histogram per kind, behind a mutex | `record`, `summary` | counters, in `SimEngine` and `MountCommand` |
| Event sinks (`events/`) | `BufWriter` behind a mutex, and the file | `create`, `emit`, `flush` | `JsonlEventSink`, used by `MountCommand`; in `SimEngine` a bag |
| Samplers (`sampler/`) | none: functions of a key | `sample_fault`, `sample_latency_us`, `mix` | `SampleKey`, `Samplers`, `Sampling`; results only in `SimEngine` |
| Namespace (`namespace/flat.rs`) | none after `new` | `lookup`, `attr`, `readdir` | `FlatObjectNamespace` |
| Content (`content/deterministic.rs`) | none | `read_at`, `write_at`, `file_len` | in `FaultFs` |
| FUSE handlers (`fusecraft-fuser/src/lib.rs`) | none | one per request | `FaultFs` |
| Configuration (`config.rs`, `config_io.rs`) | none after loading | reading, validation, saving | `Floats`, `Config`, `Sampling` |
| Mount and options (`fusecraft-fuser/src/mount.rs`, `opts.rs`) | the mount, through its handle | `spawn_mount`, drop | `MountCommand` |
| Command line (`fusecraft-cli`) | signal channel, the handles above | `mount`, `validate-config`, `print-default-config` | `MountCommand`, `Sampling` |

A FUSE request is handled by a thread of fuser. The handler computes an
`OpContext` (a read clamps its length at the end of the file and keeps the size
that was asked for beside it) and calls `run_op` with a closure. `run_op` takes
a sequence number, acquires a slot of the kind's limiter (it waits, or is
refused with `EAGAIN`), samples fault and latency from a key that contains the
number, reserves bandwidth, sleeps, runs the closure unless a fault fired,
emits an event, records a sample and drops the guard, which wakes one waiter.
The engine and all that hangs on it is shared by all handler threads.

The `mount` command looks at the mountpoint, loads and validates the
configuration, creates the event log, builds the engine, mounts, installs a
Ctrl+C handler that sends on a channel, and waits for it. Then it drops the
mount's handle, prints the metrics, flushes the log and returns. The worker
threads of the session share engine and log with it all the while.

What is hard: waiters, new arrivals and timeouts compete for the limiter's mutex; the
condition variable remembers nothing; debts of several sleeping callers overlap in the
bucket; every exit of `run_op` has to settle slot, event and sample; saturated
durations are added to other durations, and a timeout to the clock; directory cookies
continue a listing over many requests; validation compares floats that may be NaN and
stops at the first error of a `HashMap`; keys are folded into one word; buffered
writes fail half-way; the process is killed, or told to stop, between any two steps of
the command, with workers still running.

What makes each part correct:

- limiter: caps respected, counters exact but for the places that panics lose, no free
  slot beside a parked thread without a wakeup on its way, refusals only where
  allowed, timed calls return;
- bandwidth: nothing is let through ahead of the rate, throttled callers are
  paced, looking at the statistics changes no wait;
- engine: unique numbers, one event per operation that returns, metrics equal to
  the log, log never behind by more than the cap, each byte charged once to the
  right tier, every operation returns;
- handlers and namespace: listings and reads exact however they are cut up and
  whatever fails in between, listed names resolve;
- configuration: accepted exactly if every rule holds, and no accepted rule dead;
- samplers: rates of 0 and 1 exact, latencies within their bounds for any draw and any
  rounding,
  streams and keys apart;
- sink: events in order, none twice, none lost while writes succeed, shutdown included;
- command: what the summary counts is in the log, every exit of its own unmounts, a
  dead mount does not cost the log that explains it, Ctrl+C ends the program.

## Modules

**AdmissionControl** is the contract of a concurrency limiter: sets of admitted
and waiting callers and what may happen to them. **BlockingLimiter** is the code:
one step per critical section. A thread that waits on the condition variable is
`parked`; a notify or the timeout of `wait_for` makes it `notified` or
`expired`, and the step in which it runs again, with the mutex, comes later, so
that arrivals can go first. parking_lot documents that its condition variable
has no spurious wakeups, so none are modelled; a wakeup that finds the slot taken
goes through the same code. A timeout that runs past the end of `Instant` panics in
`acquire_timeout` between `queued += 1` and the wait; the mutex of parking_lot is not
poisoned, so the others go on with one place less. `leaked` counts such places in the
model, and `lost` in AdmissionControl, whose `BreakDown` allows for them: refusals must be
justified by the callers that wait and the places lost. `MaxCalls` bounds the calls made.

**PacedLink** is the contract of a bandwidth limiter: a link that is busy until
some time. **BandwidthLimiter** is the bucket. The unit of time is the time of
one byte, so credit and wait are the same number; rounding of `f64` is left out,
saturation of `u64` and of `Duration` is kept. `Rate` is 1, or 0 for an unlimited
profile. `MaxTime` and `MaxBytes` bound the run.

**SimEngine** is `run_op` in the steps between which other threads can run.
Limiters appear as AdmissionControl, which BlockingLimiter implements. A bandwidth
limiter appears as the wait it returns: none, finite, or `Duration::MAX`. The
fault sampler is the set `faulty` of sequence numbers at which it fires, chosen
at the start, which is all that a function of the key can do for a given run; the
errno is any of the rules', which may be the `EAGAIN` of a refusal. Whether an operation
was admitted is therefore kept with it (`guard`) and not read off its result. A
panic unwinds (no profile sets `panic = "abort"`): the guard is dropped, the thread
is gone. A sleep of `Duration::MAX` does not end. `MaxOps` bounds the operations.

**FlatObjectNamespace** has lookup, attr and readdir as operators; names are
sequences of characters, `NameDigits` stands for the 6 of the code. **FaultFs**
has one action per handler and one client that lists a directory, reads a file
and makes other requests in between. Handlers have no state, so one step is
one request; concurrency is SimEngine's subject. The kernel's part (it asks only
about inodes it was given; a reply has room for at least one entry; an empty
reply ends a listing or a file) is in the guards; `readdir` is also asked of files, which
is `ENOTDIR`, and at any offset. `MaxFailures` bounds the
injected failures.

**Floats** has the `f64` operations that the code uses, in halves, with infinities and
NaN. Above `F64Exact`, the 2^53 of the code, numbers have gaps, which double with the
magnitude: `Whole`, the conversion of a `u64`, and the sum go to the nearest number,
of two the even one. A `max_us` above `F64Exact` can so be rounded up, which is what
the last line of `sample_latency_us` is there for, and a `base_us` down. **Config**
has the defaults of `config.rs`, what reading a TOML table gives, what writing a
configuration gives, and the `validate_*` functions, whose result is the path of the
field at fault. **SampleKey** has the derivation of seeds on all 64 bits, a word being
the set of its one bits. The finalizer of splitmix64 is a bijection (xor with its own
right shift, products with odd constants) and is modelled as one, nothing more being
used of it. **Samplers** has the samplers as functions of the uniform draws; a draw is
0, where `f64::MIN_POSITIVE` gives the extremes of both distributions, or 1/2.
**Sampling** puts them together: a file is read, parsed, validated op by op in any
order, and then operations are sampled, or the configuration is saved. Inode, offset
and length of a request are 64-bit words, of which the key takes the length cut to 32
bits (`min` with `u32::MAX`, as `run_op` does); the configured seed and the number of
an operation are numbers, whose words `Bits` gives below 2^31. `StdRng` is an unknown
function of the seed: a seed that comes again draws the same numbers. `MaxOps` bounds
the operations.

**JsonlEventSink** is the sink: `writeln!` is two writes, of the line and of the
newline, into a buffer of `BufCapacity` pieces; each flush of the buffer may fail
after part of it, `MaxFailures` times, and what could not be buffered is dropped.
**MountCommand** is the command with its sink, its options, its mount, its workers
and its end, killed and started again. A request is two steps here, the event and
the metrics, as in `run_op`; the rest is SimEngine's. `MaxEvents`, `MaxRuns` and
`MaxKills` bound the run. Taken from outside the repository:

- dropping fuser's `BackgroundSession` unmounts. Whether it waits for the workers is
  the constant choice `joins`, since nothing in the repository settles it: the
  properties hold either way;
- the code leaves fuser's number of worker threads at its default, which
  `tests/advanced_mount.rs` says is 1. The instance has 2, so that the locks
  matter; with one worker there are fewer behaviours;
- fusermount rejects `auto_unmount` without `allow_other`, which a comment in
  `opts.rs` states; given it, fusermount unmounts for a process that dies; without, a
  killed process leaves a mount on which `is_dir` fails (`Abandoned`);
- ctrlc handles SIGINT only. Before the handler is installed, just after the
  mount, Ctrl+C is a kill like any other (`Die`).

The modules named after another with `Proofs` hold the theorems about it,
`SumTheorems` facts about sums that they use. The `MC` modules give the instances
their constants. Definitions whose comment starts with "Mutant" are broken variants:
each property is violated when one of them replaces the definition it stands before.

## Runs

| Run | Instance | Shows | Distinct states |
|---|---|---|---|
| `limiter` | 5 threads, cap 2, queue 2, 6 calls, overflowing deadlines | types, counters, caps, no lost wakeup; implements AdmissionControl with its fairness; timed calls return; waiters leave | 15,674 |
| `limiter_leak` | 3 threads, cap 1, 3 calls | violation, see findings | |
| `bandwidth` | 3 threads, sizes 0, 1, 3, 11, burst 2 | types, rate, pacing, implements PacedLink | 763,736 |
| `engine_safety` | 3 threads, 3 operations, read and getattr, symmetry | numbers, log, metrics, lag, charges | 405,125 |
| `engine_refines` | 3 threads, 3 operations | limiter use, every operation returns | 157,840 |
| `engine_unlogged`, `engine_decisions` | as `engine_safety` | violations, see findings | |
| `faultfs` | 9 files (12 asked for), 5 bytes, 1 failure | listing, names, reads, charges | 79,244 |
| `sampling` | 218 files, 4 requests, 2 operations | verdicts, live rules, rates, bounds, streams, seeds, saving | 131,930 |
| `sampling_seeds` | a scan in 64 KiB steps | violation, see findings | |
| `mount` | 2 workers, 3 requests, 2 runs, 1 kill, 2 failing writes per log | log, summary, unmount, restart, Ctrl+C | 438,076 |
| `mount_auto_unmount` | as `mount`, 1 request, 1 run | violation, see findings | |

Why the bounds are enough. Limiter: 5 threads fill 2 slots and 2 places with one left
to be refused, and parked, notified and expired threads occur together, with one, two
or no places lost. Bandwidth: sizes below, at and above the burst, a size whose wait
exceeds `DurationMax` = 8, a sum above `U64Max` = 13, and time to repay. Engine: with
cap 1 and queue 1 for reads, three threads hold, wait and are refused; the read tiers
differ in latency and faults, `EAGAIN` is among the injected errnos, and the large
read is clamped below the threshold, so that requested and readable length choose
differently. FaultFs: names of one digit, so the limit of the naming scheme is inside
the instance; buffers of 1, 4 and 20 entries; offsets before, at and after the end.
Sampling: for every check of `validate` a file that breaks it, in the base and in the
large tier, alone and beside a second faulty op; draws and parameters that make the
body infinite, undefined and negative; bounds at and above `F64Exact` that round up,
down and to even; requests within the limits of `SeedsSeparate` and one beyond them,
with a length of more than 32 bits; files without bandwidths and faults, which can be
saved and loaded, with and without a large tier. Mount: a buffer of three pieces
overflows within two events, so that a failed write loses a newline and a second one
an event, with part of the buffer written or none; a second run finds the log and the
mount of a killed one.

Only `engine_safety` uses symmetry, over threads, which the module does not tell
apart.
Every run checks for deadlock. `Done` is the stuttering of a finished run: no calls
left, or, in SimEngine, threads that panicked, sleep for ever or wait behind one
that does.

### Fairness

- `BlockingLimiter!Fairness`: a thread off the condition variable gets the mutex
  and runs (scheduler, parking_lot's eventual fairness), and timeouts fire. It
  says nothing of releases. `HoldersReturn` (bodies and sleeps end) is a hypothesis
  of `WaiterLeaves` alone.
- `SimEngine!Fairness`: threads that can run do, and a limiter with a free slot
  admits *some* waiter, which is what AdmissionControl promises. `EveryOpReturns`
  is checked with finite waits.
- `MountCommand!Fairness`: main and the workers run, and requests end (as
  `EveryOpReturns` has it). Nobody need press Ctrl+C, kill or unmount.

No particular waiter is promised a slot under a continuous stream of arrivals: a
new arrival that finds a slot takes it. The leads-to properties hold because the
number of calls is bounded; with unbounded arrivals starvation is possible in
the code as in the model.

## Proofs

`BlockingLimiterProofs` proves for every finite set of threads and all caps, zero
included: `[]TypeOK`, `[]CountersMatch`, `[]CapsRespected`, `[]NoLostWakeup`, and that
the limiter's safety specification implies AdmissionControl's. The inductive
invariant `IInv` is their conjunction: the caps need the counters to be exact,
the counters need the types, and the wakeup invariant needs the counters, because
`inflight` must fall by one exactly when a thread is notified. The counting lemmas
say how the cardinality of the threads in some states changes when one or two of
them move; the refinement uses that counters are cardinalities, `queued` with the lost
places added.

`BandwidthLimiterProofs` proves for all sizes, bursts and bounds: `[]TypeOK`,
`[]RateRespected`, `Paced` and the refinement of PacedLink. The invariant adds
`DebtOwned` (the latest due time covers the debt), `Balance` (tokens against bytes
reserved and time) and `Prefix` (what each waiting thread reserved up to, against
its due time): `RateRespected` alone says nothing of threads that are not due yet.

`SamplingProofs` has four results about seeds and saving, and five about loading and
sampling. About the seeds, for all 64-bit words as inode, offset and length (they are
about keys, so for operations whose numbers are below 2^31):

- `[]FieldChangeSeparates`: a change of one field changes the seed. Rotation is injective
  on words and exclusive or can be cancelled. Two changes at once can cancel (finding 4);
- `[]StreamsApart`: no fault is drawn from a generator that also gives a latency, the
  two constants of the streams being complements. With inodes below 2^63, offsets
  below 2^49, numbers below 2^33, the 4 bits of an op and the 32 of a length, no
  rotated field reaches bit 22, so the seeds differ there whatever the other fields
  are. Beyond these limits keys can be found whose seeds meet;
- `[]SeedsSeparate`: the part of what `key.rs` promises that holds. With inodes below
  2^30, offsets below 64 KiB and fewer than 2^22 operations before, the rotated fields
  but for inode, offset and length lie in places of their own; so keys of one length
  that agree in inode or offset (all metadata operations, all reads of one file) and
  differ at all have different seeds.

About saving, `[]SavedIsKept`: a configuration that was loaded and saved can be loaded
again exactly when no profile of it has a bandwidth or a fault rule, and then it is
the same, the part of the round trip that `lib.rs` documents that holds. `Origin`, an
invariant of its own, says that the configuration came from a document and that what
was saved is written from it; a configuration that did not could hold tables that
reading never makes. `ConfigBack` and the lemmas before it go through the tables one
by one: reading fills the gaps of a table, writing leaves none, so reading again
changes nothing.

For every typed document, whatever its numbers, ops and rules, and any draws, it
proves `[]TypeOK`, `[]VerdictIsRight`, `[]RulesCanFire`, `[]FaultsFollowRates` and
`[]LatencyInBounds`. The argument has three layers, each a set of lemmas about
operators:

- reading: a typed document that `ConfigReads` accepts becomes a typed configuration
  (`ConfigIs`), the defaults included;
- validation: each `validate_*` returns `Ok` exactly when its part meets the rules in
  the form that is false of NaN, and otherwise a path below its prefix, so that the
  first two names of the path say where the fault is;
- sampling: `sample_fault` returns the first rule that fires; on a profile that meets
  the rules `sample_latency_us` is between the bounds, by cases on what the body can be
  (finite, infinite, NaN). Rounding takes nothing across a number that is exact
  (`NearestAbove`), which keeps the lower bound for a `base_us` up to `F64Exact`.

The invariant `IInv` joins them: `LoadTyped` (types of the configuration at each stage),
`Verdict` (the files and the ops that are not pending meet the rules; nothing is
pending once accepted) and `Sampled` (every sample is what the samplers give for
its profile, its key is one that `run_op` makes and its seeds are derived from that
key; there are samples only after the acceptance). The bounds need the verdict: the
samplers are not safe for parameters that `validate` rejects.

`SumTheorems` has what the engine's proofs need of sums over sets (`MapThenSumSet`,
which folds by choosing elements): the sum does not depend on the choice, and adding
or changing one element changes it by that much.

`SimEngineProofs` proves for any finite set of threads, any contexts, policies, caps
and faults, and any number of operations: `[]TypeOK`, `[]NumbersAreUnique`,
`[]OneEventPerReturn`, `[]MetricsMatchLog`, `[]LogLagBounded`, `[]ChargedOnce` and
`LimitersRespected`, which besides the use of the limiters says that a slot is held
until its operation returns or panics. The invariant `IInv` has seven parts. `Slots`
and `Owners` tie `held` and the queue to the steps of the threads, and the number of a
call to the one thread, returned or aborted operation that has it; `Log` says that the
bag holds the events of the returned and of the emitted calls, once each; on these
rest the counts: `Counted` (metrics), `Lag` (admissions) and `Billed` (bytes). None of
the properties is inductive alone: that an event is new needs the uniqueness of
numbers, and that a byte is not charged twice needs that a call is in one place only.

`FlatObjectNamespaceProofs` proves, for every number of files and digits, that
`parse_name` finds the index that `index_to_name` spelled (a number below 10^k is
determined by its k digits), that `lookup` finds every entry of `readdir`, and that
`readdir` at a cookie gives what comes after it in the whole listing.
`FaultFsProofs` builds on it: for every number of files, length, buffer, offset and
number of failures `[]TypeOK`, `[]ScanIsExact`, `[]NamesResolve`, `[]ReadIsExact` and
`[]ChargedAsServed`. The invariant says that what was listed is a beginning of the
listing and the cookie its end (`Listed`), the same for the bytes read (`Streamed`),
and what the last reply says of the last request (`Answered`).

`MountCommandProofs` proves all of MountCommand's safety for any workers,
configurations, requests, runs, kills, buffer sizes and failed writes. `MountInv` says
in which stages the mount can be live (while `run` holds its handle) and dead (before
`is_dir` or after the exit); `LogInv` adds that in those stages there is no worker and
the buffer is empty, so that neither a late event nor the flush at the end of a run
can write: `[]MountGone`, `DeadMountKeepsLog`. `TypeInv` adds the types, `FaithInv` that
file and buffer together are in order, and without failed writes a beginning of the
whole log, all of it from `create` to the end of the run, and `ClosedInv` that after an
exit whose session joined its workers nothing is left in the buffer: `[]LogIsFaithful`.
`SummaryInv` follows an operation from its event to the file: what is counted, with
what is logged and not yet counted, is at most what was emitted (`Covered`); what was
printed was emitted (`PrintedLogged`) and after the flush is in the file
(`PrintedFiled`): `[]SummaryIsLogged`.

The induction over numbers, digits and finite sets that these need is done by taking
a least counterexample (a nonempty set of naturals has a least element, a nonempty set
of subsets of a finite set a minimal one), since the library's induction theorems are
beyond the provers at hand.

Assumptions: the named `ASSUME`s, which the runs evaluate. Those that say more than
the type of a constant:

- `TimeIsShort` (bandwidth): no process runs for `Duration::MAX`;
- `InjectedAreErrors` (handlers): an injected errno is an error;
- `TextsTyped` (configuration): a document is typed or Garbage. A value of the wrong
  type anywhere but in an op or an errno makes `toml::from_str` fail, as Garbage does;
- `F64ExactPositive` (floats): `F64Exact` is even and at most half of `F64Max`;
- `DefaultsAreExact`, and `U64` up to half of `F64Max`: every `u64` is a finite `f64`, the
  defaults without rounding.
  Without it the bounds of the samplers are false of the model: were the largest
  finite number 1/2, infinity would be 1 and pass for a rate;
- `RequestsOk` (sampling): a request is of one of the eleven kinds and has 64-bit
  words as inode, offset and length;
- `NoCallIsNone`, `NoRequestIsNone`: the value that stands for none is no value;
- `ThreadsFinite`, `WorkersFinite`: there are finitely many threads.

Only model-checked: liveness (`TimedCallReturns`, `WaiterLeaves`, `EveryOpReturns`,
`CtrlCExits`) and the fairness part of the refinement of AdmissionControl, as the provers
know no ENABLED. Every invariant and every other action property of a passing run is a
theorem.

## Findings

1. **Panic without event** (`engine_unlogged`). `reserve` saturates at `Duration::MAX`
   for a tiny `bytes_per_sec`, which `validate` accepts; `run_op` then adds the
   sampled latency with `+`, which panics when that is positive. The operation has a
   number and a slot and leaves neither event nor sample, though
   `docs/architecture.md` says that the invariant "is maintained unconditionally".
   With latency zero the thread sleeps for ever instead and keeps its slot.
2. **Refusals are no function of the key** (`engine_decisions`). `README.md` says that
   "every decision" is; whether the limiter refuses depends on what else is running.
3. **A panic loses a place in the queue** (`limiter_leak`). `acquire_timeout` computes
   `start + timeout` after `queued += 1`; for a timeout past the end of `Instant` the sum
   panics, the mutex is not poisoned, and the place stays counted, though `queued` is
   documented as the "number of operations waiting in the queue for a slot". After
   `queue_cap` such calls whoever finds no slot is refused at once. `run_op` calls
   `acquire`, which has no deadline; the method is public.
4. **Different keys share a seed** (`sampling_seeds`). `key.rs` promises that "any
   field change yields an independent stream". The offset is rotated by 37 and `seq` by
   53, so bit 16 of the one meets bit 0 of the other: reads number k at offset
   k * 64 KiB all get the same generator. If other operations came first the numbers
   are shifted and the reads share a few seeds (with three of them, the second and
   the fourth read do). `SeedsSeparate` says how far the promise holds.
5. **`auto_unmount` is not passed on** (`mount_auto_unmount`). `docs/config.md` says
   "Auto-unmount on process exit" and gives `true` as the default. `to_fuser_config`
   passes the option only together with `allow_other`, which nothing sets, so a killed
   process leaves a dead mount. The command logs a warning; the documents do not tell.

Not findings of a run, but worth knowing:

- `Config` does not "round-trip through TOML" in general, as `lib.rs` says: a bandwidth
  is written as `bytes_per_sec` and read as `mib_per_sec`, an errno is written as a number
  and read as a name. `SavedIsKept` states exactly which configurations survive: those
  with neither. The default one, whose round trip is tested, is among them;
- `total_rejected` counts the timeouts of `acquire_timeout` too, though its comment says
  "rejected due to a full queue"; AdmissionControl keeps the two apart (`late`);
- `docs/config.md` asks that `mib_per_sec` be finite; the code asks it of the product
  in bytes, and so rejects a finite `mib_per_sec` whose product overflows.
  `VerdictIsRight` states the code's rule (`BandwidthMeets`), the stricter one;
- `validate` accepts a negative `pareto_xm_us`, which takes latencies below `base_us`, and
  a `base_us` above 2^53, which `f64` may round down: the two exceptions in
  `LatencyInBounds`.

## Plan

SimEngine over the samplers of `Samplers` instead of the set `faulty`.

## Not modelled

The shape of the latency distributions (real numbers), hdrhistogram's buckets and
percentiles, the syntax of TOML and JSON, the texts of errors, FUSE, fuser and the
kernel beyond what the handlers and the command rely on, wall-clock values, and
`fusecraft_fuser::mount`, the blocking variant that the command does not use.
