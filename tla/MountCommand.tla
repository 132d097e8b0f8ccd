----------------------------- MODULE MountCommand -----------------------------
(***************************************************************************)
(* The mount command, fusecraft-cli/src/commands/mount.rs: the checks, the  *)
(* event log, the mount and its options, the wait for Ctrl+C, and the       *)
(* shutdown, with the worker threads of the FUSE session that go on handling *)
(* requests meanwhile, each writing its event and then its metrics.         *)
(*                                                                         *)
(* External: fuser, the kernel, fusermount, signals.  Dropping fuser's      *)
(* BackgroundSession unmounts; whether it also waits for the workers is the *)
(* choice joins, made at the start, as nothing in the repository settles    *)
(* it.  A process that dies leaves its mount behind, dead, unless it has    *)
(* the option AutoUnmount; the mountpoint is then no directory until        *)
(* somebody unmounts it.                                                   *)
(***************************************************************************)
EXTENDS JsonlEventSink, Config

CONSTANTS Workers,    \* worker threads of the session
          Ops,        \* kinds of request
          Configs,    \* what load_config may return
          NoRequest,  \* a worker that handles none
          MaxEvents,  \* bound: requests in all runs
          MaxRuns,    \* bound: runs of the program
          MaxKills    \* bound: deaths by a signal

ASSUME OpsKnown == Ops \subseteq ToSet(FsOp)
ASSUME NoRequestIsNone == NoRequest \notin [op : Ops, is_error : BOOLEAN]
ASSUME WorkersFinite == IsFiniteSet(Workers)

VARIABLES stage,      \* where run is; "exited" when there is no process
          exit,       \* the result: "none", "ok", "error" or "killed"
          config,     \* the loaded configuration
          mount,      \* the mountpoint: "none", "live" or "dead"
          joins,      \* whether dropping the session waits for the workers
          handler,    \* whether the Ctrl+C handler is installed
          channel,    \* messages in the shutdown channel, of capacity 1
          sink,       \* the JsonlEventSink, or the log a previous run left
          emitted,    \* history: the events given to that sink, in order
          worker,     \* what each worker does
          request,    \* the request it handles
          requests,   \* history: requests so far
          metrics,    \* HistogramRecorder: counters of the ops seen
          printed,    \* history: the summary that was printed
          runs, kills \* history: runs of the program, deaths

process == <<stage, exit, config, joins>>
session == <<worker, request, requests>>
log == <<sink, emitted>>
counts == <<runs, kills>>
vars == <<process, mount, handler, channel, log, session, metrics, printed, counts>>

Running == stage # "exited"

\* Workers that still hold the file system, and with it the engine and the sink.
Alive == {w \in Workers : worker[w] # "gone"}

Init ==
  /\ stage = "starting" /\ exit = "none" /\ config = DefaultConfig
  /\ joins \in BOOLEAN
  /\ mount = "none" /\ handler = FALSE /\ channel = 0
  /\ sink = create /\ emitted = <<>>
  /\ worker = [w \in Workers |-> "gone"] /\ request = [w \in Workers |-> NoRequest]
  /\ requests = 0 /\ metrics = <<>> /\ printed = {}
  /\ runs = 1 /\ kills = 0

Go(from, to) == stage = from /\ stage' = to

\* run returns: the locals are dropped.  The BufWriter goes, and flushes, only if
\* no worker holds it; the end of the process is the end of the workers.
Leave(result) ==
  /\ stage' = "exited" /\ exit' = result
  /\ \E s \in IF Alive = {} THEN flush(sink) ELSE {sink} : sink' = [s EXCEPT !.buf = <<>>]
  /\ worker' = [w \in Workers |-> "gone"] /\ request' = [w \in Workers |-> NoRequest]
  /\ handler' = FALSE /\ channel' = 0
  /\ UNCHANGED <<config, joins, mount, emitted, requests, metrics, printed, runs, kills>>

-----------------------------------------------------------------------------
(***************************************************************************)
(* Start.                                                                  *)
(***************************************************************************)

\* Mutant: a mountpoint that cannot be examined is taken for a directory.
IsDirOrUnknown == TRUE

is_dir == mount # "dead"

CheckMountpoint ==
  /\ is_dir /\ Go("starting", "loading")
  /\ UNCHANGED <<exit, config, joins, mount, handler, channel, log, session, metrics, printed, counts>>

MountpointMissing == stage = "starting" /\ Leave("error")

LoadConfig ==
  /\ Go("loading", "opening")
  /\ config' \in Configs
  /\ UNCHANGED <<exit, joins, mount, handler, channel, log, session, metrics, printed, counts>>

LoadFails == stage = "loading" /\ Leave("error")

\* The sink, and the engine on it.  Without jsonl_path a NullEventSink; the log of
\* an earlier run stays as it is.
CreateSink ==
  /\ Go("opening", "mounting")
  /\ IF config.jsonl_path = {} THEN UNCHANGED log ELSE sink' = create /\ emitted' = <<>>
  /\ metrics' = <<>>
  /\ UNCHANGED <<exit, config, joins, mount, handler, channel, session, printed, counts>>

CreateFails == stage = "opening" /\ config.jsonl_path # {} /\ Leave("error")

-----------------------------------------------------------------------------
(***************************************************************************)
(* Mount options.                                                          *)
(***************************************************************************)

from_mount_config(m) ==
  [allow_other |-> FALSE, auto_unmount |-> m.auto_unmount, read_only |-> m.read_only,
   default_permissions |-> m.default_permissions, direct_io |-> m.direct_io]

to_fuser_config(o) ==
  [mount_options |->
     {x \in {"AutoUnmount"} : o.auto_unmount /\ o.allow_other} \cup
     {x \in {"DefaultPermissions"} : o.default_permissions} \cup
     {IF o.read_only THEN "RO" ELSE "RW"} \cup
     {x \in {"direct_io"} : o.direct_io},
   acl |-> IF o.allow_other THEN "All" ELSE "Owner"]

\* External: fusermount ties AutoUnmount to a mount that others may use.
Acceptable(f) == "AutoUnmount" \in f.mount_options => f.acl # "Owner"

FuserConfig == to_fuser_config(from_mount_config(config.mount))

spawn_mount ==
  /\ Acceptable(FuserConfig)
  /\ Go("mounting", "mounted")
  /\ mount' = "live"
  /\ worker' = [w \in Workers |-> "idle"]
  /\ UNCHANGED <<exit, config, joins, handler, channel, log, request, requests, metrics, printed, counts>>

\* The system refuses, for reasons of its own or because of the options.
SpawnFails == stage = "mounting" /\ Leave("error")

-----------------------------------------------------------------------------
(***************************************************************************)
(* The workers: a request from the kernel, its event, its metrics.  What    *)
(* happens inside run_op is SimEngine's subject.                            *)
(***************************************************************************)

Request(w) ==
  /\ mount = "live" /\ worker[w] = "idle" /\ requests < MaxEvents
  /\ \E op \in Ops, is_error \in BOOLEAN :
       request' = [request EXCEPT ![w] = [op |-> op, is_error |-> is_error]]
  /\ worker' = [worker EXCEPT ![w] = "busy"]
  /\ requests' = requests + 1
  /\ UNCHANGED <<process, mount, handler, channel, log, metrics, printed, counts>>

Emit(w) ==
  /\ worker[w] = "busy"
  /\ worker' = [worker EXCEPT ![w] = "logged"]
  /\ IF config.jsonl_path = {} THEN UNCHANGED log
     ELSE emitted' = Append(emitted, request[w]) /\ sink' \in emit(sink, Len(emitted) + 1)
  /\ UNCHANGED <<process, mount, handler, channel, request, requests, metrics, printed, counts>>

\* HistogramRecorder::record.
Record(w) ==
  LET r == request[w]
      old == Get(metrics, r.op, [count_ok |-> 0, count_err |-> 0])
      new == IF r.is_error THEN [old EXCEPT !.count_err = @ + 1] ELSE [old EXCEPT !.count_ok = @ + 1]
  IN  /\ worker[w] = "logged"
      /\ worker' = [worker EXCEPT ![w] = "idle"]
      /\ request' = [request EXCEPT ![w] = NoRequest]
      /\ metrics' = [op \in DOMAIN metrics \cup {r.op} |-> IF op = r.op THEN new ELSE metrics[op]]
      /\ UNCHANGED <<process, mount, handler, channel, log, requests, printed, counts>>

\* External: the session ends when there is no mount.
WorkerLeaves(w) ==
  /\ worker[w] = "idle" /\ mount # "live"
  /\ worker' = [worker EXCEPT ![w] = "gone"]
  /\ UNCHANGED <<process, mount, handler, channel, log, request, requests, metrics, printed, counts>>

-----------------------------------------------------------------------------
(***************************************************************************)
(* Ctrl+C and shutdown.                                                    *)
(***************************************************************************)

SetHandler ==
  /\ Go("mounted", "waiting")
  /\ handler' = TRUE
  /\ UNCHANGED <<exit, config, joins, mount, channel, log, session, metrics, printed, counts>>

\* Mutant: the program exits on the spot, and nothing is dropped.
SetHandlerFailsHard == stage = "mounted" /\ Leave("error")

SetHandlerFails ==
  /\ Go("mounted", "failing")
  /\ UNCHANGED <<exit, config, joins, mount, handler, channel, log, session, metrics, printed, counts>>

\* Mutant: messages pile up.
CtrlCPilesUp ==
  /\ handler
  /\ channel' = channel + 1
  /\ UNCHANGED <<process, mount, handler, log, session, metrics, printed, counts>>

\* The handler's send: with a message in the channel already it waits, and
\* nothing else does.
CtrlC ==
  /\ handler /\ channel = 0
  /\ channel' = 1
  /\ UNCHANGED <<process, mount, handler, log, session, metrics, printed, counts>>

Recv ==
  /\ Go("waiting", "dropping")
  /\ channel = 1 /\ channel' = 0
  /\ UNCHANGED <<exit, config, joins, mount, handler, log, session, metrics, printed, counts>>

\* Mutant: the workers are waited for while the mount still feeds them.
UnmountLast ==
  /\ Alive = {}
  /\ Go("dropping", "dropped") \/ Go("failing", "failed")
  /\ mount' = "none"
  /\ UNCHANGED <<exit, config, joins, handler, channel, log, session, metrics, printed, counts>>

\* drop(handle), explicit or because of an early return.  Somebody may have
\* unmounted before.
Unmount ==
  /\ Go("dropping", "dropped") \/ Go("failing", "failed")
  /\ mount' = "none"
  /\ UNCHANGED <<exit, config, joins, handler, channel, log, session, metrics, printed, counts>>

Dropped == joins => Alive = {}

\* HistogramRecorder::summary: one line for each op that was recorded.
Summary ==
  {[op |-> op, count |-> metrics[op].count_ok + metrics[op].count_err,
    errors |-> metrics[op].count_err] : op \in DOMAIN metrics}

\* Mutant: flush, then print.
FlushAndPrint ==
  \/ /\ Dropped /\ Go("dropped", "flushing")
     /\ IF config.jsonl_path = {} THEN UNCHANGED sink ELSE sink' \in flush(sink)
     /\ UNCHANGED <<exit, config, joins, mount, handler, channel, emitted, session, metrics, printed, counts>>
  \/ /\ Go("flushing", "returning")
     /\ printed' = Summary
     /\ UNCHANGED <<exit, config, joins, mount, handler, channel, log, session, metrics, counts>>

\* print_summary, then flush, whose error is only reported.
PrintAndFlush ==
  \/ /\ Dropped /\ Go("dropped", "flushing")
     /\ printed' = Summary
     /\ UNCHANGED <<exit, config, joins, mount, handler, channel, log, session, metrics, counts>>
  \/ /\ Go("flushing", "returning")
     /\ IF config.jsonl_path = {} THEN UNCHANGED sink ELSE sink' \in flush(sink)
     /\ UNCHANGED <<exit, config, joins, mount, handler, channel, emitted, session, metrics, printed, counts>>

Return ==
  \/ stage = "returning" /\ Leave("ok")
  \/ stage = "failed" /\ Dropped /\ Leave("error")
 

-----------------------------------------------------------------------------
(***************************************************************************)
(* Around the program.                                                     *)
(***************************************************************************)

\* External: what becomes of the mount of a process that dies.  Under AutoUnmount
\* fusermount stays behind to unmount.
Abandoned == IF "AutoUnmount" \in FuserConfig.mount_options THEN "none" ELSE "dead"

\* A signal that is not handled: any that kills, or Ctrl+C without handler.
Die ==
  /\ Running /\ kills < MaxKills
  /\ stage' = "exited" /\ exit' = "killed"
  /\ mount' = IF mount = "live" THEN Abandoned ELSE mount
  /\ sink' = [sink EXCEPT !.buf = <<>>]
  /\ worker' = [w \in Workers |-> "gone"] /\ request' = [w \in Workers |-> NoRequest]
  /\ handler' = FALSE /\ channel' = 0
  /\ kills' = kills + 1
  /\ UNCHANGED <<config, joins, emitted, requests, metrics, printed, runs>>

\* fusermount -u, by a user.
UserUnmounts ==
  /\ mount # "none"
  /\ mount' = "none"
  /\ UNCHANGED <<process, handler, channel, log, session, metrics, printed, counts>>

Restart ==
  /\ ~Running /\ runs < MaxRuns
  /\ stage' = "starting" /\ exit' = "none"
  /\ config' = DefaultConfig /\ metrics' = <<>> /\ printed' = {}
  /\ runs' = runs + 1
  /\ UNCHANGED <<joins, mount, handler, channel, log, session, kills>>

Done == ~Running /\ runs = MaxRuns /\ UNCHANGED vars

Main ==
  \/ CheckMountpoint \/ MountpointMissing \/ LoadConfig \/ LoadFails
  \/ CreateSink \/ CreateFails \/ spawn_mount \/ SpawnFails \/ SetHandler \/ SetHandlerFails
  \/ Recv \/ Unmount \/ PrintAndFlush \/ Return

Handle(w) == Emit(w) \/ Record(w) \/ WorkerLeaves(w)

Next ==
  \/ Main
  \/ \E w \in Workers : Request(w) \/ Handle(w)
  \/ CtrlC \/ Die \/ UserUnmounts \/ Restart \/ Done

\* The threads run, and requests end; nobody need press Ctrl+C.
Fairness == WF_vars(Main) /\ \A w \in Workers : WF_vars(Handle(w))

Spec == Init /\ [][Next]_vars /\ Fairness

-----------------------------------------------------------------------------
(***************************************************************************)
(* Properties.                                                             *)
(***************************************************************************)

\* The variables have their types.
TypeOK ==
  /\ stage \in {"starting", "loading", "opening", "mounting", "mounted", "waiting", "dropping",
                "failing", "dropped", "failed", "flushing", "returning", "exited"}
  /\ exit \in {"none", "ok", "error", "killed"} /\ (Running => exit = "none")
  /\ config \in Configs \cup {DefaultConfig}
  /\ mount \in {"none", "live", "dead"}
  /\ joins \in BOOLEAN /\ handler \in BOOLEAN /\ channel \in 0 .. 1
  /\ worker \in [Workers -> {"gone", "idle", "busy", "logged"}]
  /\ \A w \in Workers : request[w] = NoRequest <=> worker[w] \in {"gone", "idle"}
  /\ Len(sink.buf) <= BufCapacity
  /\ DOMAIN metrics \subseteq Ops

\* The events in the log, and in the buffer behind it, are in the order in which
\* they were emitted, none twice, whatever writes failed and whoever died.  If no
\* write failed they are the first lines; all of them from the creation of the
\* sink to the end of the process, shutdown included; and after a clean exit the
\* file has every line, if the session waits for its workers.  The last line may
\* be cut short after a kill or with workers that outlive main; a failed write
\* can lose an event, or a newline.
LogIsFaithful ==
  LET written == sink.disk \o sink.buf
      events == {i \in DOMAIN written : written[i] # Newline}
  IN  /\ \A i, j \in events : i < j => written[i] < written[j]
      /\ \A i \in events : written[i] \in DOMAIN emitted
      /\ sink.failures = 0 =>
           /\ IsPrefix(written, Lines(Len(emitted)))
           /\ Running /\ stage \notin {"starting", "loading", "opening"}
              /\ config.jsonl_path # {}
              => written = Lines(Len(emitted))
           /\ exit = "ok" /\ joins /\ config.jsonl_path # {}
              => sink.disk = Lines(Len(emitted))

\* Every operation that the summary counts is in the log after the flush, though
\* workers may go on while the one is printed and the other flushed: events are
\* written before metrics, and the summary is taken before the flush.
SummaryIsLogged ==
  /\ stage = "returning" \/ exit = "ok"
  /\ config.jsonl_path # {} /\ sink.failures = 0
  => \A line \in printed :
       LET logged == {n \in ToSet(sink.disk) \ {Newline} : emitted[n].op = line.op}
       IN  /\ line.count <= Cardinality(logged)
           /\ line.errors <= Cardinality({n \in logged : emitted[n].is_error})

\* Every way out of run, the errors after the mount included, unmounts.
MountGone == mount = "live" => Running

\* What docs/config.md says of auto_unmount, "Auto-unmount on process exit": with
\* it the end of the process, whatever ends it, is the end of the mount.
AutoUnmounts ==
  [][Running /\ ~Running' /\ mount = "live" /\ config.mount.auto_unmount
       => mount' = "none"]_vars

\* A restart on the dead mount of a killed run stops before it truncates the log
\* of that run.
DeadMountKeepsLog == [][mount = "dead" => sink'.disk = sink.disk]_vars

\* Ctrl+C that reaches the handler ends the program, also when it comes before
\* main waits for it or after somebody has unmounted.
CtrlCExits == channel = 1 ~> ~Running
=============================================================================
