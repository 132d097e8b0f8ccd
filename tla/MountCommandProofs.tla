-------------------------- MODULE MountCommandProofs --------------------------
(***************************************************************************)
(* Proofs about MountCommand, for any workers, configurations, requests,    *)
(* runs, kills and failed writes: every way out of run unmounts, a run that *)
(* meets a dead mount leaves the log of the killed run alone, the log is    *)
(* faithful, and what the summary counts is in it.                         *)
(***************************************************************************)
EXTENDS MountCommand, SequenceTheorems, FiniteSetTheorems, TLAPS

\* The stages in which run holds the handle of a mounted session.
Holding == {"mounted", "waiting", "dropping", "failing"}

\* The inductive invariant: the mount is live only while run holds the handle,
\* and dead only where a run that has not got past is_dir can see it.
MountInv ==
  /\ mount \in {"none", "live", "dead"}
  /\ mount = "live" => stage \in Holding
  /\ mount = "dead" => stage \in {"starting", "exited"}

\* There is no mount at the start.
LEMMA InitMountInv == Init => MountInv
  BY DEF Init, MountInv

\* No step of main, worker, user or signal leaves a live mount without its handle.
LEMMA NextMountInv == MountInv /\ [Next]_vars => MountInv'
<1> SUFFICES ASSUME MountInv, [Next]_vars PROVE MountInv'
  OBVIOUS
<1> USE DEF MountInv, Holding
<1>1. CASE CheckMountpoint
  BY <1>1 DEF CheckMountpoint, Go, is_dir, counts
<1>2. CASE MountpointMissing
  BY <1>2 DEF MountpointMissing, Leave
<1>3. CASE LoadConfig
  BY <1>3 DEF LoadConfig, Go, counts
<1>4. CASE LoadFails
  BY <1>4 DEF LoadFails, Leave
<1>5. CASE CreateSink
  BY <1>5 DEF CreateSink, Go, counts
<1>6. CASE CreateFails
  BY <1>6 DEF CreateFails, Leave
<1>7. CASE spawn_mount
  BY <1>7 DEF spawn_mount, Go, counts
<1>8. CASE SpawnFails
  BY <1>8 DEF SpawnFails, Leave
<1>9. CASE SetHandler
  BY <1>9 DEF SetHandler, Go, counts
<1>10. CASE SetHandlerFails
  BY <1>10 DEF SetHandlerFails, Go, counts
<1>11. CASE Recv
  BY <1>11 DEF Recv, Go, counts
<1>12. CASE Unmount
  BY <1>12 DEF Unmount, Go, counts
<1>13. CASE PrintAndFlush
  BY <1>13 DEF PrintAndFlush, Go, counts
<1>14. CASE Return
  BY <1>14 DEF Return, Leave
<1>15. ASSUME NEW w \in Workers, Request(w) \/ Handle(w) PROVE MountInv'
  BY <1>15 DEF Request, Handle, Emit, Record, WorkerLeaves, process, counts
<1>16. CASE CtrlC
  BY <1>16 DEF CtrlC, process, counts
<1>17. CASE Die
  BY <1>17 DEF Die, Running, Abandoned
<1>18. CASE UserUnmounts
  BY <1>18 DEF UserUnmounts, process, counts
<1>19. CASE Restart
  BY <1>19 DEF Restart, Running
<1>20. CASE Done \/ UNCHANGED vars
  BY <1>20 DEF Done, vars, process, counts
<1> QED
  BY <1>1, <1>2, <1>3, <1>4, <1>5, <1>6, <1>7, <1>8, <1>9, <1>10, <1>11, <1>12, <1>13, <1>14,
     <1>15, <1>16, <1>17, <1>18, <1>19, <1>20 DEF Next, Main

\* Every way out of run unmounts, the early return after a failed set_handler
\* included.
THEOREM MountGoneCorrect == Spec => []MountGone
<1>1. MountInv => MountGone
  BY DEF MountInv, Holding, MountGone, Running
<1> QED
  BY <1>1, InitMountInv, NextMountInv, PTL DEF Spec

-----------------------------------------------------------------------------
\* The sinks.
Sinks == [buf : Seq(Nat), disk : Seq(Nat), ok : BOOLEAN, failures : Nat]

\* An update of the fields of a sink is a sink.
LEMMA SinkUpdate ==
  ASSUME NEW s \in Sinks, NEW b \in Seq(Nat), NEW d \in Seq(Nat), NEW n \in Nat
  PROVE  /\ [s EXCEPT !.buf = b] \in Sinks
         /\ [s EXCEPT !.buf = b].buf = b /\ [s EXCEPT !.buf = b].disk = s.disk
         /\ [s EXCEPT !.buf = b, !.disk = d, !.ok = FALSE, !.failures = n] \in Sinks
  BY DEF Sinks

\* A flush yields a sink; with nothing in the buffer it changes no file.
LEMMA FlushBufType ==
  ASSUME NEW s \in Sinks, NEW t \in FlushBuf(s)
  PROVE  t \in Sinks /\ (s.buf = <<>> => t.disk = s.disk)
<1>1. s.buf \in Seq(Nat) /\ s.disk \in Seq(Nat) /\ s.failures \in Nat
  BY DEF Sinks
<1>2. CASE t = [s EXCEPT !.buf = <<>>, !.disk = @ \o s.buf, !.ok = TRUE]
  <2> DEFINE b == <<>>
             d == s.disk \o s.buf
  <2>1. b \in Seq(Nat) /\ d \in Seq(Nat)
    BY <1>1
  <2>2. s.buf = <<>> => d = s.disk
    BY <1>1
  <2>3. t = [s EXCEPT !.buf = b, !.disk = d, !.ok = TRUE]
    BY <1>2
  <2> HIDE DEF b, d
  <2>4. t \in Sinks /\ t.disk = d
    BY <2>1, <2>3 DEF Sinks
  <2> QED
    BY <2>2, <2>4
<1>3. ASSUME NEW n \in 0 .. Len(s.buf) - 1,
             t = [s EXCEPT !.buf = SubSeq(@, n + 1, Len(@)), !.disk = @ \o SubSeq(s.buf, 1, n),
                           !.ok = FALSE, !.failures = @ + 1]
      PROVE  t \in Sinks /\ s.buf # <<>>
  <2>1. SubSeq(s.buf, n + 1, Len(s.buf)) \in Seq(Nat) /\ SubSeq(s.buf, 1, n) \in Seq(Nat)
    BY <1>1
  <2>2. s.disk \o SubSeq(s.buf, 1, n) \in Seq(Nat) /\ s.failures + 1 \in Nat
    BY <1>1, <2>1
  <2>3. t \in Sinks
    BY <1>3, <2>1, <2>2, SinkUpdate
  <2>4. s.buf # <<>>
    BY <1>1
  <2> QED
    BY <2>3, <2>4
<1> QED
  BY <1>2, <1>3 DEF FlushBuf

\* So does a write of one piece.
LEMMA WriteAllType ==
  ASSUME NEW s \in Sinks, NEW piece \in Nat, NEW t \in WriteAll(s, piece)
  PROVE  t \in Sinks
<1>1. PICK f \in IF Len(s.buf) < BufCapacity THEN {[s EXCEPT !.ok = TRUE]} ELSE FlushBuf(s) :
        t = IF f.ok THEN [f EXCEPT !.buf = Append(@, piece)] ELSE f
  BY DEF WriteAll
<1>2. f \in Sinks
  BY <1>1, FlushBufType DEF Sinks
<1>3. Append(f.buf, piece) \in Seq(Nat)
  BY <1>2 DEF Sinks
<1>4. [f EXCEPT !.buf = Append(@, piece)] \in Sinks
  BY <1>2, <1>3, SinkUpdate DEF Sinks
<1> QED
  BY <1>1, <1>2, <1>4

\* And emit.
LEMMA EmitType ==
  ASSUME NEW s \in Sinks, NEW event \in Nat, NEW t \in emit(s, event)
  PROVE  t \in Sinks
<1>1. PICK v \in WriteAll(s, event) : t \in IF v.ok THEN WriteAll(v, Newline) ELSE {v}
  BY DEF emit
<1>2. v \in Sinks
  BY WriteAllType
<1> QED
  BY <1>1, <1>2, WriteAllType DEF Newline

\* The stages without a session.
Quiet == {"starting", "loading", "opening", "mounting", "exited"}

\* The inductive invariant: a run that is not past is_dir has no worker, and
\* nothing in a buffer that a flush could write.
LogInv ==
  /\ MountInv
  /\ sink \in Sinks
  /\ \E S : emitted \in Seq(S)
  /\ stage \in Quiet => \A w \in Workers : worker[w] = "gone"
  /\ stage \in {"starting", "exited"} => sink.buf = <<>>

\* The log is created empty.
LEMMA InitLogInv == Init => LogInv
  BY InitMountInv DEF Init, LogInv, create, Sinks

\* The end of run, by whichever return: the workers end, the buffer is gone.
LEMMA LeaveLogInv ==
  ASSUME LogInv, MountInv', NEW result, Leave(result)
  PROVE  LogInv' /\ (sink.buf = <<>> => sink'.disk = sink.disk)
<1>1. PICK s \in IF Alive = {} THEN flush(sink) ELSE {sink} : sink' = [s EXCEPT !.buf = <<>>]
  BY DEF Leave
<1>2. s \in Sinks /\ (sink.buf = <<>> => s.disk = sink.disk)
  BY <1>1, FlushBufType DEF LogInv, flush
<1>3. sink' \in Sinks /\ sink'.buf = <<>> /\ sink'.disk = s.disk
  <2>1. <<>> \in Seq(Nat) /\ s.disk \in Seq(Nat) /\ 0 \in Nat
    BY <1>2 DEF Sinks
  <2> QED
    BY <1>1, <1>2, <2>1, SinkUpdate
<1>4. /\ \A w \in Workers : worker'[w] = "gone"
      /\ UNCHANGED emitted
  BY DEF Leave
<1> QED
  BY <1>2, <1>3, <1>4 DEF LogInv

\* No step leaves a worker or a filled buffer in a run that is not past is_dir.
LEMMA NextLogInv == LogInv /\ [Next]_vars => LogInv'
<1> SUFFICES ASSUME LogInv, [Next]_vars PROVE LogInv'
  OBVIOUS
<1>0. MountInv'
  BY NextMountInv DEF LogInv
<1>1. CASE UNCHANGED log /\ UNCHANGED worker /\ stage' # "starting" /\ stage' # "exited"
           /\ (stage' \in Quiet => stage \in Quiet)
  BY <1>0, <1>1 DEF LogInv, log
<1>2. CASE CheckMountpoint \/ LoadConfig
  BY <1>1, <1>2 DEF CheckMountpoint, LoadConfig, Go, Quiet, session
<1>3. CASE \E result : Leave(result)
  BY <1>0, <1>3, LeaveLogInv
<1>4. CASE CreateSink
  <2>1. sink' \in Sinks /\ \E S : emitted' \in Seq(S)
    <3>1. create \in Sinks /\ \E S : <<>> \in Seq(S)
      BY DEF create, Sinks
    <3> QED
      BY <1>4, <3>1 DEF CreateSink, LogInv, log
  <2> QED
    BY <1>0, <1>4, <2>1 DEF CreateSink, Go, LogInv, Quiet, session
<1>5. CASE spawn_mount
  BY <1>0, <1>5 DEF spawn_mount, Go, LogInv, Quiet, log
<1>6. CASE SetHandler \/ SetHandlerFails \/ Recv \/ Unmount
  BY <1>1, <1>6 DEF SetHandler, SetHandlerFails, Recv, Unmount, Go, Quiet, session
<1>7. CASE PrintAndFlush
  <2>1. sink' \in Sinks /\ UNCHANGED emitted
    BY <1>7, FlushBufType DEF PrintAndFlush, LogInv, flush, log
  <2> QED
    BY <1>0, <1>7, <2>1 DEF PrintAndFlush, Go, LogInv, Quiet
<1>8. ASSUME NEW w \in Workers, Request(w) \/ Record(w)
      PROVE  LogInv'
  BY <1>0, <1>8 DEF Request, Record, LogInv, log, process, Quiet
<1>9. ASSUME NEW w \in Workers, WorkerLeaves(w)
      PROVE  LogInv'
  BY <1>0, <1>9 DEF WorkerLeaves, LogInv, log, process, Quiet
<1>10. ASSUME NEW w \in Workers, Emit(w)
       PROVE  LogInv'
  <2>1. PICK S : emitted \in Seq(S)
    BY DEF LogInv
  <2>2. emitted \in Seq(S \cup {request[w]}) /\ Len(emitted) + 1 \in Nat
    BY <2>1
  <2>3. Append(emitted, request[w]) \in Seq(S \cup {request[w]})
    BY <2>2
  <2>4. sink' \in Sinks /\ \E T : emitted' \in Seq(T)
    <3>1. CASE config.jsonl_path = {}
      BY <1>10, <3>1 DEF Emit, LogInv, log
    <3>2. CASE config.jsonl_path # {}
      BY <1>10, <2>2, <2>3, <3>2, EmitType DEF Emit, LogInv
    <3> QED
      BY <3>1, <3>2
  <2>5. stage \notin Quiet /\ UNCHANGED stage
    BY <1>10 DEF Emit, LogInv, process
  <2> QED
    BY <1>0, <2>4, <2>5 DEF LogInv, Quiet
<1>11. CASE CtrlC \/ UserUnmounts \/ Done \/ UNCHANGED vars
  BY <1>0, <1>11 DEF CtrlC, UserUnmounts, Done, vars, process, log, session, LogInv
<1>12. CASE Die
  <2>1. <<>> \in Seq(Nat) /\ 0 \in Nat /\ sink \in Sinks
    BY DEF LogInv
  <2>2. sink' \in Sinks /\ sink'.buf = <<>>
    BY <1>12, <2>1, SinkUpdate DEF Die
  <2> QED
    BY <1>0, <1>12, <2>2 DEF Die, LogInv
<1>13. CASE Restart
  BY <1>0, <1>13 DEF Restart, Running, LogInv, log, session, Quiet
<1> QED
  BY <1>2, <1>3, <1>4, <1>5, <1>6, <1>7, <1>8, <1>9, <1>10, <1>11, <1>12, <1>13
  DEF Next, Main, Handle, MountpointMissing, LoadFails, CreateFails, SpawnFails, Return

\* A run that meets the dead mount of a killed one ends before it creates its
\* sink, and the end of a run flushes nothing there: the log stays as it was.
THEOREM DeadMountCorrect == Spec => DeadMountKeepsLog
<1>1. LogInv /\ [Next]_vars => [mount = "dead" => sink'.disk = sink.disk]_vars
  <2> SUFFICES ASSUME LogInv, [Next]_vars, mount = "dead"
               PROVE  sink'.disk = sink.disk
    OBVIOUS
  <2>1. /\ stage \in {"starting", "exited"} /\ sink.buf = <<>> /\ sink \in Sinks
        /\ \A w \in Workers : worker[w] = "gone"
    BY DEF LogInv, MountInv, Quiet
  <2>2. MountInv'
    BY NextMountInv DEF LogInv
  <2>3. CASE UNCHANGED sink
    BY <2>3
  <2>4. CASE \E result : Leave(result)
    BY <2>1, <2>2, <2>4, LeaveLogInv
  <2>5. CASE Die
    <3>1. <<>> \in Seq(Nat) /\ 0 \in Nat
      OBVIOUS
    <3> QED
      BY <2>1, <2>5, <3>1, SinkUpdate DEF Die
  <2>6. CASE CheckMountpoint
    BY <2>6 DEF CheckMountpoint, is_dir
  <2>7. ASSUME NEW w \in Workers, Request(w) \/ Handle(w) PROVE FALSE
    BY <2>1, <2>7 DEF Request, Handle, Emit, Record, WorkerLeaves
  <2>8. CASE CtrlC \/ UserUnmounts \/ Restart \/ Done \/ UNCHANGED vars
    BY <2>3, <2>8 DEF CtrlC, UserUnmounts, Restart, Done, vars, log
  <2>9. CASE LoadConfig \/ CreateSink \/ spawn_mount \/ SetHandler \/ SetHandlerFails
             \/ Recv \/ Unmount \/ PrintAndFlush
    BY <2>1, <2>9 DEF LoadConfig, CreateSink, spawn_mount, SetHandler, SetHandlerFails,
                      Recv, Unmount, PrintAndFlush, Go
  <2> QED
    BY <2>4, <2>5, <2>6, <2>7, <2>8, <2>9
    DEF Next, Main, MountpointMissing, LoadFails, CreateFails, SpawnFails, Return
<1> QED
  BY <1>1, InitLogInv, NextLogInv, PTL DEF Spec, DeadMountKeepsLog

-----------------------------------------------------------------------------
(***************************************************************************)
(* What the sink writes.                                                   *)
(***************************************************************************)

\* What has been written to a sink and has not been lost: the file, then the buffer.
Written(s) == s.disk \o s.buf

\* Sequence u is the beginning of v.
Begins(u, v) == Len(u) <= Len(v) /\ \A i \in 1 .. Len(u) : u[i] = v[i]

\* A sequence is the beginning of its concatenation with another.
LEMMA BeginsConcat ==
  ASSUME NEW S, NEW u \in Seq(S), NEW v \in Seq(S)
  PROVE  Begins(u, u \o v)
BY ConcatProperties DEF Begins

\* The beginning of a beginning is a beginning.
LEMMA BeginsTrans ==
  ASSUME NEW S, NEW u \in Seq(S), NEW v \in Seq(S), NEW w \in Seq(S), Begins(u, v), Begins(v, w)
  PROVE  Begins(u, w)
<1>1. Len(u) \in Nat /\ Len(v) \in Nat /\ Len(w) \in Nat
  OBVIOUS
<1> QED
  BY <1>1 DEF Begins

\* The first n pieces and the others.
Taken(b, n) == SubSeq(b, 1, n)
LeftOver(b, n) == SubSeq(b, n + 1, Len(b))

\* Joining three pieces, in either grouping, gives the same contents.
LEMMA Regroup ==
  ASSUME NEW S, NEW x \in Seq(S), NEW y \in Seq(S), NEW z \in Seq(S)
  PROVE  (x \o y) \o z = x \o (y \o z)
BY ConcatAssociative, SMT

\* Cutting a sequence in two and joining the parts.
LEMMA CutAndJoin ==
  ASSUME NEW S, NEW d \in Seq(S), NEW b \in Seq(S), NEW n \in 0 .. Len(b)
  PROVE  /\ Taken(b, n) \in Seq(S) /\ LeftOver(b, n) \in Seq(S)
         /\ Len(LeftOver(b, n)) = Len(b) - n
         /\ (d \o Taken(b, n)) \o LeftOver(b, n) = d \o b
<1> DEFINE l == Len(b)
           u == SubSeq(b, 1, n)
           v == SubSeq(b, n + 1, l)
<1>1. l \in Nat /\ n \in Nat /\ n <= l /\ n \in Int /\ l \in Int /\ n + 1 \in Int /\ 1 \in Int
  OBVIOUS
<1>2. \A i \in 1 .. l : b[i] \in S
  BY ElementOfSeq
<1>3. u \in Seq(S) /\ Len(u) = n /\ \A i \in 1 .. n : u[i] = b[i]
  <2>1. \A i \in 1 .. n : b[i] \in S
    BY <1>1, <1>2
  <2>2. /\ SubSeq(b, 1, n) \in Seq(S)
        /\ Len(SubSeq(b, 1, n)) = IF 1 <= n THEN n - 1 + 1 ELSE 0
        /\ \A i \in 1 .. n - 1 + 1 : SubSeq(b, 1, n)[i] = b[1 + i - 1]
    BY <1>1, <2>1, SubSeqProperties
  <2>3. n - 1 + 1 = n /\ \A i \in 1 .. n : 1 + i - 1 = i
    BY <1>1
  <2> QED
    BY <1>1, <2>2, <2>3
<1>4. v \in Seq(S) /\ Len(v) = l - n /\ \A i \in 1 .. l - n : v[i] = b[n + i]
  <2>1. \A i \in n + 1 .. l : b[i] \in S
    BY <1>1, <1>2
  <2>2. /\ SubSeq(b, n + 1, l) \in Seq(S)
        /\ Len(SubSeq(b, n + 1, l)) = IF n + 1 <= l THEN l - (n + 1) + 1 ELSE 0
        /\ \A i \in 1 .. l - (n + 1) + 1 : SubSeq(b, n + 1, l)[i] = b[(n + 1) + i - 1]
    BY <1>1, <2>1, SubSeqProperties
  <2>3. l - (n + 1) + 1 = l - n /\ \A i \in 1 .. l - n : (n + 1) + i - 1 = n + i
    BY <1>1
  <2>4. (IF n + 1 <= l THEN l - (n + 1) + 1 ELSE 0) = l - n
    BY <1>1
  <2>5. Len(v) = l - n
    BY <2>2, <2>4
  <2>6. ASSUME NEW i \in 1 .. l - n
        PROVE  v[i] = b[n + i]
    BY <2>2, <2>3, Zenon
  <2> QED
    BY <2>2, <2>5, <2>6
<1>5. (d \o u) \o v = d \o b
  <2> HIDE DEF u, v, l
  <2>1. u \o v \in Seq(S) /\ Len(u \o v) = l
        /\ \A i \in 1 .. l : (u \o v)[i] = IF i <= n THEN u[i] ELSE v[i - n]
    <3>1. u \o v \in Seq(S) /\ Len(u \o v) = Len(u) + Len(v)
          /\ \A i \in 1 .. Len(u) + Len(v) : (u \o v)[i] = IF i <= Len(u) THEN u[i] ELSE v[i - Len(u)]
      BY <1>3, <1>4, ConcatProperties
    <3>2. Len(u) = n /\ Len(u) + Len(v) = l
      BY <1>1, <1>3, <1>4
    <3> QED
      BY <3>1, <3>2
  <2>2. \A i \in 1 .. l : (u \o v)[i] = b[i]
    <3> TAKE i \in 1 .. l
    <3>1. CASE i <= n
      <4>1. i \in 1 .. n
        BY <1>1, <3>1
      <4> QED
        BY <1>3, <2>1, <3>1, <4>1
    <3>2. CASE ~(i <= n)
      <4>1. i - n \in 1 .. l - n /\ n + (i - n) = i
        BY <1>1, <3>2
      <4> QED
        BY <1>4, <2>1, <3>2, <4>1
    <3> QED
      BY <3>1, <3>2
  <2>3. u \o v = b
    <3>1. Len(u \o v) = Len(b) /\ \A i \in 1 .. Len(u \o v) : (u \o v)[i] = b[i]
      BY <2>1, <2>2 DEF l
    <3> QED
      BY <2>1, <3>1, SeqEqual
  <2>4. (d \o u) \o v = d \o (u \o v)
    <3>1. u \in Seq(S) /\ v \in Seq(S)
      BY <1>3, <1>4
    <3> HIDE DEF u, v
    <3> QED
      BY <3>1, Regroup, SMTT(30)
  <2> QED
    BY <2>3, <2>4
<1>6. Taken(b, n) = u /\ LeftOver(b, n) = v
  BY DEF Taken, LeftOver
<1> QED
  BY <1>3, <1>4, <1>5, <1>6

\* A flush moves what is in the buffer, or a part of it, to the file: nothing is
\* lost or doubled.  When it succeeds the buffer is empty.
LEMMA FlushMoves ==
  ASSUME NEW s \in Sinks, NEW t \in FlushBuf(s)
  PROVE  /\ Written(t) = Written(s) /\ Begins(s.disk, t.disk)
         /\ Len(t.buf) <= Len(s.buf)
         /\ t.failures >= s.failures /\ (~t.ok => t.failures > 0)
         /\ (t.ok => t.buf = <<>>)
         /\ t.ok \in BOOLEAN
<1>1. s.buf \in Seq(Nat) /\ s.disk \in Seq(Nat) /\ s.failures \in Nat
  BY DEF Sinks
<1>2. CASE t = [s EXCEPT !.buf = <<>>, !.disk = @ \o s.buf, !.ok = TRUE]
  <2> DEFINE b == <<>>
             d == s.disk \o s.buf
  <2>1. b \in Seq(Nat) /\ d \in Seq(Nat) /\ Len(b) = 0
    BY <1>1
  <2>2. d \o b = d
    BY <2>1, ConcatEmptySeq
  <2>3. t = [s EXCEPT !.buf = b, !.disk = d, !.ok = TRUE]
    BY <1>2
  <2>4. Begins(s.disk, d)
    BY <1>1, BeginsConcat
  <2>5. SUFFICES /\ Written(t) = Written(s) /\ Begins(s.disk, t.disk)
                 /\ Len(t.buf) <= Len(s.buf)
                 /\ t.failures >= s.failures /\ (~t.ok => t.failures > 0)
                 /\ (t.ok => t.buf = b)
                 /\ t.ok \in BOOLEAN
    OBVIOUS
  <2> HIDE DEF b, d
  <2>6. t.buf = b /\ t.disk = d /\ t.ok = TRUE /\ t.failures = s.failures
    BY <2>3 DEF Sinks
  <2>7. Written(t) = Written(s)
    BY <2>2, <2>6 DEF Written, d
  <2>8. Len(s.buf) \in Nat
    BY <1>1
  <2>9. Len(t.buf) <= Len(s.buf) /\ t.failures >= s.failures
    BY <1>1, <2>1, <2>6, <2>8
  <2> QED
    BY <2>4, <2>6, <2>7, <2>9
<1>3. ASSUME NEW n \in 0 .. Len(s.buf) - 1,
             t = [s EXCEPT !.buf = SubSeq(@, n + 1, Len(@)), !.disk = @ \o SubSeq(s.buf, 1, n),
                           !.ok = FALSE, !.failures = @ + 1]
      PROVE  /\ Written(t) = Written(s) /\ Begins(s.disk, t.disk)
             /\ Len(t.buf) <= Len(s.buf)
             /\ t.failures >= s.failures /\ t.failures > 0 /\ t.ok = FALSE
  <2> DEFINE u == Taken(s.buf, n)
             v == LeftOver(s.buf, n)
  <2>1. t.buf = v /\ t.disk = s.disk \o u /\ t.failures = s.failures + 1 /\ t.ok = FALSE
    BY <1>3 DEF Sinks, Taken, LeftOver
  <2>2. n \in 0 .. Len(s.buf) /\ Len(s.buf) \in Nat
    BY <1>1
  <2>3. u \in Seq(Nat) /\ v \in Seq(Nat) /\ Len(v) = Len(s.buf) - n
        /\ (s.disk \o u) \o v = s.disk \o s.buf
    <3> DEFINE b == s.buf
               d == s.disk
               N == Nat
    <3>1. b \in Seq(N) /\ d \in Seq(N) /\ n \in 0 .. Len(b)
      BY <1>1, <2>2
    <3>2. SUFFICES /\ Taken(b, n) \in Seq(N) /\ LeftOver(b, n) \in Seq(N)
                   /\ Len(LeftOver(b, n)) = Len(b) - n
                   /\ (d \o Taken(b, n)) \o LeftOver(b, n) = d \o b
      OBVIOUS
    <3> HIDE DEF b, d, N
    <3>3. \A e \in Seq(N), c \in Seq(N) : \A m \in 0 .. Len(c) :
            /\ Taken(c, m) \in Seq(N) /\ LeftOver(c, m) \in Seq(N)
            /\ Len(LeftOver(c, m)) = Len(c) - m
            /\ (e \o Taken(c, m)) \o LeftOver(c, m) = e \o c
      BY CutAndJoin, Zenon
    <3> QED
      BY <3>1, <3>3, Zenon
  <2>4. Begins(s.disk, s.disk \o u)
    BY <1>1, <2>3, BeginsConcat
  <2> HIDE DEF u, v
  <2>5. Written(t) = Written(s) /\ Begins(s.disk, t.disk)
    BY <2>1, <2>3, <2>4, Zenon DEF Written
  <2>6. s.failures \in Nat
    BY <1>1 DEF Sinks
  <2>7. Len(t.buf) <= Len(s.buf) /\ t.failures >= s.failures /\ t.failures > 0
    BY <2>1, <2>2, <2>3, <2>6
  <2> QED
    BY <2>1, <2>5, <2>7, Zenon
<1> QED
  BY <1>2, <1>3 DEF FlushBuf

\* Appending to a part appends to the whole.
LEMMA AppendLast ==
  ASSUME NEW S, NEW d \in Seq(S), NEW c \in Seq(S), NEW e \in S
  PROVE  d \o Append(c, e) = Append(d \o c, e)
<1>1. <<e>> \in Seq(S) /\ d \o c \in Seq(S)
  OBVIOUS
<1>2. Append(c, e) = c \o <<e>>
  BY AppendIsConcat
<1>3. Append(d \o c, e) = (d \o c) \o <<e>>
  BY <1>1, AppendIsConcat
<1> DEFINE p == <<e>>
<1> HIDE DEF p
<1>4. (d \o c) \o p = d \o (c \o p)
  BY <1>1, Regroup DEF p
<1> QED
  BY <1>2, <1>3, <1>4 DEF p

\* A write adds its piece at the end, or fails and adds nothing.
LEMMA WriteAllAdds ==
  ASSUME NEW s \in Sinks, Len(s.buf) <= BufCapacity, NEW piece \in Nat, NEW t \in WriteAll(s, piece)
  PROVE  /\ t.ok \in BOOLEAN
         /\ t.ok => Written(t) = Append(Written(s), piece)
         /\ ~t.ok => Written(t) = Written(s) /\ t.failures > 0
         /\ Begins(s.disk, t.disk) /\ Len(t.buf) <= BufCapacity
         /\ t.failures >= s.failures
<1>1. PICK f \in IF Len(s.buf) < BufCapacity THEN {[s EXCEPT !.ok = TRUE]} ELSE FlushBuf(s) :
        t = IF f.ok THEN [f EXCEPT !.buf = Append(@, piece)] ELSE f
  BY DEF WriteAll
<1>2. s.buf \in Seq(Nat) /\ s.disk \in Seq(Nat) /\ s.failures \in Nat /\ Len(s.buf) \in Nat
  BY DEF Sinks
<1>3. /\ f \in Sinks /\ Written(f) = Written(s) /\ Begins(s.disk, f.disk)
      /\ Len(f.buf) <= BufCapacity /\ f.failures >= s.failures
      /\ (~f.ok => f.failures > 0) /\ (f.ok => Len(f.buf) < BufCapacity)
  <2>1. CASE Len(s.buf) < BufCapacity
    <3>1. f = [s EXCEPT !.ok = TRUE]
      BY <1>1, <2>1
    <3>2. f \in Sinks /\ f.buf = s.buf /\ f.disk = s.disk /\ f.ok = TRUE
          /\ f.failures = s.failures
      BY <3>1 DEF Sinks
    <3> QED
      BY <1>2, <2>1, <3>2 DEF Written, Begins
  <2>2. CASE ~(Len(s.buf) < BufCapacity)
    <3>1. f \in FlushBuf(s)
      BY <1>1, <2>2
    <3>2. f \in Sinks
      BY <3>1, FlushBufType
    <3>3. /\ Written(f) = Written(s) /\ Begins(s.disk, f.disk)
          /\ Len(f.buf) <= Len(s.buf)
          /\ f.failures >= s.failures /\ (~f.ok => f.failures > 0)
          /\ (f.ok => f.buf = <<>>)
      BY <3>1, FlushMoves
    <3>4. Len(<<>>) = 0
      OBVIOUS
    <3>5. Len(f.buf) \in Nat
      BY <3>2 DEF Sinks
    <3> QED
      BY <1>2, <3>2, <3>3, <3>4, <3>5, SinkConstants
  <2> QED
    BY <2>1, <2>2
<1>4. f.buf \in Seq(Nat) /\ f.disk \in Seq(Nat) /\ f.ok \in BOOLEAN
  BY <1>3 DEF Sinks
<1>5. CASE f.ok
  <2> DEFINE b == Append(f.buf, piece)
  <2>1. b \in Seq(Nat) /\ Len(b) = Len(f.buf) + 1 /\ Len(f.buf) \in Nat
    BY <1>4
  <2>2. f.disk \o b = Append(f.disk \o f.buf, piece)
    <3> DEFINE c == f.buf
               d == f.disk
    <3>1. c \in Seq(Nat) /\ d \in Seq(Nat)
      BY <1>4
    <3>2. SUFFICES d \o Append(c, piece) = Append(d \o c, piece)
      OBVIOUS
    <3> HIDE DEF c, d
    <3> QED
      BY <3>1, AppendLast
  <2>3. t = [f EXCEPT !.buf = b]
    BY <1>1, <1>5
  <2> HIDE DEF b
  <2>4. t.buf = b /\ t.disk = f.disk /\ t.ok = TRUE /\ t.failures = f.failures
    BY <1>3, <1>4, <1>5, <2>3 DEF Sinks
  <2>5. Written(t) = Append(Written(s), piece)
    BY <1>3, <2>2, <2>4 DEF Written
  <2>6. Len(b) <= BufCapacity
    BY <1>3, <1>5, <2>1, SinkConstants
  <2> QED
    BY <1>3, <2>4, <2>5, <2>6
<1>6. CASE ~f.ok
  BY <1>1, <1>3, <1>4, <1>6
<1> QED
  BY <1>5, <1>6

\* emit adds a whole line; when a write fails, the text of the event alone or nothing.
LEMMA EmitAdds ==
  ASSUME NEW s \in Sinks, Len(s.buf) <= BufCapacity, NEW event \in Nat, NEW t \in emit(s, event)
  PROVE  /\ \/ Written(t) = Append(Append(Written(s), event), Newline)
            \/ t.failures > 0 /\ Written(t) \in {Written(s), Append(Written(s), event)}
         /\ Begins(s.disk, t.disk) /\ Len(t.buf) <= BufCapacity
         /\ t.failures >= s.failures
<1>1. PICK v \in WriteAll(s, event) : t \in IF v.ok THEN WriteAll(v, Newline) ELSE {v}
  BY DEF emit
<1>2. v \in Sinks
  BY WriteAllType
<1>3. /\ v.ok \in BOOLEAN
      /\ v.ok => Written(v) = Append(Written(s), event)
      /\ ~v.ok => Written(v) = Written(s) /\ v.failures > 0
      /\ Begins(s.disk, v.disk) /\ Len(v.buf) <= BufCapacity
      /\ v.failures >= s.failures
  BY WriteAllAdds
<1>4. CASE ~v.ok
  BY <1>1, <1>3, <1>4
<1>5. CASE v.ok
  <2>1. t \in WriteAll(v, Newline) /\ Newline \in Nat
    BY <1>1, <1>5 DEF Newline
  <2>2. /\ t.ok \in BOOLEAN
        /\ t.ok => Written(t) = Append(Written(v), Newline)
        /\ ~t.ok => Written(t) = Written(v) /\ t.failures > 0
        /\ Begins(v.disk, t.disk) /\ Len(t.buf) <= BufCapacity
        /\ t.failures >= v.failures
    BY <1>2, <1>3, <2>1, WriteAllAdds
  <2>3. t \in Sinks
    BY <1>2, <2>1, WriteAllType
  <2>4. s.failures \in Nat /\ v.failures \in Nat /\ t.failures \in Nat
        /\ s.disk \in Seq(Nat) /\ v.disk \in Seq(Nat) /\ t.disk \in Seq(Nat)
    BY <1>2, <2>3 DEF Sinks
  <2>5. Begins(s.disk, t.disk)
    BY <1>3, <2>2, <2>4, BeginsTrans
  <2>6. t.failures >= s.failures
    BY <1>3, <2>2, <2>4
  <2> QED
    BY <1>3, <1>5, <2>2, <2>5, <2>6
<1> QED
  BY <1>3, <1>4, <1>5


-----------------------------------------------------------------------------
(***************************************************************************)
(* Types.                                                                  *)
(***************************************************************************)

\* The requests and the counters of an operation.
Requests == [op : Ops, is_error : BOOLEAN]
Counters == [count_ok : Nat, count_err : Nat]

\* What the workers hold.
WorkersTyped ==
  /\ worker \in [Workers -> {"gone", "idle", "busy", "logged"}]
  /\ request \in [Workers -> Requests \cup {NoRequest}]
  /\ \A w \in Workers : request[w] = NoRequest <=> worker[w] \in {"gone", "idle"}

\* The sink, the events and the counters.
DataTyped ==
  /\ Len(sink.buf) <= BufCapacity
  /\ emitted \in Seq(Requests)
  /\ DOMAIN metrics \subseteq Ops /\ \A op \in DOMAIN metrics : metrics[op] \in Counters

\* The thread of main, the mount and the channel.
MainTyped ==
  /\ stage \in {"starting", "loading", "opening", "mounting", "mounted", "waiting", "dropping",
                "failing", "dropped", "failed", "flushing", "returning", "exited"}
  /\ exit \in {"none", "ok", "error", "killed"} /\ (Running => exit = "none")
  /\ config \in Configs \cup {DefaultConfig}
  /\ mount \in {"none", "live", "dead"}
  /\ channel \in 0 .. 1

\* Its switches.
Switches == joins \in BOOLEAN /\ handler \in BOOLEAN

\* The type invariant is inductive together with the types of what the workers
\* hold, of the events and of the counters, and with LogInv: a run that has no
\* session has no worker.
TypeInv == LogInv /\ Switches /\ MainTyped /\ WorkersTyped /\ DataTyped

\* It implies the type invariant.
LEMMA TypeInvTypes == TypeInv => TypeOK
  BY DEF TypeInv, TypeOK, Switches, MainTyped, WorkersTyped, DataTyped

\* A worker that handles a request has one.
LEMMA BusyHasRequest ==
  ASSUME WorkersTyped, NEW w \in Workers, worker[w] \notin {"gone", "idle"}
  PROVE  request[w] \in Requests /\ request[w] # NoRequest
  BY NoRequestIsNone DEF WorkersTyped, Requests

\* The buffer that is empty, or shorter than before, fits.
LEMMA EmptyFits == Len(<<>>) = 0 /\ Len(<<>>) <= BufCapacity
<1>1. Len(<<>>) = 0
  OBVIOUS
<1> QED
  BY <1>1, SinkConstants

\* Every step keeps the switches switches.
LEMMA SwitchesKept == Switches /\ [Next]_vars => Switches'
<1> SUFFICES ASSUME Switches, [Next]_vars PROVE Switches'
  OBVIOUS
<1> SUFFICES UNCHANGED joins /\ (UNCHANGED handler \/ handler' = TRUE \/ handler' = FALSE)
  BY Zenon DEF Switches
<1>1. CASE Main
  BY <1>1 DEF Main, CheckMountpoint, MountpointMissing, LoadConfig, LoadFails, CreateSink,
              CreateFails, spawn_mount, SpawnFails, SetHandler, SetHandlerFails, Recv, Unmount,
              PrintAndFlush, Return, Leave
<1>2. ASSUME NEW w \in Workers, Request(w) \/ Handle(w)
      PROVE  UNCHANGED <<joins, handler>>
  BY <1>2 DEF Request, Handle, Emit, Record, WorkerLeaves, process
<1>3. CASE CtrlC \/ Die \/ UserUnmounts \/ Restart \/ Done \/ UNCHANGED vars
  BY <1>3 DEF CtrlC, Die, UserUnmounts, Restart, Done, vars, process
<1> QED
  BY <1>1, <1>2, <1>3 DEF Next

\* The end of run keeps the types.
LEMMA LeaveTypeInv ==
  ASSUME TypeInv, LogInv', Switches', NEW result \in {"ok", "error"}, Leave(result)
  PROVE  TypeInv'
<1>1. MainTyped'
  BY DEF TypeInv, MainTyped, Leave, Running
<1>2. WorkersTyped'
  BY DEF WorkersTyped, Leave
<1>3. DataTyped'
  <2>1. sink'.buf = <<>>
    BY DEF LogInv, Leave
  <2> QED
    BY <2>1, EmptyFits DEF TypeInv, DataTyped, Leave
<1> QED
  BY <1>1, <1>2, <1>3 DEF TypeInv

\* The types hold at the start.
LEMMA InitTypeInv == Init => TypeInv
<1> SUFFICES ASSUME Init PROVE TypeInv
  OBVIOUS
<1>1. MainTyped
  BY DEF Init, MainTyped
<1>4. Switches
  BY Zenon DEF Init, Switches
<1>2. WorkersTyped
  BY DEF Init, WorkersTyped
<1>3. DataTyped
  BY EmptyFits DEF Init, DataTyped, create
<1> QED
  BY <1>1, <1>2, <1>3, <1>4, InitLogInv DEF TypeInv

\* Every step keeps the types.
LEMMA NextTypeInv == TypeInv /\ [Next]_vars => TypeInv'
<1> SUFFICES ASSUME TypeInv, [Next]_vars PROVE TypeInv'
  OBVIOUS
<1>0. LogInv /\ LogInv' /\ Switches' /\ MainTyped /\ WorkersTyped /\ DataTyped
  BY NextLogInv, SwitchesKept DEF TypeInv
<1>1. CASE \E result \in {"ok", "error"} : Leave(result)
  BY <1>0, <1>1, LeaveTypeInv
<1>2. CASE CheckMountpoint \/ LoadConfig \/ SetHandler \/ SetHandlerFails \/ Recv \/ Unmount
  <2>1. MainTyped'
    BY <1>0, <1>2 DEF CheckMountpoint, LoadConfig, SetHandler, SetHandlerFails, Recv, Unmount,
                      Go, MainTyped, Running
  <2>2. UNCHANGED <<log, session, metrics>>
    BY <1>2 DEF CheckMountpoint, LoadConfig, SetHandler, SetHandlerFails, Recv, Unmount
  <2> QED
    BY <1>0, <2>1, <2>2 DEF TypeInv, WorkersTyped, DataTyped, log, session
<1>3. CASE CreateSink
  <2>1. MainTyped'
    BY <1>0, <1>3 DEF CreateSink, Go, MainTyped, Running
  <2>2. WorkersTyped'
    BY <1>0, <1>3 DEF CreateSink, WorkersTyped, session
  <2>3. Len(sink'.buf) <= BufCapacity
    <3>1. sink' \in {sink, create}
      BY <1>3 DEF CreateSink, log
    <3> QED
      BY <1>0, <3>1, EmptyFits DEF DataTyped, create
  <2>4. emitted' \in Seq(Requests)
    <3>1. emitted' = emitted \/ emitted' = <<>>
      BY <1>3 DEF CreateSink, log
    <3>2. <<>> \in Seq(Requests)
      OBVIOUS
    <3> QED
      BY <1>0, <3>1, <3>2 DEF DataTyped
  <2>5. metrics' = <<>>
    BY <1>3 DEF CreateSink
  <2> QED
    BY <1>0, <2>1, <2>2, <2>3, <2>4, <2>5 DEF TypeInv, DataTyped
<1>4. CASE spawn_mount
  <2>1. MainTyped'
    BY <1>0, <1>4 DEF spawn_mount, Go, MainTyped, Running
  <2>2. WorkersTyped'
    BY <1>0, <1>4 DEF spawn_mount, Go, WorkersTyped, LogInv, Quiet
  <2> QED
    BY <1>0, <1>4, <2>1, <2>2 DEF TypeInv, spawn_mount, DataTyped, log
<1>5. CASE PrintAndFlush
  <2>1. MainTyped'
    BY <1>0, <1>5 DEF PrintAndFlush, Go, MainTyped, Running
  <2>2. Len(sink'.buf) <= BufCapacity
    <3>1. CASE UNCHANGED sink
      BY <1>0, <3>1 DEF DataTyped
    <3>2. CASE sink' \in flush(sink)
      <4>1. sink \in Sinks /\ sink' \in Sinks
        BY <1>0 DEF LogInv
      <4>2. Len(sink'.buf) <= Len(sink.buf)
        BY <3>2, <4>1, FlushMoves DEF flush
      <4>3. Len(sink'.buf) \in Nat /\ Len(sink.buf) \in Nat
        BY <4>1 DEF Sinks
      <4> QED
        BY <1>0, <4>2, <4>3, SinkConstants DEF DataTyped
    <3> QED
      BY <1>5, <3>1, <3>2 DEF PrintAndFlush, log
  <2>3. UNCHANGED <<worker, request, emitted, metrics>>
    BY <1>5 DEF PrintAndFlush, log, session
  <2> QED
    BY <1>0, <2>1, <2>2, <2>3 DEF TypeInv, WorkersTyped, DataTyped
<1>6. ASSUME NEW w \in Workers, Request(w)
      PROVE  TypeInv'
  <2>1. PICK op \in Ops, e \in BOOLEAN :
          request' = [request EXCEPT ![w] = [op |-> op, is_error |-> e]]
    BY <1>6 DEF Request
  <2>2. [op |-> op, is_error |-> e] \in Requests /\ [op |-> op, is_error |-> e] # NoRequest
    BY NoRequestIsNone DEF Requests
  <2>3. WorkersTyped'
    BY <1>0, <1>6, <2>1, <2>2 DEF Request, WorkersTyped
  <2> QED
    BY <1>0, <1>6, <2>3 DEF TypeInv, Request, MainTyped, DataTyped, Running, process, log
<1>7. ASSUME NEW w \in Workers, Emit(w)
      PROVE  TypeInv'
  <2>1. request[w] \in Requests
    BY <1>0, <1>7, BusyHasRequest DEF Emit
  <2>2. WorkersTyped'
    BY <1>0, <1>7, <2>1, BusyHasRequest DEF Emit, WorkersTyped
  <2>3. emitted' \in Seq(Requests)
    BY <1>0, <1>7, <2>1 DEF Emit, DataTyped, log
  <2>4. Len(sink'.buf) <= BufCapacity
    <3>1. Len(emitted) + 1 \in Nat
      BY <1>0 DEF DataTyped
    <3> QED
      BY <1>0, <1>7, <3>1, EmitAdds DEF Emit, DataTyped, LogInv, log
  <2> QED
    BY <1>0, <1>7, <2>2, <2>3, <2>4 DEF TypeInv, Emit, MainTyped, DataTyped, Running, process
<1>8. ASSUME NEW w \in Workers, Record(w)
      PROVE  TypeInv'
  <2> DEFINE r == request[w]
             old == Get(metrics, r.op, [count_ok |-> 0, count_err |-> 0])
             new == IF r.is_error THEN [old EXCEPT !.count_err = @ + 1]
                    ELSE [old EXCEPT !.count_ok = @ + 1]
  <2>1. r \in Requests
    BY <1>0, <1>8, BusyHasRequest DEF Record
  <2>2. r.op \in Ops
    BY <2>1 DEF Requests
  <2>3. old \in Counters
    BY <1>0 DEF Get, DataTyped, Counters
  <2>4. new \in Counters
    <3> HIDE DEF old
    <3> QED
      BY <2>3 DEF Counters
  <2>5. metrics' = [op \in DOMAIN metrics \cup {r.op} |-> IF op = r.op THEN new ELSE metrics[op]]
    BY <1>8 DEF Record
  <2>6. WorkersTyped'
    BY <1>0, <1>8 DEF Record, WorkersTyped
  <2>7. DataTyped'
    <3>1. UNCHANGED <<sink, emitted>>
      BY <1>8 DEF Record, log
    <3> HIDE DEF r, new
    <3> QED
      BY <1>0, <2>2, <2>4, <2>5, <3>1 DEF DataTyped
  <2> QED
    BY <1>0, <1>8, <2>6, <2>7 DEF TypeInv, Record, MainTyped, Running, process
<1>9. ASSUME NEW w \in Workers, WorkerLeaves(w)
      PROVE  TypeInv'
  <2>1. WorkersTyped'
    BY <1>0, <1>9 DEF WorkerLeaves, WorkersTyped
  <2> QED
    BY <1>0, <1>9, <2>1 DEF TypeInv, WorkerLeaves, MainTyped, DataTyped, Running, process, log
<1>10. CASE CtrlC \/ UserUnmounts \/ Done \/ UNCHANGED vars
  <2>1. MainTyped'
    BY <1>0, <1>10 DEF CtrlC, UserUnmounts, Done, vars, process, MainTyped, Running
  <2>2. UNCHANGED <<log, session, metrics>>
    BY <1>10 DEF CtrlC, UserUnmounts, Done, vars
  <2> QED
    BY <1>0, <2>1, <2>2 DEF TypeInv, WorkersTyped, DataTyped, log, session
<1>11. CASE Die
  <2>1. MainTyped'
    BY <1>0, <1>11 DEF Die, MainTyped, Running, Abandoned
  <2>2. WorkersTyped'
    BY <1>11 DEF Die, WorkersTyped
  <2>3. sink'.buf = <<>>
    BY <1>0, <1>11 DEF Die, LogInv
  <2>4. DataTyped'
    BY <1>0, <1>11, <2>3, EmptyFits DEF Die, DataTyped
  <2> QED
    BY <1>0, <2>1, <2>2, <2>4 DEF TypeInv
<1>12. CASE Restart
  <2>1. MainTyped'
    BY <1>0, <1>12 DEF Restart, MainTyped, Running
  <2>2. metrics' = <<>> /\ UNCHANGED <<log, session>>
    BY <1>12 DEF Restart
  <2> QED
    BY <1>0, <2>1, <2>2 DEF TypeInv, WorkersTyped, DataTyped, log, session
<1> QED
  BY <1>1, <1>2, <1>3, <1>4, <1>5, <1>6, <1>7, <1>8, <1>9, <1>10, <1>11, <1>12
  DEF Next, Main, Handle, MountpointMissing, LoadFails, CreateFails, SpawnFails, Return

\* The types hold in every state, the bound on the buffer included.
THEOREM TypesCorrect == Spec => []TypeOK
  BY TypeInvTypes, InitTypeInv, NextTypeInv, PTL DEF Spec

-----------------------------------------------------------------------------
(***************************************************************************)
(* The log.                                                                *)
(***************************************************************************)

\* What is written is a sequence of pieces.
LEMMA WrittenType ==
  ASSUME NEW s \in Sinks
  PROVE  Written(s) \in Seq(Nat)
<1>1. s.disk \in Seq(Nat) /\ s.buf \in Seq(Nat)
  BY DEF Sinks
<1> QED
  BY <1>1 DEF Written

\* The events among the pieces of w are in order, none twice, and none after m.
Sorted(w, m) ==
  /\ \A i, j \in 1 .. Len(w) : i < j /\ w[i] # Newline /\ w[j] # Newline => w[i] < w[j]
  /\ \A i \in 1 .. Len(w) : w[i] <= m

\* The beginning of a sequence in order is in order.
LEMMA SortedBegins ==
  ASSUME NEW u \in Seq(Nat), NEW v \in Seq(Nat), NEW m \in Nat, Begins(u, v), Sorted(v, m)
  PROVE  Sorted(u, m)
<1>1. Len(u) \in Nat /\ Len(v) \in Nat /\ Len(u) <= Len(v)
  BY DEF Begins
<1>2. \A i \in 1 .. Len(u) : i \in 1 .. Len(v) /\ u[i] = v[i]
  BY <1>1 DEF Begins
<1> QED
  BY <1>2 DEF Sorted

\* A sequence in order stays so when the next event is added.
LEMMA SortedAppend ==
  ASSUME NEW w \in Seq(Nat), NEW m \in Nat, Sorted(w, m)
  PROVE  Sorted(w, m + 1) /\ Sorted(Append(w, m + 1), m + 1)
<1> DEFINE l == Len(w)
           e == m + 1
           v == Append(w, e)
<1>1. l \in Nat /\ e \in Nat
  OBVIOUS
<1>2. Len(v) = l + 1 /\ v[l + 1] = e /\ \A i \in 1 .. l : v[i] = w[i]
  BY <1>1
<1>3. \A i \in 1 .. l : w[i] \in Nat /\ w[i] <= m /\ w[i] < m + 1 /\ w[i] <= m + 1
  BY DEF Sorted
<1>4. \A i \in 1 .. l + 1 : i \in 1 .. l \/ i = l + 1
  BY <1>1
<1>5. Sorted(w, m + 1)
  BY <1>3 DEF Sorted
<1> HIDE DEF v
<1>6. \A i \in 1 .. Len(v) : v[i] <= m + 1
  BY <1>1, <1>2, <1>3, <1>4
<1>7. ASSUME NEW i \in 1 .. Len(v), NEW j \in 1 .. Len(v), i < j,
             v[i] # Newline, v[j] # Newline
      PROVE  v[i] < v[j]
  <2>1. i \in 1 .. l
    BY <1>1, <1>2, <1>7
  <2>2. CASE j \in 1 .. l
    BY <1>2, <1>7, <2>1, <2>2 DEF Sorted
  <2>3. CASE j = l + 1
    BY <1>1, <1>2, <1>3, <1>7, <2>1, <2>3
  <2> QED
    BY <1>2, <1>4, <2>2, <2>3
<1> QED
  BY <1>5, <1>6, <1>7 DEF Sorted, v

\* A newline after the last event keeps the order.
LEMMA NewlineKeepsOrder ==
  ASSUME NEW w \in Seq(Nat), NEW m \in Nat, Sorted(w, m)
  PROVE  Sorted(Append(w, Newline), m)
<1> DEFINE l == Len(w)
           v == Append(w, Newline)
<1>1. l \in Nat
  OBVIOUS
<1>2. Len(v) = l + 1 /\ v[l + 1] = Newline /\ \A i \in 1 .. l : v[i] = w[i]
  BY <1>1
<1>3. \A i \in 1 .. l + 1 : i \in 1 .. l \/ i = l + 1
  BY <1>1
<1> HIDE DEF v
<1>4. \A i \in 1 .. Len(v) : v[i] <= m
  BY <1>1, <1>2, <1>3 DEF Sorted, Newline
<1>5. \A i, j \in 1 .. Len(v) : i < j /\ v[i] # Newline /\ v[j] # Newline => v[i] < v[j]
  BY <1>1, <1>2, <1>3 DEF Sorted
<1> QED
  BY <1>4, <1>5 DEF Sorted, v

\* The whole log with one line more.
LEMMA LinesStep ==
  ASSUME NEW n \in Nat
  PROVE  /\ Lines(n) \in Seq(Nat) /\ Lines(n + 1) \in Seq(Nat)
         /\ Lines(n + 1) = Append(Append(Lines(n), n + 1), Newline)
         /\ Begins(Lines(n), Lines(n + 1))
<1>1. \A m \in Nat : /\ Lines(m) \in Seq(Nat) /\ Len(Lines(m)) = 2 * m
                     /\ \A k \in 1 .. 2 * m :
                          Lines(m)[k] = IF k % 2 = 1 THEN (k + 1) \div 2 ELSE Newline
  <2> TAKE m \in Nat
  <2>1. 2 * m \in Nat /\ \A k \in 1 .. 2 * m : (IF k % 2 = 1 THEN (k + 1) \div 2 ELSE Newline) \in Nat
    BY DEF Newline
  <2> QED
    BY <2>1 DEF Lines
<1> DEFINE u == Lines(n)
           v == Lines(n + 1)
           a == Append(u, n + 1)
           b == Append(a, Newline)
           l == 2 * n
<1>2. l \in Nat /\ n + 1 \in Nat /\ 2 * (n + 1) = l + 2 /\ Newline \in Nat
  BY DEF Newline
<1>3. u \in Seq(Nat) /\ v \in Seq(Nat) /\ Len(u) = l /\ Len(v) = l + 2
  BY <1>1, <1>2
<1>4. \A k \in 1 .. l : u[k] = v[k]
  BY <1>1, <1>2
<1>5. v[l + 1] = n + 1 /\ v[l + 2] = Newline
  <2>1. l + 1 \in 1 .. 2 * (n + 1) /\ l + 2 \in 1 .. 2 * (n + 1)
    BY <1>2
  <2>2. (l + 1) % 2 = 1 /\ ((l + 1) + 1) \div 2 = n + 1 /\ (l + 2) % 2 = 0
    OBVIOUS
  <2>3. \A k \in 1 .. 2 * (n + 1) : v[k] = IF k % 2 = 1 THEN (k + 1) \div 2 ELSE Newline
    BY <1>1, <1>2
  <2> HIDE DEF l, v
  <2>4. v[l + 1] = n + 1
    BY <2>1, <2>2, <2>3
  <2>5. v[l + 2] = Newline
    BY <2>1, <2>2, <2>3
  <2> QED
    BY <2>4, <2>5
<1> HIDE DEF u, v, l
<1>6. a \in Seq(Nat) /\ Len(a) = l + 1 /\ a[l + 1] = n + 1 /\ \A k \in 1 .. l : a[k] = u[k]
  BY <1>2, <1>3
<1> HIDE DEF a
<1>7. b \in Seq(Nat) /\ Len(b) = l + 2 /\ b[l + 2] = Newline /\ \A k \in 1 .. l + 1 : b[k] = a[k]
  BY <1>2, <1>6
<1> HIDE DEF b
<1>8. \A k \in 1 .. l + 2 : k \in 1 .. l \/ k = l + 1 \/ k = l + 2
  BY <1>2
<1>9. \A k \in 1 .. l + 2 : v[k] = b[k]
  <2> TAKE k \in 1 .. l + 2
  <2>1. k \in 1 .. l => k \in 1 .. l + 1
    BY <1>2
  <2>2. l + 1 \in 1 .. l + 1
    BY <1>2
  <2> QED
    BY <1>4, <1>5, <1>6, <1>7, <1>8, <2>1, <2>2
<1>10. v = b
  BY <1>3, <1>7, <1>9, SeqEqual
<1>11. Begins(u, v)
  BY <1>2, <1>3, <1>4 DEF Begins
<1> QED
  BY <1>3, <1>10, <1>11 DEF u, v, a, b

\* The stages of a run that has its sink.
Open == {"mounting", "mounted", "waiting", "dropping", "failing", "dropped", "failed",
         "flushing", "returning"}

\* The inductive invariant: the events written are in order whatever happened; if
\* no write failed they are the first lines of the log, and all of them from the
\* creation of the sink to the end of the run that created it.
FaithInv ==
  /\ TypeInv
  /\ Sorted(Written(sink), Len(emitted))
  /\ sink.failures = 0 => Begins(Written(sink), Lines(Len(emitted)))
  /\ sink.failures = 0 /\ stage \in Open /\ config.jsonl_path # {}
     => Written(sink) = Lines(Len(emitted))

\* A sequence begins itself, and the empty one begins every sequence.
LEMMA BeginsSelf ==
  ASSUME NEW S, NEW u \in Seq(S)
  PROVE  Begins(u, u) /\ Begins(<<>>, u)
<1>1. Len(u) \in Nat /\ Len(<<>>) = 0
  OBVIOUS
<1> QED
  BY <1>1 DEF Begins

\* A new sink has nothing written, which is the log of no event.
LEMMA CreateIsEmpty ==
  /\ Written(create) = <<>> /\ Sorted(Written(create), 0)
  /\ Written(create) = Lines(0) /\ Begins(Written(create), Lines(0))
<1>1. Written(create) = <<>>
  BY DEF Written, create
<1>2. Len(<<>>) = 0 /\ <<>> \in Seq(Nat)
  OBVIOUS
<1>3. Lines(0) = <<>>
  <2>1. 0 \in Nat
    OBVIOUS
  <2>2. Lines(0) \in Seq(Nat)
    BY <2>1, LinesStep, Zenon
  <2>3. DOMAIN Lines(0) = 1 .. 2 * 0 /\ 1 .. 2 * 0 = {}
    BY DEF Lines
  <2> QED
    BY <2>2, <2>3
<1>4. Begins(<<>>, <<>>)
  BY <1>2 DEF Begins
<1>5. Sorted(<<>>, 0)
  BY <1>2 DEF Sorted
<1> QED
  BY <1>1, <1>3, <1>4, <1>5

\* A step that writes nothing, or loses the end of what was written, and emits
\* nothing keeps the invariant.
LEMMA FaithKept ==
  ASSUME FaithInv, TypeInv', UNCHANGED emitted, sink'.failures >= sink.failures,
         \/ Written(sink') = Written(sink) /\ UNCHANGED config /\ (stage' \in Open => stage \in Open)
         \/ Begins(Written(sink'), Written(sink)) /\ stage' \notin Open
  PROVE  FaithInv'
<1>1. sink \in Sinks /\ sink' \in Sinks /\ emitted \in Seq(Requests)
  BY DEF FaithInv, TypeInv, LogInv, DataTyped
<1>2. Written(sink) \in Seq(Nat) /\ Written(sink') \in Seq(Nat)
  BY <1>1, WrittenType
<1>3. Written(sink)' = Written(sink') /\ Lines(Len(emitted))' = Lines(Len(emitted))
      /\ Sorted(Written(sink), Len(emitted))' = Sorted(Written(sink'), Len(emitted))
      /\ Begins(Written(sink), Lines(Len(emitted)))' = Begins(Written(sink'), Lines(Len(emitted)))
  BY DEF Written, Lines, Sorted, Begins
<1>4. sink.failures \in Nat /\ sink'.failures \in Nat /\ Len(emitted) \in Nat
  BY <1>1 DEF Sinks
<1>5. sink'.failures = 0 => sink.failures = 0
  BY <1>4
<1>6. Begins(Written(sink'), Written(sink))
  BY <1>2, BeginsSelf
<1>7. Sorted(Written(sink'), Len(emitted))
  BY <1>2, <1>4, <1>6, SortedBegins DEF FaithInv
<1>8. Lines(Len(emitted)) \in Seq(Nat)
  BY <1>4, LinesStep
<1>9. sink'.failures = 0 => Begins(Written(sink'), Lines(Len(emitted)))
  BY <1>2, <1>5, <1>6, <1>8, BeginsTrans DEF FaithInv
<1>10. sink'.failures = 0 /\ stage' \in Open /\ config'.jsonl_path # {}
       => Written(sink') = Lines(Len(emitted))
  BY <1>5 DEF FaithInv
<1> QED
  BY <1>3, <1>7, <1>9, <1>10 DEF FaithInv

\* Dropping the buffer of a sink loses the end of what was written.
LEMMA DropLosesEnd ==
  ASSUME NEW s \in Sinks, NEW t, t = [s EXCEPT !.buf = <<>>]
  PROVE  /\ Begins(Written(t), Written(s)) /\ t.failures = s.failures
         /\ Written(t) = s.disk /\ t.disk = s.disk
<1> DEFINE b == <<>>
<1>1. t = [s EXCEPT !.buf = b]
  OBVIOUS
<1>2. s.disk \in Seq(Nat) /\ s.buf \in Seq(Nat) /\ s.disk \o b = s.disk
  BY ConcatEmptySeq DEF Sinks
<1> HIDE DEF b
<1>3. t.buf = b /\ t.disk = s.disk /\ t.failures = s.failures
  BY <1>1 DEF Sinks
<1>4. Begins(s.disk, s.disk \o s.buf)
  BY <1>2, BeginsConcat
<1> QED
  BY <1>2, <1>3, <1>4 DEF Written

\* So does the end of run; before, it flushes if it can.
LEMMA LeaveLosesEnd ==
  ASSUME LogInv, NEW result, Leave(result)
  PROVE  Begins(Written(sink'), Written(sink)) /\ sink'.failures >= sink.failures
<1>1. PICK s \in IF Alive = {} THEN flush(sink) ELSE {sink} : sink' = [s EXCEPT !.buf = <<>>]
  BY DEF Leave
<1>2. sink \in Sinks /\ s \in Sinks
  BY <1>1, FlushBufType DEF LogInv, flush
<1>3. sink.failures \in Nat
  BY <1>2 DEF Sinks
<1>4. Written(s) = Written(sink) /\ s.failures >= sink.failures
  BY <1>1, <1>2, <1>3, FlushMoves DEF flush
<1> QED
  BY <1>1, <1>2, <1>4, DropLosesEnd

\* The log is faithful at the start.
LEMMA InitFaithInv == Init => FaithInv
<1> SUFFICES ASSUME Init PROVE FaithInv
  OBVIOUS
<1>1. sink = create /\ Len(emitted) = 0 /\ stage = "starting"
  BY DEF Init
<1> QED
  BY <1>1, InitTypeInv, CreateIsEmpty DEF FaithInv, Open

\* A worker that writes its event adds the line of the next number.
LEMMA EmitFaithInv ==
  ASSUME FaithInv, TypeInv', NEW w \in Workers, Emit(w), config.jsonl_path # {}
  PROVE  FaithInv'
<1> DEFINE n == Len(emitted)
           old == Written(sink)
           new == Written(sink')
<1>1. sink \in Sinks /\ sink' \in Sinks /\ emitted \in Seq(Requests) /\ Len(sink.buf) <= BufCapacity
  BY DEF FaithInv, TypeInv, LogInv, DataTyped
<1>2. n \in Nat /\ n + 1 \in Nat
  BY <1>1
<1>3. Len(emitted') = n + 1 /\ sink' \in emit(sink, n + 1)
  <2>1. emitted' = Append(emitted, request[w]) /\ sink' \in emit(sink, n + 1)
    BY DEF Emit
  <2>2. request[w] \in Requests
    BY BusyHasRequest DEF FaithInv, TypeInv, Emit
  <2> QED
    BY <1>1, <2>1, <2>2
<1>4. /\ \/ new = Append(Append(old, n + 1), Newline)
         \/ sink'.failures > 0 /\ new \in {old, Append(old, n + 1)}
      /\ sink'.failures >= sink.failures
  BY <1>1, <1>2, <1>3, EmitAdds
<1>5. old \in Seq(Nat) /\ sink.failures \in Nat /\ sink'.failures \in Nat
  BY <1>1, WrittenType DEF Sinks
<1>6. Sorted(old, n) /\ stage \in Open /\ UNCHANGED <<stage, config>>
      /\ (sink.failures = 0 => old = Lines(n))
  BY DEF FaithInv, TypeInv, LogInv, MainTyped, Emit, process, Quiet, Open
<1> HIDE DEF n, old, new
<1>7. Sorted(old, n + 1) /\ Sorted(Append(old, n + 1), n + 1) /\ Append(old, n + 1) \in Seq(Nat)
  BY <1>2, <1>5, <1>6, SortedAppend
<1>8. Sorted(Append(Append(old, n + 1), Newline), n + 1)
  BY <1>2, <1>7, NewlineKeepsOrder
<1>9. Sorted(new, n + 1)
  BY <1>4, <1>7, <1>8
<1>10. sink'.failures = 0 => new = Lines(n + 1)
  <2>1. Lines(n + 1) = Append(Append(Lines(n), n + 1), Newline)
    BY <1>2, LinesStep
  <2>2. SUFFICES ASSUME sink'.failures = 0
                 PROVE  new = Lines(n + 1)
    OBVIOUS
  <2>3. sink.failures = 0 /\ ~(sink'.failures > 0)
    BY <1>4, <1>5, <2>2
  <2>4. old = Lines(n) /\ new = Append(Append(old, n + 1), Newline)
    BY <1>4, <1>6, <2>3, Zenon
  <2> QED
    BY <2>1, <2>4, Zenon
<1>11. Lines(n + 1) \in Seq(Nat)
  BY <1>2, LinesStep
<1>12. sink'.failures = 0 => Begins(new, Lines(n + 1))
  BY <1>10, <1>11, BeginsSelf
<1>13. /\ Sorted(Written(sink), Len(emitted))' = Sorted(new, n + 1)
       /\ Begins(Written(sink), Lines(Len(emitted)))' = Begins(new, Lines(n + 1))
       /\ Lines(Len(emitted))' = Lines(n + 1) /\ Written(sink)' = new
  BY <1>3 DEF Sorted, Begins, Lines, Written, new
<1> QED
  BY <1>9, <1>10, <1>12, <1>13 DEF FaithInv

\* No step puts events out of order, doubles one, or loses one that is not lost
\* by a failed write or with its process.
LEMMA NextFaithInv == FaithInv /\ [Next]_vars => FaithInv'
<1> SUFFICES ASSUME FaithInv, [Next]_vars PROVE FaithInv'
  OBVIOUS
<1>0. TypeInv /\ TypeInv' /\ LogInv /\ sink \in Sinks /\ sink.failures \in Nat
      /\ sink.failures >= sink.failures
  <2>1. TypeInv /\ TypeInv' /\ sink \in Sinks
    BY NextTypeInv DEF FaithInv, TypeInv, LogInv
  <2>2. sink.failures \in Nat
    BY <2>1 DEF Sinks
  <2> QED
    BY <2>1, <2>2 DEF TypeInv
<1>1. CASE UNCHANGED <<log, config>> /\ (stage' \in Open => stage \in Open)
  BY <1>0, <1>1, FaithKept DEF log
<1>2. CASE UNCHANGED log /\ stage' \notin Open
  <2>1. Begins(Written(sink), Written(sink))
    BY <1>0, WrittenType, BeginsSelf
  <2> QED
    BY <1>0, <1>2, <2>1, FaithKept DEF log
<1>3. CASE \E result : Leave(result)
  <2>1. Begins(Written(sink'), Written(sink)) /\ sink'.failures >= sink.failures
    BY <1>0, <1>3, LeaveLosesEnd
  <2>2. UNCHANGED emitted /\ stage' \notin Open
    BY <1>3 DEF Leave, Open
  <2> QED
    BY <1>0, <2>1, <2>2, FaithKept
<1>4. CASE CheckMountpoint \/ LoadConfig \/ Restart
  BY <1>2, <1>4 DEF CheckMountpoint, LoadConfig, Restart, Go, Open
<1>5. CASE CreateSink
  <2>1. CASE config.jsonl_path = {}
    <3>1. UNCHANGED <<sink, emitted, config>>
      BY <1>5, <2>1 DEF CreateSink, log
    <3>2. /\ Sorted(Written(sink), Len(emitted))' = Sorted(Written(sink), Len(emitted))
          /\ Begins(Written(sink), Lines(Len(emitted)))' = Begins(Written(sink), Lines(Len(emitted)))
      BY <3>1 DEF Sorted, Begins, Lines, Written
    <3> QED
      BY <1>0, <2>1, <3>1, <3>2 DEF FaithInv
  <2>2. CASE config.jsonl_path # {}
    <3>1. sink' = create /\ Len(emitted') = 0
      BY <1>5, <2>2 DEF CreateSink
    <3>2. /\ Sorted(Written(sink), Len(emitted))' = Sorted(Written(create), 0)
          /\ Begins(Written(sink), Lines(Len(emitted)))' = Begins(Written(create), Lines(0))
          /\ Lines(Len(emitted))' = Lines(0) /\ Written(sink)' = Written(create)
      BY <3>1 DEF Sorted, Begins, Lines, Written
    <3> QED
      BY <1>0, <3>2, CreateIsEmpty DEF FaithInv
  <2> QED
    BY <2>1, <2>2
<1>6. CASE spawn_mount \/ SetHandler \/ SetHandlerFails \/ Recv \/ Unmount
  BY <1>1, <1>6 DEF spawn_mount, SetHandler, SetHandlerFails, Recv, Unmount, Go, Open
<1>7. CASE PrintAndFlush
  <2>1. UNCHANGED <<emitted, config>> /\ stage \in Open
    BY <1>7 DEF PrintAndFlush, Go, log, Open
  <2>2. Written(sink') = Written(sink) /\ sink'.failures >= sink.failures
    BY <1>0, <1>7, FlushMoves DEF PrintAndFlush, flush, log
  <2> QED
    BY <1>0, <2>1, <2>2, FaithKept
<1>8. ASSUME NEW w \in Workers, Request(w) \/ Handle(w)
      PROVE  FaithInv'
  <2>1. CASE Emit(w) /\ config.jsonl_path # {}
    BY <1>0, <2>1, EmitFaithInv
  <2>2. CASE ~(Emit(w) /\ config.jsonl_path # {})
    <3>1. UNCHANGED <<log, process>>
      BY <1>8, <2>2 DEF Request, Handle, Emit, Record, WorkerLeaves
    <3> QED
      BY <1>1, <3>1 DEF process
  <2> QED
    BY <2>1, <2>2
<1>9. CASE CtrlC \/ UserUnmounts \/ Done \/ UNCHANGED vars
  BY <1>1, <1>9 DEF CtrlC, UserUnmounts, Done, vars, process
<1>10. CASE Die
  <2>1. sink' = [sink EXCEPT !.buf = <<>>] /\ UNCHANGED emitted /\ stage' \notin Open
    BY <1>10 DEF Die, Open
  <2>2. Begins(Written(sink'), Written(sink)) /\ sink'.failures = sink.failures
    BY <1>0, <2>1, DropLosesEnd
  <2> QED
    BY <1>0, <2>1, <2>2, FaithKept
<1> QED
  BY <1>3, <1>4, <1>5, <1>6, <1>7, <1>8, <1>9, <1>10
  DEF Next, Main, MountpointMissing, LoadFails, CreateFails, SpawnFails, Return

\* Nobody works any more when a session that waits for its workers has been
\* dropped, so the end of run leaves nothing in the buffer.
Closed ==
  /\ joins /\ stage \in {"flushing", "returning"} => \A w \in Workers : worker[w] = "gone"
  /\ exit = "ok" /\ joins /\ config.jsonl_path # {} /\ sink.failures = 0
     => sink.disk = Lines(Len(emitted))

ClosedInv == FaithInv /\ Closed

\* Nothing is closed at the start.
LEMMA InitClosedInv == Init => ClosedInv
<1>1. Init => stage = "starting" /\ exit = "none"
  BY DEF Init
<1> QED
  BY <1>1, InitFaithInv DEF ClosedInv, Closed

\* The return at the end of run flushes the whole log, when no worker is left.
LEMMA ReturnCloses ==
  ASSUME ClosedInv, stage = "returning", Leave("ok"),
         joins, config.jsonl_path # {}, sink'.failures = 0
  PROVE  sink'.disk = Lines(Len(emitted))
<1>1. Alive = {}
  BY DEF ClosedInv, Closed, Alive
<1>2. PICK s \in flush(sink) : sink' = [s EXCEPT !.buf = <<>>]
  BY <1>1 DEF Leave
<1>3. sink \in Sinks /\ s \in Sinks
  BY <1>2, FlushBufType DEF ClosedInv, FaithInv, TypeInv, LogInv, flush
<1>4. /\ Written(s) = Written(sink) /\ s.failures >= sink.failures
      /\ (~s.ok => s.failures > 0) /\ (s.ok => s.buf = <<>>)
  BY <1>2, <1>3, FlushMoves DEF flush
<1>5. sink'.disk = s.disk /\ sink'.failures = s.failures
  BY <1>2, <1>3, DropLosesEnd
<1>6. s.failures = 0 /\ sink.failures = 0 /\ s.buf = <<>>
  <2>1. s.failures \in Nat /\ sink.failures \in Nat /\ s.ok \in BOOLEAN
    BY <1>3 DEF Sinks
  <2> QED
    BY <1>4, <1>5, <2>1
<1>7. s.disk \o <<>> = s.disk
  BY <1>3, ConcatEmptySeq DEF Sinks
<1>8. Written(sink) = Lines(Len(emitted))
  BY <1>6 DEF ClosedInv, FaithInv, Open
<1> QED
  BY <1>4, <1>5, <1>6, <1>7, <1>8 DEF Written

\* No worker comes back to a session that was dropped.
LEMMA NextClosedInv == ClosedInv /\ [Next]_vars => ClosedInv'
<1> SUFFICES ASSUME ClosedInv, [Next]_vars PROVE ClosedInv'
  OBVIOUS
<1>0. FaithInv' /\ (stage # "exited" => exit # "ok")
  BY NextFaithInv DEF ClosedInv, FaithInv, TypeInv, MainTyped, Running
<1> SUFFICES Closed'
  BY <1>0 DEF ClosedInv
<1>1. CASE stage' \notin {"flushing", "returning"} /\ exit' # "ok"
  BY <1>1 DEF Closed
<1>2. CASE UNCHANGED <<process, log, worker>>
  BY <1>2 DEF ClosedInv, Closed, process, log, Lines
<1>3. CASE Leave("error") \/ Die \/ Restart
  BY <1>1, <1>3 DEF Leave, Die, Restart
<1>4. CASE CheckMountpoint \/ LoadConfig \/ CreateSink \/ spawn_mount \/ SetHandler
           \/ SetHandlerFails \/ Recv \/ Unmount
  BY <1>0, <1>1, <1>4 DEF CheckMountpoint, LoadConfig, CreateSink, spawn_mount, SetHandler,
                          SetHandlerFails, Recv, Unmount, Go
<1>5. CASE PrintAndFlush
  <2>1. UNCHANGED <<exit, joins, worker>> /\ stage # "exited"
    BY <1>5 DEF PrintAndFlush, Go, session
  <2>2. joins => \A w \in Workers : worker[w] = "gone"
    BY <1>5 DEF PrintAndFlush, Dropped, Alive, Go, ClosedInv, Closed
  <2> QED
    BY <1>0, <2>1, <2>2 DEF Closed
<1>6. CASE stage = "returning" /\ Leave("ok")
  <2>1. stage' = "exited" /\ UNCHANGED <<joins, config, emitted>>
    BY <1>6 DEF Leave
  <2>2. joins /\ config.jsonl_path # {} /\ sink'.failures = 0 => sink'.disk = Lines(Len(emitted))
    BY <1>6, ReturnCloses
  <2>3. Lines(Len(emitted))' = Lines(Len(emitted))
    BY <2>1 DEF Lines
  <2> QED
    BY <2>1, <2>2, <2>3 DEF Closed
<1>7. ASSUME NEW w \in Workers, Request(w) \/ Handle(w)
      PROVE  Closed'
  <2>1. UNCHANGED process /\ worker[w] # "gone"
    BY <1>7 DEF Request, Handle, Emit, Record, WorkerLeaves
  <2>2. stage # "exited"
    BY <2>1 DEF ClosedInv, FaithInv, TypeInv, LogInv, Quiet
  <2>3. ~(joins /\ stage \in {"flushing", "returning"})
    BY <2>1 DEF ClosedInv, Closed
  <2> QED
    BY <1>0, <2>1, <2>2, <2>3 DEF Closed, process
<1>8. CASE CtrlC \/ UserUnmounts \/ Done \/ UNCHANGED vars
  BY <1>2, <1>8 DEF CtrlC, UserUnmounts, Done, vars, process, log, session
<1> QED
  BY <1>3, <1>4, <1>5, <1>6, <1>7, <1>8
  DEF Next, Main, MountpointMissing, LoadFails, CreateFails, SpawnFails, Return

\* The beginning of a sequence, as the community module defines it.
LEMMA BeginsIsPrefix ==
  ASSUME NEW S, NEW u \in Seq(S), NEW v \in Seq(S), Begins(u, v)
  PROVE  IsPrefix(u, v)
<1> DEFINE l == Len(u)
           a == SubSeq(u, 1, l)
           b == SubSeq(v, 1, l)
<1>1. l \in Nat /\ Len(v) \in Nat /\ l <= Len(v) /\ 1 \in Int /\ l \in Int
      /\ \A i \in 1 .. l : u[i] = v[i] /\ u[i] \in S /\ v[i] \in S
  BY ElementOfSeq DEF Begins
<1>2. l - 1 + 1 = l /\ (IF 1 <= l THEN l - 1 + 1 ELSE 0) = l /\ \A i \in 1 .. l : 1 + i - 1 = i
  BY <1>1
<1>3. a \in Seq(S) /\ Len(a) = l /\ \A i \in 1 .. l : a[i] = u[i]
  BY <1>1, <1>2, SubSeqProperties
<1>4. b \in Seq(S) /\ Len(b) = l /\ \A i \in 1 .. l : b[i] = v[i]
  BY <1>1, <1>2, SubSeqProperties
<1>5. a = b
  <2> HIDE DEF a, b, l
  <2> QED
    BY <1>1, <1>3, <1>4, SeqEqual
<1> QED
  BY <1>1, <1>5 DEF IsPrefix

\* The log is faithful: whatever writes failed and whoever died, its events are
\* in the order in which they were emitted, none twice.  If no write failed, file
\* and buffer hold every line as long as the process runs, and the file every
\* line after a clean exit of a session that waits for its workers.
THEOREM LogCorrect == Spec => []LogIsFaithful
<1>1. ClosedInv => LogIsFaithful
  <2> SUFFICES ASSUME ClosedInv PROVE LogIsFaithful
    OBVIOUS
  <2> DEFINE w == Written(sink)
             n == Len(emitted)
             events == {i \in DOMAIN w : w[i] # Newline}
  <2>1. sink \in Sinks /\ emitted \in Seq(Requests)
    BY DEF ClosedInv, FaithInv, TypeInv, LogInv, DataTyped
  <2>2. w \in Seq(Nat) /\ n \in Nat /\ DOMAIN emitted = 1 .. n
    BY <2>1, WrittenType
  <2>3. DOMAIN w = 1 .. Len(w) /\ Lines(n) \in Seq(Nat) /\ \A i \in 1 .. Len(w) : w[i] \in Nat
    <3>1. Lines(n) \in Seq(Nat)
      BY <2>2, LinesStep
    <3> HIDE DEF w
    <3>2. DOMAIN w = 1 .. Len(w) /\ \A i \in 1 .. Len(w) : w[i] \in Nat
      BY <2>2
    <3> QED
      BY <3>1, <3>2
  <2>4. Sorted(w, n)
    BY DEF ClosedInv, FaithInv
  <2>5. SUFFICES /\ \A i, j \in events : i < j => w[i] < w[j]
                 /\ \A i \in events : w[i] \in DOMAIN emitted
                 /\ sink.failures = 0 =>
                      /\ IsPrefix(w, Lines(n))
                      /\ stage \in Open /\ config.jsonl_path # {} => w = Lines(n)
                      /\ exit = "ok" /\ joins /\ config.jsonl_path # {} => sink.disk = Lines(n)
    <3>1. Running /\ stage \notin {"starting", "loading", "opening"} => stage \in Open
      BY DEF ClosedInv, FaithInv, TypeInv, MainTyped, Running, Open
    <3> QED
      BY <3>1 DEF LogIsFaithful, Written
  <2>6. \A i, j \in events : i < j => w[i] < w[j]
    <3> HIDE DEF w
    <3> QED
      BY <2>3, <2>4 DEF Sorted
  <2>7. \A i \in events : w[i] \in DOMAIN emitted
    <3> HIDE DEF w, n
    <3> QED
      BY <2>2, <2>3, <2>4 DEF Sorted, Newline
  <2>8. sink.failures = 0 => IsPrefix(w, Lines(n))
    BY <2>2, <2>3, BeginsIsPrefix DEF ClosedInv, FaithInv
  <2>9. sink.failures = 0 /\ stage \in Open /\ config.jsonl_path # {} => w = Lines(n)
    BY DEF ClosedInv, FaithInv
  <2>10. sink.failures = 0 /\ exit = "ok" /\ joins /\ config.jsonl_path # {} => sink.disk = Lines(n)
    BY DEF ClosedInv, Closed
  <2> QED
    BY <2>6, <2>7, <2>8, <2>9, <2>10
<1> QED
  BY <1>1, InitClosedInv, NextClosedInv, PTL DEF Spec

-----------------------------------------------------------------------------
(***************************************************************************)
(* The summary and the log.                                                *)
(***************************************************************************)

\* The summary counts the operations of a kind, and the errors among them.
Kinds == {"count", "errors"}
Counts(r, op, kind) == r.op = op /\ (kind = "errors" => r.is_error)

\* What the counters m say, and what a line of the summary says.
Total(m, op, kind) ==
  IF op \notin DOMAIN m THEN 0
  ELSE IF kind = "errors" THEN m[op].count_err ELSE m[op].count_ok + m[op].count_err
Amount(line, kind) == IF kind = "errors" THEN line.errors ELSE line.count

\* The events that count among those of a history h, and among those of a file.
Numbered(h, op, kind) == {n \in 1 .. Len(h) : Counts(h[n], op, kind)}
Filed(file, h, op, kind) == {n \in ToSet(file) \ {Newline} : Counts(h[n], op, kind)}

\* The workers that have written their event and not yet their metrics; how and
\* what are the functions worker and request.
Late(how, what, op, kind) == {w \in Workers : how[w] = "logged" /\ Counts(what[w], op, kind)}

\* These sets are finite.
LEMMA NumberedFinite ==
  ASSUME NEW h \in Seq(Requests), NEW op, NEW kind
  PROVE  IsFiniteSet(Numbered(h, op, kind)) /\ Cardinality(Numbered(h, op, kind)) \in Nat
<1>1. Len(h) \in Int /\ 1 \in Int
  OBVIOUS
<1>2. IsFiniteSet(1 .. Len(h))
  BY <1>1, FS_Interval
<1>3. Numbered(h, op, kind) \in SUBSET (1 .. Len(h))
  BY DEF Numbered
<1> QED
  BY <1>2, <1>3, FS_Subset, FS_CardinalityType

\* So are the sets of late workers.
LEMMA LateFinite ==
  ASSUME NEW how, NEW what, NEW op, NEW kind
  PROVE  IsFiniteSet(Late(how, what, op, kind)) /\ Cardinality(Late(how, what, op, kind)) \in Nat
<1>1. Late(how, what, op, kind) \in SUBSET Workers
  BY DEF Late
<1> QED
  BY <1>1, WorkersFinite, FS_Subset, FS_CardinalityType

\* One event more.
LEMMA NumberedAppend ==
  ASSUME NEW h \in Seq(Requests), NEW r \in Requests, NEW op, NEW kind
  PROVE  Cardinality(Numbered(Append(h, r), op, kind)) =
           Cardinality(Numbered(h, op, kind)) + IF Counts(r, op, kind) THEN 1 ELSE 0
<1> DEFINE l == Len(h)
           g == Append(h, r)
           N == Numbered(h, op, kind)
<1>1. l \in Nat /\ Len(g) = l + 1 /\ g[l + 1] = r /\ \A i \in 1 .. l : g[i] = h[i]
  OBVIOUS
<1>2. \A i \in 1 .. l + 1 : i \in 1 .. l \/ i = l + 1
  BY <1>1
<1>3. l + 1 \notin 1 .. l /\ 1 .. l \subseteq 1 .. l + 1 /\ l + 1 \in 1 .. l + 1
  BY <1>1
<1> HIDE DEF g
<1>4. Numbered(g, op, kind) = IF Counts(r, op, kind) THEN N \cup {l + 1} ELSE N
  BY <1>1, <1>2, <1>3 DEF Numbered
<1>5. l + 1 \notin N
  BY <1>3 DEF Numbered
<1> HIDE DEF N
<1>6. IsFiniteSet(N) /\ Cardinality(N) \in Nat
  BY NumberedFinite DEF N
<1>7. Cardinality(N \cup {l + 1}) = Cardinality(N) + 1
  BY <1>5, <1>6, FS_AddElement
<1> QED
  BY <1>4, <1>6, <1>7 DEF N, g

\* A worker that has recorded its metrics is no longer late.
LEMMA LateRecord ==
  ASSUME NEW how, NEW next, NEW what, NEW other, NEW w \in Workers,
         how[w] = "logged", next[w] = "idle",
         \A v \in Workers \ {w} : next[v] = how[v] /\ other[v] = what[v], NEW op, NEW kind
  PROVE  Cardinality(Late(how, what, op, kind)) =
           Cardinality(Late(next, other, op, kind)) + IF Counts(what[w], op, kind) THEN 1 ELSE 0
<1> DEFINE L == Late(how, what, op, kind)
           M == Late(next, other, op, kind)
<1>1. L = IF Counts(what[w], op, kind) THEN M \cup {w} ELSE M
  BY DEF Late
<1>2. w \notin M
  BY DEF Late
<1>3. IsFiniteSet(M) /\ Cardinality(M) \in Nat
  BY LateFinite
<1> HIDE DEF L, M
<1>4. Cardinality(M \cup {w}) = Cardinality(M) + 1
  BY <1>2, <1>3, FS_AddElement
<1> QED
  BY <1>1, <1>3, <1>4 DEF L, M

\* What a file holds of a history stays when both grow.
LEMMA FiledGrows ==
  ASSUME NEW d \in Seq(Nat), NEW e \in Seq(Nat), Begins(d, e),
         NEW h \in Seq(Requests), NEW g \in Seq(Requests), Begins(h, g),
         \A i \in 1 .. Len(d) : d[i] <= Len(h), \A i \in 1 .. Len(e) : e[i] <= Len(g),
         NEW op, NEW kind
  PROVE  Cardinality(Filed(d, h, op, kind)) <= Cardinality(Filed(e, g, op, kind))
         /\ Cardinality(Filed(d, h, op, kind)) \in Nat /\ Cardinality(Filed(e, g, op, kind)) \in Nat
<1> DEFINE D == Filed(d, h, op, kind)
           E == Filed(e, g, op, kind)
<1>1. Len(d) \in Nat /\ Len(e) \in Nat /\ Len(h) \in Nat /\ Len(g) \in Nat
      /\ DOMAIN d = 1 .. Len(d) /\ DOMAIN e = 1 .. Len(e)
      /\ (\A i \in 1 .. Len(d) : d[i] \in Nat) /\ (\A i \in 1 .. Len(e) : e[i] \in Nat)
  OBVIOUS
<1>2. D \subseteq E
  <2> SUFFICES ASSUME NEW n \in D PROVE n \in E
    OBVIOUS
  <2>1. PICK i \in 1 .. Len(d) : n = d[i]
    BY <1>1 DEF Filed, ToSet
  <2>2. n # Newline /\ Counts(h[n], op, kind)
    BY DEF Filed
  <2>3. i \in 1 .. Len(e) /\ e[i] = n
    BY <1>1, <2>1 DEF Begins
  <2>4. n \in 1 .. Len(h)
    BY <1>1, <2>1, <2>2 DEF Newline
  <2>5. g[n] = h[n]
    BY <2>4 DEF Begins
  <2>6. n \in ToSet(e)
    BY <1>1, <2>3 DEF ToSet
  <2> QED
    BY <2>2, <2>5, <2>6 DEF Filed
<1>3. E \in SUBSET (1 .. Len(g))
  <2> SUFFICES ASSUME NEW n \in E PROVE n \in 1 .. Len(g)
    OBVIOUS
  <2>1. PICK i \in 1 .. Len(e) : n = e[i]
    BY <1>1 DEF Filed, ToSet
  <2>2. n # Newline
    BY DEF Filed
  <2> QED
    BY <1>1, <2>1, <2>2 DEF Newline
<1> HIDE DEF D, E
<1>4. IsFiniteSet(1 .. Len(g))
  <2>1. 1 \in Int /\ Len(g) \in Int
    BY <1>1
  <2> QED
    BY <2>1, FS_Interval
<1>5. IsFiniteSet(E) /\ Cardinality(E) \in Nat
  BY <1>3, <1>4, FS_Subset, FS_CardinalityType
<1>6. IsFiniteSet(D) /\ Cardinality(D) \in Nat /\ Cardinality(D) <= Cardinality(E)
  BY <1>2, <1>5, FS_Subset, FS_CardinalityType
<1> QED
  BY <1>5, <1>6 DEF D, E

\* The whole log holds every event of its history.
LEMMA FiledAll ==
  ASSUME NEW h \in Seq(Requests), NEW op, NEW kind
  PROVE  Filed(Lines(Len(h)), h, op, kind) = Numbered(h, op, kind)
<1> DEFINE l == Len(h)
           L == Lines(l)
<1>1. l \in Nat /\ 2 * l \in Nat
  OBVIOUS
<1>2. DOMAIN L = 1 .. 2 * l
      /\ \A k \in 1 .. 2 * l : L[k] = IF k % 2 = 1 THEN (k + 1) \div 2 ELSE Newline
  BY <1>1 DEF Lines
<1> SUFFICES ToSet(L) \ {Newline} = 1 .. l
  BY DEF Filed, Numbered
<1> HIDE DEF L, l
<1>3. ASSUME NEW n \in ToSet(L) \ {Newline} PROVE n \in 1 .. l
  <2>1. PICK k \in 1 .. 2 * l : n = L[k]
    BY <1>2 DEF ToSet
  <2>2. k % 2 = 1 /\ n = (k + 1) \div 2
    BY <1>2, <1>3, <2>1
  <2> QED
    BY <1>1, <2>2
<1>4. ASSUME NEW n \in 1 .. l PROVE n \in ToSet(L) \ {Newline}
  <2> DEFINE k == (2 * n) - 1
  <2>1. k \in 1 .. 2 * l /\ k % 2 = 1 /\ (k + 1) \div 2 = n /\ n # Newline
    BY <1>1 DEF Newline
  <2>2. L[k] = n /\ k \in DOMAIN L
    BY <1>2, <2>1
  <2> QED
    BY <2>1, <2>2 DEF ToSet
<1> QED
  BY <1>3, <1>4

\* The lines of a summary.
SummaryLines == [op : Ops, count : Nat, errors : Nat]

\* What is counted has been logged, and what is being recorded as well.
Covered ==
  stage \in Open /\ config.jsonl_path # {} =>
    \A op \in Ops, kind \in Kinds :
      Total(metrics, op, kind) + Cardinality(Late(worker, request, op, kind))
        <= Cardinality(Numbered(emitted, op, kind))

\* What was printed has been logged.
PrintedLogged ==
  /\ printed \subseteq SummaryLines
  /\ stage = "flushing" /\ config.jsonl_path # {} =>
       \A line \in printed, kind \in Kinds :
         Amount(line, kind) <= Cardinality(Numbered(emitted, line.op, kind))

\* And is in the file after the flush, if no write failed.
PrintedFiled ==
  /\ stage = "returning" \/ exit = "ok"
  /\ config.jsonl_path # {} /\ sink.failures = 0
  => \A line \in printed, kind \in Kinds :
       Amount(line, kind) <= Cardinality(Filed(sink.disk, emitted, line.op, kind))

\* The inductive invariant: it follows an operation from its event, through its
\* metrics and the printed line, to the file.
SummaryInv == FaithInv /\ Covered /\ PrintedLogged /\ PrintedFiled

\* Counters are numbers.
LEMMA TotalType ==
  ASSUME NEW m, \A op \in DOMAIN m : m[op] \in Counters, NEW op, NEW kind
  PROVE  Total(m, op, kind) \in Nat
  BY DEF Total, Counters

\* There is nothing to cover before the first event.
LEMMA NothingCounted ==
  ASSUME NEW how, \A w \in Workers : how[w] = "gone", NEW what, NEW op, NEW kind
  PROVE  Total(<<>>, op, kind) + Cardinality(Late(how, what, op, kind))
           <= Cardinality(Numbered(<<>>, op, kind))
<1>1. Late(how, what, op, kind) = {}
  BY DEF Late
<1>2. Numbered(<<>>, op, kind) = {}
  BY DEF Numbered
<1>3. Total(<<>>, op, kind) = 0
  BY DEF Total
<1>4. Cardinality({}) = 0
  BY FS_EmptySet
<1>5. 0 + 0 <= 0
  OBVIOUS
<1> QED
  BY <1>1, <1>2, <1>3, <1>4, <1>5, Zenon

\* record counts the request that it is given.
LEMMA TotalRecord ==
  ASSUME TypeInv, NEW w \in Workers, Record(w), NEW op \in Ops, NEW kind \in Kinds
  PROVE  Total(metrics', op, kind) =
           Total(metrics, op, kind) + IF Counts(request[w], op, kind) THEN 1 ELSE 0
<1> DEFINE r == request[w]
           old == Get(metrics, r.op, [count_ok |-> 0, count_err |-> 0])
           new == IF r.is_error THEN [old EXCEPT !.count_err = @ + 1]
                  ELSE [old EXCEPT !.count_ok = @ + 1]
<1>1. /\ r.op \in Ops /\ r.is_error \in BOOLEAN
      /\ \A o \in DOMAIN metrics : metrics[o] \in Counters
  BY BusyHasRequest DEF TypeInv, DataTyped, Record, Requests
<1>2. metrics' = [o \in DOMAIN metrics \cup {r.op} |-> IF o = r.op THEN new ELSE metrics[o]]
  BY DEF Record
<1>3. /\ old \in Counters
      /\ r.op \in DOMAIN metrics => old = metrics[r.op]
      /\ r.op \notin DOMAIN metrics => old.count_ok = 0 /\ old.count_err = 0
  BY <1>1 DEF Get, Counters
<1> HIDE DEF old
<1>4. /\ r.is_error => new.count_err = old.count_err + 1 /\ new.count_ok = old.count_ok
      /\ ~r.is_error => new.count_err = old.count_err /\ new.count_ok = old.count_ok + 1
  BY <1>3 DEF Counters
<1>5. old.count_ok \in Nat /\ old.count_err \in Nat
  BY <1>3 DEF Counters
<1> HIDE DEF new, r
<1>6. CASE op # r.op
  <2>1. Total(metrics', op, kind) = Total(metrics, op, kind)
    BY <1>2, <1>6 DEF Total
  <2>2. ~Counts(r, op, kind)
    BY <1>6 DEF Counts
  <2>3. Total(metrics, op, kind) \in Nat
    BY <1>1, TotalType
  <2> QED
    BY <2>1, <2>2, <2>3 DEF r
<1>7. CASE op = r.op
  <2>1. Total(metrics, op, kind) =
          IF kind = "errors" THEN old.count_err ELSE old.count_ok + old.count_err
    BY <1>3, <1>5, <1>7 DEF Total
  <2>2. Total(metrics', op, kind) =
          IF kind = "errors" THEN new.count_err ELSE new.count_ok + new.count_err
    BY <1>2, <1>7 DEF Total
  <2>3. Counts(r, op, kind) <=> (kind = "errors" => r.is_error)
    BY <1>7 DEF Counts
  <2> QED
    BY <1>4, <1>5, <2>1, <2>2, <2>3 DEF r
<1> QED
  BY <1>6, <1>7

\* A step that leaves events, workers and metrics as they are covers what was covered.
LEMMA CoveredKept ==
  ASSUME Covered, UNCHANGED <<emitted, worker, request, metrics, config>>, stage' \in Open => stage \in Open
  PROVE  Covered'
  BY DEF Covered, Total, Late, Numbered, Counts

\* Metrics come after their event, so what is counted has been logged.
LEMMA NextCovered ==
  ASSUME SummaryInv, [Next]_vars
  PROVE  Covered'
<1>0. TypeInv /\ LogInv /\ Covered /\ emitted \in Seq(Requests) /\ WorkersTyped
  BY DEF SummaryInv, FaithInv, TypeInv, DataTyped
<1>1. CASE stage' \notin Open
  BY <1>1 DEF Covered
<1>2. CASE CreateSink
  <2> SUFFICES ASSUME config'.jsonl_path # {}, NEW op \in Ops, NEW kind \in Kinds
               PROVE  Total(metrics', op, kind) + Cardinality(Late(worker', request', op, kind))
                        <= Cardinality(Numbered(emitted', op, kind))
    BY DEF Covered, Total, Late, Numbered, Counts
  <2>1. metrics' = <<>> /\ emitted' = <<>>
    BY <1>2 DEF CreateSink
  <2>2. \A w \in Workers : worker'[w] = "gone"
    BY <1>0, <1>2 DEF CreateSink, Go, LogInv, Quiet, session
  <2> QED
    BY <2>1, <2>2, NothingCounted
<1>3. CASE spawn_mount
  <2> SUFFICES ASSUME config'.jsonl_path # {}, NEW op \in Ops, NEW kind \in Kinds
               PROVE  Total(metrics', op, kind) + Cardinality(Late(worker', request', op, kind))
                        <= Cardinality(Numbered(emitted', op, kind))
    BY DEF Covered, Total, Late, Numbered, Counts
  <2>1. UNCHANGED <<metrics, emitted, config>> /\ stage \in Open
    BY <1>3 DEF spawn_mount, Go, Open, log
  <2>2. Late(worker', request', op, kind) = {} /\ Late(worker, request, op, kind) = {}
    BY <1>0, <1>3 DEF spawn_mount, Go, Late, LogInv, Quiet
  <2> QED
    BY <1>0, <2>1, <2>2 DEF Covered
<1>4. CASE SetHandler \/ SetHandlerFails \/ Recv \/ Unmount \/ PrintAndFlush
  BY <1>0, <1>4, CoveredKept DEF SetHandler, SetHandlerFails, Recv, Unmount, PrintAndFlush, Go,
                                 Open, log, session
<1>5. CASE CtrlC \/ UserUnmounts \/ Done \/ UNCHANGED vars
  BY <1>0, <1>5, CoveredKept DEF CtrlC, UserUnmounts, Done, vars, process, log, session
<1>6. ASSUME NEW w \in Workers, Request(w) \/ Handle(w)
      PROVE  Covered'
  <2> SUFFICES ASSUME config'.jsonl_path # {}, NEW op \in Ops, NEW kind \in Kinds
               PROVE  Total(metrics', op, kind) + Cardinality(Late(worker', request', op, kind))
                        <= Cardinality(Numbered(emitted', op, kind))
    BY DEF Covered, Total, Late, Numbered, Counts
  <2>1. stage \in Open /\ UNCHANGED <<stage, config>>
    BY <1>0, <1>6 DEF Request, Handle, Emit, Record, WorkerLeaves, process, LogInv, TypeInv,
                      MainTyped, Quiet, Open
  <2>2. Total(metrics, op, kind) + Cardinality(Late(worker, request, op, kind))
          <= Cardinality(Numbered(emitted, op, kind))
    BY <1>0, <2>1 DEF Covered
  <2>3. /\ Total(metrics, op, kind) \in Nat
        /\ Cardinality(Late(worker, request, op, kind)) \in Nat
        /\ Cardinality(Late(worker', request', op, kind)) \in Nat
        /\ Cardinality(Numbered(emitted, op, kind)) \in Nat
    BY <1>0, TotalType, LateFinite, NumberedFinite DEF TypeInv, DataTyped
  <2>4. DOMAIN worker = Workers /\ DOMAIN request = Workers
    BY <1>0 DEF WorkersTyped
  <2>5. CASE Request(w) \/ WorkerLeaves(w)
    <3>1. Late(worker', request', op, kind) = Late(worker, request, op, kind)
      BY <2>4, <2>5 DEF Request, WorkerLeaves, Late
    <3>2. UNCHANGED <<metrics, emitted>>
      BY <2>5 DEF Request, WorkerLeaves, log
    <3> QED
      BY <2>2, <3>1, <3>2
  <2>6. CASE Emit(w)
    <3>1. /\ worker[w] # "logged" /\ worker' = [worker EXCEPT ![w] = "logged"]
          /\ emitted' = Append(emitted, request[w]) /\ UNCHANGED <<request, metrics>>
      BY <2>1, <2>6 DEF Emit
    <3>2. request[w] \in Requests
      BY <1>0, <2>6, BusyHasRequest DEF Emit
    <3>3. Cardinality(Late(worker', request', op, kind)) =
            Cardinality(Late(worker, request, op, kind)) + IF Counts(request[w], op, kind) THEN 1 ELSE 0
      <4>1. /\ worker[w] # "logged" /\ worker'[w] = "logged"
            /\ \A v \in Workers \ {w} : worker'[v] = worker[v]
        BY <2>4, <3>1
      <4> DEFINE L == Late(worker, request, op, kind)
                 M == Late(worker', request', op, kind)
      <4>2. M = IF Counts(request[w], op, kind) THEN L \cup {w} ELSE L
        BY <3>1, <4>1 DEF Late
      <4>3. w \notin L
        BY <4>1 DEF Late
      <4>4. IsFiniteSet(L) /\ Cardinality(L) \in Nat
        BY LateFinite
      <4> HIDE DEF L, M
      <4>5. Cardinality(L \cup {w}) = Cardinality(L) + 1
        BY <4>3, <4>4, FS_AddElement
      <4> QED
        BY <4>2, <4>4, <4>5 DEF L, M
    <3>4. Cardinality(Numbered(emitted', op, kind)) =
            Cardinality(Numbered(emitted, op, kind)) + IF Counts(request[w], op, kind) THEN 1 ELSE 0
      BY <1>0, <3>1, <3>2, NumberedAppend
    <3> QED
      BY <2>2, <2>3, <3>1, <3>3, <3>4
  <2>7. CASE Record(w)
    <3>1. /\ worker[w] = "logged" /\ worker' = [worker EXCEPT ![w] = "idle"]
          /\ request' = [request EXCEPT ![w] = NoRequest] /\ UNCHANGED emitted
      BY <2>7 DEF Record, log
    <3>2. Cardinality(Late(worker, request, op, kind)) =
            Cardinality(Late(worker', request', op, kind)) + IF Counts(request[w], op, kind) THEN 1 ELSE 0
      <4>1. /\ worker[w] = "logged" /\ worker'[w] = "idle"
            /\ \A v \in Workers \ {w} : worker'[v] = worker[v] /\ request'[v] = request[v]
        BY <2>4, <3>1
      <4> QED
        BY <4>1, LateRecord
    <3>3. Total(metrics', op, kind) =
            Total(metrics, op, kind) + IF Counts(request[w], op, kind) THEN 1 ELSE 0
      BY <1>0, <2>7, TotalRecord
    <3> QED
      BY <2>2, <2>3, <3>1, <3>2, <3>3
  <2> QED
    BY <1>6, <2>5, <2>6, <2>7 DEF Handle
<1> QED
  BY <1>1, <1>2, <1>3, <1>4, <1>5, <1>6
  DEF Next, Main, CheckMountpoint, MountpointMissing, LoadConfig, LoadFails, CreateFails,
      SpawnFails, Return, Leave, Go, Die, Restart, Open

\* No piece of the file is beyond the events.
LEMMA FileBounded ==
  ASSUME NEW s \in Sinks, NEW m \in Nat, Sorted(Written(s), m)
  PROVE  s.disk \in Seq(Nat) /\ \A i \in 1 .. Len(s.disk) : s.disk[i] <= m
<1>1. s.disk \in Seq(Nat) /\ s.buf \in Seq(Nat)
  BY DEF Sinks
<1>2. Begins(s.disk, Written(s)) /\ Written(s) \in Seq(Nat)
  BY <1>1, BeginsConcat DEF Written
<1>3. Sorted(s.disk, m)
  BY <1>1, <1>2, SortedBegins
<1> QED
  BY <1>1, <1>3 DEF Sorted

\* What was printed has been logged: the summary is taken from the metrics.
LEMMA NextPrintedLogged ==
  ASSUME SummaryInv, [Next]_vars
  PROVE  PrintedLogged'
<1>0. /\ TypeInv /\ LogInv /\ Covered /\ PrintedLogged /\ emitted \in Seq(Requests)
      /\ DOMAIN metrics \subseteq Ops /\ \A op \in DOMAIN metrics : metrics[op] \in Counters
  BY DEF SummaryInv, FaithInv, TypeInv, DataTyped
<1>1. CASE UNCHANGED <<printed, emitted, config>> /\ (stage' = "flushing" => stage = "flushing")
  BY <1>0, <1>1 DEF PrintedLogged, Numbered, Counts, Amount
<1>2. CASE stage' # "flushing" /\ (UNCHANGED printed \/ printed' = {})
  BY <1>0, <1>2 DEF PrintedLogged
<1>3. CASE Go("dropped", "flushing") /\ printed' = Summary /\ UNCHANGED <<config, emitted>>
  <2>1. stage \in Open
    BY <1>3 DEF Go, Open
  <2>2. ASSUME NEW line \in Summary
        PROVE  /\ line \in SummaryLines
               /\ \A kind \in Kinds : Amount(line, kind) = Total(metrics, line.op, kind)
    <3>1. PICK op \in DOMAIN metrics :
            line = [op |-> op, count |-> metrics[op].count_ok + metrics[op].count_err,
                    errors |-> metrics[op].count_err]
      BY DEF Summary
    <3>2. op \in Ops /\ metrics[op].count_ok \in Nat /\ metrics[op].count_err \in Nat
      BY <1>0 DEF Counters
    <3>3. /\ line.op = op /\ line.errors = metrics[op].count_err
          /\ line.count = metrics[op].count_ok + metrics[op].count_err
      BY <3>1
    <3>4. line \in SummaryLines
      BY <3>1, <3>2 DEF SummaryLines
    <3> QED
      BY <3>3, <3>4 DEF Amount, Total
  <2>3. ASSUME config.jsonl_path # {}, NEW line \in Summary, NEW kind \in Kinds
        PROVE  Amount(line, kind) <= Cardinality(Numbered(emitted, line.op, kind))
    <3>1. line.op \in Ops
      BY <2>2 DEF SummaryLines
    <3>2. Total(metrics, line.op, kind) + Cardinality(Late(worker, request, line.op, kind))
            <= Cardinality(Numbered(emitted, line.op, kind))
      BY <1>0, <2>1, <2>3, <3>1 DEF Covered
    <3>3. /\ Total(metrics, line.op, kind) \in Nat
          /\ Cardinality(Late(worker, request, line.op, kind)) \in Nat
          /\ Cardinality(Numbered(emitted, line.op, kind)) \in Nat
      BY <1>0, TotalType, LateFinite, NumberedFinite
    <3>4. Amount(line, kind) = Total(metrics, line.op, kind)
      BY <2>2
    <3> QED
      BY <3>2, <3>3, <3>4
  <2>4. \A line, kind : Numbered(emitted, line.op, kind)' = Numbered(emitted, line.op, kind)
    BY <1>3 DEF Numbered, Counts
  <2> QED
    BY <1>3, <2>2, <2>3 DEF PrintedLogged, Numbered, Counts, Amount
<1>4. CASE PrintAndFlush
  BY <1>2, <1>3, <1>4 DEF PrintAndFlush, Go, log
<1>5. ASSUME NEW w \in Workers, Emit(w), config.jsonl_path # {}
      PROVE  PrintedLogged'
  <2>1. emitted' = Append(emitted, request[w]) /\ UNCHANGED <<stage, config, printed>>
    BY <1>5 DEF Emit, process
  <2>2. request[w] \in Requests
    BY <1>0, <1>5, BusyHasRequest DEF Emit, TypeInv
  <2>3. ASSUME NEW op, NEW kind
        PROVE  /\ Cardinality(Numbered(emitted, op, kind)) \in Nat
               /\ Cardinality(Numbered(emitted', op, kind)) \in Nat
               /\ Cardinality(Numbered(emitted, op, kind)) <= Cardinality(Numbered(emitted', op, kind))
    <3>1. Cardinality(Numbered(emitted', op, kind)) =
            Cardinality(Numbered(emitted, op, kind)) + IF Counts(request[w], op, kind) THEN 1 ELSE 0
      BY <1>0, <2>1, <2>2, NumberedAppend
    <3>2. Cardinality(Numbered(emitted, op, kind)) \in Nat
      BY <1>0, NumberedFinite
    <3> QED
      BY <3>1, <3>2
  <2>4. ASSUME stage = "flushing", NEW line \in printed, NEW kind \in Kinds
        PROVE  Amount(line, kind) <= Cardinality(Numbered(emitted', line.op, kind))
    <3>1. Amount(line, kind) <= Cardinality(Numbered(emitted, line.op, kind))
      BY <1>0, <1>5, <2>4 DEF PrintedLogged
    <3>2. Amount(line, kind) \in Nat
      BY <1>0 DEF PrintedLogged, SummaryLines, Amount
    <3> QED
      BY <2>3, <3>1, <3>2
  <2>5. \A line, kind : /\ Numbered(emitted, line.op, kind)' = Numbered(emitted', line.op, kind)
                        /\ Amount(line, kind)' = Amount(line, kind)
    BY DEF Numbered, Counts, Amount
  <2> QED
    BY <1>0, <2>1, <2>4, <2>5 DEF PrintedLogged
<1>6. ASSUME NEW w \in Workers, Request(w) \/ Handle(w)
      PROVE  PrintedLogged'
  <2>1. CASE Emit(w) /\ config.jsonl_path # {}
    BY <1>5, <2>1
  <2>2. CASE ~(Emit(w) /\ config.jsonl_path # {})
    <3>1. UNCHANGED <<log, process, printed>>
      BY <1>6, <2>2 DEF Request, Handle, Emit, Record, WorkerLeaves
    <3> QED
      BY <1>1, <3>1 DEF log, process
  <2> QED
    BY <2>1, <2>2
<1>7. CASE CtrlC \/ UserUnmounts \/ Done \/ UNCHANGED vars
  BY <1>1, <1>7 DEF CtrlC, UserUnmounts, Done, vars, process, log
<1> QED
  BY <1>2, <1>4, <1>6, <1>7
  DEF Next, Main, CheckMountpoint, MountpointMissing, LoadConfig, LoadFails, CreateSink,
      CreateFails, spawn_mount, SpawnFails, SetHandler, SetHandlerFails, Recv, Unmount, Return,
      Leave, Go, Die, Restart

\* What is in the file stays in the file.
LEMMA FiledKept ==
  ASSUME SummaryInv, FaithInv', Begins(sink.disk, sink'.disk), Begins(emitted, emitted'),
         sink'.failures >= sink.failures, UNCHANGED <<config, printed>>,
         stage' = "returning" \/ exit' = "ok" => stage = "returning" \/ exit = "ok"
  PROVE  PrintedFiled'
<1>1. /\ sink \in Sinks /\ emitted \in Seq(Requests) /\ Sorted(Written(sink), Len(emitted))
      /\ sink' \in Sinks /\ emitted' \in Seq(Requests) /\ Sorted(Written(sink'), Len(emitted'))
  <2>1. FaithInv
    BY DEF SummaryInv
  <2>2. Sorted(Written(sink), Len(emitted))' = Sorted(Written(sink'), Len(emitted'))
    BY DEF Sorted, Written
  <2> QED
    BY <2>1, <2>2 DEF FaithInv, TypeInv, LogInv, DataTyped
<1>2. Len(emitted) \in Nat /\ Len(emitted') \in Nat
      /\ sink.failures \in Nat /\ sink'.failures \in Nat
  BY <1>1 DEF Sinks
<1>3. /\ sink.disk \in Seq(Nat) /\ \A i \in 1 .. Len(sink.disk) : sink.disk[i] <= Len(emitted)
      /\ sink'.disk \in Seq(Nat) /\ \A i \in 1 .. Len(sink'.disk) : sink'.disk[i] <= Len(emitted')
  BY <1>1, <1>2, FileBounded
<1>4. ASSUME NEW op, NEW kind
      PROVE  /\ Cardinality(Filed(sink.disk, emitted, op, kind)) \in Nat
             /\ Cardinality(Filed(sink'.disk, emitted', op, kind)) \in Nat
             /\ Cardinality(Filed(sink.disk, emitted, op, kind))
                  <= Cardinality(Filed(sink'.disk, emitted', op, kind))
  <2> DEFINE d == sink.disk
             e == sink'.disk
             h == emitted
             g == emitted'
  <2>1. /\ d \in Seq(Nat) /\ e \in Seq(Nat) /\ Begins(d, e)
        /\ h \in Seq(Requests) /\ g \in Seq(Requests) /\ Begins(h, g)
        /\ \A i \in 1 .. Len(d) : d[i] <= Len(h)
        /\ \A i \in 1 .. Len(e) : e[i] <= Len(g)
    BY <1>1, <1>3
  <2>2. SUFFICES /\ Cardinality(Filed(d, h, op, kind)) \in Nat
                 /\ Cardinality(Filed(e, g, op, kind)) \in Nat
                 /\ Cardinality(Filed(d, h, op, kind)) <= Cardinality(Filed(e, g, op, kind))
    OBVIOUS
  <2> HIDE DEF d, e, h, g
  <2> QED
    BY <2>1, FiledGrows
<1>5. ASSUME stage' = "returning" \/ exit' = "ok", config.jsonl_path # {}, sink'.failures = 0,
             NEW line \in printed, NEW kind \in Kinds
      PROVE  Amount(line, kind) <= Cardinality(Filed(sink'.disk, emitted', line.op, kind))
  <2>1. sink.failures = 0
    BY <1>2, <1>5
  <2>2. Amount(line, kind) <= Cardinality(Filed(sink.disk, emitted, line.op, kind))
    BY <1>5, <2>1 DEF SummaryInv, PrintedFiled
  <2>3. Amount(line, kind) \in Nat
    BY DEF SummaryInv, PrintedLogged, SummaryLines, Amount
  <2> QED
    BY <1>4, <2>2, <2>3
<1>6. \A line, kind : /\ Filed(sink.disk, emitted, line.op, kind)' = Filed(sink'.disk, emitted', line.op, kind)
                      /\ Amount(line, kind)' = Amount(line, kind)
  BY DEF Filed, Counts, Amount, ToSet
<1> QED
  BY <1>5, <1>6 DEF PrintedFiled

\* A file that is not touched, and its history, begin themselves.
LEMMA FiledStays ==
  ASSUME SummaryInv, FaithInv', UNCHANGED <<sink, emitted, config, printed>>,
         stage' = "returning" \/ exit' = "ok" => stage = "returning" \/ exit = "ok"
  PROVE  PrintedFiled'
<1>1. sink \in Sinks /\ emitted \in Seq(Requests)
  BY DEF SummaryInv, FaithInv, TypeInv, LogInv, DataTyped
<1>2. sink.disk \in Seq(Nat) /\ sink.failures \in Nat
  BY <1>1 DEF Sinks
<1>3. Begins(sink.disk, sink.disk) /\ Begins(emitted, emitted) /\ sink.failures >= sink.failures
  BY <1>1, <1>2, BeginsSelf
<1> QED
  BY <1>3, FiledKept

\* The flush after the summary puts what was printed into the file, and nothing
\* takes it out again.
LEMMA NextPrintedFiled ==
  ASSUME SummaryInv, FaithInv', PrintedLogged', [Next]_vars
  PROVE  PrintedFiled'
<1>0. /\ FaithInv /\ TypeInv /\ LogInv /\ sink \in Sinks /\ emitted \in Seq(Requests)
      /\ (stage # "exited" => exit # "ok")
  BY DEF SummaryInv, FaithInv, TypeInv, LogInv, DataTyped, MainTyped, Running
<1>1. CASE stage' # "returning" /\ exit' # "ok"
  BY <1>1 DEF PrintedFiled
<1>2. CASE UNCHANGED <<log, config, printed, stage, exit>>
  BY <1>2, FiledStays DEF SummaryInv, log
<1>3. CASE Go("flushing", "returning") /\ UNCHANGED <<exit, config, emitted, printed>>
           /\ IF config.jsonl_path = {} THEN UNCHANGED sink ELSE sink' \in flush(sink)
  <2> SUFFICES ASSUME config.jsonl_path # {}, sink'.failures = 0, NEW line \in printed, NEW kind \in Kinds
               PROVE  Amount(line, kind) <= Cardinality(Filed(sink'.disk, emitted, line.op, kind))
    BY <1>3 DEF PrintedFiled, Filed, Counts, Amount, ToSet
  <2>1. sink' \in Sinks /\ sink'.ok /\ sink'.buf = <<>>
    <3>1. sink' \in Sinks /\ (~sink'.ok => sink'.failures > 0) /\ (sink'.ok => sink'.buf = <<>>)
      BY <1>0, <1>3, FlushBufType, FlushMoves DEF flush
    <3> QED
      BY <3>1
  <2>2. Written(sink') = Lines(Len(emitted))
    <3>1. Written(sink)' = Written(sink') /\ Lines(Len(emitted))' = Lines(Len(emitted))
      BY <1>3 DEF Written, Lines
    <3> QED
      BY <1>3, <3>1 DEF FaithInv, Go, Open
  <2>3. sink'.disk = Lines(Len(emitted))
    <3>1. sink'.disk \in Seq(Nat)
      BY <2>1 DEF Sinks
    <3>2. sink'.disk \o <<>> = sink'.disk
      BY <3>1, ConcatEmptySeq
    <3> QED
      BY <2>1, <2>2, <3>2 DEF Written
  <2>4. Filed(sink'.disk, emitted, line.op, kind) = Numbered(emitted, line.op, kind)
    BY <1>0, <2>3, FiledAll
  <2> QED
    BY <1>3, <2>4 DEF SummaryInv, PrintedLogged, Go
<1>4. CASE PrintAndFlush
  <2>1. CASE Go("dropped", "flushing") /\ UNCHANGED exit
    BY <1>0, <1>1, <2>1 DEF Go
  <2> QED
    BY <1>3, <1>4, <2>1 DEF PrintAndFlush
<1>5. ASSUME NEW w \in Workers, Emit(w), config.jsonl_path # {}
      PROVE  PrintedFiled'
  <2>1. /\ emitted' = Append(emitted, request[w]) /\ sink' \in emit(sink, Len(emitted) + 1)
        /\ UNCHANGED <<stage, exit, config, printed>>
    BY <1>5 DEF Emit, process
  <2>2. request[w] \in Requests
    BY <1>0, <1>5, BusyHasRequest DEF Emit, TypeInv
  <2>3. Begins(emitted, emitted')
    BY <1>0, <2>1, <2>2 DEF Begins
  <2>4. Len(emitted) + 1 \in Nat /\ Len(sink.buf) <= BufCapacity
    BY <1>0 DEF TypeInv, DataTyped
  <2>5. Begins(sink.disk, sink'.disk) /\ sink'.failures >= sink.failures
    BY <1>0, <2>1, <2>4, EmitAdds
  <2> QED
    BY <2>1, <2>3, <2>5, FiledKept
<1>6. ASSUME NEW w \in Workers, Request(w) \/ Handle(w)
      PROVE  PrintedFiled'
  <2>1. CASE Emit(w) /\ config.jsonl_path # {}
    BY <1>5, <2>1
  <2>2. CASE ~(Emit(w) /\ config.jsonl_path # {})
    <3>1. UNCHANGED <<log, process, printed>>
      BY <1>6, <2>2 DEF Request, Handle, Emit, Record, WorkerLeaves
    <3> QED
      BY <1>2, <3>1 DEF log, process
  <2> QED
    BY <2>1, <2>2
<1>7. CASE stage = "returning" /\ Leave("ok")
  <2>1. UNCHANGED <<config, printed, emitted>>
    BY <1>7 DEF Leave
  <2>2. PICK s \in IF Alive = {} THEN flush(sink) ELSE {sink} : sink' = [s EXCEPT !.buf = <<>>]
    BY <1>7 DEF Leave
  <2>3. s \in Sinks
    BY <1>0, <2>2, FlushBufType DEF flush
  <2>4. sink.disk \in Seq(Nat) /\ sink.failures \in Nat
    BY <1>0 DEF Sinks
  <2>5. Begins(sink.disk, sink.disk) /\ Begins(emitted, emitted)
    BY <1>0, <2>4, BeginsSelf
  <2>6. Begins(sink.disk, s.disk) /\ s.failures >= sink.failures
    BY <1>0, <2>2, <2>4, <2>5, FlushMoves DEF flush
  <2>7. sink'.disk = s.disk /\ sink'.failures = s.failures
    BY <2>2, <2>3, DropLosesEnd
  <2> QED
    BY <1>7, <2>1, <2>5, <2>6, <2>7, FiledKept
<1>8. CASE Leave("error") \/ Die \/ Restart
  BY <1>1, <1>8 DEF Leave, Die, Restart
<1>9. CASE CtrlC \/ UserUnmounts \/ Done \/ UNCHANGED vars
  BY <1>2, <1>9 DEF CtrlC, UserUnmounts, Done, vars, process
<1>10. CASE CheckMountpoint \/ LoadConfig \/ CreateSink \/ spawn_mount \/ SetHandler
            \/ SetHandlerFails \/ Recv \/ Unmount
  BY <1>0, <1>1, <1>10 DEF CheckMountpoint, LoadConfig, CreateSink, spawn_mount, SetHandler,
                           SetHandlerFails, Recv, Unmount, Go
<1> QED
  BY <1>4, <1>6, <1>7, <1>8, <1>9, <1>10
  DEF Next, Main, MountpointMissing, LoadFails, CreateFails, SpawnFails, Return

\* Nothing is counted at the start.
LEMMA InitSummaryInv == Init => SummaryInv
<1> SUFFICES ASSUME Init PROVE SummaryInv
  OBVIOUS
<1>1. stage = "starting" /\ exit = "none" /\ printed = {}
  BY DEF Init
<1> QED
  BY <1>1, InitFaithInv DEF SummaryInv, Covered, PrintedLogged, PrintedFiled, Open

\* Every step keeps the order of event, metrics, summary and flush.
LEMMA NextSummaryInv == SummaryInv /\ [Next]_vars => SummaryInv'
<1> SUFFICES ASSUME SummaryInv, [Next]_vars PROVE SummaryInv'
  OBVIOUS
<1>1. FaithInv'
  BY NextFaithInv DEF SummaryInv
<1>2. Covered' /\ PrintedLogged'
  BY NextCovered, NextPrintedLogged
<1>3. PrintedFiled'
  BY <1>1, <1>2, NextPrintedFiled
<1> QED
  BY <1>1, <1>2, <1>3 DEF SummaryInv

\* Every operation that the printed summary counts is in the file after the
\* flush, if no write failed, although workers go on meanwhile.
THEOREM SummaryCorrect == Spec => []SummaryIsLogged
<1>1. SummaryInv => SummaryIsLogged
  <2> SUFFICES ASSUME SummaryInv, stage = "returning" \/ exit = "ok",
                      config.jsonl_path # {}, sink.failures = 0, NEW line \in printed
               PROVE  LET logged == {n \in ToSet(sink.disk) \ {Newline} : emitted[n].op = line.op}
                      IN  /\ line.count <= Cardinality(logged)
                          /\ line.errors <= Cardinality({n \in logged : emitted[n].is_error})
    BY DEF SummaryIsLogged
  <2> DEFINE logged == {n \in ToSet(sink.disk) \ {Newline} : emitted[n].op = line.op}
  <2>1. logged = Filed(sink.disk, emitted, line.op, "count")
    BY DEF Filed, Counts
  <2>2. {n \in logged : emitted[n].is_error} = Filed(sink.disk, emitted, line.op, "errors")
    BY DEF Filed, Counts
  <2>3. \A kind \in Kinds : Amount(line, kind) <= Cardinality(Filed(sink.disk, emitted, line.op, kind))
    BY DEF SummaryInv, PrintedFiled
  <2>4. line.count <= Cardinality(Filed(sink.disk, emitted, line.op, "count"))
    BY <2>3 DEF Kinds, Amount
  <2>5. line.errors <= Cardinality(Filed(sink.disk, emitted, line.op, "errors"))
    BY <2>3 DEF Kinds, Amount
  <2> QED
    BY <2>1, <2>2, <2>4, <2>5
<1> QED
  BY <1>1, InitSummaryInv, NextSummaryInv, PTL DEF Spec
=============================================================================
