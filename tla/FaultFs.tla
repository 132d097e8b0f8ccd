------------------------------- MODULE FaultFs -------------------------------
(***************************************************************************)
(* FaultFs of fusecraft-fuser/src/lib.rs, the handlers of the FUSE          *)
(* requests, over FlatObjectNamespace and DeterministicContent, and one     *)
(* client of the mounted file system: it lists a directory with as many     *)
(* readdir requests as its buffers need, reads a file from start to end     *)
(* with requests of any sizes, and makes other requests in between.        *)
(*                                                                         *)
(* A handler has no state of its own, so a request is one step.  Of run_op  *)
(* the handler sees the result: the closure's, or an errno that was         *)
(* injected or is the limiter's refusal; the client repeats what failed.   *)
(* The kernel asks only about inodes that it has been given; readdir is     *)
(* answered for any of them, a file too, and from any offset.              *)
(*                                                                         *)
(* A byte is the pair of inode and offset it is computed from.  Left out:   *)
(* time-to-live values, file handles (always 0), the constants of statfs.  *)
(***************************************************************************)
EXTENDS FlatObjectNamespace

CONSTANTS Names,       \* the names that are looked up
          Offsets,     \* the offsets of single reads, writes and readdirs
          Lengths,     \* the sizes of reads and writes
          Rooms,       \* the directory entries that a reply has room for
          Injected,    \* the errnos that run_op may return instead
          MaxFailures  \* bound: requests that fail by injection

ASSUME RoomForOne == Rooms \subseteq Nat \ {0}
ASSUME LengthsAreNat == Lengths \subseteq Nat /\ Offsets \subseteq Nat
ASSUME MaxFailuresIsNat == MaxFailures \in Nat

VARIABLES known,     \* inodes the kernel has been given
          dir,       \* the directory the client lists
          listed,    \* the entries it has got
          listing,   \* it has not seen the end of the directory
          file,      \* the file the client reads
          data,      \* the bytes it has got
          reading,   \* it has not seen the end of the file
          request,   \* the last request: its OpContext, and the name if any
          reply,     \* what it was answered
          failures

scan == <<dir, listed, listing>>
stream == <<file, data, reading>>
vars == <<known, scan, stream, request, reply, failures>>

Ok == "none"
ENOENT == "ENOENT"
ENOTDIR == "ENOTDIR"

ASSUME InjectedAreErrors == Ok \notin Injected

\* OpContext::metadata, OpContext::data and with_requested_len.
Metadata(op, ino) ==
  [op |-> op, ino |-> ino, offset |-> 0, len |-> 0, requested_len |-> 0, name |-> <<>>]
Data(op, ino, offset, len, requested) ==
  [op |-> op, ino |-> ino, offset |-> offset, len |-> len, requested_len |-> requested,
   name |-> <<>>]

Answer(value) == [errno |-> Ok, value |-> value]
Error(errno) == [errno |-> errno, value |-> <<>>]

Init ==
  /\ known = {FUSE_ROOT_INO}
  /\ dir \in {FUSE_ROOT_INO, OBJECTS_INO}
  /\ listed = <<>> /\ listing = TRUE
  /\ file = FIRST_FILE_INO /\ data = <<>> /\ reading = TRUE
  /\ request = Metadata("none", FUSE_ROOT_INO)
  /\ reply = Answer(<<>>)
  /\ failures = 0

\* run_op, seen from a handler: the result of the body, or another errno.
RunOp(ctx, body) ==
  /\ request' = ctx
  /\ \/ reply' = body /\ UNCHANGED failures
     \/ /\ failures < MaxFailures
        /\ \E errno \in Injected : reply' = Error(errno)
        /\ failures' = failures + 1

-----------------------------------------------------------------------------
\* The attributes of a file or ENOENT.
AttrOf(inos) ==
  LET found == UNION {attr(ino) : ino \in inos}
  IN  IF found = {} THEN Error(ENOENT) ELSE Answer(<<CHOOSE spec \in found : TRUE>>)

Lookup(parent, name) ==
  /\ parent \in known /\ parent < FIRST_FILE_INO
  /\ RunOp([Metadata("lookup", parent) EXCEPT !.name = name], AttrOf(lookup(parent, name)))
  /\ known' = IF reply'.errno = Ok THEN known \cup {reply'.value[1].ino} ELSE known
  /\ UNCHANGED <<scan, stream>>

GetAttr(ino) ==
  /\ ino \in known
  /\ RunOp(Metadata("getattr", ino), AttrOf({ino}))
  /\ UNCHANGED <<known, scan, stream>>

\* access answers nothing where getattr answers the attributes.
Access(ino) ==
  /\ ino \in known
  /\ RunOp(Metadata("access", ino), IF attr(ino) = {} THEN Error(ENOENT) ELSE Answer(<<>>))
  /\ UNCHANGED <<known, scan, stream>>

\* The handlers whose closure does nothing.
Simple(op, ino) ==
  /\ ino \in known
  /\ RunOp(Metadata(op, ino), Answer(<<>>))
  /\ UNCHANGED <<known, scan, stream>>

Open(ino) == Simple("open", ino)
Flush(ino) == Simple("flush", ino)
ReleaseFile(ino) == Simple("release", ino)
Fsync(ino) == Simple("fsync", ino)
Statfs(ino) == Simple("statfs", ino)

-----------------------------------------------------------------------------
\* DeterministicContent: all files have the same length; a byte is computed from
\* its inode and its offset; writes are acknowledged and dropped.
file_len(ino) == FileSizeBytes

read_at(ino, offset, len) == [i \in 1 .. len |-> <<ino, offset + i - 1>>]

write_at(ino, offset, len) == len

\* Mutant: the end of the file is not looked at.
ReadableUnclamped(ino, offset, size) == IF offset >= file_len(ino) THEN 0 ELSE size

\* Mutant: an offset after the end is not looked for.
ReadableUnchecked(ino, offset, size) == Min({file_len(ino) - offset, size})

\* The bytes of the request that the file has.
Readable(ino, offset, size) ==
  IF offset >= file_len(ino) THEN 0 ELSE Min({file_len(ino) - offset, size})

\* Mutant: the engine is told the size that was asked for.
ReadUnclampedContext(ino, offset, size) ==
  RunOp(Data("read", ino, offset, size, size),
        Answer(read_at(ino, offset, Readable(ino, offset, size))))

Read(ino, offset, size) ==
  LET readable == Readable(ino, offset, size)
  IN  RunOp(Data("read", ino, offset, readable, size),
            Answer(read_at(ino, offset, readable)))

\* The client goes on reading where it is; an empty answer is the end.
ReadOn(size) ==
  /\ file \in known /\ reading /\ size > 0
  /\ Read(file, Len(data), size)
  /\ IF reply'.errno = Ok
     THEN /\ data' = data \o reply'.value
          /\ reading' = (reply'.value # <<>>)
     ELSE UNCHANGED <<data, reading>>
  /\ UNCHANGED <<known, scan, file>>

\* A single read somewhere, beyond the end too.
ReadAt(ino, offset, size) ==
  /\ ino \in known /\ ino >= FIRST_FILE_INO
  /\ Read(ino, offset, size)
  /\ UNCHANGED <<known, scan, stream>>

Write(ino, offset, size) ==
  /\ ino \in known /\ ino >= FIRST_FILE_INO
  /\ RunOp(Data("write", ino, offset, size, size), Answer(<<write_at(ino, offset, size)>>))
  /\ UNCHANGED <<known, scan, stream>>

-----------------------------------------------------------------------------
\* The closure collects all the entries or passes the error on; the reply takes
\* the entries that fit.
Listing(ino, offset, room) ==
  LET found == readdir(ino, offset)
      entries == CHOOSE seq \in found : TRUE
  IN  IF found = {} THEN Error(ENOTDIR)
      ELSE Answer(SubSeq(entries, 1, Min({room, Len(entries)})))

ReaddirFor(ino, offset, room) ==
  RunOp(Metadata("readdir", ino), Listing(ino, offset, room))

Cookie == IF listed = <<>> THEN 0 ELSE Last(listed).off

\* The client asks for what comes after the last entry it has; no entry is the
\* end.
Readdir(room) ==
  /\ dir \in known /\ listing
  /\ ReaddirFor(dir, Cookie, room)
  /\ IF reply'.errno = Ok
     THEN /\ listed' = listed \o reply'.value
          /\ listing' = (reply'.value # <<>>)
     ELSE UNCHANGED <<listed, listing>>
  /\ UNCHANGED <<known, dir, stream>>

\* A single readdir somewhere, of a file too.
ReaddirAt(ino, offset, room) ==
  /\ ino \in known
  /\ ReaddirFor(ino, offset, room)
  /\ UNCHANGED <<known, scan, stream>>

Next ==
  \/ \E ino \in known :
       \/ \E name \in Names : Lookup(ino, name)
       \/ GetAttr(ino)
       \/ Access(ino)
       \/ Open(ino) \/ Flush(ino) \/ ReleaseFile(ino) \/ Fsync(ino) \/ Statfs(ino)
       \/ \E offset \in Offsets, size \in Lengths : ReadAt(ino, offset, size)
       \/ \E offset \in Offsets, size \in Lengths : Write(ino, offset, size)
       \/ \E offset \in Offsets, room \in Rooms : ReaddirAt(ino, offset, room)
  \/ \E size \in Lengths : ReadOn(size)
  \/ \E room \in Rooms : Readdir(room)

Spec == Init /\ [][Next]_vars

-----------------------------------------------------------------------------
(***************************************************************************)
(* Properties.                                                             *)
(***************************************************************************)

\* The variables have their types: lengths are u32 and usize, never negative.
TypeOK ==
  /\ known \subseteq Nat /\ dir \in known \cup {OBJECTS_INO} /\ file \in Nat
  /\ listing \in BOOLEAN /\ reading \in BOOLEAN
  /\ request.ino \in known /\ request.len \in Nat /\ request.requested_len \in Nat
  /\ reply.errno \in {Ok, ENOENT, ENOTDIR} \cup Injected
  /\ failures \in 0 .. MaxFailures

\* The names of a directory as its documentation lays it out.
Layout ==
  IF dir = FUSE_ROOT_INO
  THEN << <<".">>, <<".", ".">>, Objects>>
  ELSE << <<".">>, <<".", ".">> >> \o [i \in 1 .. inode_count |-> index_to_name(i - 1)]

\* However a listing is cut into replies, and whatever fails and is repeated,
\* the client gets every name of the directory once and in order, and sees the
\* end only after the last.
ScanIsExact ==
  /\ Len(listed) <= Len(Layout)
  /\ \A i \in 1 .. Len(listed) : listed[i].name = Layout[i]
  /\ ~listing => Len(listed) = Len(Layout)

Children == {listed[i] : i \in 3 .. Len(listed)}

\* A name that was listed can be looked up and leads to the inode and the kind
\* that were listed; an inode that was handed out keeps its attributes.  Only an
\* injected errno is in the way.
NamesResolve ==
  /\ \A entry \in Children :
       request.op = "lookup" /\ request.ino = dir /\ request.name = entry.name
         => \/ reply.errno \in Injected
            \/ /\ reply.errno = Ok
               /\ reply.value[1].ino = entry.ino /\ reply.value[1].kind = entry.kind
  /\ request.op \in {"getattr", "access"} => reply.errno \in {Ok} \cup Injected

\* Reading on to the end gives every byte of the file once and in order, and as
\* many as its attributes say, though other requests, writes too, come between.
ReadIsExact ==
  /\ \A i \in 1 .. Len(data) : data[i] = <<file, i - 1>>
  /\ \A spec \in attr(file) : Len(data) <= spec.size /\ (~reading => Len(data) = spec.size)

\* The engine is told the bytes that the caller gets, which it charges to the
\* bandwidth limiter, also near and after the end of the file.
ChargedAsServed ==
  request.op = "read" /\ reply.errno = Ok => request.len = Len(reply.value)
=============================================================================
