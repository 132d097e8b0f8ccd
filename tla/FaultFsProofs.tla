---------------------------- MODULE FaultFsProofs ----------------------------
(***************************************************************************)
(* The safety properties of FaultFs, for every number and size of files,    *)
(* every set of names, offsets, lengths and reply sizes, and every set of   *)
(* injected errnos.                                                        *)
(*                                                                         *)
(* The inductive invariant says what the client has: a beginning of the     *)
(* directory (Listed) and a beginning of the file (Streamed), whole once    *)
(* the client has seen the end; and what the last answer was (Answered).   *)
(* What readdir and lookup compute is proved in FlatObjectNamespaceProofs.  *)
(***************************************************************************)
EXTENDS FaultFs, FlatObjectNamespaceProofs

\* The client knows inodes of the namespace only, and the root from the start.
Typed ==
  /\ known \subseteq Inodes /\ FUSE_ROOT_INO \in known
  /\ dir \in Dirs /\ file = FIRST_FILE_INO
  /\ listing \in BOOLEAN /\ reading \in BOOLEAN
  /\ failures \in 0 .. MaxFailures

\* What the client has of the directory is a beginning of it.
Listed ==
  \E n \in 0 .. Size(dir) : listed = Slice(dir, 0, n) /\ (~listing => n = Size(dir))

\* What the client has of the file is a beginning of it.
Streamed ==
  \E n \in 0 .. FileSizeBytes : data = read_at(file, 0, n) /\ (~reading => n = FileSizeBytes)

\* What was asked last and how it was answered.
Answered ==
  /\ request.ino \in known /\ request.len \in Nat /\ request.requested_len \in Nat
  /\ reply.errno \in {Ok, ENOENT, ENOTDIR} \cup Injected
  /\ request.op = "read" /\ reply.errno = Ok => request.len = Len(reply.value)
  /\ request.op \in {"getattr", "access"} => reply.errno \in {Ok} \cup Injected
  /\ request.op = "lookup"
       => reply.errno \in Injected \/ reply = AttrOf(lookup(request.ino, request.name))

IInv == Typed /\ Listed /\ Streamed /\ Answered

-----------------------------------------------------------------------------
\* The fields of an answer, an error and a context.
LEMMA Fields ==
  /\ \A v : Answer(v).errno = Ok /\ Answer(v).value = v
  /\ \A e : Error(e).errno = e
  /\ \A op, ino : Metadata(op, ino).op = op /\ Metadata(op, ino).ino = ino
                  /\ Metadata(op, ino).len = 0 /\ Metadata(op, ino).requested_len = 0
  /\ \A op, ino, name : LET c == [Metadata(op, ino) EXCEPT !.name = name]
                        IN  c.op = op /\ c.ino = ino /\ c.len = 0 /\ c.requested_len = 0
                            /\ c.name = name
  /\ \A op, ino, offset, len, size :
       LET c == Data(op, ino, offset, len, size)
       IN  c.op = op /\ c.ino = ino /\ c.len = len /\ c.requested_len = size
BY DEF Answer, Error, Metadata, Data

\* Errors of a closure, injected errnos and success are told apart.
LEMMA ErrorsDiffer == ENOENT # Ok /\ ENOTDIR # Ok /\ \A e \in Injected : e # Ok
BY InjectedAreErrors DEF ENOENT, ENOTDIR, Ok

\* AttrOf answers with the attributes of an inode that was found.
LEMMA AttrOfAnswers ==
  ASSUME NEW inos \in SUBSET Inodes
  PROVE  /\ AttrOf(inos).errno \in {Ok, ENOENT}
         /\ AttrOf(inos).errno = Ok => AttrOf(inos).value[1].ino \in Inodes
<1> DEFINE found == UNION {attr(ino) : ino \in inos}
           spec == CHOOSE s \in found : TRUE
<1>1. CASE found = {}
  <2>1. AttrOf(inos) = Error(ENOENT)
    BY <1>1 DEF AttrOf
  <2> QED BY <2>1, Fields, ErrorsDiffer
<1>2. CASE found # {}
  <2>1. AttrOf(inos) = Answer(<<spec>>) /\ spec \in found
    BY <1>2 DEF AttrOf
  <2>2. PICK ino \in inos : spec \in attr(ino)
    BY <2>1
  <2>3. spec.ino = ino
    BY <2>2, AttrOfInode DEF dir_attr, file_attr
  <2> HIDE DEF spec, found
  <2> QED BY <2>1, <2>2, <2>3, Fields
<1> QED BY <1>1, <1>2

\* AttrOf of one inode answers with its attributes.
LEMMA AttrOfOne ==
  ASSUME NEW ino \in Inodes
  PROVE  \E spec \in attr(ino) : AttrOf({ino}) = Answer(<<spec>>)
<1>1. UNION {attr(i) : i \in {ino}} = attr(ino) /\ attr(ino) # {}
  BY AttrOfInode
<1> QED BY <1>1 DEF AttrOf

\* The length of a read is never negative and never leaves the file.
LEMMA ReadableBounds ==
  ASSUME NEW ino, NEW offset \in Nat, NEW size \in Nat
  PROVE  /\ Readable(ino, offset, size) \in Nat
         /\ offset <= FileSizeBytes => offset + Readable(ino, offset, size) <= FileSizeBytes
         /\ Readable(ino, offset, size) = 0 => size = 0 \/ offset >= FileSizeBytes
<1>1. FileSizeBytes \in Nat
  BY FilesConfigValid
<1>2. CASE offset >= FileSizeBytes
  BY <1>1, <1>2 DEF Readable, file_len
<1>3. CASE ~(offset >= FileSizeBytes)
  <2> DEFINE a == FileSizeBytes - offset
             b == size
  <2>1. a \in Nat /\ a # 0 /\ a \in Int /\ b \in Int /\ offset + a = FileSizeBytes
    BY <1>1, <1>3
  <2>2. Readable(ino, offset, size) = Min({a, b})
    BY <1>3 DEF Readable, file_len
  <2> HIDE DEF a
  <2>3. Min({a, b}) = IF a <= b THEN a ELSE b
    BY <2>1, MinOfTwo
  <2> QED BY <1>1, <2>1, <2>2, <2>3
<1> QED BY <1>2, <1>3

\* A read answers a sequence of as many bytes as were read.
LEMMA ReadAtIsSeq ==
  ASSUME NEW ino, NEW k \in Nat, NEW n \in Nat,
         NEW S, \A i \in 1 .. n : <<ino, k + i - 1>> \in S
  PROVE  /\ read_at(ino, k, n) \in Seq(S)
         /\ Len(read_at(ino, k, n)) = n
         /\ \A i \in 1 .. n : read_at(ino, k, n)[i] = <<ino, k + i - 1>>
<1>1. read_at(ino, k, n) \in [1 .. n -> S]
  BY DEF read_at
<1>2. read_at(ino, k, n) \in Seq(S)
  BY <1>1, SeqDef
<1> QED BY <1>1, <1>2 DEF read_at

\* Reads that follow each other give what one read would.
LEMMA ReadsConcat ==
  ASSUME NEW ino, NEW k \in Nat, NEW n \in Nat
  PROVE  read_at(ino, 0, k) \o read_at(ino, k, n) = read_at(ino, 0, k + n)
<1> DEFINE S == {<<ino, j>> : j \in Nat}
           s == read_at(ino, 0, k)
           t == read_at(ino, k, n)
           u == read_at(ino, 0, k + n)
<1>0. ASSUME NEW l \in Nat, NEW m \in Nat PROVE \A i \in 1 .. m : <<ino, l + i - 1>> \in S
  OBVIOUS
<1> HIDE DEF S
<1>1. 0 \in Nat /\ k + n \in Nat
  OBVIOUS
<1>2. s \in Seq(S) /\ Len(s) = k /\ \A i \in 1 .. k : s[i] = <<ino, 0 + i - 1>>
  BY <1>0, <1>1, ReadAtIsSeq
<1>3. t \in Seq(S) /\ Len(t) = n /\ \A i \in 1 .. n : t[i] = <<ino, k + i - 1>>
  BY <1>0, ReadAtIsSeq
<1>4. u \in Seq(S) /\ Len(u) = k + n /\ \A i \in 1 .. k + n : u[i] = <<ino, 0 + i - 1>>
  BY <1>0, <1>1, ReadAtIsSeq
<1>5. SUFFICES s \o t = u
  OBVIOUS
<1> HIDE DEF s, t, u
<1>6. s \o t \in Seq(S) /\ Len(s \o t) = Len(s) + Len(t)
      /\ \A i \in 1 .. Len(s) + Len(t) : (s \o t)[i] = IF i <= Len(s) THEN s[i] ELSE t[i - Len(s)]
  BY <1>2, <1>3, ConcatProperties
<1>7. Len(s \o t) = Len(u) /\ Len(s) + Len(t) = k + n
  BY <1>2, <1>3, <1>4, <1>6
<1>8. ASSUME NEW i \in 1 .. Len(s \o t) PROVE (s \o t)[i] = u[i]
  <2>1. i \in 1 .. k + n
    BY <1>6, <1>7
  <2>2. CASE i <= k
    <3>1. (s \o t)[i] = s[i]
      BY <1>2, <1>3, <1>6, <2>1, <2>2
    <3>2. i \in 1 .. k
      BY <2>1, <2>2
    <3> QED BY <1>2, <1>4, <2>1, <3>1, <3>2
  <2>3. CASE ~(i <= k)
    <3>1. i - k \in 1 .. n /\ k + (i - k) - 1 = 0 + i - 1
      BY <2>1, <2>3
    <3>2. (s \o t)[i] = t[i - k]
      BY <1>2, <1>3, <1>6, <2>1, <2>3
    <3>3. t[i - k] = <<ino, k + (i - k) - 1>>
      BY <1>3, <3>1
    <3> QED BY <1>4, <2>1, <3>1, <3>2, <3>3
  <2> QED BY <2>2, <2>3
<1> QED BY <1>4, <1>6, <1>7, <1>8, SeqEqual

-----------------------------------------------------------------------------
(***************************************************************************)
(* The invariant holds at the start.                                       *)
(***************************************************************************)

\* The client starts with nothing.
LEMMA InitIInv == Init => IInv
<1> SUFFICES ASSUME Init PROVE IInv
  OBVIOUS
<1>1. Typed
  BY MaxFailuresIsNat DEF Init, Typed, Inodes, Dirs
<1>2. Listed
  <2>1. dir \in Dirs /\ Size(dir) \in Nat
    BY CountBounds DEF Init, Dirs, Size
  <2>2. listed = Slice(dir, 0, 0)
    BY SliceNone DEF Init
  <2> QED BY <2>1, <2>2 DEF Init, Listed
<1>3. Streamed
  <2>1. data = read_at(file, 0, 0)
    BY DEF Init, read_at
  <2> QED BY <2>1, FilesConfigValid DEF Init, Streamed
<1>4. Answered
  <2>1. request = Metadata("none", FUSE_ROOT_INO) /\ reply = Answer(<<>>)
        /\ known = {FUSE_ROOT_INO}
    BY DEF Init
  <2>2. request.op = "none" /\ request.ino = FUSE_ROOT_INO /\ request.len = 0
        /\ request.requested_len = 0 /\ reply.errno = Ok
    BY <2>1, Fields
  <2> QED BY <2>1, <2>2 DEF Answered
<1> QED BY <1>1, <1>2, <1>3, <1>4 DEF IInv

-----------------------------------------------------------------------------
(***************************************************************************)
(* Every step keeps it.                                                    *)
(***************************************************************************)

\* A request is answered by its closure's result or by an injected errno.
LEMMA RunOpAnswers ==
  ASSUME NEW ctx, NEW body, failures \in 0 .. MaxFailures, RunOp(ctx, body)
  PROVE  /\ request' = ctx
         /\ reply' = body \/ \E e \in Injected : reply' = Error(e)
         /\ failures' \in 0 .. MaxFailures
BY MaxFailuresIsNat DEF RunOp

\* A request that does not touch the directory listing keeps what it has listed.
LEMMA ScanKept ==
  ASSUME Listed, UNCHANGED scan
  PROVE  Listed'
BY DEF Listed, scan

\* Nor does one that does not touch the file being read spoil what was read.
LEMMA StreamKept ==
  ASSUME Streamed, UNCHANGED stream
  PROVE  Streamed'
BY DEF Streamed, stream

\* lookup makes an inode of the namespace known, and answers from the namespace.
LEMMA LookupKeeps ==
  ASSUME IInv, NEW parent \in known, NEW name \in Names, Lookup(parent, name)
  PROVE  IInv'
<1> DEFINE ctx == [Metadata("lookup", parent) EXCEPT !.name = name]
           inos == lookup(parent, name)
<1>1. ctx.op = "lookup" /\ ctx.ino = parent /\ ctx.len = 0 /\ ctx.requested_len = 0
      /\ ctx.name = name
  BY Fields
<1>2. inos \in SUBSET Inodes
  BY LookupInode
<1>3. RunOp(ctx, AttrOf(inos)) /\ UNCHANGED <<scan, stream>>
      /\ known' = IF reply'.errno = Ok THEN known \cup {reply'.value[1].ino} ELSE known
  BY DEF Lookup
<1> HIDE DEF ctx, inos
<1>4. failures \in 0 .. MaxFailures
  BY DEF IInv, Typed
<1>5. /\ request' = ctx
      /\ reply' = AttrOf(inos) \/ \E e \in Injected : reply' = Error(e)
      /\ failures' \in 0 .. MaxFailures
  BY <1>3, <1>4, RunOpAnswers
<1>6. reply' = AttrOf(inos) \/ reply'.errno \in Injected
  BY <1>5, Fields
<1>7. /\ reply'.errno \in {Ok, ENOENT} \cup Injected
      /\ reply'.errno = Ok => reply'.value[1].ino \in Inodes
  BY <1>2, <1>6, AttrOfAnswers, ErrorsDiffer
<1>8. known' \subseteq Inodes /\ known \subseteq known'
  BY <1>3, <1>7 DEF IInv, Typed
<1>9. Typed'
  BY <1>3, <1>5, <1>8 DEF IInv, Typed, scan, stream
<1>10. Answered'
  <2>1. request'.op = "lookup" /\ request'.ino = parent /\ request'.len = 0
        /\ request'.requested_len = 0 /\ request'.name = name
    BY <1>1, <1>5
  <2>2. request'.ino \in known'
    BY <1>8, <2>1
  <2>3. reply'.errno \in Injected \/ reply' = AttrOf(lookup(request'.ino, request'.name))
    BY <1>6, <2>1 DEF inos
  <2> QED BY <1>7, <2>1, <2>2, <2>3 DEF Answered
<1> QED BY <1>3, <1>9, <1>10, ScanKept, StreamKept DEF IInv

\* A request other than lookup that leaves the client's listing and reading alone
\* keeps the invariant if its answer is as Answered says.
LEMMA RequestKeeps ==
  ASSUME IInv, NEW ctx, NEW body, RunOp(ctx, body), UNCHANGED <<known, scan, stream>>,
         ctx.ino \in known, ctx.len \in Nat, ctx.requested_len \in Nat,
         ctx.op # "lookup", body.errno = Ok \/ (ctx.op = "readdir" /\ body.errno = ENOTDIR),
         ctx.op = "read" => ctx.len = Len(body.value)
  PROVE  IInv'
<1>1. failures \in 0 .. MaxFailures
  BY DEF IInv, Typed
<1>2. /\ request' = ctx
      /\ reply' = body \/ \E e \in Injected : reply' = Error(e)
      /\ failures' \in 0 .. MaxFailures
  BY <1>1, RunOpAnswers
<1>3. reply' = body \/ reply'.errno \in Injected
  BY <1>2, Fields
<1>4. Typed'
  BY <1>2 DEF IInv, Typed, scan, stream
<1>5. Answered'
  BY <1>2, <1>3, ErrorsDiffer DEF Answered
<1> QED BY <1>4, <1>5, ScanKept, StreamKept DEF IInv

\* getattr and access find the attributes of every inode that is known.
LEMMA AttrKeeps ==
  ASSUME IInv, NEW ino \in known, GetAttr(ino) \/ Access(ino)
  PROVE  IInv'
<1>1. ino \in Inodes
  BY DEF IInv, Typed
<1>2. CASE GetAttr(ino)
  <2> DEFINE ctx == Metadata("getattr", ino)
             body == AttrOf({ino})
  <2>1. ctx.op = "getattr" /\ ctx.ino = ino /\ ctx.len = 0 /\ ctx.requested_len = 0
    BY Fields
  <2>2. body.errno = Ok
    <3>1. PICK spec \in attr(ino) : body = Answer(<<spec>>)
      BY <1>1, AttrOfOne
    <3> HIDE DEF body
    <3> QED BY <3>1, Fields
  <2>3. RunOp(ctx, body) /\ UNCHANGED <<known, scan, stream>>
    BY <1>2 DEF GetAttr
  <2> HIDE DEF ctx, body
  <2> QED BY <2>1, <2>2, <2>3, RequestKeeps
<1>3. CASE Access(ino)
  <2> DEFINE ctx == Metadata("access", ino)
             body == IF attr(ino) = {} THEN Error(ENOENT) ELSE Answer(<<>>)
  <2>1. ctx.op = "access" /\ ctx.ino = ino /\ ctx.len = 0 /\ ctx.requested_len = 0
    BY Fields
  <2>2. body.errno = Ok
    <3>1. attr(ino) # {}
      BY <1>1, AttrOfInode
    <3>2. body = Answer(<<>>)
      BY <3>1
    <3> HIDE DEF body
    <3> QED BY <3>2, Fields
  <2>3. RunOp(ctx, body) /\ UNCHANGED <<known, scan, stream>>
    BY <1>3 DEF Access
  <2> HIDE DEF ctx, body
  <2> QED BY <2>1, <2>2, <2>3, RequestKeeps
<1> QED BY <1>2, <1>3

\* So do the handlers whose closure does nothing.
LEMMA SimpleKeeps ==
  ASSUME IInv, NEW ino \in known,
         NEW op \in {"open", "flush", "release", "fsync", "statfs"}, Simple(op, ino)
  PROVE  IInv'
<1> DEFINE ctx == Metadata(op, ino)
           body == Answer(<<>>)
<1>1. ctx.op = op /\ ctx.ino = ino /\ ctx.len = 0 /\ ctx.requested_len = 0
  BY Fields
<1>2. body.errno = Ok
  BY Fields
<1>3. RunOp(ctx, body) /\ UNCHANGED <<known, scan, stream>>
  BY DEF Simple
<1> HIDE DEF ctx, body
<1> QED BY <1>1, <1>2, <1>3, RequestKeeps

\* A read is charged what it answers.
LEMMA ReadCharged ==
  ASSUME NEW ino, NEW offset \in Nat, NEW size \in Nat
  PROVE  /\ Readable(ino, offset, size) \in Nat
         /\ Len(read_at(ino, offset, Readable(ino, offset, size))) = Readable(ino, offset, size)
<1> DEFINE n == Readable(ino, offset, size)
           S == {<<ino, offset + i - 1>> : i \in 1 .. n}
<1>1. n \in Nat
  BY ReadableBounds
<1>2. \A i \in 1 .. n : <<ino, offset + i - 1>> \in S
  OBVIOUS
<1> HIDE DEF n, S
<1>3. Len(read_at(ino, offset, n)) = n
  BY <1>1, <1>2, ReadAtIsSeq
<1> QED BY <1>1, <1>3 DEF n

\* A single read, and a write, which changes nothing.
LEMMA ReadAtKeeps ==
  ASSUME IInv, NEW ino \in known, NEW offset \in Offsets, NEW size \in Lengths,
         ReadAt(ino, offset, size)
  PROVE  IInv'
<1> DEFINE n == Readable(ino, offset, size)
           ctx == Data("read", ino, offset, n, size)
           body == Answer(read_at(ino, offset, n))
<1>1. offset \in Nat /\ size \in Nat
  BY LengthsAreNat
<1>2. n \in Nat /\ Len(read_at(ino, offset, n)) = n
  BY <1>1, ReadCharged
<1>3. ctx.op = "read" /\ ctx.ino = ino /\ ctx.len = n /\ ctx.requested_len = size
  BY Fields
<1>4. body.errno = Ok /\ body.value = read_at(ino, offset, n)
  BY Fields
<1>5. RunOp(ctx, body) /\ UNCHANGED <<known, scan, stream>>
  BY DEF ReadAt, Read
<1> HIDE DEF ctx, body, n
<1> QED BY <1>1, <1>2, <1>3, <1>4, <1>5, RequestKeeps

\* A write stores nothing and touches neither the listing nor the file read.
LEMMA WriteKeeps ==
  ASSUME IInv, NEW ino \in known, NEW offset \in Offsets, NEW size \in Lengths,
         Write(ino, offset, size)
  PROVE  IInv'
<1> DEFINE ctx == Data("write", ino, offset, size, size)
           body == Answer(<<write_at(ino, offset, size)>>)
<1>1. size \in Nat
  BY LengthsAreNat
<1>2. ctx.op = "write" /\ ctx.ino = ino /\ ctx.len = size /\ ctx.requested_len = size
  BY Fields
<1>3. body.errno = Ok
  BY Fields
<1>4. RunOp(ctx, body) /\ UNCHANGED <<known, scan, stream>>
  BY DEF Write
<1> HIDE DEF ctx, body
<1> QED BY <1>1, <1>2, <1>3, <1>4, RequestKeeps

\* Reading on lengthens the beginning of the file by what follows it, and comes
\* to an end only at the end of the file.
LEMMA ReadOnKeeps ==
  ASSUME IInv, NEW size \in Lengths, ReadOn(size)
  PROVE  IInv'
<1> DEFINE k == Len(data)
           n == Readable(file, k, size)
           ctx == Data("read", file, k, n, size)
           body == Answer(read_at(file, k, n))
<1>1. PICK l \in 0 .. FileSizeBytes : data = read_at(file, 0, l)
                                      /\ (~reading => l = FileSizeBytes)
  BY DEF IInv, Streamed
<1>2. FileSizeBytes \in Nat /\ l \in Nat /\ l <= FileSizeBytes /\ size \in Nat /\ size > 0
      /\ file \in known
  BY FilesConfigValid, LengthsAreNat DEF ReadOn
<1>3. k = l
  <2> DEFINE S == {<<file, 0 + i - 1>> : i \in 1 .. l}
  <2>1. \A i \in 1 .. l : <<file, 0 + i - 1>> \in S
    OBVIOUS
  <2> HIDE DEF S
  <2>2. Len(read_at(file, 0, l)) = l
    BY <1>2, <2>1, ReadAtIsSeq
  <2> QED BY <1>1, <2>2
<1>4. RunOp(ctx, body) /\ UNCHANGED <<known, scan, file>>
      /\ IF reply'.errno = Ok
         THEN data' = data \o reply'.value /\ reading' = (reply'.value # <<>>)
         ELSE UNCHANGED <<data, reading>>
  BY DEF ReadOn, Read
<1>5. k \in Nat
  BY <1>2, <1>3
<1>6. /\ n \in Nat /\ k + n <= FileSizeBytes /\ (n = 0 => k = FileSizeBytes)
      /\ Len(read_at(file, k, n)) = n
  <2>1. n \in Nat /\ Len(read_at(file, k, n)) = n
    BY <1>2, <1>5, ReadCharged
  <2>2. /\ k <= FileSizeBytes => k + n <= FileSizeBytes
        /\ n = 0 => size = 0 \/ k >= FileSizeBytes
    BY <1>2, <1>5, ReadableBounds
  <2> HIDE DEF n, k
  <2> QED BY <1>2, <1>3, <2>1, <2>2
<1>7. ctx.op = "read" /\ ctx.ino = file /\ ctx.len = n /\ ctx.requested_len = size
  BY Fields
<1>8. body.errno = Ok /\ body.value = read_at(file, k, n)
  BY Fields
<1>9. failures \in 0 .. MaxFailures
  BY DEF IInv, Typed
<1> HIDE DEF ctx, body, n, k
<1>10. /\ request' = ctx
       /\ reply' = body \/ \E e \in Injected : reply' = Error(e)
       /\ failures' \in 0 .. MaxFailures
  BY <1>4, <1>9, RunOpAnswers
<1>11. reply' = body \/ reply'.errno \in Injected
  BY <1>10, Fields
<1>12. Typed'
  <2>1. reading' \in BOOLEAN
    BY <1>4 DEF IInv, Typed
  <2> QED BY <1>4, <1>10, <2>1 DEF IInv, Typed, scan
<1>13. Answered'
  BY <1>2, <1>4, <1>6, <1>7, <1>8, <1>10, <1>11, ErrorsDiffer DEF Answered
<1>14. Streamed'
  <2>1. CASE reply' = body
    <3>1. data' = data \o read_at(file, k, n) /\ reading' = (read_at(file, k, n) # <<>>)
      BY <1>4, <1>8, <2>1
    <3>2. data' = read_at(file, 0, k + n)
      BY <1>1, <1>3, <1>5, <1>6, <3>1, ReadsConcat
    <3>3. ~reading' => n = 0
      <4>1. Len(<<>>) = 0
        OBVIOUS
      <4> QED BY <1>6, <3>1, <4>1
    <3>4. k + n \in 0 .. FileSizeBytes /\ (n = 0 => k + n = FileSizeBytes) /\ file' = file
      BY <1>2, <1>4, <1>5, <1>6
    <3> QED BY <3>2, <3>3, <3>4 DEF Streamed
  <2>2. CASE reply'.errno \in Injected
    <3>1. reply'.errno # Ok
      BY <2>2, ErrorsDiffer
    <3>2. UNCHANGED <<file, data, reading>>
      BY <1>4, <3>1
    <3> QED BY <3>2 DEF Streamed, IInv
  <2> QED BY <1>11, <2>1, <2>2
<1> QED BY <1>4, <1>12, <1>13, <1>14, ScanKept DEF IInv

\* A reply's prefix of what is left of a directory is a slice of it.
LEMMA SlicePrefix ==
  ASSUME NEW d, NEW k \in Nat, NEW l \in Nat, NEW m \in Nat, k <= l, l <= m
  PROVE  SubSeq(Slice(d, k, m), 1, l - k) = Slice(d, k, l)
<1> DEFINE S == {EntryAt(d, i) : i \in k + 1 .. m}
           s == Slice(d, k, m)
           t == Slice(d, k, l)
           u == SubSeq(s, 1, l - k)
<1>1. /\ \A i \in k + 1 .. l : EntryAt(d, i) \in S
      /\ \A i \in k + 1 .. m : EntryAt(d, i) \in S
  OBVIOUS
<1> HIDE DEF S
<1>2. k <= m
  OBVIOUS
<1>3. s \in Seq(S) /\ Len(s) = m - k /\ \A i \in 1 .. m - k : s[i] = EntryAt(d, k + i)
  BY <1>1, <1>2, SliceIsSeq
<1>4. t \in Seq(S) /\ Len(t) = l - k /\ \A i \in 1 .. l - k : t[i] = EntryAt(d, k + i)
  BY <1>1, SliceIsSeq
<1>5. SUFFICES u = t
  OBVIOUS
<1> HIDE DEF s, t
<1>6. \A i \in 1 .. l - k : i \in 1 .. m - k /\ s[i] \in S
  BY <1>3, ElementOfSeq
<1>7. /\ u \in Seq(S)
      /\ Len(u) = IF 1 <= l - k THEN (l - k) - 1 + 1 ELSE 0
      /\ \A i \in 1 .. (l - k) - 1 + 1 : u[i] = s[1 + i - 1]
  BY <1>6, SubSeqProperties
<1> HIDE DEF u
<1>8. Len(u) = Len(t)
  BY <1>4, <1>7
<1>9. ASSUME NEW i \in 1 .. Len(u) PROVE u[i] = t[i]
  <2>1. i \in 1 .. l - k /\ i \in 1 .. (l - k) - 1 + 1 /\ 1 + i - 1 = i
    BY <1>4, <1>8
  <2>2. u[i] = s[i]
    BY <1>7, <2>1
  <2> QED BY <1>3, <1>4, <1>6, <2>1, <2>2
<1> QED BY <1>4, <1>7, <1>8, <1>9, SeqEqual

\* The cookie of the client is the number of entries it has.
LEMMA CookieCounts ==
  ASSUME dir \in Dirs, NEW k \in 0 .. Size(dir), listed = Slice(dir, 0, k)
  PROVE  Cookie = k
<1>1. k \in Nat /\ Size(dir) \in Nat
  BY CountBounds DEF Size
<1> DEFINE S == {EntryAt(dir, i) : i \in 1 .. k}
<1>2. \A i \in 0 + 1 .. k : EntryAt(dir, i) \in S
  OBVIOUS
<1> HIDE DEF S
<1>3. Len(listed) = k /\ \A i \in 1 .. k : listed[i] = EntryAt(dir, i)
  <2>1. 0 \in Nat /\ 0 <= k /\ k - 0 = k
    BY <1>1
  <2>2. Len(listed) = k - 0 /\ \A i \in 1 .. k - 0 : listed[i] = EntryAt(dir, 0 + i)
    BY <1>1, <1>2, <2>1, SliceIsSeq
  <2> QED BY <2>1, <2>2
<1>4. CASE k = 0
  <2>1. listed = <<>>
    BY <1>4, SliceNone
  <2> QED BY <1>4, <2>1 DEF Cookie
<1>5. CASE k # 0
  <2>1. listed # <<>>
    <3>1. Len(<<>>) = 0
      OBVIOUS
    <3> QED BY <1>3, <1>5, <3>1
  <2>2. Last(listed) = EntryAt(dir, k) /\ k \in 1 .. Size(dir)
    BY <1>1, <1>3, <1>5 DEF Last
  <2>3. EntryAt(dir, k).off = k
    BY <2>2, EntryCookie
  <2> QED BY <2>1, <2>2, <2>3 DEF Cookie
<1> QED BY <1>4, <1>5

\* readdir lengthens the beginning of the directory by what follows it, and
\* comes to an end only after its last entry: a reply has room for one at least.
LEMMA ReaddirKeeps ==
  ASSUME IInv, NEW room \in Rooms, Readdir(room)
  PROVE  IInv'
<1> DEFINE z == Size(dir)
<1>1. PICK k \in 0 .. z : listed = Slice(dir, 0, k) /\ (~listing => k = z)
  BY DEF IInv, Listed
<1>2. dir \in Dirs /\ dir \in known /\ failures \in 0 .. MaxFailures
  BY DEF IInv, Typed, Readdir
<1>3. z \in Nat /\ k \in Nat /\ k <= z
  BY CountBounds DEF Size
<1>4. room \in Nat /\ room # 0
  BY RoomForOne
<1> DEFINE entries == Slice(dir, k, z)
           a == room
           b == Len(entries)
           n == Min({a, b})
           ctx == Metadata("readdir", dir)
           part == SubSeq(entries, 1, n)
           body == Answer(part)
<1>5. Listing(dir, Cookie, room) = body
  <2>1. Cookie = k
    BY <1>1, <1>2, CookieCounts
  <2>2. readdir(dir, Cookie) = {entries}
    BY <1>2, <2>1, ReaddirFrom
  <2> HIDE DEF entries
  <2>3. {entries} # {} /\ (CHOOSE seq \in {entries} : TRUE) = entries
    OBVIOUS
  <2> QED BY <2>2, <2>3 DEF Listing
<1>6. RunOp(ctx, body) /\ UNCHANGED <<known, dir, stream>>
      /\ IF reply'.errno = Ok
         THEN listed' = listed \o reply'.value /\ listing' = (reply'.value # <<>>)
         ELSE UNCHANGED <<listed, listing>>
  BY <1>5 DEF Readdir, ReaddirFor
<1>7. b = z - k
  <2> DEFINE S == {EntryAt(dir, i) : i \in k + 1 .. z}
  <2>1. \A i \in k + 1 .. z : EntryAt(dir, i) \in S
    OBVIOUS
  <2> HIDE DEF S, z
  <2>2. Len(Slice(dir, k, z)) = z - k
    BY <1>3, <2>1, SliceIsSeq
  <2> QED BY <2>2 DEF z
<1>8. n \in Nat /\ k + n <= z /\ (n = 0 => k = z)
  <2>1. b \in Nat /\ a \in Int /\ b \in Int
    BY <1>3, <1>4, <1>7
  <2> HIDE DEF b, a
  <2>2. n = IF a <= b THEN a ELSE b
    BY <2>1, MinOfTwo
  <2> HIDE DEF n
  <2> QED BY <1>3, <1>4, <1>7, <2>1, <2>2 DEF a
<1> DEFINE l == k + n
<1>9. l \in Nat /\ k <= l /\ l <= z /\ l - k = n
  BY <1>3, <1>8
<1>10. part = Slice(dir, k, l)
  <2> HIDE DEF l, n, z
  <2>1. SubSeq(Slice(dir, k, z), 1, l - k) = Slice(dir, k, l)
    BY <1>3, <1>9, SlicePrefix
  <2> QED BY <1>9, <2>1
<1>11. Len(part) = n
  <2> DEFINE S == {EntryAt(dir, i) : i \in k + 1 .. l}
  <2>1. \A i \in k + 1 .. l : EntryAt(dir, i) \in S
    OBVIOUS
  <2> HIDE DEF S, l, part
  <2>2. Len(Slice(dir, k, l)) = l - k
    BY <1>3, <1>9, <2>1, SliceIsSeq
  <2> QED BY <1>9, <1>10, <2>2
<1>12. ctx.op = "readdir" /\ ctx.ino = dir /\ ctx.len = 0 /\ ctx.requested_len = 0
  BY Fields
<1>13. body.errno = Ok /\ body.value = part
  BY Fields
<1> HIDE DEF part, ctx, body, n, l, a, b, entries
<1>14. /\ request' = ctx
       /\ reply' = body \/ \E e \in Injected : reply' = Error(e)
       /\ failures' \in 0 .. MaxFailures
  BY <1>2, <1>6, RunOpAnswers
<1>15. reply' = body \/ reply'.errno \in Injected
  BY <1>14, Fields
<1>16. Typed'
  <2>1. listing' \in BOOLEAN
    BY <1>6 DEF IInv, Typed
  <2> QED BY <1>6, <1>14, <2>1 DEF IInv, Typed, stream
<1>17. Answered'
  BY <1>2, <1>6, <1>12, <1>13, <1>14, <1>15, ErrorsDiffer DEF Answered
<1>18. Listed'
  <2>1. CASE reply' = body
    <3>1. listed' = listed \o part /\ listing' = (part # <<>>) /\ dir' = dir
      BY <1>6, <1>13, <2>1
    <3>2. Slice(dir, 0, k) \o Slice(dir, k, l) = Slice(dir, 0, l)
      <4>1. 0 \in Nat /\ 0 <= k
        BY <1>3
      <4> QED BY <1>3, <1>9, <4>1, SliceConcat, Zenon
    <3>3. listed' = Slice(dir', 0, l)
      BY <1>1, <1>10, <3>1, <3>2
    <3>4. ~listing' => l = Size(dir')
      <4>1. Len(<<>>) = 0
        OBVIOUS
      <4>2. ~listing' => n = 0
        BY <1>11, <3>1, <4>1
      <4> QED BY <1>3, <1>8, <1>9, <3>1, <4>2
    <3>5. l \in 0 .. Size(dir')
      BY <1>3, <1>9, <3>1
    <3> HIDE DEF z
    <3> QED BY <3>3, <3>4, <3>5 DEF Listed
  <2>2. CASE reply'.errno \in Injected
    <3>1. reply'.errno # Ok
      BY <2>2, ErrorsDiffer
    <3>2. UNCHANGED scan
      BY <1>6, <3>1 DEF scan
    <3> QED BY <3>2, ScanKept DEF IInv
  <2> QED BY <1>15, <2>1, <2>2
<1> QED BY <1>6, <1>16, <1>17, <1>18, StreamKept DEF IInv

\* A single readdir answers entries, or that its inode is no directory.
LEMMA ReaddirAtKeeps ==
  ASSUME IInv, NEW ino \in known, NEW offset \in Offsets, NEW room \in Rooms,
         ReaddirAt(ino, offset, room)
  PROVE  IInv'
<1> DEFINE ctx == Metadata("readdir", ino)
           body == Listing(ino, offset, room)
<1>1. ctx.op = "readdir" /\ ctx.ino = ino /\ ctx.len = 0 /\ ctx.requested_len = 0
  BY Fields
<1>2. body.errno = Ok \/ body.errno = ENOTDIR
  BY Fields DEF Listing
<1>3. RunOp(ctx, body) /\ UNCHANGED <<known, scan, stream>>
  BY DEF ReaddirAt, ReaddirFor
<1> HIDE DEF ctx, body
<1> QED BY <1>1, <1>2, <1>3, RequestKeeps

\* Every step keeps the invariant.
LEMMA NextKeeps ==
  ASSUME IInv, [Next]_vars
  PROVE  IInv'
<1>1. CASE UNCHANGED vars
  <2>1. UNCHANGED scan /\ UNCHANGED stream /\ Typed' /\ Answered'
    BY <1>1 DEF vars, scan, stream, IInv, Typed, Answered
  <2> QED BY <2>1, ScanKept, StreamKept DEF IInv
<1>2. ASSUME NEW ino \in known, NEW name \in Names, Lookup(ino, name) PROVE IInv'
  BY <1>2, LookupKeeps
<1>3. ASSUME NEW ino \in known, GetAttr(ino) \/ Access(ino) PROVE IInv'
  BY <1>3, AttrKeeps
<1>4. ASSUME NEW ino \in known,
             Open(ino) \/ Flush(ino) \/ ReleaseFile(ino) \/ Fsync(ino) \/ Statfs(ino)
      PROVE  IInv'
  BY <1>4, SimpleKeeps DEF Open, Flush, ReleaseFile, Fsync, Statfs
<1>5. ASSUME NEW ino \in known, NEW offset \in Offsets, NEW size \in Lengths,
             ReadAt(ino, offset, size) \/ Write(ino, offset, size)
      PROVE  IInv'
  BY <1>5, ReadAtKeeps, WriteKeeps
<1>6. ASSUME NEW size \in Lengths, ReadOn(size) PROVE IInv'
  BY <1>6, ReadOnKeeps
<1>7. ASSUME NEW room \in Rooms, Readdir(room) PROVE IInv'
  BY <1>7, ReaddirKeeps
<1>8. ASSUME NEW ino \in known, NEW offset \in Offsets, NEW room \in Rooms,
             ReaddirAt(ino, offset, room)
      PROVE  IInv'
  BY <1>8, ReaddirAtKeeps
<1> QED BY <1>1, <1>2, <1>3, <1>4, <1>5, <1>6, <1>7, <1>8 DEF Next

\* The inductive invariant holds in every reachable state.
THEOREM Invariance == Spec => []IInv
<1>1. IInv /\ [Next]_vars => IInv'
  BY NextKeeps
<1> QED BY <1>1, InitIInv, PTL DEF Spec

-----------------------------------------------------------------------------
(***************************************************************************)
(* What follows from it.                                                   *)
(***************************************************************************)

\* The variables have their types: in particular no length is negative, whatever
\* offset and size a read asks for.
THEOREM TypesCorrect == Spec => []TypeOK
<1>1. IInv => TypeOK
  <2> SUFFICES ASSUME IInv PROVE TypeOK
    OBVIOUS
  <2>1. Inodes \subseteq Nat
    BY CountBounds DEF Inodes, Dirs, FUSE_ROOT_INO, OBJECTS_INO, FIRST_FILE_INO
  <2>2. dir \in known \cup {OBJECTS_INO}
    BY DEF IInv, Typed, Dirs
  <2>3. file \in Nat
    BY DEF IInv, Typed, FIRST_FILE_INO
  <2> QED BY <2>1, <2>2, <2>3 DEF TypeOK, IInv, Typed, Answered
<1> QED BY <1>1, Invariance, PTL

\* A read is charged to the engine with the bytes it answers.
THEOREM ChargesAreServed == Spec => []ChargedAsServed
<1>1. IInv => ChargedAsServed
  BY DEF IInv, Answered, ChargedAsServed
<1> QED BY <1>1, Invariance, PTL

\* Reading on gives every byte of the file once and in order, up to the size that
\* getattr reports, however the reads are cut and whatever fails or comes between.
THEOREM ReadsAreExact == Spec => []ReadIsExact
<1>1. IInv => ReadIsExact
  <2> SUFFICES ASSUME IInv PROVE ReadIsExact
    OBVIOUS
  <2>1. PICK n \in 0 .. FileSizeBytes : data = read_at(file, 0, n)
                                        /\ (~reading => n = FileSizeBytes)
    BY DEF IInv, Streamed
  <2>2. n \in Nat /\ n <= FileSizeBytes
    BY FilesConfigValid
  <2>3. Len(data) = n /\ \A i \in 1 .. n : data[i] = <<file, 0 + i - 1>>
    <3> DEFINE S == {<<file, 0 + i - 1>> : i \in 1 .. n}
    <3>1. \A i \in 1 .. n : <<file, 0 + i - 1>> \in S
      OBVIOUS
    <3> HIDE DEF S
    <3> QED BY <2>1, <2>2, <3>1, ReadAtIsSeq
  <2>4. \A i \in 1 .. Len(data) : data[i] = <<file, i - 1>>
    <3>1. \A i \in 1 .. n : 0 + i - 1 = i - 1
      OBVIOUS
    <3> QED BY <2>3, <3>1
  <2>5. attr(file) = {file_attr(file)}
    <3>1. file = FIRST_FILE_INO + 0 /\ 0 \in 0 .. inode_count - 1
      BY CountBounds DEF IInv, Typed, FIRST_FILE_INO
    <3>2. file \in Inodes
      BY <3>1 DEF Inodes
    <3>3. file \notin Dirs
      BY DEF IInv, Typed, Dirs, FIRST_FILE_INO, FUSE_ROOT_INO, OBJECTS_INO
    <3> QED BY <3>2, <3>3, AttrOfInode
  <2>6. \A spec \in attr(file) : spec.size = FileSizeBytes
    BY <2>5 DEF file_attr
  <2> QED BY <2>1, <2>2, <2>3, <2>4, <2>6 DEF ReadIsExact
<1> QED BY <1>1, Invariance, PTL

\* The names of a directory, in order.
LEMMA LayoutNames ==
  ASSUME dir \in Dirs
  PROVE  Len(Layout) = Size(dir) /\ \A i \in 1 .. Size(dir) : EntryAt(dir, i).name = Layout[i]
<1>1. CASE dir = FUSE_ROOT_INO
  <2>1. Layout = << <<".">>, <<".", ".">>, Objects>>
    BY <1>1 DEF Layout
  <2>2. Size(dir) = 3
    BY <1>1 DEF Size
  <2>3. EntryAt(dir, 1).name = <<".">> /\ EntryAt(dir, 2).name = <<".", ".">>
        /\ EntryAt(dir, 3).name = Objects
    BY <1>1 DEF EntryAt, Dot, DotDot, Entry
  <2>4. Len(Layout) = 3 /\ Layout[1] = <<".">> /\ Layout[2] = <<".", ".">> /\ Layout[3] = Objects
    BY <2>1
  <2>5. \A i \in 1 .. 3 : i = 1 \/ i = 2 \/ i = 3
    OBVIOUS
  <2> QED BY <2>2, <2>3, <2>4, <2>5
<1>2. CASE dir # FUSE_ROOT_INO
  <2> DEFINE s == << <<".">>, <<".", ".">> >>
             t == [i \in 1 .. inode_count |-> index_to_name(i - 1)]
             S == {<<".">>, <<".", ".">>} \cup {index_to_name(i - 1) : i \in 1 .. inode_count}
  <2>1. Layout = s \o t
    BY <1>2 DEF Layout
  <2>2. Size(dir) = 2 + inode_count /\ inode_count \in Nat
    BY <1>2, CountBounds DEF Size
  <2>3. t \in Seq(S) /\ Len(t) = inode_count
        /\ \A i \in 1 .. inode_count : t[i] = index_to_name(i - 1)
    <3>1. t \in [1 .. inode_count -> S]
          /\ \A i \in 1 .. inode_count : t[i] = index_to_name(i - 1)
      OBVIOUS
    <3> HIDE DEF t, S
    <3>2. t \in Seq(S)
      BY <2>2, <3>1, SeqDef
    <3>3. Len(t) = inode_count
      BY <2>2, <3>1, <3>2
    <3> QED BY <3>1, <3>2, <3>3
  <2>4. s \in Seq(S) /\ Len(s) = 2 /\ s[1] = <<".">> /\ s[2] = <<".", ".">>
    OBVIOUS
  <2> HIDE DEF s, t, S
  <2>5. Len(s \o t) = 2 + inode_count
        /\ \A i \in 1 .. 2 + inode_count : (s \o t)[i] = IF i <= 2 THEN s[i] ELSE t[i - 2]
    <3>1. Len(s \o t) = Len(s) + Len(t)
          /\ \A i \in 1 .. Len(s) + Len(t) :
               (s \o t)[i] = IF i <= Len(s) THEN s[i] ELSE t[i - Len(s)]
      BY <2>3, <2>4, ConcatProperties, Zenon
    <3> QED BY <2>3, <2>4, <3>1
  <2>6. ASSUME NEW i \in 1 .. Size(dir) PROVE EntryAt(dir, i).name = Layout[i]
    <3>1. CASE i = 1
      <4>1. Layout[i] = <<".">>
        BY <2>1, <2>2, <2>4, <2>5, <3>1
      <4>2. EntryAt(dir, i).name = <<".">>
        BY <3>1 DEF EntryAt, Dot, Entry
      <4> QED BY <4>1, <4>2
    <3>2. CASE i = 2
      <4>1. Layout[i] = <<".", ".">>
        BY <2>1, <2>2, <2>4, <2>5, <3>2
      <4>2. EntryAt(dir, i).name = <<".", ".">>
        BY <3>2 DEF EntryAt, DotDot, Entry
      <4> QED BY <4>1, <4>2
    <3>3. CASE i # 1 /\ i # 2
      <4>1. ~(i <= 2) /\ i - 2 \in 1 .. inode_count /\ (i - 2) - 1 = i - 3
        BY <2>2, <3>3
      <4>2. Layout[i] = index_to_name(i - 3)
        BY <2>1, <2>2, <2>3, <2>5, <4>1
      <4>3. EntryAt(dir, i) = Entry(FIRST_FILE_INO + (i - 3), i, "File", index_to_name(i - 3))
        BY <1>2, <3>3 DEF EntryAt
      <4> QED BY <4>2, <4>3 DEF Entry
    <3> QED BY <3>1, <3>2, <3>3
  <2> QED BY <2>1, <2>2, <2>5, <2>6
<1> QED BY <1>1, <1>2

\* What the client has of the directory, entry by entry.
LEMMA ListedEntries ==
  ASSUME IInv
  PROVE  /\ Len(listed) \in 0 .. Size(dir)
         /\ \A i \in 1 .. Len(listed) : i \in 1 .. Size(dir) /\ listed[i] = EntryAt(dir, i)
         /\ ~listing => Len(listed) = Size(dir)
<1> DEFINE z == Size(dir)
<1>1. PICK n \in 0 .. z : listed = Slice(dir, 0, n) /\ (~listing => n = z)
  BY DEF IInv, Listed
<1>2. n \in Nat /\ z \in Nat /\ 0 \in Nat /\ 0 <= n /\ n - 0 = n
  BY CountBounds DEF Size
<1> DEFINE S == {EntryAt(dir, i) : i \in 1 .. n}
<1>3. \A i \in 0 + 1 .. n : EntryAt(dir, i) \in S
  OBVIOUS
<1> HIDE DEF S, z
<1>4. Len(listed) = n - 0 /\ \A i \in 1 .. n - 0 : listed[i] = EntryAt(dir, 0 + i)
  BY <1>1, <1>2, <1>3, SliceIsSeq
<1>5. Len(listed) = n /\ \A i \in 1 .. n : listed[i] = EntryAt(dir, i)
  BY <1>2, <1>4
<1> QED BY <1>1, <1>2, <1>5 DEF z

\* A listing gives every name of the directory once and in order, and ends only
\* after the last, however it is cut into replies and whatever fails between.
THEOREM ScansAreExact == Spec => []ScanIsExact
<1>1. IInv => ScanIsExact
  <2> SUFFICES ASSUME IInv PROVE ScanIsExact
    OBVIOUS
  <2>1. dir \in Dirs
    BY DEF IInv, Typed
  <2>2. Size(dir) \in Nat
    BY CountBounds DEF Size
  <2> QED BY <2>1, <2>2, ListedEntries, LayoutNames DEF ScanIsExact
<1> QED BY <1>1, Invariance, PTL

\* A listed name leads to the inode and the kind that were listed with it, and an
\* inode that was handed out has attributes: only an injected errno is in the way.
THEOREM NamesAlwaysResolve == Spec => []NamesResolve
<1>1. IInv => NamesResolve
  <2> SUFFICES ASSUME IInv PROVE NamesResolve
    OBVIOUS
  <2>1. dir \in Dirs /\ Size(dir) \in Nat
    BY CountBounds DEF IInv, Typed, Size
  <2>2. ASSUME NEW entry \in Children, request.op = "lookup", request.ino = dir,
               request.name = entry.name, reply.errno \notin Injected
        PROVE  /\ reply.errno = Ok
               /\ reply.value[1].ino = entry.ino /\ reply.value[1].kind = entry.kind
    <3>1. PICK i \in 3 .. Len(listed) : entry = listed[i]
      BY DEF Children
    <3>2. i \in 3 .. Size(dir) /\ entry = EntryAt(dir, i)
      BY <2>1, <3>1, ListedEntries
    <3>3. entry.ino \in Inodes /\ lookup(dir, entry.name) = {entry.ino}
          /\ \A spec \in attr(entry.ino) : spec.ino = entry.ino /\ spec.kind = entry.kind
      BY <2>1, <3>2, LookupFindsEntry
    <3>4. reply = AttrOf({entry.ino})
      BY <2>2, <3>3 DEF IInv, Answered
    <3>5. PICK spec \in attr(entry.ino) : reply = Answer(<<spec>>)
      BY <3>3, <3>4, AttrOfOne
    <3>6. reply.errno = Ok /\ reply.value = <<spec>>
      BY <3>5, Fields
    <3> QED BY <3>3, <3>6
  <2>3. request.op \in {"getattr", "access"} => reply.errno \in {Ok} \cup Injected
    BY DEF IInv, Answered
  <2> QED BY <2>2, <2>3 DEF NamesResolve
<1> QED BY <1>1, Invariance, PTL
=============================================================================
