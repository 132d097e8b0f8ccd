------------------------- MODULE FlatObjectNamespace -------------------------
(***************************************************************************)
(* FlatObjectNamespace of fusecraft-core/src/namespace/flat.rs: a root with *)
(* one directory, objects, whose files are numbered from 0 and named by     *)
(* their zero-padded numbers.  It has no mutable state; lookup, attr and    *)
(* readdir are functions.  An Option is a set of at most one element, and   *)
(* so is the Result of readdir: its one error, ENOTDIR, is the empty set.   *)
(*                                                                         *)
(* A name is a sequence of characters.  Left out: owner, times, mode and    *)
(* link count, which are constants of the mount.                           *)
(***************************************************************************)
EXTENDS Naturals, SequencesExt, FiniteSetsExt

CONSTANTS InodeCount,     \* FilesConfig.inode_count
          FileSizeBytes,  \* FilesConfig.file_size_bytes
          NameDigits      \* digits of a file name: 6

ASSUME FilesConfigValid == InodeCount \in Nat \ {0} /\ FileSizeBytes \in Nat \ {0}
ASSUME NameDigitsPositive == NameDigits \in Nat \ {0}

\* The powers of ten.
Pow10[k \in Nat] == IF k = 0 THEN 1 ELSE 10 * Pow10[k - 1]

MAX_FILES == Pow10[NameDigits]

FUSE_ROOT_INO == 1
OBJECTS_INO == 2
FIRST_FILE_INO == 100

\* Mutant: more files than names.
inode_count_unclamped == InodeCount

inode_count == Min({InodeCount, MAX_FILES - 1})

Objects == <<"o", "b", "j", "e", "c", "t", "s">>

Digits == <<"0", "1", "2", "3", "4", "5", "6", "7", "8", "9">>

\* The digit of n that counts the powers 10^k.
DigitOf(n, k) == Digits[1 + ((n \div Pow10[k]) % 10)]

\* {n:06}: at least NameDigits digits, and as many as n has.
index_to_name(n) ==
  LET width == IF n < MAX_FILES THEN NameDigits
               ELSE 1 + Max({k \in NameDigits .. 2 * NameDigits : Pow10[k] <= n})
  IN  [i \in 1 .. width |-> DigitOf(n, width - i)]

\* The number that the name spells with exactly NameDigits digits.
parse_name(name) ==
  {n \in 0 .. inode_count - 1 :
     Len(name) = NameDigits /\ \A i \in 1 .. NameDigits : name[i] = DigitOf(n, NameDigits - i)}

ino_to_index(ino) == {n \in 0 .. inode_count - 1 : ino = FIRST_FILE_INO + n}

lookup(parent, name) ==
  CASE parent = FUSE_ROOT_INO -> IF name = Objects THEN {OBJECTS_INO} ELSE {}
    [] parent = OBJECTS_INO -> {FIRST_FILE_INO + n : n \in parse_name(name)}
    [] OTHER -> {}

dir_attr(ino) == [ino |-> ino, kind |-> "Dir", size |-> 0]

file_attr(ino) == [ino |-> ino, kind |-> "File", size |-> FileSizeBytes]

attr(ino) ==
  IF ino \in {FUSE_ROOT_INO, OBJECTS_INO} THEN {dir_attr(ino)}
  ELSE {file_attr(ino) : n \in ino_to_index(ino)}

-----------------------------------------------------------------------------
\* A directory entry: the offset is the cookie that continues after it.
Entry(ino, off, kind, name) == [ino |-> ino, off |-> off, kind |-> kind, name |-> name]

Dot(ino) == Entry(ino, 1, "Dir", <<".">>)
DotDot == Entry(FUSE_ROOT_INO, 2, "Dir", <<".", ".">>)

\* The entries of the files from start on.
FilesFrom(start) ==
  [i \in 1 .. IF start < inode_count THEN inode_count - start ELSE 0 |->
     LET n == start + i - 1
     IN  Entry(FIRST_FILE_INO + n, n + 3, "File", index_to_name(n))]

\* sink.push of an entry, unless the caller has it already.
Push(entry, offset) == IF entry.off > offset THEN <<entry>> ELSE <<>>

Dots(ino, offset) == Push(Dot(ino), offset) \o Push(DotDot, offset)

\* Mutant: the file whose cookie is the offset comes again.
readdir_again(ino, offset) ==
  CASE ino = FUSE_ROOT_INO ->
         {Dots(ino, offset) \o Push(Entry(OBJECTS_INO, 3, "Dir", Objects), offset)}
    [] ino = OBJECTS_INO ->
         {Dots(ino, offset) \o FilesFrom(IF offset > 3 THEN offset - 3 ELSE 0)}
    [] OTHER -> {}

\* The entries after the cookie offset, of a directory; the sink takes them one
\* by one as long as it wants.
readdir(ino, offset) ==
  CASE ino = FUSE_ROOT_INO ->
         {Dots(ino, offset) \o Push(Entry(OBJECTS_INO, 3, "Dir", Objects), offset)}
    [] ino = OBJECTS_INO ->   \* saturating_sub
         {Dots(ino, offset) \o FilesFrom(IF offset > 2 THEN offset - 2 ELSE 0)}
    [] OTHER -> {}
=============================================================================
