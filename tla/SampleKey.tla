------------------------------ MODULE SampleKey ------------------------------
(***************************************************************************)
(* fusecraft-core/src/sampler/key.rs: how a key becomes the seed of a       *)
(* random number generator.  A u64 is the set of its one bits, so ^ is the  *)
(* symmetric difference and rotate_left moves every bit.                    *)
(***************************************************************************)
EXTENDS Integers, FiniteSetsExt

Word == SUBSET (0 .. 63)

\* The word of a number below 2^31.
Bits(n) == {i \in 0 .. 30 : (n \div 2 ^ i) % 2 = 1}

\* Mutant: a shift, which loses the bits at the top.
ShiftLeft(w, r) == {i + r : i \in {j \in w : j + r < 64}}

RotateLeft(w, r) == {(i + r) % 64 : i \in w}

\* 0xA5A5... and 0x5A5A...
LATENCY_STREAM == {i \in 0 .. 63 : i % 8 \in {0, 2, 5, 7}}
FAULT_STREAM == {i \in 0 .. 63 : i % 8 \in {1, 3, 4, 6}}

Fields == {"seed", "op", "ino", "offset", "len", "seq"}

\* Mutant: seq is rotated like ino.
CombinedAlike(key, stream) ==
  SymDiff(key.seed,
  SymDiff(RotateLeft(key.op, 11),
  SymDiff(RotateLeft(key.ino, 23),
  SymDiff(RotateLeft(key.offset, 37),
  SymDiff(RotateLeft(key.len, 47),
  SymDiff(RotateLeft(key.seq, 23), stream))))))

Combined(key, stream) ==
  SymDiff(key.seed,
  SymDiff(RotateLeft(key.op, 11),
  SymDiff(RotateLeft(key.ino, 23),
  SymDiff(RotateLeft(key.offset, 37),
  SymDiff(RotateLeft(key.len, 47),
  SymDiff(RotateLeft(key.seq, 53), stream))))))

\* The splitmix64 finalizer: xor with a right shift of itself, multiplication
\* by odd constants.  Each of its steps can be undone, so two results are equal
\* when the arguments are; more than that of the result is not looked at.
Splitmix64(z) == [finalized |-> z]

mix(key, stream) == Splitmix64(Combined(key, stream))

latency_rng(key) == mix(key, LATENCY_STREAM)

fault_rng(key) == mix(key, FAULT_STREAM)
=============================================================================
