---------------------------- MODULE SamplingProofs ----------------------------
(***************************************************************************)
(* Proofs about Sampling, for every set of configuration files, every       *)
(* request and any number of operations.  In order:                         *)
(*   - the seeds: a change of one field of a key changes the seed, latency  *)
(*     and fault seeds never meet, and keys that are near each other have   *)
(*     different seeds.  That two changes can undo each other in general is *)
(*     what the finding about SeedsDiffer shows;                            *)
(*   - validation: each check's result is Ok exactly when its part meets    *)
(*     the rules, and a path under the op when it does not;                 *)
(*   - reading: a typed document gives a typed configuration;               *)
(*   - writing and reading again: which configurations come back;           *)
(*   - the samplers, under a profile that meets the rules;                  *)
(*   - the inductive invariant IInv of loading and sampling, and with it    *)
(*     the invariants that the run of Sampling checks.                      *)
(***************************************************************************)
EXTENDS Sampling, SequenceTheorems, FiniteSetTheorems, WellFoundedInduction, TLAPS

\* Exclusive or with a word can be undone.
LEMMA SymDiffCancels ==
  ASSUME NEW A, NEW B, NEW C
  PROVE  /\ SymDiff(A, B) = SymDiff(A, C) => B = C
         /\ SymDiff(B, A) = SymDiff(C, A) => B = C
  BY DEF SymDiff

\* rotate_left loses no bit, unlike a shift.
LEMMA RotateLeftInjective ==
  ASSUME NEW v \in Word, NEW w \in Word, NEW r \in 0 .. 63,
         RotateLeft(v, r) = RotateLeft(w, r)
  PROVE  v = w
<1>1. ASSUME NEW i \in 0 .. 63, NEW j \in 0 .. 63, (i + r) % 64 = (j + r) % 64
      PROVE  i = j
  BY <1>1
<1>2. ASSUME NEW i \in v PROVE i \in w
  <2>1. (i + r) % 64 \in RotateLeft(w, r)
    BY DEF RotateLeft
  <2>2. PICK j \in w : (j + r) % 64 = (i + r) % 64
    BY <2>1 DEF RotateLeft
  <2>3. i \in 0 .. 63 /\ j \in 0 .. 63
    BY <2>2 DEF Word
  <2> QED
    BY <1>1, <2>2, <2>3
<1>3. ASSUME NEW i \in w PROVE i \in v
  <2>1. (i + r) % 64 \in RotateLeft(v, r)
    BY DEF RotateLeft
  <2>2. PICK j \in v : (j + r) % 64 = (i + r) % 64
    BY <2>1 DEF RotateLeft
  <2>3. i \in 0 .. 63 /\ j \in 0 .. 63
    BY <2>2 DEF Word
  <2> QED
    BY <1>1, <2>2, <2>3
<1> QED
  BY <1>2, <1>3

\* A change of one field of a key changes the combination of its fields.
LEMMA CombinedSeparates ==
  ASSUME NEW key \in [Fields -> Word], NEW f \in Fields, NEW w \in Word, w # key[f],
         NEW stream
  PROVE  Combined([key EXCEPT ![f] = w], stream) # Combined(key, stream)
<1> DEFINE changed == [key EXCEPT ![f] = w]
           Seq5(k) == SymDiff(RotateLeft(k.seq, 53), stream)
           Len4(k) == SymDiff(RotateLeft(k.len, 47), Seq5(k))
           Offset3(k) == SymDiff(RotateLeft(k.offset, 37), Len4(k))
           Ino2(k) == SymDiff(RotateLeft(k.ino, 23), Offset3(k))
           Op1(k) == SymDiff(RotateLeft(k.op, 11), Ino2(k))
<1>1. /\ key.seed \in Word /\ key.op \in Word /\ key.ino \in Word
      /\ key.offset \in Word /\ key.len \in Word /\ key.seq \in Word
  BY DEF Fields
<1>2. /\ changed.seed = (IF f = "seed" THEN w ELSE key.seed)
      /\ changed.op = (IF f = "op" THEN w ELSE key.op)
      /\ changed.ino = (IF f = "ino" THEN w ELSE key.ino)
      /\ changed.offset = (IF f = "offset" THEN w ELSE key.offset)
      /\ changed.len = (IF f = "len" THEN w ELSE key.len)
      /\ changed.seq = (IF f = "seq" THEN w ELSE key.seq)
  BY DEF Fields
<1>3. SUFFICES ASSUME SymDiff(changed.seed, Op1(changed)) = SymDiff(key.seed, Op1(key))
               PROVE  FALSE
  BY DEF Combined
<1> HIDE DEF changed
<1>4. CASE f = "seed"
  BY <1>2, <1>3, <1>4, SymDiffCancels
<1>5. CASE f = "op"
  <2>1. Op1(changed) = Op1(key)
    BY <1>2, <1>3, <1>5, SymDiffCancels
  <2>2. RotateLeft(w, 11) = RotateLeft(key.op, 11)
    BY <1>2, <2>1, <1>5, SymDiffCancels
  <2> QED
    BY <1>1, <1>5, <2>2, RotateLeftInjective
<1>6. CASE f = "ino"
  <2>1. Op1(changed) = Op1(key)
    BY <1>2, <1>3, <1>6, SymDiffCancels
  <2>2. Ino2(changed) = Ino2(key)
    BY <1>2, <2>1, <1>6, SymDiffCancels
  <2>3. RotateLeft(w, 23) = RotateLeft(key.ino, 23)
    BY <1>2, <2>2, <1>6, SymDiffCancels
  <2> QED
    BY <1>1, <1>6, <2>3, RotateLeftInjective
<1>7. CASE f = "offset"
  <2>1. Op1(changed) = Op1(key)
    BY <1>2, <1>3, <1>7, SymDiffCancels
  <2>2. Ino2(changed) = Ino2(key)
    BY <1>2, <2>1, <1>7, SymDiffCancels
  <2>3. Offset3(changed) = Offset3(key)
    BY <1>2, <2>2, <1>7, SymDiffCancels
  <2>4. RotateLeft(w, 37) = RotateLeft(key.offset, 37)
    BY <1>2, <2>3, <1>7, SymDiffCancels
  <2> QED
    BY <1>1, <1>7, <2>4, RotateLeftInjective
<1>8. CASE f = "len"
  <2>1. Op1(changed) = Op1(key)
    BY <1>2, <1>3, <1>8, SymDiffCancels
  <2>2. Ino2(changed) = Ino2(key)
    BY <1>2, <2>1, <1>8, SymDiffCancels
  <2>3. Offset3(changed) = Offset3(key)
    BY <1>2, <2>2, <1>8, SymDiffCancels
  <2>4. Len4(changed) = Len4(key)
    BY <1>2, <2>3, <1>8, SymDiffCancels
  <2>5. RotateLeft(w, 47) = RotateLeft(key.len, 47)
    BY <1>2, <2>4, <1>8, SymDiffCancels
  <2> QED
    BY <1>1, <1>8, <2>5, RotateLeftInjective
<1>9. CASE f = "seq"
  <2>1. Op1(changed) = Op1(key)
    BY <1>2, <1>3, <1>9, SymDiffCancels
  <2>2. Ino2(changed) = Ino2(key)
    BY <1>2, <2>1, <1>9, SymDiffCancels
  <2>3. Offset3(changed) = Offset3(key)
    BY <1>2, <2>2, <1>9, SymDiffCancels
  <2>4. Len4(changed) = Len4(key)
    BY <1>2, <2>3, <1>9, SymDiffCancels
  <2>5. Seq5(changed) = Seq5(key)
    BY <1>2, <2>4, <1>9, SymDiffCancels
  <2>6. RotateLeft(w, 53) = RotateLeft(key.seq, 53)
    BY <1>2, <2>5, <1>9, SymDiffCancels
  <2> QED
    BY <1>1, <1>9, <2>6, RotateLeftInjective
<1> QED
  BY <1>4, <1>5, <1>6, <1>7, <1>8, <1>9 DEF Fields

\* Hence it changes the seeds of both generators, as the finalizer can be undone.
LEMMA MixSeparates ==
  ASSUME NEW key \in [Fields -> Word], NEW f \in Fields, NEW w \in Word, w # key[f],
         NEW stream
  PROVE  mix([key EXCEPT ![f] = w], stream) # mix(key, stream)
  BY CombinedSeparates DEF mix, Splitmix64

\* A key that the engine can make: FsOp has 11 members, and the length is a u32.
KeyIs(key) ==
  key \in [Fields -> Word] /\ key.op \subseteq 0 .. 3 /\ key.len \subseteq 0 .. 31

\* The bits of the number of an op.
LEMMA OpBits ==
  ASSUME NEW op \in ToSet(FsOp)
  PROVE  Bits(OpIndex(op)) \subseteq 0 .. 3
<1> DEFINE n == OpIndex(op)
           Pow(i) == 2 ^ i
<1>1. Len(FsOp) = 11 /\ ToSet(FsOp) = {FsOp[i] : i \in 1 .. 11}
  BY DEF FsOp, ToSet
<1>2. \E i \in 1 .. 11 : FsOp[i] = op
  BY <1>1
<1>3. n \in 0 .. 10
  BY <1>1, <1>2 DEF OpIndex
<1> HIDE DEF n
<1>4. /\ Pow(4) = 16 /\ Pow(5) = 32 /\ Pow(6) = 64 /\ Pow(7) = 128
      /\ Pow(8) = 256 /\ Pow(9) = 512 /\ Pow(10) = 1024 /\ Pow(11) = 2048
      /\ Pow(12) = 4096 /\ Pow(13) = 8192 /\ Pow(14) = 16384 /\ Pow(15) = 32768
      /\ Pow(16) = 65536 /\ Pow(17) = 131072 /\ Pow(18) = 262144 /\ Pow(19) = 524288
      /\ Pow(20) = 1048576 /\ Pow(21) = 2097152 /\ Pow(22) = 4194304 /\ Pow(23) = 8388608
      /\ Pow(24) = 16777216 /\ Pow(25) = 33554432 /\ Pow(26) = 67108864 /\ Pow(27) = 134217728
      /\ Pow(28) = 268435456 /\ Pow(29) = 536870912 /\ Pow(30) = 1073741824
  BY SMT
<1> HIDE DEF Pow
<1>5. ASSUME NEW i \in 4 .. 30 PROVE (n \div Pow(i)) % 2 = 0
  <2>1. Pow(i) \in Nat /\ Pow(i) >= 16
    <3>1. CASE i \in 4 .. 10
      <4>1. i = 4 \/ i = 5 \/ i = 6 \/ i = 7 \/ i = 8 \/ i = 9 \/ i = 10
        BY <3>1
      <4> QED
        BY <1>4, <4>1, SMT
    <3>2. CASE i \in 11 .. 17
      <4>1. i = 11 \/ i = 12 \/ i = 13 \/ i = 14 \/ i = 15 \/ i = 16 \/ i = 17
        BY <3>2
      <4> QED
        BY <1>4, <4>1, SMT
    <3>3. CASE i \in 18 .. 24
      <4>1. i = 18 \/ i = 19 \/ i = 20 \/ i = 21 \/ i = 22 \/ i = 23 \/ i = 24
        BY <3>3
      <4> QED
        BY <1>4, <4>1, SMT
    <3>4. CASE i \in 25 .. 30
      <4>1. i = 25 \/ i = 26 \/ i = 27 \/ i = 28 \/ i = 29 \/ i = 30
        BY <3>4
      <4> QED
        BY <1>4, <4>1, SMT
    <3> QED
      BY <3>1, <3>2, <3>3, <3>4
  <2>2. ASSUME NEW p \in Nat, p >= 16 PROVE (n \div p) % 2 = 0
    BY <1>3, <2>2
  <2> QED
    BY <2>1, <2>2
<1>6. Bits(n) = {i \in 0 .. 30 : (n \div Pow(i)) % 2 = 1}
  BY DEF Bits, Pow
<1>7. ASSUME NEW i \in Bits(n) PROVE i \in 0 .. 3
  <2>1. i \in 0 .. 30 /\ i \notin 4 .. 30
    BY <1>5, <1>6
  <2> QED
    BY <2>1
<1> QED
  BY <1>7 DEF n

\* The key of a request.
LEMMA KeyOfIs ==
  ASSUME NEW r \in Requests, NEW n
  PROVE  KeyIs(KeyOf(r, n)) /\ KeyOf(r, n).seed = Bits(config.seed)
<1>1. \A v : Bits(v) \in Word
  BY DEF Bits, Word
<1>2. r.op \in ToSet(FsOp) /\ r.ino \in Word /\ r.offset \in Word /\ r.len \in Word
  BY RequestsOk
<1>3. Bits(OpIndex(r.op)) \subseteq 0 .. 3
  BY <1>2, OpBits
<1>4. (IF r.len \subseteq 0 .. 31 THEN r.len ELSE 0 .. 31) \in Word
  BY <1>2 DEF Word
<1> QED
  BY <1>1, <1>2, <1>3, <1>4 DEF KeyOf, KeyIs, Fields

\* Exclusive or, bit by bit.
LEMMA SymDiffHas ==
  ASSUME NEW A, NEW B, NEW x
  PROVE  x \in SymDiff(A, B) <=> ~(x \in A <=> x \in B)
  BY DEF SymDiff

\* The same of all that mix combines.
LEMMA CombinedHas ==
  ASSUME NEW A, NEW B, NEW C, NEW D, NEW E, NEW F, NEW G, NEW x
  PROVE  x \in SymDiff(A, SymDiff(B, SymDiff(C, SymDiff(D, SymDiff(E, SymDiff(F, G))))))
           <=> ~(x \in A <=> ~(x \in B <=> ~(x \in C <=> ~(x \in D <=> ~(x \in E <=>
                 ~(x \in F <=> x \in G))))))
<1> DEFINE f == SymDiff(F, G)
           e == SymDiff(E, f)
           d == SymDiff(D, e)
           c == SymDiff(C, d)
           b == SymDiff(B, c)
<1>1. x \in f <=> ~(x \in F <=> x \in G)
  BY SymDiffHas
<1>2. x \in e <=> ~(x \in E <=> x \in f)
  BY SymDiffHas
<1>3. x \in d <=> ~(x \in D <=> x \in e)
  BY SymDiffHas
<1>4. x \in c <=> ~(x \in C <=> x \in d)
  BY SymDiffHas
<1>5. x \in b <=> ~(x \in B <=> x \in c)
  BY SymDiffHas
<1>6. x \in SymDiff(A, b) <=> ~(x \in A <=> x \in b)
  BY SymDiffHas
<1> QED
  BY <1>1, <1>2, <1>3, <1>4, <1>5, <1>6

\* No field below the limits of StreamsApart reaches bit 22, where the two
\* stream constants differ.
LEMMA StreamsNeverMeet ==
  ASSUME NEW k, NEW l, KeyIs(k), KeyIs(l), k.seed = l.seed,
         k.ino \subseteq 0 .. 62, k.offset \subseteq 0 .. 48, k.seq \subseteq 0 .. 32,
         l.ino \subseteq 0 .. 62, l.offset \subseteq 0 .. 48, l.seq \subseteq 0 .. 32
  PROVE  latency_rng(k) # fault_rng(l)
<1>1. ASSUME NEW key, KeyIs(key), key.ino \subseteq 0 .. 62, key.offset \subseteq 0 .. 48,
             key.seq \subseteq 0 .. 32, NEW stream
      PROVE  22 \in Combined(key, stream) <=> ~(22 \in key.seed <=> 22 \in stream)
  <2>1. 22 \notin RotateLeft(key.op, 11)
    BY <1>1 DEF KeyIs, RotateLeft
  <2>2. 22 \notin RotateLeft(key.ino, 23)
    BY <1>1 DEF RotateLeft
  <2>3. 22 \notin RotateLeft(key.offset, 37)
    BY <1>1 DEF RotateLeft
  <2>4. 22 \notin RotateLeft(key.len, 47)
    BY <1>1 DEF KeyIs, RotateLeft
  <2>5. 22 \notin RotateLeft(key.seq, 53)
    BY <1>1 DEF RotateLeft
  <2> QED
    BY <2>1, <2>2, <2>3, <2>4, <2>5, CombinedHas DEF Combined
<1>2. 22 \notin LATENCY_STREAM /\ 22 \in FAULT_STREAM
  BY DEF LATENCY_STREAM, FAULT_STREAM
<1>3. Combined(k, LATENCY_STREAM) # Combined(l, FAULT_STREAM)
  BY <1>1, <1>2
<1> QED
  BY <1>3 DEF latency_rng, fault_rng, mix, Splitmix64

\* Keys below the limits of SeedsSeparate have fields in places of their own.
LEMMA NearKeysSeparate ==
  ASSUME NEW k, NEW l, KeyIs(k), KeyIs(l), k.seed = l.seed, k.len = l.len,
         k.ino \subseteq 0 .. 29, k.offset \subseteq 0 .. 15, k.seq \subseteq 0 .. 21,
         l.ino \subseteq 0 .. 29, l.offset \subseteq 0 .. 15, l.seq \subseteq 0 .. 21,
         k.ino = l.ino \/ k.offset = l.offset, k # l,
         NEW stream
  PROVE  mix(k, stream) # mix(l, stream)
<1> SUFFICES ASSUME Combined(k, stream) = Combined(l, stream) PROVE FALSE
  BY DEF mix, Splitmix64
<1> DEFINE Ops == 11 .. 14
           Inodes == 23 .. 52
           Offsets == 37 .. 52
           Numbers == (53 .. 63) \cup (0 .. 10)
           O(key) == RotateLeft(key.op, 11)
           I(key) == RotateLeft(key.ino, 23)
           F(key) == RotateLeft(key.offset, 37)
           L(key) == RotateLeft(key.len, 47)
           S(key) == RotateLeft(key.seq, 53)
<1>1. ASSUME NEW key, KeyIs(key), key.ino \subseteq 0 .. 29, key.offset \subseteq 0 .. 15,
             key.seq \subseteq 0 .. 21
      PROVE  /\ O(key) \in SUBSET Ops /\ I(key) \in SUBSET Inodes /\ F(key) \in SUBSET Offsets
             /\ S(key) \in SUBSET Numbers
  <2>1. O(key) \in SUBSET Ops
    BY <1>1 DEF KeyIs, RotateLeft
  <2>2. I(key) \in SUBSET Inodes
    BY <1>1 DEF RotateLeft
  <2>3. F(key) \in SUBSET Offsets
    BY <1>1 DEF RotateLeft
  <2>4. S(key) \in SUBSET Numbers
    BY <1>1 DEF RotateLeft
  <2> QED
    BY <2>1, <2>2, <2>3, <2>4
<1>2. /\ O(k) \in SUBSET Ops /\ I(k) \in SUBSET Inodes /\ F(k) \in SUBSET Offsets
      /\ S(k) \in SUBSET Numbers
      /\ O(l) \in SUBSET Ops /\ I(l) \in SUBSET Inodes /\ F(l) \in SUBSET Offsets
      /\ S(l) \in SUBSET Numbers
  <2> HIDE DEF O, I, F, S, Ops, Inodes, Offsets, Numbers
  <2> QED
    BY <1>1
<1>3. /\ Ops \cap Inodes = {} /\ Ops \cap Offsets = {} /\ Ops \cap Numbers = {}
      /\ Inodes \cap Numbers = {} /\ Offsets \cap Numbers = {}
  OBVIOUS
<1>4. \A key : Combined(key, stream) =
        SymDiff(key.seed, SymDiff(O(key), SymDiff(I(key), SymDiff(F(key), SymDiff(L(key),
          SymDiff(S(key), stream))))))
  BY DEF Combined
<1>5. L(k) = L(l)
  OBVIOUS
<1>6. k.ino = l.ino => I(k) = I(l)
  OBVIOUS
<1>7. k.offset = l.offset => F(k) = F(l)
  OBVIOUS
<1> HIDE DEF O, I, F, L, S, Ops, Inodes, Offsets, Numbers
<1>8. O(k) = O(l) /\ I(k) = I(l) /\ F(k) = F(l) /\ S(k) = S(l)
  <2>1. ASSUME NEW x
        PROVE  (~(x \in O(k) <=> ~(x \in I(k) <=> ~(x \in F(k) <=> x \in S(k)))))
               <=> (~(x \in O(l) <=> ~(x \in I(l) <=> ~(x \in F(l) <=> x \in S(l)))))
    <3>1. x \in Combined(k, stream)
            <=> ~(x \in k.seed <=> ~(x \in O(k) <=> ~(x \in I(k) <=> ~(x \in F(k) <=>
                  ~(x \in L(k) <=> ~(x \in S(k) <=> x \in stream))))))
      BY <1>4, CombinedHas
    <3>2. x \in Combined(l, stream)
            <=> ~(x \in l.seed <=> ~(x \in O(l) <=> ~(x \in I(l) <=> ~(x \in F(l) <=>
                  ~(x \in L(l) <=> ~(x \in S(l) <=> x \in stream))))))
      BY <1>4, CombinedHas
    <3> QED
      BY <1>5, <3>1, <3>2
  <2>2. CASE k.ino = l.ino
    <3>1. \A x : (~(x \in O(k) <=> ~(x \in F(k) <=> x \in S(k))))
                 <=> (~(x \in O(l) <=> ~(x \in F(l) <=> x \in S(l))))
      BY <2>1, <2>2, <1>6
    <3>2. ASSUME NEW x
          PROVE  /\ x \in O(k) <=> x \in O(l)
                 /\ x \in F(k) <=> x \in F(l)
                 /\ x \in S(k) <=> x \in S(l)
      BY <1>2, <1>3, <3>1
    <3>3. O(k) = O(l) /\ F(k) = F(l) /\ S(k) = S(l)
      BY <3>2
    <3> QED
      BY <1>6, <2>2, <3>3
  <2>3. CASE k.offset = l.offset
    <3>1. \A x : (~(x \in O(k) <=> ~(x \in I(k) <=> x \in S(k))))
                 <=> (~(x \in O(l) <=> ~(x \in I(l) <=> x \in S(l))))
      BY <2>1, <2>3, <1>7
    <3>2. ASSUME NEW x
          PROVE  /\ x \in O(k) <=> x \in O(l)
                 /\ x \in I(k) <=> x \in I(l)
                 /\ x \in S(k) <=> x \in S(l)
      BY <1>2, <1>3, <3>1
    <3>3. O(k) = O(l) /\ I(k) = I(l) /\ S(k) = S(l)
      BY <3>2
    <3> QED
      BY <1>7, <2>3, <3>3
  <2> QED
    BY <2>2, <2>3
<1>9. /\ k \in [Fields -> Word] /\ l \in [Fields -> Word]
      /\ k.op \in Word /\ k.ino \in Word /\ k.offset \in Word /\ k.seq \in Word
      /\ l.op \in Word /\ l.ino \in Word /\ l.offset \in Word /\ l.seq \in Word
  BY DEF KeyIs, Fields
<1>10. k.op = l.op /\ k.ino = l.ino /\ k.offset = l.offset /\ k.seq = l.seq
  BY <1>8, <1>9, RotateLeftInjective DEF O, I, F, S
<1> QED
  BY <1>9, <1>10 DEF Fields

-----------------------------------------------------------------------------
(***************************************************************************)
(* Validation finds exactly what breaks a rule.                            *)
(***************************************************************************)

\* Min finds the least element of a set of numbers.
LEMMA MinIsLeast ==
  ASSUME NEW T \in SUBSET Nat, T # {}
  PROVE  Min(T) \in T /\ \A k \in T : Min(T) <= k
<1>1. PICK m \in T : \A k \in T : ~(<<k, m>> \in OpToRel(<, Nat))
  BY WFMin, NatLessThanWellFounded
<1>2. \A k \in T : ~(k < m)
  BY <1>1 DEF OpToRel
<1>3. \A k \in T : m <= k
  BY <1>2
<1> QED
  BY <1>3 DEF Min

\* The first of the checks to fail decides, and all pass when none fails.
LEMMA FirstFinds ==
  ASSUME NEW results, NEW n \in Nat, DOMAIN results = 1 .. n
  PROVE  /\ First(results) = Ok <=> \A i \in 1 .. n : results[i] = Ok
         /\ First(results) = Ok \/ \E i \in 1 .. n : First(results) = results[i]
<1> DEFINE wrong == {i \in DOMAIN results : results[i] # Ok}
<1>1. CASE wrong = {}
  BY <1>1 DEF First
<1>2. CASE wrong # {}
  <2>1. wrong \in SUBSET Nat
    OBVIOUS
  <2>2. Min(wrong) \in wrong
    BY <1>2, <2>1, MinIsLeast
  <2>3. First(results) = results[Min(wrong)]
    BY <1>2 DEF First
  <2> QED
    BY <2>2, <2>3
<1> QED
  BY <1>1, <1>2

\* A path of the op's part of the configuration.
Under(path, o) ==
  path \in Seq(PathNames) /\ Len(path) >= 2 /\ path[1] = "ops" /\ path[2] = o

\* A check's result is Ok exactly when all is good, and a path under the op if not.
Judges(r, good, o) == (r = Ok <=> good) /\ (r = Ok \/ Under(r, o))

\* What is joined to the end of a sequence leaves the rest as it is.
LEMMA AppendGoesOn ==
  ASSUME NEW S, NEW path \in Seq(S), NEW k \in S
  PROVE  /\ path \o <<k>> = Append(path, k)
         /\ path \o <<k>> \in Seq(S)
         /\ Len(path \o <<k>>) = Len(path) + 1
         /\ \A i \in 1 .. Len(path) : (path \o <<k>>)[i] = path[i]
<1>1. path \o <<k>> = Append(path, k)
  BY AppendIsConcat
<1> QED
  BY <1>1, AppendProperties

\* A path goes on under its op.
LEMMA UnderGoesOn ==
  ASSUME NEW o, NEW path, Under(path, o), NEW k \in PathNames
  PROVE  Under(path \o <<k>>, o) /\ path \o <<k>> # Ok
<1>1. path \in Seq(PathNames)
  BY DEF Under
<1>3. /\ path \o <<k>> \in Seq(PathNames)
      /\ Len(path \o <<k>>) = Len(path) + 1
      /\ \A i \in 1 .. Len(path) : (path \o <<k>>)[i] = path[i]
  BY <1>1, AppendGoesOn, Zenon
<1>4. Len(path) \in Nat /\ Len(path) >= 2 /\ 1 \in 1 .. Len(path) /\ 2 \in 1 .. Len(path)
  BY <1>1 DEF Under
<1>5. Under(path \o <<k>>, o)
  BY <1>3, <1>4 DEF Under
<1>6. Len(Ok) = 0
  BY DEF Ok
<1> QED
  BY <1>3, <1>4, <1>5, <1>6

\* A check of one field.
LEMMA CheckJudges ==
  ASSUME NEW o, NEW path, Under(path, o), NEW k \in PathNames, NEW wrong \in BOOLEAN
  PROVE  Judges(Check(wrong, path \o <<k>>), ~wrong, o)
BY UnderGoesOn DEF Judges, Check

\* Two checks in a row.
LEMMA FirstOfTwo ==
  ASSUME NEW a, NEW b, NEW o, NEW p \in BOOLEAN, NEW q \in BOOLEAN,
         Judges(a, p, o), Judges(b, q, o)
  PROVE  Judges(First(<<a, b>>), p /\ q, o)
<1> DEFINE r == <<a, b>>
<1>1. DOMAIN r = 1 .. 2 /\ r[1] = a /\ r[2] = b
  OBVIOUS
<1> HIDE DEF r
<1>2. /\ First(r) = Ok <=> \A i \in 1 .. 2 : r[i] = Ok
      /\ First(r) = Ok \/ \E i \in 1 .. 2 : First(r) = r[i]
  BY <1>1, FirstFinds
<1>3. \A i \in 1 .. 2 : i = 1 \/ i = 2
  OBVIOUS
<1>4. /\ First(r) = Ok <=> a = Ok /\ b = Ok
      /\ First(r) = Ok \/ First(r) = a \/ First(r) = b
  BY <1>1, <1>2, <1>3
<1>5. Judges(First(r), p /\ q, o)
  BY <1>4 DEF Judges
<1> QED
  BY <1>5 DEF r

\* Three checks in a row.
LEMMA FirstOfThree ==
  ASSUME NEW a, NEW b, NEW c, NEW o,
         NEW p \in BOOLEAN, NEW q \in BOOLEAN, NEW s \in BOOLEAN,
         Judges(a, p, o), Judges(b, q, o), Judges(c, s, o)
  PROVE  Judges(First(<<a, b, c>>), p /\ q /\ s, o)
<1> DEFINE r == <<a, b, c>>
<1>1. DOMAIN r = 1 .. 3 /\ r[1] = a /\ r[2] = b /\ r[3] = c
  OBVIOUS
<1> HIDE DEF r
<1>2. /\ First(r) = Ok <=> \A i \in 1 .. 3 : r[i] = Ok
      /\ First(r) = Ok \/ \E i \in 1 .. 3 : First(r) = r[i]
  BY <1>1, FirstFinds
<1>3. \A i \in 1 .. 3 : i = 1 \/ i = 2 \/ i = 3
  OBVIOUS
<1>4. /\ First(r) = Ok <=> a = Ok /\ b = Ok /\ c = Ok
      /\ First(r) = Ok \/ First(r) = a \/ First(r) = b \/ First(r) = c
  BY <1>1, <1>2, <1>3
<1>5. Judges(First(r), p /\ q /\ s, o)
  BY <1>4 DEF Judges
<1> QED
  BY <1>5 DEF r

\* Six checks in a row.
LEMMA FirstOfSix ==
  ASSUME NEW a, NEW b, NEW c, NEW d, NEW e, NEW f, NEW o,
         NEW pa \in BOOLEAN, NEW pb \in BOOLEAN, NEW pc \in BOOLEAN,
         NEW pd \in BOOLEAN, NEW pe \in BOOLEAN, NEW pf \in BOOLEAN,
         Judges(a, pa, o), Judges(b, pb, o), Judges(c, pc, o),
         Judges(d, pd, o), Judges(e, pe, o), Judges(f, pf, o)
  PROVE  Judges(First(<<a, b, c, d, e, f>>), pa /\ pb /\ pc /\ pd /\ pe /\ pf, o)
<1> DEFINE r == <<a, b, c, d, e, f>>
<1>1. DOMAIN r = 1 .. 6 /\ r[1] = a /\ r[2] = b /\ r[3] = c /\ r[4] = d /\ r[5] = e /\ r[6] = f
  OBVIOUS
<1> HIDE DEF r
<1>2. /\ First(r) = Ok <=> \A i \in 1 .. 6 : r[i] = Ok
      /\ First(r) = Ok \/ \E i \in 1 .. 6 : First(r) = r[i]
  BY <1>1, FirstFinds
<1>3. \A i \in 1 .. 6 : i = 1 \/ i = 2 \/ i = 3 \/ i = 4 \/ i = 5 \/ i = 6
  OBVIOUS
<1>4. /\ First(r) = Ok <=> a = Ok /\ b = Ok /\ c = Ok /\ d = Ok /\ e = Ok /\ f = Ok
      /\ \/ First(r) = Ok \/ First(r) = a \/ First(r) = b \/ First(r) = c
         \/ First(r) = d \/ First(r) = e \/ First(r) = f
  BY <1>1, <1>2, <1>3
<1>5. Judges(First(r), pa /\ pb /\ pc /\ pd /\ pe /\ pf, o)
  BY <1>4 DEF Judges
<1> QED
  BY <1>5 DEF r

\* Any number of checks in a row.
LEMMA FirstOfAll ==
  ASSUME NEW n \in Nat, NEW results, DOMAIN results = 1 .. n, NEW o,
         NEW good \in [1 .. n -> BOOLEAN],
         \A i \in 1 .. n : Judges(results[i], good[i], o)
  PROVE  Judges(First(results), \A i \in 1 .. n : good[i], o)
<1>1. /\ First(results) = Ok <=> \A i \in 1 .. n : results[i] = Ok
      /\ First(results) = Ok \/ \E i \in 1 .. n : First(results) = results[i]
  BY FirstFinds
<1>2. \A i \in 1 .. n : (results[i] = Ok <=> good[i]) /\ (results[i] = Ok \/ Under(results[i], o))
  BY DEF Judges
<1> QED
  BY <1>1, <1>2 DEF Judges

\* The types of a configuration: of the numbers of a latency profile,
LatencyIs(l) ==
  /\ l.base_us \in U64 /\ l.max_us \in U64
  /\ IsF64(l.lognormal_median_us) /\ IsF64(l.lognormal_sigma)
  /\ IsF64(l.pareto_weight) /\ IsF64(l.pareto_xm_us) /\ IsF64(l.pareto_alpha)
\* of an Option,
IsOption(S) == \A x, y \in S : x = y
\* of the profile of a policy or of a tier,
ProfileIs(p) ==
  /\ LatencyIs(p.latency)
  /\ IsOption(p.bandwidth)
  /\ p.faults \in Seq(ToSet(p.faults))
  /\ \A i \in DOMAIN p.faults : IsF64(p.faults[i].rate)
\* of a policy
PolicyIs(p) ==
  /\ p.concurrency_cap \in Nat
  /\ ProfileIs(p)
  /\ IsOption(p.size_tier)
  /\ \A t \in p.size_tier : t.threshold_bytes \in Nat /\ ProfileIs(t.large)
\* and of all of it.
ConfigIs(c) ==
  /\ DOMAIN c = DOMAIN DefaultConfig
  /\ c.files.inode_count \in Nat /\ c.files.file_size_bytes \in Nat
  /\ DOMAIN c.ops \subseteq ToSet(FsOp)
  /\ \A o \in DOMAIN c.ops : PolicyIs(c.ops[o])

\* The value that stands for an f64 is an integer, and without NaN and infinity
\* the comparisons are those of numbers.
LEMMA Comparisons ==
  ASSUME NEW x, IsF64(x)
  PROVE  /\ x.val \in Int
         /\ is_finite(x) => /\ ~Less(x, Zero) <=> LessEq(Zero, x)
                            /\ ~Less(One, x) <=> LessEq(x, One)
                            /\ ~LessEq(x, Zero) <=> Less(Zero, x)
<1>1. F64Max \in Int
  BY F64MaxPositive
<1>2. x.val \in Int
  BY <1>1 DEF IsF64, Infinity, NegInfinity, NaN
<1>3. Zero = [cls |-> "finite", val |-> 0] /\ One = [cls |-> "finite", val |-> 2]
  BY DEF Zero, One, Fin
<1> QED
  BY <1>2, <1>3 DEF is_finite, is_nan, Less, LessEq

\* The numbers of the defaults are exact as f64.
LEMMA F64ExactLarge ==
  F64Exact \in Int /\ 1000000 <= F64Exact /\ 2 * F64Exact <= F64Max
BY F64ExactPositive, DefaultsAreExact, SMT DEF LatencyDefaults

\* The largest f64 is far above them.
LEMMA F64MaxLarge ==
  F64Max \in Int /\ F64Max > 2000 /\ F64Max \div 2 \in Int /\ 1000000 <= F64Max \div 2
<1>1. F64Max \in Int /\ 2 * 1000000 <= F64Max
  BY F64MaxPositive, F64ExactLarge, SMT
<1> QED
  BY <1>1, SMT

\* A u64 is a natural number that as f64 is finite.
LEMMA U64Bounds ==
  ASSUME NEW n \in U64
  PROVE  n \in Nat /\ 2 * n <= F64Max
BY F64MaxPositive DEF U64

\* The numbers of the defaults are u64, and f64 in halves.
LEMMA DefaultNumbers ==
  /\ 0 \in U64 /\ LatencyDefaults.max_us \in U64
  /\ FilesDefaults.inode_count \in U64 /\ FilesDefaults.file_size_bytes \in U64
<1>1. 0 \in U64 /\ 1000 \in U64 /\ 65536 \in U64 /\ 1000000 \in U64
  BY F64MaxLarge, SMT DEF U64
<1>2. LatencyDefaults.max_us = 1000000
  BY SMT DEF LatencyDefaults
<1>3. FilesDefaults.inode_count = 1000 /\ FilesDefaults.file_size_bytes = 65536
  BY SMT DEF FilesDefaults
<1> QED
  BY <1>1, <1>2, <1>3, SMT

\* The f64 among the defaults are finite.
LEMMA SmallFloats ==
  IsF64(Fin(0)) /\ IsF64(Fin(1)) /\ IsF64(Fin(3)) /\ IsF64(Fin(200)) /\ IsF64(Fin(2000))
<1>1. /\ Fin(0).val = 0 /\ Fin(1).val = 1 /\ Fin(3).val = 3
      /\ Fin(200).val = 200 /\ Fin(2000).val = 2000
  BY DEF Fin
<1> QED
  BY <1>1, F64MaxLarge, SMT DEF IsF64

\* The names of the float fields.
LEMMA FieldNames ==
  /\ DOMAIN FloatFields = 1 .. 5
  /\ \A i \in 1 .. 5 : FloatFields[i] \in PathNames
  /\ ToSet(FloatFields) = {FloatFields[i] : i \in 1 .. 5}
<1>1. DOMAIN FloatFields = 1 .. 5
  BY DEF FloatFields
<1>2. \A i \in 1 .. 5 : i = 1 \/ i = 2 \/ i = 3 \/ i = 4 \/ i = 5
  OBVIOUS
<1>3. \A i \in 1 .. 5 : FloatFields[i] \in PathNames
  <2>1. \A i \in 1 .. 5 :
          FloatFields[i] \in {"lognormal_median_us", "lognormal_sigma", "pareto_weight",
                              "pareto_xm_us", "pareto_alpha"}
    BY <1>2 DEF FloatFields
  <2>2. {"lognormal_median_us", "lognormal_sigma", "pareto_weight",
         "pareto_xm_us", "pareto_alpha"} \subseteq PathNames
    BY DEF PathNames
  <2> QED
    BY <2>1, <2>2, Zenon
<1> QED
  BY <1>1, <1>3 DEF ToSet

\* validate_latency.
LEMMA LatencyJudged ==
  ASSUME NEW l, LatencyIs(l), NEW o, NEW path, Under(path, o)
  PROVE  Judges(validate_latency(l, path), LatencyMeets(l), o)
<1> DEFINE results == [i \in DOMAIN FloatFields |->
                         Check(~is_finite(l[FloatFields[i]]), path \o <<FloatFields[i]>>)]
           good == [i \in 1 .. 5 |-> is_finite(l[FloatFields[i]])]
           finite == \A i \in 1 .. 5 : good[i]
           w == l.pareto_weight
           order == ~(l.max_us < l.base_us)
           weight == ~(Less(w, Zero) \/ Less(One, w))
           alpha == ~(Less(Zero, w) /\ LessEq(l.pareto_alpha, Zero))
           median == ~Less(l.lognormal_median_us, Zero)
           sigma == ~Less(l.lognormal_sigma, Zero)
<1>1. Judges(First(results), finite, o)
  <2>1. DOMAIN results = 1 .. 5 /\ good \in [1 .. 5 -> BOOLEAN]
    BY FieldNames DEF is_finite
  <2>2. ASSUME NEW i \in 1 .. 5 PROVE Judges(results[i], good[i], o)
    <3>1. FloatFields[i] \in PathNames /\ i \in DOMAIN FloatFields
      BY FieldNames
    <3>2. is_finite(l[FloatFields[i]]) \in BOOLEAN
      BY DEF is_finite
    <3>3. Judges(Check(~is_finite(l[FloatFields[i]]), path \o <<FloatFields[i]>>),
                 is_finite(l[FloatFields[i]]), o)
      BY <3>1, <3>2, UnderGoesOn DEF Judges, Check
    <3> QED
      BY <3>1, <3>3
  <2> HIDE DEF results, good
  <2> QED
    BY <2>1, <2>2, FirstOfAll
<1>2. /\ Judges(Check(l.max_us < l.base_us, path \o <<"max_us">>), order, o)
      /\ Judges(Check(Less(w, Zero) \/ Less(One, w), path \o <<"pareto_weight">>), weight, o)
      /\ Judges(Check(Less(Zero, w) /\ LessEq(l.pareto_alpha, Zero), path \o <<"pareto_alpha">>),
                alpha, o)
      /\ Judges(Check(Less(l.lognormal_median_us, Zero), path \o <<"lognormal_median_us">>),
                median, o)
      /\ Judges(Check(Less(l.lognormal_sigma, Zero), path \o <<"lognormal_sigma">>), sigma, o)
  <2>1. \A k \in {"max_us", "pareto_weight", "pareto_alpha", "lognormal_median_us",
                  "lognormal_sigma"} :
          Under(path \o <<k>>, o) /\ path \o <<k>> # Ok
    <3>1. {"max_us", "pareto_weight", "pareto_alpha", "lognormal_median_us",
           "lognormal_sigma"} \subseteq PathNames
      BY DEF PathNames
    <3> QED
      BY <3>1, UnderGoesOn, Zenon
  <2> QED
    BY <2>1 DEF Judges, Check
<1>3. Judges(validate_latency(l, path), finite /\ order /\ weight /\ alpha /\ median /\ sigma, o)
  <2>1. /\ finite \in BOOLEAN /\ order \in BOOLEAN /\ weight \in BOOLEAN
        /\ alpha \in BOOLEAN /\ median \in BOOLEAN /\ sigma \in BOOLEAN
    BY DEF Less, LessEq
  <2> HIDE DEF finite, order, weight, alpha, median, sigma
  <2> QED
    BY <1>1, <1>2, <2>1, FirstOfSix DEF validate_latency
<1>4. finite /\ order /\ weight /\ alpha /\ median /\ sigma <=> LatencyMeets(l)
  <2>1. finite <=> \A f \in ToSet(FloatFields) : is_finite(l[f])
    BY FieldNames
  <2>2. finite <=> /\ is_finite(l.lognormal_median_us) /\ is_finite(l.lognormal_sigma)
                   /\ is_finite(w) /\ is_finite(l.pareto_xm_us) /\ is_finite(l.pareto_alpha)
    <3>1. \A i \in 1 .. 5 : i = 1 \/ i = 2 \/ i = 3 \/ i = 4 \/ i = 5
      OBVIOUS
    <3> QED
      BY <3>1 DEF FloatFields
  <2>3. l.max_us \in Int /\ l.base_us \in Int
    BY DEF LatencyIs, U64
  <2>4. order <=> l.base_us <= l.max_us
    BY <2>3
  <2>5. ASSUME finite
        PROVE  /\ weight <=> LessEq(Zero, w) /\ LessEq(w, One)
               /\ alpha <=> (Less(Zero, w) => Less(Zero, l.pareto_alpha))
               /\ median <=> LessEq(Zero, l.lognormal_median_us)
               /\ sigma <=> LessEq(Zero, l.lognormal_sigma)
    BY <2>2, <2>5, Comparisons DEF LatencyIs
  <2> HIDE DEF finite, order, weight, alpha, median, sigma
  <2> QED
    BY <2>1, <2>4, <2>5 DEF LatencyMeets
<1> QED
  BY <1>3, <1>4 DEF Judges

\* The check of an Option.
LEMMA OptionJudged ==
  ASSUME NEW results, NEW o, NEW good \in BOOLEAN,
         results = {} => good,
         \A r \in results : Judges(r, good, o)
  PROVE  Judges(IfSome(results), good, o)
BY DEF IfSome, Judges

\* validate_bandwidth, if there is one.
LEMMA BandwidthJudged ==
  ASSUME NEW p, ProfileIs(p), NEW o, NEW path, Under(path, o)
  PROVE  Judges(IfSome({validate_bandwidth(b, path) : b \in p.bandwidth}),
                \A b \in p.bandwidth : is_finite(b.bytes_per_sec), o)
<1> DEFINE results == {validate_bandwidth(b, path) : b \in p.bandwidth}
           good == \A b \in p.bandwidth : is_finite(b.bytes_per_sec)
<1>1. IsOption(p.bandwidth)
  BY DEF ProfileIs
<1>2. good \in BOOLEAN /\ (results = {} => good)
  OBVIOUS
<1>3. ASSUME NEW r \in results PROVE Judges(r, good, o)
  <2>1. PICK b \in p.bandwidth : r = validate_bandwidth(b, path)
    OBVIOUS
  <2>2. good <=> is_finite(b.bytes_per_sec)
    BY <1>1 DEF IsOption
  <2>3. "mib_per_sec" \in PathNames
    BY DEF PathNames
  <2>4. Under(path \o <<"mib_per_sec">>, o) /\ path \o <<"mib_per_sec">> # Ok
    BY <2>3, UnderGoesOn, Zenon
  <2> QED
    BY <2>1, <2>2, <2>4 DEF validate_bandwidth, Check, Judges
<1> HIDE DEF results, good
<1>4. Judges(IfSome(results), good, o)
  BY <1>2, <1>3, OptionJudged
<1> QED
  BY <1>4 DEF results, good

\* validate_faults.
LEMMA FaultsJudged ==
  ASSUME NEW p, ProfileIs(p), NEW o, NEW path, Under(path, o)
  PROVE  Judges(validate_faults(p.faults, o, path),
                \A f \in ToSet(p.faults) : f.op = o /\ LessEq(Zero, f.rate) /\ LessEq(f.rate, One), o)
<1> DEFINE faults == p.faults
           n == Len(faults)
           op(i) == faults[i].op = o
           rate(i) == ~(\/ ~is_finite(faults[i].rate)
                        \/ Less(faults[i].rate, Zero) \/ Less(One, faults[i].rate))
           results == [i \in DOMAIN faults |->
                         First(<<Check(faults[i].op # o, path \o <<"op">>),
                                 Check(\/ ~is_finite(faults[i].rate)
                                       \/ Less(faults[i].rate, Zero) \/ Less(One, faults[i].rate),
                                       path \o <<"rate">>)>>)]
           good == [i \in 1 .. n |-> op(i) /\ rate(i)]
<1>1. /\ n \in Nat /\ DOMAIN faults = 1 .. n /\ ToSet(faults) = {faults[i] : i \in 1 .. n}
      /\ \A i \in 1 .. n : IsF64(faults[i].rate)
  BY DEF ProfileIs, ToSet
<1>2. DOMAIN results = 1 .. n /\ good \in [1 .. n -> BOOLEAN]
  BY <1>1
<1>3. ASSUME NEW i \in 1 .. n PROVE Judges(results[i], good[i], o)
  <2>1. "op" \in PathNames /\ "rate" \in PathNames
    BY DEF PathNames
  <2>2. /\ Under(path \o <<"op">>, o) /\ path \o <<"op">> # Ok
        /\ Under(path \o <<"rate">>, o) /\ path \o <<"rate">> # Ok
    BY <2>1, UnderGoesOn, Zenon
  <2> DEFINE a == Check(faults[i].op # o, path \o <<"op">>)
             b == Check(\/ ~is_finite(faults[i].rate)
                        \/ Less(faults[i].rate, Zero) \/ Less(One, faults[i].rate),
                        path \o <<"rate">>)
  <2>3. Judges(a, op(i), o) /\ Judges(b, rate(i), o)
    BY <2>2 DEF Judges, Check
  <2>4. results[i] = First(<<a, b>>) /\ good[i] = (op(i) /\ rate(i))
    BY <1>1
  <2>5. op(i) \in BOOLEAN /\ rate(i) \in BOOLEAN
    OBVIOUS
  <2> HIDE DEF a, b, op, rate, results, good
  <2>6. Judges(First(<<a, b>>), op(i) /\ rate(i), o)
    BY <2>3, <2>5, FirstOfTwo
  <2> QED
    BY <2>4, <2>6
<1>4. Judges(First(results), \A i \in 1 .. n : good[i], o)
  <2> HIDE DEF results, good, n
  <2> QED
    BY <1>1, <1>2, <1>3, FirstOfAll
<1>5. (\A i \in 1 .. n : good[i]) <=>
        \A f \in ToSet(faults) : f.op = o /\ LessEq(Zero, f.rate) /\ LessEq(f.rate, One)
  <2>1. ASSUME NEW i \in 1 .. n
        PROVE  rate(i) <=> LessEq(Zero, faults[i].rate) /\ LessEq(faults[i].rate, One)
    <3> DEFINE x == faults[i].rate
    <3>1. IsF64(x)
      BY <1>1
    <3> HIDE DEF x
    <3>2. CASE is_finite(x)
      BY <3>1, <3>2, Comparisons DEF x
    <3>3. CASE ~is_finite(x)
      <4>1. x \in {Infinity, NegInfinity, NaN}
        BY <3>1, <3>3 DEF IsF64, is_finite, Fin
      <4>2. F64Max \in Int /\ F64Max > 2
        BY F64MaxLarge, SMT
      <4>3. /\ Infinity.val = F64Max + 1 /\ NegInfinity.val = -(F64Max + 1) /\ is_nan(NaN)
            /\ Zero.val = 0 /\ One.val = 2
        BY DEF Infinity, NegInfinity, NaN, is_nan, Zero, One, Fin
      <4>4. ~(LessEq(Zero, x) /\ LessEq(x, One))
        BY <4>1, <4>2, <4>3 DEF LessEq
      <4> QED
        BY <3>3, <4>4 DEF x
    <3> QED
      BY <3>2, <3>3
  <2>2. \A i \in 1 .. n : good[i] <=>
          op(i) /\ LessEq(Zero, faults[i].rate) /\ LessEq(faults[i].rate, One)
    BY <2>1
  <2> HIDE DEF good
  <2> QED
    BY <1>1, <2>2
<1>6. validate_faults(p.faults, o, path) = First(results)
  BY DEF validate_faults
<1> QED
  BY <1>4, <1>5, <1>6 DEF Judges

\* The three checks of a profile.
LEMMA ProfileJudged ==
  ASSUME NEW p, ProfileIs(p), NEW o, NEW path, Under(path, o)
  PROVE  Judges(ValidateProfile(p, o, path), ProfileMeets(p, o), o)
<1> DEFINE finite == \A b \in p.bandwidth : is_finite(b.bytes_per_sec)
           rules == \A f \in ToSet(p.faults) :
                      f.op = o /\ LessEq(Zero, f.rate) /\ LessEq(f.rate, One)
           latency == LatencyMeets(p.latency)
<1>1. "latency" \in PathNames /\ "bandwidth" \in PathNames /\ "faults" \in PathNames
  BY DEF PathNames
<1>2. /\ Under(path \o <<"latency">>, o) /\ Under(path \o <<"bandwidth">>, o)
      /\ Under(path \o <<"faults">>, o)
  BY <1>1, UnderGoesOn, Zenon
<1>3. Judges(validate_latency(p.latency, path \o <<"latency">>), latency, o)
  BY <1>2, LatencyJudged DEF ProfileIs
<1>4. Judges(IfSome({validate_bandwidth(b, path \o <<"bandwidth">>) : b \in p.bandwidth}), finite, o)
  BY <1>2, BandwidthJudged
<1>5. Judges(validate_faults(p.faults, o, path \o <<"faults">>), rules, o)
  BY <1>2, FaultsJudged
<1>6. finite \in BOOLEAN /\ rules \in BOOLEAN /\ latency \in BOOLEAN
      /\ (ProfileMeets(p, o) <=> latency /\ finite /\ rules)
  BY DEF ProfileMeets, LatencyMeets, BandwidthMeets
<1> HIDE DEF finite, rules, latency
<1>7. Judges(ValidateProfile(p, o, path), latency /\ finite /\ rules, o)
  BY <1>3, <1>4, <1>5, <1>6, FirstOfThree DEF ValidateProfile
<1> QED
  BY <1>6, <1>7 DEF Judges

\* The checks of a large tier.
LEMMA TierJudged ==
  ASSUME NEW t, t.threshold_bytes \in Nat, ProfileIs(t.large),
         NEW o, NEW path, Under(path, o)
  PROVE  Judges(ValidateTier(t, o, path),
                o \in DataOps /\ t.threshold_bytes > 0 /\ ProfileMeets(t.large, o), o)
<1> DEFINE data == o \in DataOps
           threshold == t.threshold_bytes > 0
           large == ProfileMeets(t.large, o)
<1>1. "threshold_bytes" \in PathNames /\ "large" \in PathNames
  BY DEF PathNames
<1>2. /\ Under(path \o <<"threshold_bytes">>, o) /\ path \o <<"threshold_bytes">> # Ok
      /\ Under(path \o <<"large">>, o)
  BY <1>1, UnderGoesOn, Zenon
<1>3. path # Ok
  <2>1. Len(path) >= 2 /\ Len(Ok) = 0
    BY DEF Under, Ok
  <2> QED
    BY <2>1
<1>4. Judges(Check(o \notin DataOps, path), data, o)
  BY <1>3 DEF Judges, Check
<1>5. Judges(Check(t.threshold_bytes = 0, path \o <<"threshold_bytes">>), threshold, o)
  <2>1. threshold <=> ~(t.threshold_bytes = 0)
    OBVIOUS
  <2> HIDE DEF threshold
  <2> QED
    BY <1>2, <2>1 DEF Judges, Check
<1>6. Judges(ValidateProfile(t.large, o, path \o <<"large">>), large, o)
  BY <1>2, ProfileJudged
<1>7. data \in BOOLEAN /\ threshold \in BOOLEAN /\ large \in BOOLEAN
  BY DEF ProfileMeets
<1> HIDE DEF data, threshold, large
<1>8. Judges(ValidateTier(t, o, path), data /\ threshold /\ large, o)
  BY <1>4, <1>5, <1>6, <1>7, FirstOfThree DEF ValidateTier
<1> QED
  BY <1>8 DEF data, threshold, large

\* validate_op_policy.
LEMMA PolicyJudged ==
  ASSUME NEW p, PolicyIs(p), NEW o, NEW path, Under(path, o)
  PROVE  Judges(validate_op_policy(o, p, path), PolicyMeets(p, o), o)
<1> DEFINE cap == p.concurrency_cap > 0
           base == ProfileMeets(p, o)
           Tier(t) == o \in DataOps /\ t.threshold_bytes > 0 /\ ProfileMeets(t.large, o)
           tier == \A t \in p.size_tier : Tier(t)
           results == {ValidateTier(t, o, path \o <<"size_tier">>) : t \in p.size_tier}
<1>1. "concurrency_cap" \in PathNames /\ "size_tier" \in PathNames
  BY DEF PathNames
<1>2. /\ Under(path \o <<"concurrency_cap">>, o) /\ path \o <<"concurrency_cap">> # Ok
      /\ Under(path \o <<"size_tier">>, o)
  BY <1>1, UnderGoesOn, Zenon
<1>3. Judges(Check(p.concurrency_cap = 0, path \o <<"concurrency_cap">>), cap, o)
  <2>1. cap <=> ~(p.concurrency_cap = 0)
    BY DEF PolicyIs
  <2> HIDE DEF cap
  <2> QED
    BY <1>2, <2>1 DEF Judges, Check
<1>4. Judges(ValidateProfile(p, o, path), base, o)
  BY ProfileJudged DEF PolicyIs
<1>5. Judges(IfSome(results), tier, o)
  <2>1. tier \in BOOLEAN /\ (results = {} => tier)
    OBVIOUS
  <2>2. ASSUME NEW r \in results PROVE Judges(r, tier, o)
    <3>1. PICK t \in p.size_tier : r = ValidateTier(t, o, path \o <<"size_tier">>)
      OBVIOUS
    <3>2. t.threshold_bytes \in Nat /\ ProfileIs(t.large) /\ \A u \in p.size_tier : u = t
      BY DEF PolicyIs, IsOption
    <3>3. Judges(r, Tier(t), o)
      BY <1>2, <3>1, <3>2, TierJudged
    <3>4. tier <=> Tier(t)
      BY <3>2
    <3> HIDE DEF tier, Tier
    <3> QED
      BY <3>3, <3>4 DEF Judges
  <2> HIDE DEF results, tier
  <2> QED
    BY <2>1, <2>2, OptionJudged
<1>6. cap \in BOOLEAN /\ base \in BOOLEAN /\ tier \in BOOLEAN
      /\ (PolicyMeets(p, o) <=> cap /\ base /\ tier)
  BY DEF PolicyMeets, ProfileMeets
<1> HIDE DEF cap, base, tier
<1>7. Judges(validate_op_policy(o, p, path), cap /\ base /\ tier, o)
  BY <1>3, <1>4, <1>5, <1>6, FirstOfThree DEF validate_op_policy
<1> QED
  BY <1>6, <1>7 DEF Judges

\* The files table.
LEMMA FilesJudged ==
  ASSUME NEW files, files.inode_count \in Nat, files.file_size_bytes \in Nat
  PROVE  \/ /\ ValidateFiles(files) = Ok
            /\ files.inode_count > 0 /\ files.file_size_bytes > 0
         \/ ValidateFiles(files) = <<"files", "inode_count">> /\ files.inode_count = 0
         \/ ValidateFiles(files) = <<"files", "file_size_bytes">> /\ files.file_size_bytes = 0
<1> DEFINE a == Check(files.inode_count = 0, <<"files", "inode_count">>)
           b == Check(files.file_size_bytes = 0, <<"files", "file_size_bytes">>)
           r == <<a, b>>
<1>1. DOMAIN r = 1 .. 2 /\ r[1] = a /\ r[2] = b
  OBVIOUS
<1>2. <<"files", "inode_count">> # Ok /\ <<"files", "file_size_bytes">> # Ok
  BY DEF Ok
<1>3. /\ a = Ok <=> files.inode_count # 0
      /\ a = Ok \/ a = <<"files", "inode_count">>
      /\ b = Ok <=> files.file_size_bytes # 0
      /\ b = Ok \/ b = <<"files", "file_size_bytes">>
  BY <1>2 DEF Check
<1>4. ValidateFiles(files) = First(r)
  BY DEF ValidateFiles
<1> HIDE DEF a, b, r
<1>5. /\ First(r) = Ok <=> \A i \in 1 .. 2 : r[i] = Ok
      /\ First(r) = Ok \/ \E i \in 1 .. 2 : First(r) = r[i]
  BY <1>1, FirstFinds
<1>6. \A i \in 1 .. 2 : i = 1 \/ i = 2
  OBVIOUS
<1>7. /\ First(r) = Ok <=> a = Ok /\ b = Ok
      /\ First(r) = Ok \/ First(r) = a \/ First(r) = b
  BY <1>1, <1>5, <1>6
<1>8. files.inode_count # 0 => files.inode_count > 0
  OBVIOUS
<1>9. files.file_size_bytes # 0 => files.file_size_bytes > 0
  OBVIOUS
<1> QED
  BY <1>3, <1>4, <1>7, <1>8, <1>9

-----------------------------------------------------------------------------
(***************************************************************************)
(* What is read from a typed document is a typed configuration.            *)
(***************************************************************************)

\* The default latency profile.
LEMMA LatencyDefaultsAre ==
  /\ LatencyIs(LatencyDefaults) /\ LatencyMeets(LatencyDefaults)
  /\ DOMAIN LatencyDefaults = {"base_us", "lognormal_median_us", "lognormal_sigma",
       "pareto_weight", "pareto_xm_us", "pareto_alpha", "max_us"}
<1>1. /\ LatencyDefaults.base_us = 0
      /\ LatencyDefaults.lognormal_median_us = Fin(200) /\ LatencyDefaults.lognormal_sigma = Fin(1)
      /\ LatencyDefaults.pareto_weight = Fin(0) /\ LatencyDefaults.pareto_xm_us = Fin(2000)
      /\ LatencyDefaults.pareto_alpha = Fin(3)
  <2>1. Whole(100) = Fin(200) /\ Whole(1000) = Fin(2000)
    BY F64ExactLarge, SMT DEF Whole, Nearest
  <2> QED
    BY <2>1, SMT DEF LatencyDefaults, Zero
<1>2. LatencyIs(LatencyDefaults)
  BY <1>1, SmallFloats, DefaultNumbers, SMT DEF LatencyIs
<1>3. LatencyMeets(LatencyDefaults)
  <2>1. \A f \in ToSet(FloatFields) :
          f \in {"lognormal_median_us", "lognormal_sigma", "pareto_weight",
                 "pareto_xm_us", "pareto_alpha"}
    <3>1. \A i \in 1 .. 5 : i = 1 \/ i = 2 \/ i = 3 \/ i = 4 \/ i = 5
      OBVIOUS
    <3> QED
      BY <3>1, FieldNames DEF FloatFields
  <2>2. \A f \in ToSet(FloatFields) : is_finite(LatencyDefaults[f])
    <3>1. \A v \in Int : is_finite(Fin(v))
      BY DEF is_finite, Fin
    <3> QED
      BY <1>1, <2>1, <3>1
  <2> QED
    BY <1>1, <2>2, DefaultNumbers, U64Bounds DEF LatencyMeets, Less, LessEq, is_nan, Zero, One, Fin
<1>4. DOMAIN LatencyDefaults = {"base_us", "lognormal_median_us", "lognormal_sigma",
       "pareto_weight", "pareto_xm_us", "pareto_alpha", "max_us"}
  BY DEF LatencyDefaults
<1> QED
  BY <1>2, <1>3, <1>4

\* A latency table, with its gaps filled.
LEMMA LatencyRead ==
  ASSUME NEW l, LatencyTyped(l)
  PROVE  LatencyIs(TableOf(l, LatencyDefaults))
<1> DEFINE t == TableOf(l, LatencyDefaults)
           d == LatencyDefaults
<1>1. \A k \in DOMAIN d : t[k] = IF k \in DOMAIN l THEN l[k] ELSE d[k]
  BY DEF TableOf, Get
<1>2. LatencyIs(d) /\ {"base_us", "max_us"} \subseteq DOMAIN d
      /\ {"lognormal_median_us", "lognormal_sigma", "pareto_weight",
          "pareto_xm_us", "pareto_alpha"} \subseteq DOMAIN d
  BY LatencyDefaultsAre
<1> HIDE DEF t, d
<1>3. t.base_us \in U64 /\ t.max_us \in U64
  BY <1>1, <1>2 DEF LatencyTyped, LatencyIs
<1>4. {"lognormal_median_us", "lognormal_sigma", "pareto_weight",
       "pareto_xm_us", "pareto_alpha"} \subseteq ToSet(FloatFields)
  <2>1. /\ FloatFields[1] = "lognormal_median_us" /\ FloatFields[2] = "lognormal_sigma"
        /\ FloatFields[3] = "pareto_weight" /\ FloatFields[4] = "pareto_xm_us"
        /\ FloatFields[5] = "pareto_alpha"
    BY DEF FloatFields
  <2> QED
    BY <2>1, FieldNames
<1>5. /\ IsF64(t.lognormal_median_us) /\ IsF64(t.lognormal_sigma)
      /\ IsF64(t.pareto_weight) /\ IsF64(t.pareto_xm_us) /\ IsF64(t.pareto_alpha)
  BY <1>1, <1>2, <1>4 DEF LatencyTyped, LatencyIs
<1>6. LatencyIs(t)
  BY <1>3, <1>5 DEF LatencyIs
<1> QED
  BY <1>6 DEF t

\* The rules of a profile.
LEMMA FaultsRead ==
  ASSUME NEW faults, FaultsTyped(faults), \A f \in ToSet(faults) : FaultReads(f),
         NEW read, read = [i \in DOMAIN faults |-> FaultOf(faults[i])]
  PROVE  read \in Seq(ToSet(read)) /\ \A i \in DOMAIN read : IsF64(read[i].rate)
<1>1. Len(faults) \in Nat /\ DOMAIN faults = 1 .. Len(faults)
  BY DEF FaultsTyped
<1>2. DOMAIN read = 1 .. Len(faults) /\ read \in [1 .. Len(faults) -> ToSet(read)]
  BY <1>1 DEF ToSet
<1>3. read \in Seq(ToSet(read))
  <2> DEFINE n == Len(faults)
             S == ToSet(read)
  <2>1. n \in Nat /\ read \in [1 .. n -> S]
    BY <1>1, <1>2
  <2>2. SUFFICES read \in Seq(S)
    OBVIOUS
  <2> HIDE DEF n, S
  <2> QED
    BY <2>1, SeqDef
<1>4. ASSUME NEW i \in DOMAIN read PROVE IsF64(read[i].rate)
  <2>1. i \in DOMAIN faults /\ faults[i] \in ToSet(faults)
    BY <1>1, <1>2 DEF ToSet
  <2>2. read[i].rate = faults[i].rate
    BY <2>1 DEF FaultOf
  <2>3. faults[i].rate \in Option(faults[i], "rate")
    BY <2>1 DEF FaultReads, Option
  <2> QED
    BY <2>1, <2>2, <2>3 DEF FaultsTyped
<1> QED
  BY <1>3, <1>4

\* A profile.
LEMMA ProfileRead ==
  ASSUME NEW p, ProfileTyped(p), ProfileReads(p)
  PROVE  ProfileIs(ProfileOf(p))
<1> DEFINE faults == Get(p, "faults", <<>>)
           read == [i \in DOMAIN faults |-> FaultOf(faults[i])]
           q == ProfileOf(p)
<1>1. /\ q.latency = TableOf(Get(p, "latency", <<>>), LatencyDefaults)
      /\ q.bandwidth = {BandwidthOf(b) : b \in Option(p, "bandwidth")}
      /\ q.faults = read
  BY DEF ProfileOf
<1>2. LatencyIs(q.latency)
  BY <1>1, LatencyRead DEF ProfileTyped
<1>3. IsOption(q.bandwidth)
  BY <1>1 DEF IsOption, Option
<1>4. FaultsTyped(faults) /\ \A f \in ToSet(faults) : FaultReads(f)
  BY DEF ProfileTyped, ProfileReads
<1>5. read \in Seq(ToSet(read)) /\ \A i \in DOMAIN read : IsF64(read[i].rate)
  <2> HIDE DEF faults
  <2> QED
    BY <1>4, FaultsRead
<1> HIDE DEF q, read
<1>6. ProfileIs(q)
  BY <1>1, <1>2, <1>3, <1>5 DEF ProfileIs
<1> QED
  BY <1>6 DEF q

\* A policy.
LEMMA PolicyRead ==
  ASSUME NEW p, PolicyTyped(p), PolicyReads(p)
  PROVE  PolicyIs(PolicyOf(p))
<1> DEFINE q == PolicyOf(p)
           b == ProfileOf(p)
<1>1. /\ q.concurrency_cap = Get(p, "concurrency_cap", PolicyDefaults.concurrency_cap)
      /\ q.latency = b.latency /\ q.bandwidth = b.bandwidth /\ q.faults = b.faults
      /\ q.size_tier = {TierOf(t) : t \in Option(p, "size_tier")}
  BY DEF PolicyOf
<1>2. q.concurrency_cap \in Nat
  <2>1. PolicyDefaults.concurrency_cap = 64
    BY DEF PolicyDefaults
  <2>2. "concurrency_cap" \in DOMAIN p => p["concurrency_cap"] \in Nat
    BY U64Bounds DEF PolicyTyped
  <2> QED
    BY <1>1, <2>1, <2>2 DEF Get
<1>3. ProfileIs(q)
  <2>1. ProfileIs(b)
    BY ProfileRead DEF PolicyTyped, PolicyReads
  <2> HIDE DEF b, q
  <2> QED
    BY <1>1, <2>1 DEF ProfileIs
<1>4. IsOption(q.size_tier)
  BY <1>1 DEF IsOption, Option
<1>5. ASSUME NEW u \in q.size_tier
      PROVE  u.threshold_bytes \in Nat /\ ProfileIs(u.large)
  <2>1. PICK t \in Option(p, "size_tier") : u = TierOf(t)
    BY <1>1
  <2>2. TierTyped(t) /\ TierReads(t)
    BY DEF PolicyTyped, PolicyReads
  <2>3. t.threshold_bytes \in U64 /\ ProfileTyped(t.large) /\ ProfileReads(t.large)
    BY <2>2 DEF TierTyped, TierReads, Option
  <2>4. u.threshold_bytes = t.threshold_bytes /\ u.large = ProfileOf(t.large)
    BY <2>1 DEF TierOf
  <2> QED
    BY <2>3, <2>4, ProfileRead, U64Bounds
<1> HIDE DEF q
<1>6. PolicyIs(q)
  BY <1>2, <1>3, <1>4, <1>5 DEF PolicyIs
<1> QED
  BY <1>6 DEF q

\* All of it.
LEMMA ConfigRead ==
  ASSUME NEW t, TextTyped(t), ConfigReads(t)
  PROVE  ConfigIs(ConfigOf(t))
<1> DEFINE c == ConfigOf(t)
           ops == Get(t, "ops", <<>>)
           files == Get(t, "files", <<>>)
<1>1. /\ DOMAIN c = DOMAIN DefaultConfig
      /\ c.ops = [o \in DOMAIN ops |-> PolicyOf(ops[o])]
      /\ c.files = TableOf(files, FilesDefaults)
  BY DEF ConfigOf, DefaultConfig
<1>2. /\ \A o \in DOMAIN ops : o \in ToSet(FsOp) /\ PolicyReads(ops[o]) /\ PolicyTyped(ops[o])
      /\ \A k \in DOMAIN files \cap DOMAIN FilesDefaults : files[k] \in U64
  BY DEF ConfigReads, TextTyped
<1> HIDE DEF c, ops, files
<1>3. DOMAIN c.ops \subseteq ToSet(FsOp)
  BY <1>1, <1>2
<1>4. \A o \in DOMAIN c.ops : PolicyIs(c.ops[o])
  BY <1>1, <1>2, PolicyRead
<1>5. c.files.inode_count \in Nat /\ c.files.file_size_bytes \in Nat
  <2>1. DOMAIN FilesDefaults = {"inode_count", "file_size_bytes"}
    BY DEF FilesDefaults
  <2>2. \A k \in DOMAIN FilesDefaults :
          c.files[k] = IF k \in DOMAIN files THEN files[k] ELSE FilesDefaults[k]
    BY <1>1 DEF TableOf, Get
  <2> QED
    BY <1>2, <2>1, <2>2, DefaultNumbers, U64Bounds
<1>6. ConfigIs(c)
  BY <1>1, <1>3, <1>4, <1>5 DEF ConfigIs
<1> QED
  BY <1>6 DEF c

\* The default configuration and the policy that stands in for a missing one.
LEMMA DefaultsAre ==
  /\ ConfigIs(DefaultConfig) /\ TextTyped(ConfigToml(DefaultConfig))
  /\ PolicyIs(PolicyDefaults) /\ \A op : PolicyMeets(PolicyDefaults, op)
<1>1. ConfigIs(DefaultConfig)
  <2>1. DefaultConfig.files = FilesDefaults /\ DOMAIN DefaultConfig.ops = {}
    BY DEF DefaultConfig
  <2> QED
    BY <2>1, DefaultNumbers, U64Bounds DEF ConfigIs
<1>2. TextTyped(ConfigToml(DefaultConfig))
  <2> DEFINE t == ConfigToml(DefaultConfig)
  <2>1. Get(t, "files", <<>>) = FilesDefaults /\ DOMAIN Get(t, "ops", <<>>) = {}
    BY DEF ConfigToml, DefaultConfig, Get
  <2>2. DOMAIN FilesDefaults = {"inode_count", "file_size_bytes"}
    BY DEF FilesDefaults
  <2>3. \A k \in DOMAIN FilesDefaults : FilesDefaults[k] \in U64
    BY <2>2, DefaultNumbers
  <2> HIDE DEF t
  <2>4. TextTyped(t)
    BY <2>1, <2>3 DEF TextTyped
  <2> QED
    BY <2>4 DEF t
<1>3. /\ PolicyDefaults.concurrency_cap = 64 /\ PolicyDefaults.latency = LatencyDefaults
      /\ PolicyDefaults.bandwidth = {} /\ PolicyDefaults.faults = <<>>
      /\ PolicyDefaults.size_tier = {}
  BY DEF PolicyDefaults
<1>4. <<>> \in Seq(ToSet(<<>>)) /\ DOMAIN <<>> = {} /\ ToSet(<<>>) = {}
  BY DEF ToSet
<1>5. PolicyIs(PolicyDefaults)
  BY <1>3, <1>4, LatencyDefaultsAre DEF PolicyIs, ProfileIs, IsOption
<1>6. ASSUME NEW op PROVE PolicyMeets(PolicyDefaults, op)
  BY <1>3, <1>4, LatencyDefaultsAre DEF PolicyMeets, ProfileMeets
<1> QED
  BY <1>1, <1>2, <1>5, <1>6

-----------------------------------------------------------------------------
(***************************************************************************)
(* What is written and read again.                                         *)
(***************************************************************************)

\* A table with its gaps filled has none.
LEMMA TableAgain ==
  ASSUME NEW table, NEW defaults
  PROVE  TableOf(TableOf(table, defaults), defaults) = TableOf(table, defaults)
  BY DEF TableOf, Get

\* An Option is written as a key or not at all.
LEMMA SomeAgain ==
  ASSUME NEW key, NEW S, IsOption(S)
  PROVE  Option(Some(key, S), key) = S /\ DOMAIN Some(key, S) \subseteq {key}
<1>1. CASE S = {}
  BY <1>1 DEF Option, Some
<1>2. ASSUME NEW v \in S PROVE Option(Some(key, S), key) = S /\ DOMAIN Some(key, S) \subseteq {key}
  <2>1. S = {v} /\ (CHOOSE w \in S : TRUE) = v
    BY <1>2 DEF IsOption
  <2>2. DOMAIN Some(key, S) = {key} /\ Some(key, S)[key] = v
    BY <1>2, <2>1 DEF Some
  <2> QED
    BY <2>1, <2>2 DEF Option
<1> QED
  BY <1>1, <1>2

\* A key of one of two tables that are written as one.
LEMMA AndLeft ==
  ASSUME NEW f, NEW g, NEW k, k \notin DOMAIN g, NEW d
  PROVE  Get(And(f, g), k, d) = Get(f, k, d) /\ Option(And(f, g), k) = Option(f, k)
  BY DEF And, Get, Option

\* The same of a key of the other one.
LEMMA AndRight ==
  ASSUME NEW f, NEW g, NEW k, k \notin DOMAIN f, NEW d
  PROVE  Get(And(f, g), k, d) = Get(g, k, d) /\ Option(And(f, g), k) = Option(g, k)
  BY DEF And, Get, Option

\* A table t holds the profile p as serialization writes it.
Holds(t, p) ==
  /\ Get(t, "latency", <<>>) = p.latency
  /\ Get(t, "faults", <<>>) = [i \in DOMAIN p.faults |-> FaultToml(p.faults[i])]
  /\ Option(t, "bandwidth") = {BandwidthToml(b) : b \in p.bandwidth}

\* The table of a large tier does.
LEMMA ProfileWritten ==
  ASSUME NEW p, IsOption(p.bandwidth)
  PROVE  /\ Holds(ProfileToml(p), p)
         /\ DOMAIN ProfileToml(p) \subseteq {"latency", "faults", "bandwidth"}
<1> DEFINE f == [latency |-> p.latency, faults |-> [i \in DOMAIN p.faults |-> FaultToml(p.faults[i])]]
           B == {BandwidthToml(b) : b \in p.bandwidth}
           g == Some("bandwidth", B)
<1>1. IsOption(B)
  BY DEF IsOption
<1>2. Option(g, "bandwidth") = B /\ DOMAIN g \subseteq {"bandwidth"}
  <2> HIDE DEF B
  <2> QED
    BY <1>1, SomeAgain
<1>3. /\ DOMAIN f = {"latency", "faults"} /\ f["latency"] = p.latency
      /\ f["faults"] = [i \in DOMAIN p.faults |-> FaultToml(p.faults[i])]
  OBVIOUS
<1>4. ProfileToml(p) = And(f, g)
  BY DEF ProfileToml
<1> HIDE DEF f, g, B
<1>5. Get(And(f, g), "latency", <<>>) = p.latency
  BY <1>2, <1>3, AndLeft DEF Get
<1>6. Get(And(f, g), "faults", <<>>) = f["faults"]
  BY <1>2, <1>3, AndLeft DEF Get
<1>7. Option(And(f, g), "bandwidth") = B
  BY <1>2, <1>3, AndRight
<1>8. DOMAIN And(f, g) \subseteq {"latency", "faults", "bandwidth"}
  BY <1>2, <1>3 DEF And
<1> QED
  BY <1>3, <1>4, <1>5, <1>6, <1>7, <1>8 DEF Holds, B

\* The tables of the tier of a policy.
TiersToml(p) ==
  {[threshold_bytes |-> t.threshold_bytes, large |-> ProfileToml(t.large)] : t \in p.size_tier}

\* The table of a policy holds its profile, its caps and its tier.
LEMMA PolicyWritten ==
  ASSUME NEW p, IsOption(p.bandwidth), IsOption(p.size_tier), NEW d
  PROVE  LET u == PolicyToml(p)
         IN  /\ Holds(u, p)
             /\ Get(u, "concurrency_cap", d) = p.concurrency_cap
             /\ Get(u, "queue_cap", d) = p.queue_cap
             /\ Option(u, "size_tier") = TiersToml(p)
<1> DEFINE t == ProfileToml(p)
           c == CapsToml(p)
           s == Some("size_tier", TiersToml(p))
           tc == And(t, c)
           u == And(tc, s)
<1>1. Holds(t, p) /\ DOMAIN t \subseteq {"latency", "faults", "bandwidth"}
  BY ProfileWritten
<1>2. /\ DOMAIN c = {"concurrency_cap", "queue_cap"}
      /\ c["concurrency_cap"] = p.concurrency_cap /\ c["queue_cap"] = p.queue_cap
  BY DEF CapsToml
<1>3. IsOption(TiersToml(p))
  BY DEF IsOption, TiersToml
<1>4. Option(s, "size_tier") = TiersToml(p) /\ DOMAIN s \subseteq {"size_tier"}
  BY <1>3, SomeAgain
<1>5. u = PolicyToml(p)
  BY DEF PolicyToml, TiersToml
<1> HIDE DEF t, c, s, tc, u
<1>6. DOMAIN tc \subseteq {"latency", "faults", "bandwidth", "concurrency_cap", "queue_cap"}
  BY <1>1, <1>2 DEF tc, And
<1>7. ASSUME NEW k \in {"latency", "faults", "bandwidth"}
      PROVE  Get(u, k, <<>>) = Get(t, k, <<>>) /\ Option(u, k) = Option(t, k)
  <2>1. k \notin DOMAIN c /\ k \notin DOMAIN s
    BY <1>2, <1>4
  <2>2. Get(And(t, c), k, <<>>) = Get(t, k, <<>>) /\ Option(And(t, c), k) = Option(t, k)
    BY <2>1 DEF And, Get, Option
  <2>3. Get(And(tc, s), k, <<>>) = Get(tc, k, <<>>) /\ Option(And(tc, s), k) = Option(tc, k)
    BY <2>1 DEF And, Get, Option
  <2> QED
    BY <2>2, <2>3 DEF tc, u
<1>8. ASSUME NEW k \in {"concurrency_cap", "queue_cap"} PROVE Get(u, k, d) = c[k]
  <2>1. k \notin DOMAIN t /\ k \notin DOMAIN s /\ k \in DOMAIN c
    BY <1>1, <1>2, <1>4
  <2>2. Get(And(t, c), k, d) = Get(c, k, d)
    BY <2>1 DEF And, Get
  <2>3. Get(And(tc, s), k, d) = Get(tc, k, d)
    BY <2>1 DEF And, Get
  <2>4. Get(c, k, d) = c[k]
    BY <2>1 DEF Get
  <2> QED
    BY <2>2, <2>3, <2>4 DEF tc, u
<1>9. Option(u, "size_tier") = Option(s, "size_tier")
  <2>1. "size_tier" \notin DOMAIN tc
    BY <1>6
  <2> QED
    BY <2>1 DEF u, And, Option
<1>10. Holds(u, p)
  BY <1>1, <1>7 DEF Holds
<1> QED
  BY <1>2, <1>4, <1>5, <1>8, <1>9, <1>10

\* Nothing is in a profile that is not read as it is written.
Plain(p) == p.bandwidth = {} /\ p.faults = <<>>

\* A written profile is read exactly when it is plain, and then it is the same.
LEMMA ProfileBack ==
  ASSUME NEW t, NEW p, Holds(t, p), p.faults \in Seq(ToSet(p.faults)),
         NEW table, p.latency = TableOf(table, LatencyDefaults)
  PROVE  /\ ProfileReads(t) <=> Plain(p)
         /\ Plain(p) => /\ ProfileOf(t).latency = p.latency
                        /\ ProfileOf(t).bandwidth = p.bandwidth
                        /\ ProfileOf(t).faults = p.faults
<1> DEFINE written == [i \in DOMAIN p.faults |-> FaultToml(p.faults[i])]
<1>1. \A b : ~BandwidthReads(BandwidthToml(b))
  BY DEF BandwidthReads, BandwidthToml
<1>2. \A f : ~FaultReads(FaultToml(f))
  BY DEF FaultReads, FaultToml, Option
<1>3. DOMAIN p.faults = {} <=> p.faults = <<>>
  <2> DEFINE fs == p.faults
             S == ToSet(fs)
  <2>1. fs \in Seq(S)
    OBVIOUS
  <2> HIDE DEF fs, S
  <2>2. fs # <<>> => Len(fs) \in Nat \ {0}
    BY <2>1, EmptySeq
  <2>3. DOMAIN fs = 1 .. Len(fs)
    BY <2>1
  <2>4. fs # <<>> => 1 \in DOMAIN fs
    BY <2>2, <2>3
  <2>5. fs = <<>> => DOMAIN fs = {}
    OBVIOUS
  <2> QED
    BY <2>4, <2>5 DEF fs
<1>4. (\A b \in Option(t, "bandwidth") : BandwidthReads(b)) <=> p.bandwidth = {}
  BY <1>1 DEF Holds
<1>5. (\A f \in ToSet(written) : FaultReads(f)) <=> p.faults = <<>>
  <2>1. ToSet(written) = {FaultToml(p.faults[i]) : i \in DOMAIN p.faults}
    BY DEF ToSet
  <2> QED
    BY <1>2, <1>3, <2>1
<1>6. ProfileReads(t) <=> Plain(p)
  BY <1>4, <1>5 DEF ProfileReads, Plain, Holds
<1>7. ASSUME Plain(p)
      PROVE  /\ ProfileOf(t).latency = p.latency
             /\ ProfileOf(t).bandwidth = p.bandwidth
             /\ ProfileOf(t).faults = p.faults
  <2>1. ProfileOf(t).latency = p.latency
    BY TableAgain DEF ProfileOf, Holds
  <2>2. ProfileOf(t).bandwidth = {}
    BY <1>7 DEF ProfileOf, Holds, Plain
  <2>3. ProfileOf(t).faults = <<>>
    <3>1. Get(t, "faults", <<>>) = written /\ DOMAIN written = {}
      BY <1>3, <1>7 DEF Holds, Plain
    <3>2. ProfileOf(t).faults = [i \in {} |-> FaultOf(written[i])]
      BY <3>1 DEF ProfileOf
    <3> QED
      BY <3>2
  <2> QED
    BY <1>7, <2>1, <2>2, <2>3 DEF Plain
<1> QED
  BY <1>6, <1>7

\* The same of a tier,
LEMMA TierBack ==
  ASSUME NEW t, NEW u, u = TierOf(t), ProfileIs(u.large)
  PROVE  LET w == [threshold_bytes |-> u.threshold_bytes, large |-> ProfileToml(u.large)]
         IN  /\ TierReads(w) <=> Plain(u.large)
             /\ Plain(u.large) => TierOf(w) = u
<1> DEFINE w == [threshold_bytes |-> u.threshold_bytes, large |-> ProfileToml(u.large)]
           back == ProfileOf(ProfileToml(u.large))
<1>1. u.threshold_bytes = t.threshold_bytes /\ u.large = ProfileOf(t.large)
  BY DEF TierOf
<1>2. u.large.latency = TableOf(Get(t.large, "latency", <<>>), LatencyDefaults)
  BY <1>1 DEF ProfileOf
<1>3. Holds(ProfileToml(u.large), u.large)
  BY ProfileWritten DEF ProfileIs
<1>4. /\ ProfileReads(ProfileToml(u.large)) <=> Plain(u.large)
      /\ Plain(u.large) => /\ back.latency = u.large.latency
                           /\ back.bandwidth = u.large.bandwidth
                           /\ back.faults = u.large.faults
  BY <1>2, <1>3, ProfileBack DEF ProfileIs
<1>5. TierReads(w) <=> ProfileReads(ProfileToml(u.large))
  BY DEF TierReads
<1>6. ASSUME Plain(u.large) PROVE TierOf(w) = u
  <2>1. back = [latency |-> back.latency, bandwidth |-> back.bandwidth, faults |-> back.faults]
    BY DEF ProfileOf
  <2>2. u.large = [latency |-> u.large.latency, bandwidth |-> u.large.bandwidth,
                   faults |-> u.large.faults]
    BY <1>1 DEF ProfileOf
  <2>3. back = u.large
    <3> HIDE DEF back
    <3> QED
      BY <1>4, <1>6, <2>1, <2>2
  <2>4. TierOf(w) = [threshold_bytes |-> u.threshold_bytes, large |-> back]
    BY DEF TierOf
  <2>5. u = [threshold_bytes |-> u.threshold_bytes, large |-> u.large]
    BY DEF TierOf
  <2> HIDE DEF back
  <2> QED
    BY <2>3, <2>4, <2>5
<1> QED
  BY <1>4, <1>5, <1>6

\* Nothing of the kind is in a policy or its tier.
PlainPolicy(p) == Plain(p) /\ \A t \in p.size_tier : Plain(t.large)

\* of a policy
LEMMA PolicyBack ==
  ASSUME NEW q, NEW p, p = PolicyOf(q), PolicyIs(p)
  PROVE  /\ PolicyReads(PolicyToml(p)) <=> PlainPolicy(p)
         /\ PlainPolicy(p) => PolicyOf(PolicyToml(p)) = p
<1> DEFINE u == PolicyToml(p)
           back == PolicyOf(u)
           W(t) == [threshold_bytes |-> t.threshold_bytes, large |-> ProfileToml(t.large)]
<1>1. /\ p.latency = TableOf(Get(q, "latency", <<>>), LatencyDefaults)
      /\ p.size_tier = {TierOf(t) : t \in Option(q, "size_tier")}
  BY DEF PolicyOf, ProfileOf
<1>2. /\ Holds(u, p)
      /\ Get(u, "concurrency_cap", PolicyDefaults.concurrency_cap) = p.concurrency_cap
      /\ Option(u, "size_tier") = TiersToml(p)
  BY PolicyWritten DEF PolicyIs, ProfileIs
<1>3. Get(u, "queue_cap", PolicyDefaults.queue_cap) = p.queue_cap
  BY PolicyWritten DEF PolicyIs, ProfileIs
<1>4. Option(u, "size_tier") = {W(t) : t \in p.size_tier}
  BY <1>2 DEF TiersToml
<1> HIDE DEF u
<1>5. /\ ProfileReads(u) <=> Plain(p)
      /\ Plain(p) => /\ ProfileOf(u).latency = p.latency
                     /\ ProfileOf(u).bandwidth = p.bandwidth
                     /\ ProfileOf(u).faults = p.faults
  BY <1>1, <1>2, ProfileBack DEF PolicyIs, ProfileIs
<1>6. ASSUME NEW t \in p.size_tier
      PROVE  (TierReads(W(t)) <=> Plain(t.large)) /\ (Plain(t.large) => TierOf(W(t)) = t)
  <2>1. PICK v \in Option(q, "size_tier") : t = TierOf(v)
    BY <1>1
  <2>2. ProfileIs(t.large)
    BY DEF PolicyIs
  <2> QED
    BY <2>1, <2>2, TierBack
<1> HIDE DEF W
<1>7. PolicyReads(u) <=> PlainPolicy(p)
  BY <1>4, <1>5, <1>6 DEF PolicyReads, PlainPolicy
<1>8. ASSUME PlainPolicy(p) PROVE back = p
  <2>1. /\ back.concurrency_cap = p.concurrency_cap /\ back.queue_cap = p.queue_cap
        /\ back.latency = p.latency /\ back.bandwidth = p.bandwidth /\ back.faults = p.faults
    BY <1>2, <1>3, <1>5, <1>8 DEF PolicyOf, PlainPolicy
  <2>2. back.size_tier = p.size_tier
    <3>1. back.size_tier = {TierOf(v) : v \in {W(t) : t \in p.size_tier}}
      BY <1>4 DEF PolicyOf
    <3>2. \A t \in p.size_tier : TierOf(W(t)) = t
      BY <1>6, <1>8 DEF PlainPolicy
    <3> QED
      BY <3>1, <3>2
  <2>3. back = [concurrency_cap |-> back.concurrency_cap, queue_cap |-> back.queue_cap,
                latency |-> back.latency, bandwidth |-> back.bandwidth, faults |-> back.faults,
                size_tier |-> back.size_tier]
    BY DEF PolicyOf
  <2>4. p = [concurrency_cap |-> p.concurrency_cap, queue_cap |-> p.queue_cap,
             latency |-> p.latency, bandwidth |-> p.bandwidth, faults |-> p.faults,
             size_tier |-> p.size_tier]
    BY DEF PolicyOf
  <2> HIDE DEF back
  <2> QED
    BY <2>1, <2>2, <2>3, <2>4
<1> QED
  BY <1>7, <1>8 DEF u

\* and of all of it.
LEMMA ConfigBack ==
  ASSUME NEW d, NEW c, c = ConfigOf(d), ConfigIs(c)
  PROVE  /\ ConfigReads(ConfigToml(c)) <=> \A o \in DOMAIN c.ops : PlainPolicy(c.ops[o])
         /\ ConfigReads(ConfigToml(c)) => ConfigOf(ConfigToml(c)) = c
<1> DEFINE t == ConfigToml(c)
           back == ConfigOf(t)
           ops == Get(d, "ops", <<>>)
           path == Option(Get(d, "metrics", <<>>), "jsonl_path")
<1>1. /\ c.mount = TableOf(Get(d, "mount", <<>>), MountDefaults)
      /\ c.files = TableOf(Get(d, "files", <<>>), FilesDefaults)
      /\ c.ops = [o \in DOMAIN ops |-> PolicyOf(ops[o])]
      /\ c.jsonl_path = path
  BY DEF ConfigOf
<1>2. /\ DOMAIN t = {"seed", "mount", "files", "ops", "metrics"}
      /\ t.seed = c.seed /\ t.mount = c.mount /\ t.files = c.files
      /\ t.ops = [o \in DOMAIN c.ops |-> PolicyToml(c.ops[o])]
      /\ t.metrics = Some("jsonl_path", c.jsonl_path)
  BY DEF ConfigToml
<1>3. t # Garbage
  <2>1. DOMAIN Garbage = {"syntax"}
    BY DEF Garbage
  <2> HIDE DEF t
  <2> QED
    BY <1>2, <2>1
<1> HIDE DEF t, ops
<1>4. /\ Get(t, "seed", DefaultConfig.seed) = c.seed
      /\ Get(t, "mount", <<>>) = c.mount /\ Get(t, "files", <<>>) = c.files
      /\ Get(t, "ops", <<>>) = t.ops /\ Get(t, "metrics", <<>>) = Some("jsonl_path", c.jsonl_path)
  BY <1>2 DEF Get
<1>5. ASSUME NEW o \in DOMAIN c.ops
      PROVE  /\ o \in ToSet(FsOp)
             /\ PolicyReads(PolicyToml(c.ops[o])) <=> PlainPolicy(c.ops[o])
             /\ PlainPolicy(c.ops[o]) => PolicyOf(PolicyToml(c.ops[o])) = c.ops[o]
  <2>1. c.ops[o] = PolicyOf(ops[o]) /\ PolicyIs(c.ops[o]) /\ o \in ToSet(FsOp)
    BY <1>1 DEF ConfigIs
  <2> QED
    BY <2>1, PolicyBack
<1>6. DOMAIN t.ops = DOMAIN c.ops /\ \A o \in DOMAIN c.ops : t.ops[o] = PolicyToml(c.ops[o])
  BY <1>2
<1>7. ConfigReads(t) <=> \A o \in DOMAIN c.ops : PlainPolicy(c.ops[o])
  BY <1>3, <1>4, <1>5, <1>6 DEF ConfigReads
<1>8. ASSUME ConfigReads(t) PROVE back = c
  <2>1. back.seed = c.seed
    BY <1>4 DEF ConfigOf
  <2>2. back.mount = c.mount /\ back.files = c.files
    BY <1>1, <1>4, TableAgain DEF ConfigOf
  <2>3. back.ops = c.ops
    <3>1. back.ops = [o \in DOMAIN t.ops |-> PolicyOf(t.ops[o])]
      BY <1>4 DEF ConfigOf
    <3>2. \A o \in DOMAIN c.ops : PolicyOf(t.ops[o]) = c.ops[o]
      BY <1>5, <1>6, <1>7, <1>8
    <3>3. c.ops = [o \in DOMAIN c.ops |-> c.ops[o]]
      BY <1>1
    <3> QED
      BY <1>6, <3>1, <3>2, <3>3
  <2>4. back.jsonl_path = c.jsonl_path
    <3>1. IsOption(c.jsonl_path)
      BY <1>1 DEF IsOption, Option
    <3>2. back.jsonl_path = Option(Some("jsonl_path", c.jsonl_path), "jsonl_path")
      BY <1>4 DEF ConfigOf
    <3> QED
      BY <3>1, <3>2, SomeAgain
  <2>5. back = [seed |-> back.seed, mount |-> back.mount, files |-> back.files, ops |-> back.ops,
                jsonl_path |-> back.jsonl_path]
    BY DEF ConfigOf
  <2>6. c = [seed |-> c.seed, mount |-> c.mount, files |-> c.files, ops |-> c.ops,
             jsonl_path |-> c.jsonl_path]
    BY DEF ConfigOf
  <2> HIDE DEF back
  <2> QED
    BY <2>1, <2>2, <2>3, <2>4, <2>5, <2>6
<1> QED
  BY <1>7, <1>8 DEF t

-----------------------------------------------------------------------------
(***************************************************************************)
(* What the samplers give for a profile that meets the rules.              *)
(***************************************************************************)

\* The rules that fire when the draws go to them in order.
Firing(rules, n, d) == {i \in 1 .. n : Fires(d[i], rules[i].rate)}

\* When every rule is for the operation, the draws go to the rules in order.
LEMMA FaultForm ==
  ASSUME NEW rules, NEW n \in Nat, DOMAIN rules = 1 .. n, NEW op, NEW d,
         \A i \in 1 .. n : rules[i].op = op
  PROVE  sample_fault(rules, op, d) =
           IF Firing(rules, n, d) = {} THEN {} ELSE {rules[Min(Firing(rules, n, d))].errno}
<1> DEFINE matching == {i \in DOMAIN rules : rules[i].op = op}
           draw(i) == d[Cardinality({j \in matching : j <= i})]
           found == {i \in matching : Fires(draw(i), rules[i].rate)}
           firing == {i \in 1 .. n : Fires(d[i], rules[i].rate)}
<1>1. matching = 1 .. n
  OBVIOUS
<1>2. ASSUME NEW i \in 1 .. n PROVE draw(i) = d[i]
  <2>1. {j \in matching : j <= i} = 1 .. i
    BY <1>1
  <2>2. Cardinality(1 .. i) = i
    BY FS_Interval
  <2> QED
    BY <2>1, <2>2
<1> HIDE DEF matching, draw
<1>3. found = firing
  BY <1>1, <1>2
<1>4. sample_fault(rules, op, d) = IF found = {} THEN {} ELSE {rules[Min(found)].errno}
  BY DEF sample_fault, matching, draw
<1> HIDE DEF found, firing
<1>5. sample_fault(rules, op, d) = IF firing = {} THEN {} ELSE {rules[Min(firing)].errno}
  BY <1>3, <1>4
<1> QED
  BY <1>5 DEF firing, Firing

\* A draw of either kind fires a rate of one, and neither fires a rate of zero.
LEMMA FiresByRate ==
  ASSUME NEW rate, IsF64(rate), NEW u \in Draw
  PROVE  /\ rate = One => Fires(u, rate)
         /\ Fires(u, rate) => Less(Zero, rate)
         /\ Less(Zero, rate) => Fires(0, rate)
         /\ Less(rate, One) => ~Fires(1, rate)
<1>1. rate.val \in Int /\ u \in {0, 1}
  BY Comparisons DEF Draw
<1>2. Fin(u).val = u /\ Fin(0).val = 0 /\ Fin(1).val = 1 /\ Zero.val = 0 /\ One.val = 2
  BY DEF Fin, Zero, One
<1>3. ~is_nan(Fin(u)) /\ ~is_nan(Fin(0)) /\ ~is_nan(Fin(1)) /\ ~is_nan(Zero) /\ ~is_nan(One)
  BY DEF is_nan, Fin, Zero, One
<1> QED
  BY <1>1, <1>2, <1>3 DEF Fires, Less

\* What FaultsFollowRates says of one sample.
FollowsRates(fault, faults) ==
  /\ \A e \in fault : \E i \in DOMAIN faults :
       /\ faults[i].errno = e /\ Less(Zero, faults[i].rate)
       /\ \A j \in 1 .. i - 1 : faults[j].rate # One
  /\ fault = {} => \A i \in DOMAIN faults : faults[i].rate # One

\* sample_fault injects as the rates say.
LEMMA FaultSampled ==
  ASSUME NEW p, ProfileIs(p), NEW op, ProfileMeets(p, op),
         NEW d, \A i \in 1 .. Len(p.faults) : d[i] \in Draw
  PROVE  FollowsRates(sample_fault(p.faults, op, d), p.faults)
<1> DEFINE rules == p.faults
           n == Len(rules)
           firing == Firing(rules, n, d)
           fault == sample_fault(rules, op, d)
<1>1. /\ n \in Nat /\ DOMAIN rules = 1 .. n
      /\ \A i \in 1 .. n : rules[i] \in ToSet(rules) /\ IsF64(rules[i].rate)
  BY DEF ProfileIs, ToSet
<1>2. \A i \in 1 .. n : rules[i].op = op
  BY <1>1 DEF ProfileMeets
<1>3. fault = IF firing = {} THEN {} ELSE {rules[Min(firing)].errno}
  <2> HIDE DEF rules, n
  <2> QED
    BY <1>1, <1>2, FaultForm
<1>4. \A i \in 1 .. n : /\ rules[i].rate = One => i \in firing
                        /\ i \in firing => Less(Zero, rules[i].rate)
  BY <1>1, FiresByRate DEF Firing
<1> HIDE DEF fault
<1>5. CASE firing = {}
  BY <1>1, <1>3, <1>4, <1>5 DEF FollowsRates, fault
<1>6. CASE firing # {}
  <2> DEFINE m == Min(firing)
  <2>1. m \in firing /\ \A k \in firing : m <= k
    <3>1. firing \in SUBSET Nat
      BY DEF Firing
    <3> HIDE DEF firing
    <3> QED
      BY <1>6, <3>1, MinIsLeast
  <2> HIDE DEF m
  <2>2. m \in 1 .. n /\ \A j \in 1 .. m - 1 : j \in 1 .. n /\ j \notin firing
    <3>1. firing \subseteq 1 .. n
      BY DEF Firing
    <3> HIDE DEF firing, n
    <3> QED
      BY <1>1, <2>1, <3>1
  <2>3. fault = {rules[m].errno}
    BY <1>3, <1>6 DEF m
  <2> HIDE DEF firing
  <2>4. Less(Zero, rules[m].rate) /\ \A j \in 1 .. m - 1 : rules[j].rate # One
    BY <1>4, <2>1, <2>2
  <2> QED
    BY <1>1, <2>2, <2>3, <2>4 DEF FollowsRates, fault
<1> QED
  BY <1>5, <1>6

\* A rule with a positive rate fires for some draws, when no earlier one always does.
LEMMA RuleFires ==
  ASSUME NEW p, ProfileIs(p), NEW op, ProfileMeets(p, op), NEW i \in DOMAIN p.faults,
         Less(Zero, p.faults[i].rate), \A j \in 1 .. i - 1 : Less(p.faults[j].rate, One)
  PROVE  \E d \in [DOMAIN p.faults -> Draw] :
           sample_fault(p.faults, op, d) = {p.faults[i].errno}
<1> DEFINE rules == p.faults
           n == Len(rules)
           d == [j \in 1 .. n |-> IF j = i THEN 0 ELSE 1]
           firing == Firing(rules, n, d)
<1>1. /\ n \in Nat /\ DOMAIN rules = 1 .. n
      /\ \A j \in 1 .. n : rules[j] \in ToSet(rules) /\ IsF64(rules[j].rate)
  BY DEF ProfileIs, ToSet
<1>2. \A j \in 1 .. n : rules[j].op = op
  BY <1>1 DEF ProfileMeets
<1>3. sample_fault(rules, op, d) = IF firing = {} THEN {} ELSE {rules[Min(firing)].errno}
  <2> HIDE DEF d, rules, n
  <2> QED
    BY <1>1, <1>2, FaultForm
<1>4. d \in [DOMAIN rules -> Draw]
  BY <1>1 DEF Draw
<1>5. i \in firing
  <2>1. d[i] = 0 /\ i \in 1 .. n /\ 0 \in Draw
    BY <1>1 DEF Draw
  <2> QED
    BY <1>1, <2>1, FiresByRate DEF Firing
<1>6. ASSUME NEW j \in firing PROVE i <= j
  <2>0. i \in 1 .. n /\ j \in 1 .. n /\ Fires(d[j], rules[j].rate)
    BY <1>1 DEF Firing
  <2> SUFFICES ASSUME j < i PROVE FALSE
    BY <1>1, <2>0
  <2>1. j \in 1 .. i - 1 /\ d[j] = 1 /\ 1 \in Draw
    BY <1>1, <2>0 DEF Draw
  <2>2. ~Fires(1, rules[j].rate)
    BY <1>1, <2>0, <2>1, FiresByRate
  <2> QED
    BY <2>0, <2>1, <2>2
<1>7. Min(firing) = i
  <2>1. firing \in SUBSET Nat /\ firing # {} /\ i \in Nat
    BY <1>1, <1>5 DEF Firing
  <2> HIDE DEF firing
  <2>2. Min(firing) \in firing /\ \A k \in firing : Min(firing) <= k
    BY <2>1, MinIsLeast
  <2>3. Min(firing) \in Nat /\ Min(firing) <= i /\ i <= Min(firing)
    BY <1>5, <1>6, <2>1, <2>2
  <2> QED
    BY <2>1, <2>3
<1>8. sample_fault(rules, op, d) = {rules[i].errno}
  <2> HIDE DEF firing, d
  <2> QED
    BY <1>3, <1>5, <1>7
<1> QED
  BY <1>4, <1>8

\* The values that f64 arithmetic gives, as numbers.
LEMMA FloatValues ==
  /\ IsF64(Infinity) /\ Infinity.val = F64Max + 1 /\ Infinity.cls = "inf"
  /\ IsF64(NegInfinity) /\ NegInfinity.val = -(F64Max + 1) /\ NegInfinity.cls = "inf"
  /\ IsF64(NaN) /\ NaN.val = 0 /\ NaN.cls = "nan"
  /\ IsF64(Zero) /\ Zero.val = 0 /\ Zero.cls = "finite"
<1>1. /\ IsF64(Infinity) /\ Infinity.val = F64Max + 1 /\ Infinity.cls = "inf"
      /\ IsF64(NegInfinity) /\ NegInfinity.val = -(F64Max + 1) /\ NegInfinity.cls = "inf"
      /\ IsF64(NaN) /\ NaN.val = 0 /\ NaN.cls = "nan"
  BY DEF IsF64, Infinity, NegInfinity, NaN
<1>2. Zero = Fin(0) /\ Zero.val = 0 /\ Zero.cls = "finite"
  BY DEF Zero, Fin
<1> QED
  BY <1>1, <1>2, SmallFloats

\* A result beyond the finite numbers is infinite, with its sign.
LEMMA SaturatedIs ==
  ASSUME NEW v \in Int
  PROVE  /\ IsF64(Saturated(v)) /\ Saturated(v).cls # "nan"
         /\ v > F64Max => Saturated(v) = Infinity
         /\ v <= F64Max => Saturated(v).val <= F64Max
         /\ \A b \in Int : b <= v /\ b <= F64Max => b <= Saturated(v).val
<1>1. F64Max \in Int /\ F64Max > 0
  BY F64MaxLarge
<1>2. CASE v > F64Max
  BY <1>1, <1>2, FloatValues DEF Saturated
<1>3. CASE v < -F64Max
  <2>1. Saturated(v) = NegInfinity
    BY <1>1, <1>3 DEF Saturated
  <2> QED
    BY <1>1, <1>3, <2>1, FloatValues
<1>4. CASE v \in -F64Max .. F64Max
  <2>1. Saturated(v) = Fin(v) /\ Fin(v).val = v /\ Fin(v).cls = "finite"
    BY <1>1, <1>4 DEF Saturated, Fin
  <2>2. IsF64(Fin(v))
    BY <1>4, <2>1 DEF IsF64
  <2> QED
    BY <1>1, <1>4, <2>1, <2>2
<1> QED
  BY <1>1, <1>2, <1>3, <1>4

\* The distance of the f64 around a number is of the list, and the number has
\* the magnitude for it.
LEMMA SpacingIs ==
  ASSUME NEW m \in Int, m > F64Exact
  PROVE  Spacing(m) \in Spacings /\ F64Exact * Spacing(m) < 2 * m
<1> DEFINE S == {s \in Spacings : F64Exact <= (2 * m - 1) \div s}
<1>0. F64Exact \in Int
  BY F64ExactPositive
<1>1. ASSUME NEW s \in Spacings PROVE F64Exact <= (2 * m - 1) \div s <=> F64Exact * s < 2 * m
  BY <1>0, SMT DEF Spacings
<1>2. \E x \in S : \A y \in S : x >= y
  <2>1. S = {s \in Spacings : F64Exact * s < 2 * m}
    BY <1>1
  <2> HIDE DEF S
  <2>2. \E x \in Spacings : F64Exact * x < 2 * m
                            /\ \A y \in Spacings : F64Exact * y < 2 * m => x >= y
    BY <1>0, SMT DEF Spacings
  <2> QED
    BY <2>1, <2>2
<1>3. Spacing(m) \in S
  BY <1>2 DEF Spacing, Max
<1> QED
  BY <1>1, <1>3

\* Rounding does not go below a whole number that is exact.
LEMMA NearestAbove ==
  ASSUME NEW v \in Int
  PROVE  /\ Nearest(v) \in Int
         /\ \A n \in Nat : n <= F64Exact /\ 2 * n <= v => 2 * n <= Nearest(v)
<1> DEFINE m == IF v < 0 THEN -v ELSE v
           s == Spacing(m)
<1>1. m \in Int /\ m >= v /\ F64Exact \in Int /\ F64Exact > 0 /\ F64Exact % 2 = 0
  BY F64ExactPositive
<1>2. Nearest(v) = IF m <= F64Exact THEN v ELSE NearestMultiple(v, s)
  BY DEF Nearest
<1>3. CASE m <= F64Exact
  BY <1>2, <1>3
<1>4. CASE m > F64Exact
  <2>1. s \in Spacings /\ F64Exact * s < 2 * m
    BY <1>1, <1>4, SpacingIs
  <2> HIDE DEF s, m
  <2>2. NearestMultiple(v, s) \in Int
    BY <2>1 DEF NearestMultiple, Spacings
  <2>3. ASSUME NEW n \in Nat, n <= F64Exact, 2 * n <= v
        PROVE  2 * n <= NearestMultiple(v, s)
    <3>1. m = v /\ F64Exact * s < 2 * v /\ F64Exact >= 1000
      <4>1. m = v
        BY <2>3 DEF m
      <4> QED
        BY <2>1, <4>1, F64ExactLarge, SMT
    <3>2. NearestMultiple(v, s) >= (v \div s) * s
      BY <2>1 DEF NearestMultiple, Spacings
    <3>3. CASE s = 2
      BY <2>2, <2>3, <3>2, <3>3
    <3>4. CASE s = 4
      <4>1. 2 * F64Exact <= (v \div 4) * 4
        BY <1>1, <3>1, <3>4
      <4> QED
        BY <1>1, <2>2, <2>3, <3>2, <3>4, <4>1
    <3>5. CASE s # 2 /\ s # 4
      <4>1. (v \div s) * s > v - s
        BY <2>1 DEF Spacings
      <4>2. F64Exact * s >= 4 * F64Exact + 2 * s
        BY <1>1, <2>1, <3>1, <3>5 DEF Spacings
      <4> QED
        BY <1>1, <2>1, <2>2, <2>3, <3>1, <3>2, <4>1, <4>2, SMT DEF Spacings
    <3> QED
      BY <3>3, <3>4, <3>5
  <2> QED
    BY <1>1, <1>2, <1>4, <2>2, <2>3
<1> QED
  BY <1>1, <1>3, <1>4

\* The lognormal body is never negative.
LEMMA LognormalIs ==
  ASSUME NEW median, IsF64(median), LessEq(Zero, median), NEW sigma, NEW u1, NEW u2
  PROVE  LET x == sample_lognormal(median, sigma, u1, u2)
         IN  IsF64(x) /\ x.val >= 0
<1> DEFINE x == sample_lognormal(median, sigma, u1, u2)
           shape == [near |-> median, up |-> Infinity, down |-> Zero]
<1>1. x \in {median, Infinity, Zero}
  <2>1. sample_standard_normal(u1, u2) \in {"near", "up", "down"}
    BY DEF sample_standard_normal
  <2>2. shape[sample_standard_normal(u1, u2)] \in {median, Infinity, Zero}
    BY <2>1
  <2>3. Greatest(median, Zero) \in {median, Zero}
    BY DEF Greatest
  <2> HIDE DEF shape
  <2>4. x = Greatest(median, Zero) \/ x = shape[sample_standard_normal(u1, u2)]
    BY DEF sample_lognormal, shape
  <2> QED
    BY <2>2, <2>3, <2>4
<1>2. median.val >= 0 /\ median.val \in Int
  BY Comparisons, FloatValues DEF LessEq
<1>3. F64Max \in Int /\ F64Max > 0
  BY F64MaxLarge
<1> HIDE DEF x
<1>4. IsF64(x) /\ x.val >= 0
  BY <1>1, <1>2, <1>3, FloatValues
<1> QED
  BY <1>4 DEF x

\* The Pareto tail has the sign of its scale.
LEMMA ParetoIs ==
  ASSUME NEW xm, IsF64(xm), is_finite(xm), NEW alpha, NEW u
  PROVE  LET x == sample_pareto(xm, alpha, u)
         IN  IsF64(x) /\ (LessEq(Zero, xm) => x.val >= 0)
<1> DEFINE x == sample_pareto(xm, alpha, u)
<1>1. x \in {Times(xm, 2), Zero, OverZero(xm)}
  BY DEF sample_pareto
<1>2. xm.val \in Int /\ F64Max \in Int /\ F64Max > 0
  BY Comparisons, F64MaxLarge
<1>3. LessEq(Zero, xm) => xm.val >= 0
  BY FloatValues DEF LessEq
<1>4. Times(xm, 2) = Saturated(xm.val * 2) /\ xm.val * 2 \in Int
  BY <1>2 DEF Times
<1>5. IsF64(Times(xm, 2)) /\ (xm.val >= 0 => Times(xm, 2).val >= 0)
  <2> DEFINE v == xm.val * 2
  <2>1. v \in Int /\ (xm.val >= 0 => v >= 0)
    BY <1>2
  <2> HIDE DEF v
  <2>2. IsF64(Saturated(v)) /\ \A b \in Int : b <= v /\ b <= F64Max => b <= Saturated(v).val
    BY <2>1, SaturatedIs
  <2>3. Saturated(v).val \in Int
    BY <2>2, Comparisons
  <2>4. v >= 0 => Saturated(v).val >= 0
    BY <1>2, <2>1, <2>2, <2>3
  <2>5. Times(xm, 2) = Saturated(v)
    BY <1>4 DEF v
  <2> QED
    BY <2>1, <2>2, <2>4, <2>5
<1>6. IsF64(OverZero(xm)) /\ (xm.val >= 0 => OverZero(xm).val >= 0)
  <2>1. OverZero(xm) \in {Infinity, NegInfinity, NaN}
    BY DEF OverZero
  <2>2. xm.val >= 0 => OverZero(xm) # NegInfinity
    <3>1. xm.val >= 0 => ~Less(xm, Zero)
      BY <1>2, FloatValues DEF Less
    <3>2. Infinity # NegInfinity /\ NaN # NegInfinity
      BY <1>2, FloatValues
    <3> QED
      BY <3>1, <3>2 DEF OverZero
  <2> QED
    BY <1>2, <2>1, <2>2, FloatValues
<1> HIDE DEF x
<1>7. IsF64(x) /\ (LessEq(Zero, xm) => x.val >= 0)
  BY <1>1, <1>3, <1>5, <1>6, FloatValues
<1> QED
  BY <1>7 DEF x

\* Lognormal or Pareto.
LEMMA BodyIs ==
  ASSUME NEW l, LatencyIs(l), LatencyMeets(l), NEW d
  PROVE  IsF64(Body(l, d)) /\ (LessEq(Zero, l.pareto_xm_us) => Body(l, d).val >= 0)
<1>1. /\ IsF64(l.lognormal_median_us) /\ LessEq(Zero, l.lognormal_median_us)
      /\ IsF64(l.pareto_xm_us)
  BY DEF LatencyIs, LatencyMeets
<1>2. is_finite(l.pareto_xm_us)
  <2>1. FloatFields[4] = "pareto_xm_us"
    BY DEF FloatFields
  <2>2. "pareto_xm_us" \in ToSet(FloatFields)
    BY <2>1, FieldNames
  <2> QED
    BY <2>2 DEF LatencyMeets
<1>3. \/ Body(l, d) = sample_lognormal(l.lognormal_median_us, l.lognormal_sigma, d[1], d[2])
      \/ Body(l, d) = sample_lognormal(l.lognormal_median_us, l.lognormal_sigma, d[2], d[3])
      \/ Body(l, d) = sample_pareto(l.pareto_xm_us, l.pareto_alpha, d[2])
  BY DEF Body
<1> QED
  BY <1>1, <1>2, <1>3, LognormalIs, ParetoIs

\* sample_latency_us keeps to max_us, and to base_us when that is exact as a double
\* and the Pareto scale is not negative.
LEMMA LatencySampled ==
  ASSUME NEW l, LatencyIs(l), LatencyMeets(l), NEW d
  PROVE  LET x == sample_latency_us(l, d)
         IN  /\ x \in Nat /\ x <= l.max_us
             /\ LessEq(Zero, l.pareto_xm_us) /\ l.base_us <= F64Exact => x >= l.base_us
<1> DEFINE body == Body(l, d)
           low == Whole(l.base_us)
           high == Whole(l.max_us)
           total == Plus(low, body)
           least == Least(total, high)
           clamped == Greatest(least, Zero)
           rounded == Rounded(clamped)
           floor == LessEq(Zero, l.pareto_xm_us) /\ l.base_us <= F64Exact
<1>1. /\ l.base_us \in Nat /\ l.max_us \in Nat /\ l.base_us <= l.max_us
      /\ 2 * l.base_us <= F64Max /\ 2 * l.max_us <= F64Max /\ F64Max \in Int
  BY U64Bounds, F64MaxLarge DEF LatencyIs, LatencyMeets
<1>2. /\ low.val \in Int /\ low.cls = "finite" /\ (floor => low.val >= 2 * l.base_us)
      /\ high.val \in Int /\ high.cls = "finite" /\ (floor => high.val >= 2 * l.base_us)
  <2>1. /\ low.val = Nearest(2 * l.base_us) /\ low.cls = "finite"
        /\ high.val = Nearest(2 * l.max_us) /\ high.cls = "finite"
    BY DEF Whole, Fin
  <2>2. 2 * l.base_us \in Int /\ 2 * l.max_us \in Int /\ 2 * l.base_us <= 2 * l.max_us
    BY <1>1
  <2> HIDE DEF low, high
  <2>3. /\ Nearest(2 * l.base_us) \in Int
        /\ l.base_us <= F64Exact => 2 * l.base_us <= Nearest(2 * l.base_us)
    BY <1>1, <2>2, NearestAbove
  <2>4. /\ Nearest(2 * l.max_us) \in Int
        /\ l.base_us <= F64Exact => 2 * l.base_us <= Nearest(2 * l.max_us)
    BY <1>1, <2>2, NearestAbove
  <2> QED
    BY <1>1, <2>1, <2>3, <2>4
<1>3. IsF64(body) /\ body.val \in Int /\ (floor => body.val >= 0)
  BY BodyIs, Comparisons
<1>4. sample_latency_us(l, d) = IF rounded < l.max_us THEN rounded ELSE l.max_us
  BY DEF sample_latency_us
<1> HIDE DEF body, low, high, floor
<1>5. total.val \in Int /\ (floor => total.cls = "nan" \/ total.val >= 2 * l.base_us)
  <2>1. CASE is_finite(body)
    <3> DEFINE w == low.val + body.val
               v == Nearest(w)
    <3>1. total = Saturated(v)
      BY <1>2, <2>1 DEF Plus, is_finite
    <3>2. v \in Int /\ (floor => 2 * l.base_us <= v)
      <4>1. w \in Int /\ (floor => 2 * l.base_us <= w)
        BY <1>1, <1>2, <1>3
      <4> HIDE DEF w
      <4> QED
        BY <1>1, <4>1, NearestAbove DEF floor
    <3> HIDE DEF v, total
    <3>3. IsF64(Saturated(v)) /\ \A b \in Int : b <= v /\ b <= F64Max => b <= Saturated(v).val
      BY <3>2, SaturatedIs
    <3>4. Saturated(v).val \in Int
      BY <3>3, Comparisons
    <3> QED
      BY <1>1, <3>1, <3>2, <3>3, <3>4
  <2>2. CASE ~is_finite(body)
    <3>1. total = body
      BY <1>2, <2>2 DEF Plus, is_finite
    <3>2. body \in {Infinity, NegInfinity, NaN}
      BY <1>3, <2>2 DEF IsF64, is_finite, Fin
    <3> HIDE DEF total
    <3> QED
      BY <1>1, <1>3, <3>1, <3>2, FloatValues, F64MaxLarge
  <2> QED
    BY <2>1, <2>2
<1> HIDE DEF total
<1>6. /\ least.cls # "nan" /\ least.val \in Int
      /\ floor => least.val >= 2 * l.base_us
  BY <1>1, <1>2, <1>5 DEF Least, Less, is_nan
<1> HIDE DEF least
<1>7. /\ clamped.cls # "nan" /\ clamped.val \in Nat
      /\ floor => clamped.val >= 2 * l.base_us
  BY <1>1, <1>6, FloatValues DEF Greatest, Less, is_nan
<1> HIDE DEF clamped
<1>8. rounded \in Nat /\ (floor => rounded >= l.base_us)
  <2>1. rounded = IF clamped.val > 0 THEN (clamped.val + 1) \div 2 ELSE 0
    BY <1>1, <1>7, FloatValues DEF Rounded, Less, is_nan
  <2> DEFINE c == clamped.val
             b == l.base_us
  <2>2. c \in Nat /\ b \in Nat /\ (floor => c >= 2 * b)
    BY <1>1, <1>7
  <2> HIDE DEF c, b, rounded
  <2>3. rounded = IF c > 0 THEN (c + 1) \div 2 ELSE 0
    BY <2>1 DEF c
  <2>4. rounded \in Nat /\ (floor => rounded >= b)
    BY <2>2, <2>3
  <2> QED
    BY <2>4 DEF b
<1> HIDE DEF rounded
<1> QED
  BY <1>1, <1>4, <1>8 DEF floor

-----------------------------------------------------------------------------
(***************************************************************************)
(* The inductive invariant of the loading and the sampling.                 *)
(***************************************************************************)

Stages == {"reading", "unreadable", "parsed", "validating", "rejected", "accepted", "saved"}

\* What has been read has its types, and a typed document is read only once.
LoadTyped ==
  /\ stage \in Stages
  /\ stage = "reading" => TextTyped(text) /\ pending = {}
  /\ ConfigIs(config)
  /\ pending \subseteq DOMAIN config.ops
  /\ error \in Seq(PathNames)

\* The files and the ops that are not pending meet the rules; the path of an
\* error is in a part that does not.
Verdict ==
  /\ stage \in {"validating", "accepted", "saved"} =>
       /\ config.files.inode_count > 0 /\ config.files.file_size_bytes > 0
       /\ \A o \in DOMAIN config.ops \ pending : PolicyMeets(config.ops[o], o)
  /\ stage \in {"accepted", "saved"} => pending = {}
  /\ stage = "rejected" =>
       \/ error[1] = "files" /\ config.files[error[2]] = 0
       \/ error[1] = "ops" /\ ~PolicyMeets(config.ops[error[2]], error[2])

\* What is known of one sample.
SampleIs(s) ==
  /\ KeyIs(s.key) /\ s.key.seed = Bits(config.seed)
  /\ s.latency_seed = latency_rng(s.key) /\ s.fault_seed = fault_rng(s.key)
  /\ s.latency \in Nat /\ s.latency <= ProfileFor(s.request).latency.max_us
  /\ /\ LessEq(Zero, ProfileFor(s.request).latency.pareto_xm_us)
     /\ ProfileFor(s.request).latency.base_us <= F64Exact
     => s.latency >= ProfileFor(s.request).latency.base_us
  /\ FollowsRates(s.fault, ProfileFor(s.request).faults)

\* Operations are sampled under an accepted configuration only; the numbers of
\* each generator are draws.
Sampled ==
  /\ samples \in Seq(ToSet(samples)) /\ seq = Len(samples) /\ seq <= MaxOps
  /\ seq > 0 => stage \in {"accepted", "saved"}
  /\ \A i \in 1 .. Len(samples) : SampleIs(samples[i])
  /\ \A z \in DOMAIN rng : z.finalized \in Word /\ rng[z] \in Seq(Draw)

IInv == LoadTyped /\ Verdict /\ Sampled

\* The invariant holds at the start.
LEMMA InitIInv == Init => IInv
<1> SUFFICES ASSUME Init PROVE IInv
  OBVIOUS
<1>1. TextTyped(text) /\ stage = "reading" /\ config = DefaultConfig /\ pending = {} /\ error = <<>>
  BY TextsTyped DEF Init, Ok
<1>2. seq = 0 /\ rng = <<>> /\ samples = <<>>
  BY DEF Init
<1>3. LoadTyped
  BY <1>1, DefaultsAre DEF LoadTyped, Stages
<1>4. Verdict
  BY <1>1 DEF Verdict
<1>5. <<>> \in Seq(ToSet(<<>>)) /\ Len(<<>>) = 0 /\ DOMAIN <<>> = {} /\ 1 .. 0 = {}
  OBVIOUS
<1>6. Sampled
  BY <1>2, <1>5, MaxOpsIsNat DEF Sampled
<1> QED
  BY <1>3, <1>4, <1>6 DEF IInv

\* The profile of any request, when the configuration meets the rules.
LEMMA ProfileForIs ==
  ASSUME ConfigIs(config), \A o \in DOMAIN config.ops : PolicyMeets(config.ops[o], o), NEW r
  PROVE  ProfileIs(ProfileFor(r)) /\ ProfileMeets(ProfileFor(r), r.op)
<1> DEFINE p == PolicyFor(r.op)
           large == {t \in p.size_tier : r.op \in DataOps /\ r.requested_len > t.threshold_bytes}
<1>1. PolicyIs(p) /\ PolicyMeets(p, r.op)
  BY DefaultsAre DEF PolicyFor, Get, ConfigIs
<1>2. ProfileFor(r) = IF large = {} THEN p ELSE (CHOOSE t \in large : TRUE).large
  BY DEF ProfileFor
<1> HIDE DEF p
<1>3. CASE large = {}
  BY <1>1, <1>2, <1>3 DEF PolicyIs, PolicyMeets
<1>4. CASE large # {}
  <2>1. PICK t \in p.size_tier : t = CHOOSE u \in large : TRUE
    BY <1>4
  <2>2. ProfileFor(r) = t.large
    BY <1>2, <1>4, <2>1
  <2> QED
    BY <1>1, <2>2 DEF PolicyIs, PolicyMeets
<1> QED
  BY <1>3, <1>4

\* Nothing of the samples changes while a configuration is loaded.
LEMMA LoadingKeepsSamples ==
  ASSUME Sampled, UNCHANGED sampling,
         \/ UNCHANGED config /\ (stage \in {"accepted", "saved"} => stage' \in {"accepted", "saved"})
         \/ stage = "reading"
  PROVE  Sampled'
<1>1. samples' = samples /\ seq' = seq /\ rng' = rng
  BY DEF sampling
<1>2. CASE UNCHANGED config /\ (stage \in {"accepted", "saved"} => stage' \in {"accepted", "saved"})
  <2>1. ASSUME NEW r PROVE ProfileFor(r)' = ProfileFor(r)
    BY <1>2 DEF ProfileFor, PolicyFor
  <2> QED
    BY <1>1, <1>2, <2>1 DEF Sampled, SampleIs
<1>3. CASE stage = "reading"
  <2>1. seq = 0 /\ 1 .. Len(samples) = {}
    BY <1>3 DEF Sampled
  <2> QED
    BY <1>1, <2>1 DEF Sampled
<1> QED
  BY <1>2, <1>3

\* print-default-config.
LEMMA PrintDefaultIInv == IInv /\ PrintDefault => IInv'
<1> SUFFICES ASSUME IInv, PrintDefault PROVE IInv'
  OBVIOUS
<1>1. /\ text' = ConfigToml(DefaultConfig) /\ stage = "reading"
      /\ stage' = stage /\ config' = config /\ pending' = pending /\ error' = error
      /\ UNCHANGED sampling
  BY DEF PrintDefault
<1>2. LoadTyped' /\ Verdict'
  BY <1>1, DefaultsAre DEF IInv, LoadTyped, Verdict
<1>3. Sampled'
  BY <1>1, LoadingKeepsSamples DEF IInv
<1> QED
  BY <1>2, <1>3 DEF IInv

\* Reading and parsing.
LEMMA ReadIInv == IInv /\ (ReadFails \/ Parse) => IInv'
<1> SUFFICES ASSUME IInv, ReadFails \/ Parse PROVE IInv'
  OBVIOUS
<1>1. /\ stage = "reading" /\ text' = text /\ pending' = pending /\ error' = error
      /\ UNCHANGED sampling
      /\ \/ stage' = "unreadable" /\ config' = config
         \/ stage' = "parsed" /\ ConfigReads(text) /\ config' = ConfigOf(text)
            /\ pending = {}
  BY DEF ReadFails, Parse, IInv, LoadTyped
<1>2. LoadTyped' /\ Verdict'
  BY <1>1, ConfigRead DEF IInv, LoadTyped, Verdict, Stages
<1>3. Sampled'
  BY <1>1, LoadingKeepsSamples DEF IInv
<1> QED
  BY <1>2, <1>3 DEF IInv

\* The files table is checked, and the ops are to come.
LEMMA CheckFilesIInv == IInv /\ CheckFiles => IInv'
<1> SUFFICES ASSUME IInv, CheckFiles PROVE IInv'
  OBVIOUS
<1> DEFINE r == ValidateFiles(config.files)
<1>1. /\ stage = "parsed" /\ text' = text /\ config' = config /\ UNCHANGED sampling
      /\ error' = r /\ pending' = DOMAIN config.ops
      /\ stage' = IF r = Ok THEN "validating" ELSE "rejected"
  BY DEF CheckFiles, Report
<1>2. \/ r = Ok /\ config.files.inode_count > 0 /\ config.files.file_size_bytes > 0
      \/ r = <<"files", "inode_count">> /\ config.files.inode_count = 0
      \/ r = <<"files", "file_size_bytes">> /\ config.files.file_size_bytes = 0
  BY FilesJudged DEF IInv, LoadTyped, ConfigIs
<1> HIDE DEF r
<1>3. /\ <<"files", "inode_count">> \in Seq(PathNames)
      /\ <<"files", "file_size_bytes">> \in Seq(PathNames) /\ Ok \in Seq(PathNames)
  <2>1. "files" \in PathNames /\ "inode_count" \in PathNames /\ "file_size_bytes" \in PathNames
    BY DEF PathNames
  <2> QED
    BY <2>1 DEF Ok
<1>4. <<"files", "inode_count">> # Ok /\ <<"files", "file_size_bytes">> # Ok
  BY DEF Ok
<1>5. error' \in Seq(PathNames)
  BY <1>1, <1>2, <1>3
<1>6. LoadTyped'
  BY <1>1, <1>5 DEF IInv, LoadTyped, Stages
<1>7. Verdict'
  BY <1>1, <1>2, <1>4 DEF Verdict
<1>8. Sampled'
  BY <1>1, LoadingKeepsSamples DEF IInv
<1> QED
  BY <1>6, <1>7, <1>8 DEF IInv

\* One op is checked.
LEMMA CheckOpIInv == ASSUME IInv, NEW o \in pending, CheckOp(o) PROVE IInv'
<1> DEFINE r == validate_op_policy(o, config.ops[o], <<"ops", o>>)
<1>1. /\ stage = "validating" /\ text' = text /\ config' = config /\ UNCHANGED sampling
      /\ error' = r /\ pending' = pending \ {o}
      /\ stage' = IF r = Ok THEN "validating" ELSE "rejected"
  BY DEF CheckOp, Report
<1>2. PolicyIs(config.ops[o]) /\ o \in ToSet(FsOp) /\ o \in DOMAIN config.ops
  BY DEF IInv, LoadTyped, ConfigIs
<1>3. Under(<<"ops", o>>, o)
  <2>1. "ops" \in PathNames /\ o \in PathNames
    BY <1>2 DEF PathNames
  <2> QED
    BY <2>1 DEF Under
<1>4. Judges(r, PolicyMeets(config.ops[o], o), o)
  BY <1>2, <1>3, PolicyJudged
<1> HIDE DEF r
<1>5. r \in Seq(PathNames)
  <2>1. Ok \in Seq(PathNames)
    BY DEF Ok
  <2> QED
    BY <1>4, <2>1 DEF Judges, Under
<1>6. LoadTyped'
  BY <1>1, <1>5 DEF IInv, LoadTyped, Stages
<1>7. Verdict'
  <2>1. CASE r = Ok
    BY <1>1, <1>4, <2>1 DEF IInv, Verdict, Judges
  <2>2. CASE r # Ok
    <3>1. r[1] = "ops" /\ r[2] = o /\ ~PolicyMeets(config.ops[o], o)
      BY <1>4, <2>2 DEF Judges, Under
    <3> QED
      BY <1>1, <2>2, <3>1 DEF Verdict
  <2> QED
    BY <2>1, <2>2
<1>8. Sampled'
  BY <1>1, LoadingKeepsSamples DEF IInv
<1> QED
  BY <1>6, <1>7, <1>8 DEF IInv

\* All ops are checked, or an accepted configuration is written out.
LEMMA AcceptIInv == IInv /\ (Accept \/ Save) => IInv'
<1> SUFFICES ASSUME IInv, Accept \/ Save PROVE IInv'
  OBVIOUS
<1>1. /\ config' = config /\ UNCHANGED sampling
      /\ error' = error /\ pending' = pending /\ pending = {}
      /\ stage \in {"validating", "accepted"} /\ stage' \in {"accepted", "saved"}
  BY DEF Accept, Save, IInv, Verdict
<1>2. LoadTyped' /\ Verdict'
  BY <1>1 DEF IInv, LoadTyped, Verdict, Stages
<1>3. Sampled'
  BY <1>1, LoadingKeepsSamples DEF IInv
<1> QED
  BY <1>2, <1>3 DEF IInv

\* The combination of a key's words is a word.
LEMMA MixIsWord ==
  ASSUME NEW key \in [Fields -> Word], NEW stream \in Word
  PROVE  mix(key, stream).finalized \in Word
<1>1. ASSUME NEW v \in Word, NEW r \in Nat PROVE RotateLeft(v, r) \in Word
  BY DEF RotateLeft, Word
<1>2. ASSUME NEW v \in Word, NEW w \in Word PROVE SymDiff(v, w) \in Word
  BY DEF SymDiff, Word
<1>3. /\ key.seed \in Word /\ key.op \in Word /\ key.ino \in Word
      /\ key.offset \in Word /\ key.len \in Word /\ key.seq \in Word
  BY DEF Fields
<1>4. /\ RotateLeft(key.op, 11) \in Word /\ RotateLeft(key.ino, 23) \in Word
      /\ RotateLeft(key.offset, 37) \in Word /\ RotateLeft(key.len, 47) \in Word
      /\ RotateLeft(key.seq, 53) \in Word
  BY <1>1, <1>3
<1>5. Combined(key, stream) \in Word
  <2> DEFINE Xor(v, w) == SymDiff(v, w)
             a == Xor(RotateLeft(key.seq, 53), stream)
             b == Xor(RotateLeft(key.len, 47), a)
             c == Xor(RotateLeft(key.offset, 37), b)
             d == Xor(RotateLeft(key.ino, 23), c)
             e == Xor(RotateLeft(key.op, 11), d)
  <2>1. a \in Word
    BY <1>2, <1>4
  <2>2. b \in Word
    BY <1>2, <1>4, <2>1
  <2>3. c \in Word
    BY <1>2, <1>4, <2>2
  <2>4. d \in Word
    BY <1>2, <1>4, <2>3
  <2>5. e \in Word
    BY <1>2, <1>4, <2>4
  <2>6. Combined(key, stream) = Xor(key.seed, e)
    BY DEF Combined
  <2> HIDE DEF a, b, c, d, e
  <2> QED
    BY <1>2, <1>3, <2>5, <2>6
<1> QED
  BY <1>5 DEF mix, Splitmix64

\* The numbers of a generator: draws, and as many as are asked for.
LEMMA DrawnIs ==
  ASSUME Sampled, NEW z, NEW n \in Nat, NEW f \in Drawn(z, n)
  PROVE  f \in Seq(Draw) /\ \A i \in 1 .. n : f[i] \in Draw
<1> DEFINE known == Get(rng, z, <<>>)
           m == Max({n, Len(known)})
<1>1. Len(known) \in Nat
  BY DEF Sampled, Get
<1>2. m \in Nat /\ n <= m
  <2> DEFINE k == Len(known)
  <2>1. k \in Nat
    BY <1>1
  <2> HIDE DEF k
  <2>2. \E x \in {n, k} : \A y \in {n, k} : x >= y
    BY <2>1
  <2>3. Max({n, k}) \in {n, k} /\ \A y \in {n, k} : Max({n, k}) >= y
    BY <2>2 DEF Max
  <2> QED
    BY <2>1, <2>3 DEF k
<1>3. f \in [1 .. m -> Draw]
  BY DEF Drawn
<1> HIDE DEF m
<1>4. f \in Seq(Draw)
  BY <1>2, <1>3, SeqDef
<1> QED
  BY <1>2, <1>3, <1>4

\* An operation is sampled.
LEMMA RunOpIInv == ASSUME IInv, NEW r \in Requests, RunOp(r) PROVE IInv'
<1> DEFINE key == KeyOf(r, seq)
           p == ProfileFor(r)
           fault_seed == fault_rng(key)
           latency_seed == latency_rng(key)
<1>1. PICK f \in Drawn(fault_seed, Len(p.faults)),
           l \in Drawn(latency_seed, LatencyDraws(p.latency)) :
        /\ rng' = [z \in DOMAIN rng \cup {latency_seed, fault_seed} |->
                     IF z = latency_seed THEN l ELSE IF z = fault_seed THEN f ELSE rng[z]]
        /\ samples' = Append(samples,
             [request |-> r, key |-> key,
              fault_seed |-> fault_seed, latency_seed |-> latency_seed,
              fault |-> sample_fault(p.faults, r.op, f),
              latency |-> sample_latency_us(p.latency, l)])
  BY DEF RunOp
<1>2. stage = "accepted" /\ seq < MaxOps /\ seq' = seq + 1 /\ UNCHANGED loading
  BY DEF RunOp
<1>3. ProfileIs(p) /\ ProfileMeets(p, r.op)
  <2>1. ConfigIs(config) /\ \A o \in DOMAIN config.ops : PolicyMeets(config.ops[o], o)
    BY <1>2 DEF IInv, LoadTyped, Verdict
  <2> QED
    BY <2>1, ProfileForIs
<1>4. KeyIs(key) /\ key.seed = Bits(config.seed)
  BY KeyOfIs
<1>5. fault_seed.finalized \in Word /\ latency_seed.finalized \in Word
  <2>1. LATENCY_STREAM \in Word /\ FAULT_STREAM \in Word
    BY DEF LATENCY_STREAM, FAULT_STREAM, Word
  <2> QED
    BY <1>4, <2>1, MixIsWord DEF fault_rng, latency_rng, KeyIs
<1> HIDE DEF key, p, fault_seed, latency_seed
<1>6. f \in Seq(Draw) /\ l \in Seq(Draw) /\ \A i \in 1 .. Len(p.faults) : f[i] \in Draw
  <2>1. Len(p.faults) \in Nat /\ LatencyDraws(p.latency) \in Nat
    BY <1>3 DEF ProfileIs, LatencyDraws
  <2> QED
    BY <2>1, DrawnIs DEF IInv
<1> DEFINE e == [request |-> r, key |-> key,
                 fault_seed |-> fault_seed, latency_seed |-> latency_seed,
                 fault |-> sample_fault(p.faults, r.op, f),
                 latency |-> sample_latency_us(p.latency, l)]
<1>7. SampleIs(e)
  <2>1. FollowsRates(sample_fault(p.faults, r.op, f), p.faults)
    BY <1>3, <1>6, FaultSampled
  <2>2. LatencyIs(p.latency) /\ LatencyMeets(p.latency)
    BY <1>3 DEF ProfileIs, ProfileMeets
  <2>3. /\ sample_latency_us(p.latency, l) \in Nat
        /\ sample_latency_us(p.latency, l) <= p.latency.max_us
        /\ LessEq(Zero, p.latency.pareto_xm_us) /\ p.latency.base_us <= F64Exact
             => sample_latency_us(p.latency, l) >= p.latency.base_us
    BY <2>2, LatencySampled
  <2>4. /\ e.request = r /\ e.key = key
        /\ e.latency_seed = latency_seed /\ e.fault_seed = fault_seed
        /\ e.fault = sample_fault(p.faults, r.op, f)
        /\ e.latency = sample_latency_us(p.latency, l)
    OBVIOUS
  <2>5. ProfileFor(e.request) = p
    BY <2>4 DEF p
  <2>6. latency_seed = latency_rng(key) /\ fault_seed = fault_rng(key)
    BY DEF latency_seed, fault_seed
  <2> HIDE DEF e
  <2> QED
    BY <1>4, <2>1, <2>3, <2>4, <2>5, <2>6 DEF SampleIs
<1>8. samples' = Append(samples, e)
  BY <1>1
<1> HIDE DEF e
<1>9. /\ samples' \in Seq(ToSet(samples'))
      /\ Len(samples') = Len(samples) + 1 /\ Len(samples) \in Nat
      /\ samples'[Len(samples) + 1] = e
      /\ \A i \in 1 .. Len(samples) : samples'[i] = samples[i]
  <2> DEFINE S == ToSet(samples) \cup {e}
  <2>1. samples \in Seq(S)
    BY DEF IInv, Sampled
  <2> HIDE DEF S
  <2>2. e \in S
    BY DEF S
  <2>3. /\ samples' \in Seq(S) /\ Len(samples') = Len(samples) + 1 /\ Len(samples) \in Nat
        /\ samples'[Len(samples) + 1] = e
        /\ \A i \in 1 .. Len(samples) : samples'[i] = samples[i]
    BY <1>8, <2>1, <2>2
  <2>4. samples' \in [1 .. Len(samples') -> ToSet(samples')] /\ Len(samples') \in Nat
    BY <2>3 DEF ToSet
  <2>5. samples' \in Seq(ToSet(samples'))
    <3> DEFINE n == Len(samples')
               T == ToSet(samples')
    <3>1. n \in Nat /\ samples' \in [1 .. n -> T]
      BY <2>4
    <3> HIDE DEF n, T
    <3>2. samples' \in Seq(T)
      BY <3>1, SeqDef
    <3> QED
      BY <3>2 DEF T
  <2> QED
    BY <2>3, <2>5
<1>10. config' = config /\ \A q : ProfileFor(q)' = ProfileFor(q)
  BY <1>2 DEF ProfileFor, PolicyFor, loading
<1>11. ASSUME NEW i \in 1 .. Len(samples') PROVE SampleIs(samples[i])'
  <2>1. SampleIs(samples'[i])
    <3>1. CASE i = Len(samples) + 1
      BY <1>7, <1>9, <3>1
    <3>2. CASE i \in 1 .. Len(samples)
      BY <1>9, <3>2 DEF IInv, Sampled
    <3> QED
      BY <1>9, <3>1, <3>2
  <2> QED
    BY <2>1, <1>10 DEF SampleIs
<1>12. ASSUME NEW z \in DOMAIN rng' PROVE z.finalized \in Word /\ rng'[z] \in Seq(Draw)
  <2>1. z \in DOMAIN rng \cup {latency_seed, fault_seed}
        /\ rng'[z] = IF z = latency_seed THEN l ELSE IF z = fault_seed THEN f ELSE rng[z]
    BY <1>1
  <2> QED
    BY <1>5, <1>6, <2>1 DEF IInv, Sampled
<1>13. Sampled'
  <2>1. seq' = Len(samples') /\ seq' <= MaxOps /\ stage' = "accepted"
    BY <1>2, <1>9, MaxOpsIsNat DEF IInv, Sampled, loading
  <2> QED
    BY <1>9, <1>11, <1>12, <2>1 DEF Sampled
<1>14. LoadTyped' /\ Verdict'
  BY <1>2 DEF IInv, LoadTyped, Verdict, loading
<1> QED
  BY <1>13, <1>14 DEF IInv

\* Every step keeps the invariant.
LEMMA NextIInv == IInv /\ [Next]_vars => IInv'
<1> SUFFICES ASSUME IInv, [Next]_vars PROVE IInv'
  OBVIOUS
<1>1. CASE PrintDefault
  BY <1>1, PrintDefaultIInv
<1>2. CASE ReadFails \/ Parse
  BY <1>2, ReadIInv
<1>3. CASE CheckFiles
  BY <1>3, CheckFilesIInv
<1>4. CASE Accept \/ Save
  BY <1>4, AcceptIInv
<1>5. ASSUME NEW o \in pending, CheckOp(o) PROVE IInv'
  BY <1>5, CheckOpIInv
<1>6. ASSUME NEW r \in Requests, RunOp(r) PROVE IInv'
  BY <1>6, RunOpIInv
<1>7. CASE UNCHANGED vars
  <2>1. UNCHANGED sampling /\ UNCHANGED loading
    BY <1>7 DEF vars, sampling, loading
  <2>2. LoadTyped' /\ Verdict'
    BY <2>1 DEF IInv, LoadTyped, Verdict, loading
  <2>3. Sampled'
    BY <2>1, LoadingKeepsSamples DEF IInv, loading
  <2> QED
    BY <2>2, <2>3 DEF IInv
<1> QED
  BY <1>1, <1>2, <1>3, <1>4, <1>5, <1>6, <1>7 DEF Next, Done

\* The invariant holds throughout.
THEOREM Invariance == Spec => []IInv
BY InitIInv, NextIInv, PTL DEF Spec

\* A configuration that was read came from a document, and what was saved is
\* what is written of it.
Origin ==
  /\ stage \in {"parsed", "validating", "accepted", "saved"} => \E d : config = ConfigOf(d)
  /\ stage = "saved" => text = ConfigToml(config)

\* Every step keeps this.
LEMMA NextOrigin == Origin /\ [Next]_vars => Origin'
<1> SUFFICES ASSUME Origin, [Next]_vars PROVE Origin'
  OBVIOUS
<1>1. CASE PrintDefault \/ ReadFails \/ Parse
  BY <1>1 DEF PrintDefault, ReadFails, Parse, Origin
<1>2. CASE CheckFiles \/ Accept \/ Save
  BY <1>2 DEF CheckFiles, Report, Accept, Save, Origin
<1>3. ASSUME NEW o \in pending, CheckOp(o) PROVE Origin'
  BY <1>3 DEF CheckOp, Report, Origin
<1>4. ASSUME NEW r \in Requests, RunOp(r) PROVE Origin'
  <2>1. UNCHANGED loading
    BY <1>4 DEF RunOp
  <2> QED
    BY <2>1 DEF loading, Origin
<1>5. CASE UNCHANGED vars
  BY <1>5 DEF vars, Origin
<1> QED
  BY <1>1, <1>2, <1>3, <1>4, <1>5 DEF Next, Done

\* It holds throughout.
THEOREM OriginInvariance == Spec => []Origin
<1>1. Init => Origin
  BY DEF Init, Origin
<1> QED
  BY <1>1, NextOrigin, PTL DEF Spec

\* The elements of the history are the samples at its indices.
LEMMA SampleAt ==
  ASSUME Sampled, NEW s \in ToSet(samples)
  PROVE  SampleIs(s)
<1>1. PICK i \in 1 .. Len(samples) : s = samples[i]
  BY DEF Sampled, ToSet
<1> QED
  BY <1>1 DEF Sampled

\* The variables have their types: error paths are made of known names, seeds
\* and keys are words, sampled latencies natural numbers.
THEOREM TypesCorrect == Spec => []TypeOK
<1>1. IInv => TypeOK
  BY SampleAt DEF IInv, LoadTyped, Sampled, TypeOK, Stages, ConfigIs, SampleIs, KeyIs
<1> QED
  BY <1>1, Invariance, PTL

\* Whatever the order in which the HashMap gives the ops, a configuration is
\* accepted only when all of it meets the rules, NaN and infinity included, and
\* an error is reported in a part that breaks one.
THEOREM VerdictCorrect == Spec => []VerdictIsRight
<1>1. IInv => VerdictIsRight
  BY DEF IInv, Verdict, VerdictIsRight
<1> QED
  BY <1>1, Invariance, PTL

\* No rule of an accepted configuration is dead.
THEOREM RulesAreLive == Spec => []RulesCanFire
<1>1. IInv => RulesCanFire
  <2> SUFFICES ASSUME IInv, stage = "accepted", NEW p \in Profiles, NEW i \in DOMAIN p[1].faults,
                      Less(Zero, p[1].faults[i].rate),
                      \A j \in 1 .. i - 1 : Less(p[1].faults[j].rate, One)
               PROVE  \E d \in [DOMAIN p[1].faults -> Draw] :
                        sample_fault(p[1].faults, p[2], d) = {p[1].faults[i].errno}
    BY DEF RulesCanFire
  <2>1. PICK o \in DOMAIN config.ops :
          p \in {<<config.ops[o], o>>} \cup {<<t.large, o>> : t \in config.ops[o].size_tier}
    BY DEF Profiles
  <2>2. PolicyIs(config.ops[o]) /\ PolicyMeets(config.ops[o], o)
    BY DEF IInv, LoadTyped, Verdict, ConfigIs
  <2>3. ProfileIs(p[1]) /\ ProfileMeets(p[1], p[2])
    BY <2>1, <2>2 DEF PolicyIs, PolicyMeets
  <2> QED
    BY <2>3, RuleFires
<1> QED
  BY <1>1, Invariance, PTL

\* Faults are injected as the rates of the tier's rules say.
THEOREM FaultsCorrect == Spec => []FaultsFollowRates
<1>1. IInv => FaultsFollowRates
  BY SampleAt DEF IInv, SampleIs, FollowsRates, FaultsFollowRates
<1> QED
  BY <1>1, Invariance, PTL

\* Sampled latencies are at most max_us, and at least base_us unless pareto_xm_us
\* is negative or base_us is above 2^53 and may be rounded down as a double.
THEOREM LatencyCorrect == Spec => []LatencyInBounds
<1>1. IInv => LatencyInBounds
  BY SampleAt DEF IInv, SampleIs, LatencyInBounds
<1> QED
  BY <1>1, Invariance, PTL

\* A key that differs from the last sampled one in one field, whatever the words
\* in Probes, gets another seed from mix.
THEOREM FieldChangeCorrect == Spec => []FieldChangeSeparates
<1>1. IInv => FieldChangeSeparates
  <2> SUFFICES ASSUME IInv, samples # <<>>,
                      NEW f \in Fields, NEW w \in Probes, w # Last(samples).key[f]
               PROVE  latency_rng([Last(samples).key EXCEPT ![f] = w]) # Last(samples).latency_seed
    BY DEF FieldChangeSeparates
  <2>1. Len(samples) \in 1 .. Len(samples) /\ Last(samples) = samples[Len(samples)]
    BY DEF IInv, Sampled, Last
  <2>2. /\ Last(samples).key \in [Fields -> Word]
        /\ Last(samples).latency_seed = latency_rng(Last(samples).key)
    BY <2>1 DEF IInv, Sampled, SampleIs, KeyIs
  <2>3. w \in Word
    BY ProbesAreWords
  <2> QED
    BY <2>2, <2>3, MixSeparates DEF latency_rng
<1> QED
  BY <1>1, Invariance, PTL

\* No fault is drawn from the generator of a latency, of the same operation or
\* of another, whatever the seed of the configuration and the lengths.
THEOREM StreamsCorrect == Spec => []StreamsApart
<1>1. IInv => StreamsApart
  <2> SUFFICES ASSUME IInv, NEW s \in ToSet(samples), NEW t \in ToSet(samples),
                      s.key.ino \subseteq 0 .. 62, s.key.offset \subseteq 0 .. 48,
                      s.key.seq \subseteq 0 .. 32,
                      t.key.ino \subseteq 0 .. 62, t.key.offset \subseteq 0 .. 48,
                      t.key.seq \subseteq 0 .. 32
               PROVE  s.latency_seed # t.fault_seed
    BY DEF StreamsApart
  <2>1. SampleIs(s) /\ SampleIs(t)
    BY SampleAt DEF IInv
  <2>2. /\ KeyIs(s.key) /\ KeyIs(t.key) /\ s.key.seed = t.key.seed
        /\ s.latency_seed = latency_rng(s.key) /\ t.fault_seed = fault_rng(t.key)
    BY <2>1 DEF SampleIs
  <2> QED
    BY <2>2, StreamsNeverMeet
<1> QED
  BY <1>1, Invariance, PTL

\* Within the limits that SeedsSeparate names, operations with different keys
\* get different generators, for latencies and for faults.
THEOREM SeedsCorrect == Spec => []SeedsSeparate
<1>1. IInv => SeedsSeparate
  <2> SUFFICES ASSUME IInv, NEW s \in ToSet(samples), NEW t \in ToSet(samples),
                      s.key.ino \subseteq 0 .. 29, s.key.offset \subseteq 0 .. 15,
                      s.key.seq \subseteq 0 .. 21,
                      t.key.ino \subseteq 0 .. 29, t.key.offset \subseteq 0 .. 15,
                      t.key.seq \subseteq 0 .. 21,
                      s.key # t.key, s.key.len = t.key.len,
                      s.key.ino = t.key.ino \/ s.key.offset = t.key.offset
               PROVE  s.latency_seed # t.latency_seed /\ s.fault_seed # t.fault_seed
    BY DEF SeedsSeparate
  <2>1. SampleIs(s) /\ SampleIs(t)
    BY SampleAt DEF IInv
  <2>2. /\ KeyIs(s.key) /\ KeyIs(t.key) /\ s.key.seed = t.key.seed
        /\ s.latency_seed = latency_rng(s.key) /\ t.latency_seed = latency_rng(t.key)
        /\ s.fault_seed = fault_rng(s.key) /\ t.fault_seed = fault_rng(t.key)
    BY <2>1 DEF SampleIs
  <2>3. \A stream : mix(s.key, stream) # mix(t.key, stream)
    BY <2>2, NearKeysSeparate
  <2> QED
    BY <2>2, <2>3 DEF latency_rng, fault_rng
<1> QED
  BY <1>1, Invariance, PTL

\* A configuration that was loaded and saved is read again exactly when no
\* profile of it has a bandwidth or a fault rule, and then it is the same.
THEOREM SavedCorrect == Spec => []SavedIsKept
<1>1. IInv /\ Origin => SavedIsKept
  <2> SUFFICES ASSUME IInv, Origin, stage = "saved"
               PROVE  /\ ConfigReads(text)
                           <=> \A p \in Profiles : p[1].bandwidth = {} /\ p[1].faults = <<>>
                      /\ ConfigReads(text) => ConfigOf(text) = config
    BY DEF SavedIsKept
  <2>1. text = ConfigToml(config) /\ \E d : config = ConfigOf(d)
    BY DEF Origin
  <2>2. ConfigIs(config)
    BY DEF IInv, LoadTyped
  <2>3. /\ ConfigReads(text) <=> \A o \in DOMAIN config.ops : PlainPolicy(config.ops[o])
        /\ ConfigReads(text) => ConfigOf(text) = config
    BY <2>1, <2>2, ConfigBack
  <2> DEFINE Of(o) == {<<config.ops[o], o>>} \cup {<<t.large, o>> : t \in config.ops[o].size_tier}
  <2>4. ASSUME NEW o \in DOMAIN config.ops
        PROVE  PlainPolicy(config.ops[o]) <=> \A p \in Of(o) : Plain(p[1])
    <3>1. ASSUME NEW x PROVE <<x, o>>[1] = x
      OBVIOUS
    <3> QED
      BY <3>1, Zenon DEF PlainPolicy
  <2>5. Profiles = UNION {Of(o) : o \in DOMAIN config.ops}
    BY DEF Profiles
  <2> HIDE DEF Of
  <2>6. (\A o \in DOMAIN config.ops : PlainPolicy(config.ops[o])) <=> \A p \in Profiles : Plain(p[1])
    BY <2>4, <2>5
  <2> QED
    BY <2>3, <2>6 DEF Plain
<1> QED
  BY <1>1, Invariance, OriginInvariance, PTL
=============================================================================
