---------------------- MODULE FlatObjectNamespaceProofs ----------------------
(***************************************************************************)
(* What lookup and readdir of FlatObjectNamespace compute, for every number *)
(* of files and of digits: a file's name parses to the file's number and to *)
(* no other (ParseNameInverts), and readdir from any cookie gives what is   *)
(* left of the directory (ReaddirFrom).                                     *)
(*                                                                         *)
(* Both rest on an induction, which is written as the choice of a least     *)
(* counterexample: every nonempty set of naturals has a least element.     *)
(***************************************************************************)
EXTENDS FlatObjectNamespace, SequenceTheorems, WellFoundedInduction, TLAPS

\* A nonempty set of naturals has a least element.
LEMMA LeastNat ==
  ASSUME NEW T \in SUBSET Nat, T # {}
  PROVE  \E m \in T : \A k \in T : m <= k
<1>1. PICK m \in T : \A k \in T : ~(<<k, m>> \in OpToRel(<, Nat))
  BY WFMin, NatLessThanWellFounded
<1>2. \A k \in T : ~(k < m)
  BY <1>1 DEF OpToRel
<1> QED BY <1>2

\* The less of two numbers, as cmp::min returns it.
LEMMA MinOfTwo ==
  ASSUME NEW a \in Int, NEW b \in Int
  PROVE  /\ Min({a, b}) \in Int
         /\ Min({a, b}) = IF a <= b THEN a ELSE b
<1>1. CASE a <= b
  <2>1. a \in {a, b} /\ \A y \in {a, b} : a <= y
    BY <1>1
  <2>2. \A x \in {a, b} : (\A y \in {a, b} : x <= y) => x = a
    BY <1>1
  <2> QED
    BY <1>1, <2>1, <2>2 DEF Min
<1>2. CASE ~(a <= b)
  <2>1. b \in {a, b} /\ \A y \in {a, b} : b <= y
    BY <1>2
  <2>2. \A x \in {a, b} : (\A y \in {a, b} : x <= y) => x = b
    BY <1>2
  <2> QED
    BY <1>2, <2>1, <2>2 DEF Min
<1> QED
  BY <1>1, <1>2

-----------------------------------------------------------------------------
(***************************************************************************)
(* Powers of ten.  A recursive function is the CHOOSE of a solution of its  *)
(* equation; that there is one is shown from its finite beginnings.        *)
(***************************************************************************)

\* g is the powers of ten up to 10^n.
IsPow(g, n) == g \in [0 .. n -> Nat] /\ g[0] = 1 /\ \A k \in 1 .. n : g[k] = 10 * g[k - 1]

\* Two beginnings agree where both are defined.
LEMMA PowsAgree ==
  ASSUME NEW n \in Nat, NEW m \in 0 .. n, NEW g, NEW h, IsPow(g, n), IsPow(h, m)
  PROVE  \A k \in 0 .. m : g[k] = h[k]
<1> DEFINE Bad == {k \in 0 .. m : g[k] # h[k]}
<1> SUFFICES ASSUME Bad # {} PROVE FALSE
  OBVIOUS
<1>1. PICK k \in Bad : \A i \in Bad : k <= i
  <2>1. Bad \in SUBSET Nat
    OBVIOUS
  <2> HIDE DEF Bad
  <2> QED BY <2>1, LeastNat
<1>2. k # 0
  BY DEF IsPow
<1>3. k - 1 \in 0 .. m /\ k - 1 \notin Bad
  BY <1>1, <1>2
<1> QED BY <1>2, <1>3 DEF IsPow

\* There is a beginning of every length.
LEMMA PowExists == \A n \in Nat : \E g : IsPow(g, n)
<1> DEFINE Bad == {n \in Nat : ~\E g : IsPow(g, n)}
<1> SUFFICES ASSUME Bad # {} PROVE FALSE
  OBVIOUS
<1>1. PICK n \in Bad : \A i \in Bad : n <= i
  <2>1. Bad \in SUBSET Nat
    OBVIOUS
  <2> HIDE DEF Bad
  <2> QED BY <2>1, LeastNat
<1>2. CASE n = 0
  <2>1. IsPow([k \in 0 .. 0 |-> 1], 0)
    BY DEF IsPow
  <2> QED BY <1>2, <2>1
<1>3. CASE n # 0
  <2>1. n - 1 \in Nat /\ n - 1 \notin Bad
    BY <1>1, <1>3
  <2>2. PICK g : IsPow(g, n - 1)
    BY <2>1
  <2> DEFINE h == [k \in 0 .. n |-> IF k = n THEN 10 * g[n - 1] ELSE g[k]]
  <2>3. g \in [0 .. n - 1 -> Nat] /\ g[0] = 1
    BY <2>2 DEF IsPow
  <2>4. ASSUME NEW k \in 0 .. n, k # n PROVE k \in 0 .. n - 1
    BY <1>3, <2>1, <2>4
  <2>5. h \in [0 .. n -> Nat]
    <3>1. g[n - 1] \in Nat
      BY <2>1, <2>3
    <3>2. ASSUME NEW k \in 0 .. n PROVE (IF k = n THEN 10 * g[n - 1] ELSE g[k]) \in Nat
      BY <2>3, <2>4, <3>1
    <3> QED BY <3>2
  <2>6. h[0] = 1
    BY <1>3, <2>1, <2>3
  <2>7. ASSUME NEW k \in 1 .. n PROVE h[k] = 10 * h[k - 1]
    <3>1. k \in 0 .. n /\ k - 1 \in 0 .. n /\ k - 1 # n
      BY <2>1
    <3>2. h[k - 1] = g[k - 1]
      BY <3>1
    <3>3. CASE k = n
      BY <3>1, <3>2, <3>3
    <3>4. CASE k # n
      <4>1. k \in 1 .. n - 1
        BY <2>1, <3>4
      <4>2. g[k] = 10 * g[k - 1]
        BY <2>2, <4>1 DEF IsPow
      <4> QED BY <3>1, <3>2, <3>4, <4>2
    <3> QED BY <3>3, <3>4
  <2>8. IsPow(h, n)
    <3> HIDE DEF h
    <3> QED BY <2>5, <2>6, <2>7 DEF IsPow
  <2> QED BY <2>8
<1> QED BY <1>2, <1>3

\* The equation of Pow10 has a solution, so Pow10 is one.
LEMMA Pow10Def ==
  Pow10 = [k \in Nat |-> IF k = 0 THEN 1 ELSE 10 * Pow10[k - 1]]
<1> DEFINE G(n) == CHOOSE g : IsPow(g, n)
           P == [n \in Nat |-> G(n)[n]]
<1>1. ASSUME NEW n \in Nat PROVE IsPow(G(n), n)
  BY PowExists
<1>2. ASSUME NEW n \in Nat PROVE P[n] = IF n = 0 THEN 1 ELSE 10 * P[n - 1]
  <2>1. CASE n = 0
    <3>1. G(0)[0] = 1
      <4>1. IsPow(G(0), 0) BY <1>1
      <4> HIDE DEF G
      <4> QED BY <4>1 DEF IsPow
    <3> QED BY <2>1, <3>1
  <2>2. CASE n # 0
    <3> DEFINE m == n - 1
    <3>1. m \in Nat /\ m \in 0 .. n /\ m \in 0 .. m
      BY <2>2
    <3>2. IsPow(G(n), n) /\ IsPow(G(m), m)
      BY <1>1, <3>1
    <3>3. G(n)[m] = G(m)[m]
      <4> HIDE DEF G, m
      <4> QED BY <3>1, <3>2, PowsAgree
    <3>4. G(n)[n] = 10 * G(n)[m]
      <4> HIDE DEF G
      <4> QED BY <2>2, <3>2 DEF IsPow
    <3>5. P[n] = G(n)[n] /\ P[m] = G(m)[m]
      BY <3>1
    <3> HIDE DEF G, P
    <3> QED BY <2>2, <3>3, <3>4, <3>5
  <2> QED BY <2>1, <2>2
<1>3. P = [k \in Nat |-> P[k]]
  OBVIOUS
<1> HIDE DEF P
<1>4. P = [k \in Nat |-> IF k = 0 THEN 1 ELSE 10 * P[k - 1]]
  BY <1>2, <1>3
<1>5. \E f : f = [k \in Nat |-> IF k = 0 THEN 1 ELSE 10 * f[k - 1]]
  BY <1>4
<1> QED BY <1>5 DEF Pow10

\* A power of ten is ten times the one before it.
LEMMA Pow10Steps ==
  Pow10[0] = 1 /\ \A k \in Nat : Pow10[k + 1] = 10 * Pow10[k]
<1> DEFINE P == Pow10
<1>1. P = [k \in Nat |-> IF k = 0 THEN 1 ELSE 10 * P[k - 1]]
  BY Pow10Def
<1>2. SUFFICES P[0] = 1 /\ \A k \in Nat : P[k + 1] = 10 * P[k]
  OBVIOUS
<1> HIDE DEF P
<1>3. \A k \in Nat : P[k] = IF k = 0 THEN 1 ELSE 10 * P[k - 1]
  BY <1>1
<1>4. P[0] = 1
  BY <1>3
<1>5. ASSUME NEW k \in Nat PROVE P[k + 1] = 10 * P[k]
  <2>1. k + 1 \in Nat /\ k + 1 # 0 /\ (k + 1) - 1 = k
    OBVIOUS
  <2> QED BY <1>3, <2>1
<1> QED BY <1>4, <1>5

\* Powers of ten are positive.
LEMMA Pow10Positive == \A k \in Nat : Pow10[k] \in Nat \ {0}
<1> DEFINE Bad == {k \in Nat : Pow10[k] \notin Nat \ {0}}
<1> SUFFICES ASSUME Bad # {} PROVE FALSE
  OBVIOUS
<1>1. PICK k \in Bad : \A i \in Bad : k <= i
  <2>1. Bad \in SUBSET Nat
    OBVIOUS
  <2> HIDE DEF Bad
  <2> QED BY <2>1, LeastNat
<1>2. k # 0
  BY Pow10Steps
<1>3. k - 1 \in Nat /\ k - 1 \notin Bad /\ k = (k - 1) + 1
  BY <1>1, <1>2
<1>4. Pow10[k - 1] \in Nat \ {0}
  BY <1>3
<1>5. Pow10[k] = 10 * Pow10[k - 1]
  BY <1>3, Pow10Steps
<1> QED BY <1>4, <1>5

-----------------------------------------------------------------------------
(***************************************************************************)
(* Division.                                                               *)
(***************************************************************************)

\* Quotient and remainder.
LEMMA DivDef == ASSUME NEW a \in Nat, NEW b \in Nat \ {0}
  PROVE a \div b \in Nat /\ a % b \in Nat /\ a % b < b /\ a = b * (a \div b) + (a % b)
<1>1. a \div b \in Nat
  OBVIOUS
<1>2. a % b \in 0 .. b - 1
  OBVIOUS
<1>3. a = b * (a \div b) + (a % b)
  OBVIOUS
<1> QED BY <1>1, <1>2, <1>3

\* Multiplication by b spreads the naturals by b.
LEMMA MulMono == ASSUME NEW b \in Nat, NEW p \in Nat, NEW q \in Nat, p < q
  PROVE  b * p + b <= b * q
<1>1. q - p - 1 \in Nat
  OBVIOUS
<1>2. b * (q - p - 1) \in Nat
  BY <1>1
<1>3. b * (q - p - 1) = b * q - b * p - b
  OBVIOUS
<1> QED BY <1>2, <1>3

\* The quotient is determined by the bound on the remainder.
LEMMA DivUnique == ASSUME NEW b \in Nat \ {0}, NEW p \in Nat, NEW q \in Nat,
    NEW r \in 0 .. b - 1, NEW s \in 0 .. b - 1, b * p + r = b * q + s
  PROVE p = q
<1>1. b * p \in Nat /\ b * q \in Nat
  OBVIOUS
<1>2. CASE p < q
  BY <1>1, <1>2, MulMono
<1>3. CASE q < p
  BY <1>1, <1>3, MulMono
<1> QED BY <1>2, <1>3

\* Dividing by b and then by ten is dividing by 10 b.
LEMMA DivNest == ASSUME NEW a \in Nat, NEW b \in Nat \ {0}
  PROVE (a \div b) \div 10 = a \div (10 * b)
<1> DEFINE q == a \div b
           r == a % b
           t == q \div 10
           s == q % 10
           c == 10 * b
<1>1. q \in Nat /\ r \in Nat /\ r < b /\ a = b * q + r
  BY DivDef
<1>2. t \in Nat /\ s \in 0 .. 9 /\ q = 10 * t + s
  BY <1>1
<1>3. c \in Nat \ {0} /\ c = 10 * b
  OBVIOUS
<1>4. a \div c \in Nat /\ a % c \in Nat /\ a % c < c /\ a = c * (a \div c) + (a % c)
  BY <1>3, DivDef
<1> HIDE DEF q, r, t, s, c
<1>5. b * s \in Nat /\ b * s <= 9 * b
  BY <1>2
<1>6. b * s + r \in 0 .. c - 1 /\ a % c \in 0 .. c - 1
  BY <1>1, <1>3, <1>4, <1>5
<1>7. b * q = c * t + b * s
  BY <1>2, <1>3
<1>8. c * t + (b * s + r) = c * (a \div c) + (a % c)
  BY <1>1, <1>2, <1>3, <1>4, <1>5, <1>7
<1>9. t = a \div c
  <2> DEFINE u == b * s + r
             v == a % c
             w == a \div c
  <2>1. u \in 0 .. c - 1 /\ v \in 0 .. c - 1 /\ w \in Nat /\ c * t + u = c * w + v
    BY <1>4, <1>6, <1>8 DEF u, v, w
  <2> HIDE DEF u, v, w
  <2>2. t = w
    BY <1>2, <1>3, <2>1, DivUnique
  <2> QED BY <2>2 DEF w
<1> QED BY <1>9 DEF q, t, c

-----------------------------------------------------------------------------
(***************************************************************************)
(* Names.                                                                  *)
(***************************************************************************)

\* There is at least one file, and never more files than names of NameDigits
\* digits: FlatObjectNamespace::new clamps inode_count.
LEMMA CountBounds ==
  inode_count \in Nat \ {0} /\ inode_count < MAX_FILES /\ MAX_FILES \in Nat
<1>1. NameDigits - 1 \in Nat /\ NameDigits = (NameDigits - 1) + 1
  BY NameDigitsPositive
<1>2. MAX_FILES = 10 * Pow10[NameDigits - 1]
  BY <1>1, Pow10Steps DEF MAX_FILES
<1>3. MAX_FILES \in Nat /\ MAX_FILES >= 10
  BY <1>1, <1>2, Pow10Positive
<1> DEFINE a == InodeCount
           b == MAX_FILES - 1
<1>4. a \in Nat \ {0} /\ b \in Nat \ {0} /\ a \in Int /\ b \in Int /\ b < MAX_FILES
  BY <1>3, FilesConfigValid
<1>5. inode_count = Min({a, b})
  BY DEF inode_count
<1> HIDE DEF a, b
<1>6. inode_count = IF a <= b THEN a ELSE b
  BY <1>4, <1>5, MinOfTwo
<1> QED
  BY <1>3, <1>4, <1>6

\* A digit's character tells the digit.
LEMMA DigitsDiffer ==
  ASSUME NEW a \in 0 .. 9, NEW b \in 0 .. 9, Digits[1 + a] = Digits[1 + b]
  PROVE  a = b
BY DEF Digits

\* A number is determined by its digits: were k the least exponent at which the
\* two quotients agree, and not 0, the digit below it would make them agree there.
LEMMA SameDigits ==
  ASSUME NEW n \in Nat, NEW m \in Nat, n < MAX_FILES, m < MAX_FILES,
         \A k \in 0 .. NameDigits - 1 : DigitOf(n, k) = DigitOf(m, k)
  PROVE  n = m
<1> DEFINE T == {k \in 0 .. NameDigits : n \div Pow10[k] = m \div Pow10[k]}
<1>1. NameDigits \in T
  <2> DEFINE P == Pow10[NameDigits]
  <2>1. P \in Nat \ {0} /\ n < P /\ m < P
    BY Pow10Positive, NameDigitsPositive DEF MAX_FILES
  <2> HIDE DEF P
  <2>2. ASSUME NEW a \in Nat, a < P PROVE a \div P = 0
    <3> DEFINE q == a \div P
               r == a % P
    <3>1. q \in Nat /\ r \in 0 .. P - 1 /\ a = P * q + r
      BY <2>1, DivDef
    <3>2. a \in 0 .. P - 1 /\ P * 0 + a = a
      BY <2>1, <2>2
    <3> HIDE DEF q, r
    <3>3. q = 0
      BY <2>1, <3>1, <3>2, DivUnique
    <3> QED BY <3>3 DEF q
  <2>3. n \div P = 0 /\ m \div P = 0
    BY <2>1, <2>2
  <2> QED BY <2>3, NameDigitsPositive DEF P
<1>2. PICK k \in T : \A i \in T : k <= i
  <2>1. T \in SUBSET Nat /\ T # {}
    BY <1>1, NameDigitsPositive
  <2> HIDE DEF T
  <2> QED BY <2>1, LeastNat
<1>3. CASE k = 0
  <2>1. n \div Pow10[0] = m \div Pow10[0] /\ Pow10[0] = 1
    BY <1>2, <1>3, Pow10Steps
  <2> QED BY <2>1
<1>4. CASE k # 0
  <2> DEFINE j == k - 1
             b == Pow10[j]
  <2>1. j \in 0 .. NameDigits - 1 /\ j \in Nat /\ j \in 0 .. NameDigits /\ k = j + 1
    BY <1>2, <1>4, NameDigitsPositive
  <2>2. b \in Nat \ {0} /\ Pow10[k] = 10 * b
    BY <2>1, Pow10Positive, Pow10Steps
  <2>3. n \div (10 * b) = m \div (10 * b)
    BY <1>2, <2>2
  <2>4. DigitOf(n, j) = DigitOf(m, j)
    BY <2>1
  <2> DEFINE p == n \div b
             q == m \div b
  <2>5. Digits[1 + (p % 10)] = Digits[1 + (q % 10)]
    BY <2>4 DEF DigitOf
  <2> HIDE DEF b, j
  <2>6. p \in Nat /\ q \in Nat
    BY <2>2
  <2>7. p \div 10 = q \div 10
    BY <2>2, <2>3, DivNest
  <2> HIDE DEF p, q
  <2>8. p % 10 \in 0 .. 9 /\ q % 10 \in 0 .. 9
    BY <2>6
  <2>9. p % 10 = q % 10
    BY <2>5, <2>8, DigitsDiffer
  <2>10. p = q
    BY <2>6, <2>7, <2>9
  <2>11. j \in T
    BY <2>1, <2>10 DEF p, q, b
  <2>12. ~(k <= j)
    BY <2>1
  <2> QED BY <1>2, <2>11, <2>12
<1> QED BY <1>3, <1>4

\* The name of a file has NameDigits digits.
LEMMA NameOfFile ==
  ASSUME NEW n \in 0 .. inode_count - 1
  PROVE  index_to_name(n) = [i \in 1 .. NameDigits |-> DigitOf(n, NameDigits - i)]
<1>1. n < MAX_FILES
  BY CountBounds
<1> QED BY <1>1 DEF index_to_name

\* parse_name undoes index_to_name: the name of a file parses to its number and
\* to no other.
THEOREM ParseNameInverts ==
  ASSUME NEW n \in 0 .. inode_count - 1
  PROVE  parse_name(index_to_name(n)) = {n}
<1> DEFINE name == [i \in 1 .. NameDigits |-> DigitOf(n, NameDigits - i)]
<1>1. index_to_name(n) = name
  BY NameOfFile
<1>2. Len(name) = NameDigits
  BY NameDigitsPositive
<1>3. \A i \in 1 .. NameDigits : name[i] = DigitOf(n, NameDigits - i)
  OBVIOUS
<1> HIDE DEF name
<1>4. n \in parse_name(name)
  BY <1>2, <1>3 DEF parse_name
<1>5. ASSUME NEW m \in parse_name(name) PROVE m = n
  <2>1. m \in 0 .. inode_count - 1 /\ \A i \in 1 .. NameDigits : name[i] = DigitOf(m, NameDigits - i)
    BY DEF parse_name
  <2>2. m \in Nat /\ n \in Nat /\ m < MAX_FILES /\ n < MAX_FILES
    BY <2>1, CountBounds
  <2>3. ASSUME NEW k \in 0 .. NameDigits - 1 PROVE DigitOf(m, k) = DigitOf(n, k)
    <3>1. NameDigits - k \in 1 .. NameDigits /\ NameDigits - (NameDigits - k) = k
      BY NameDigitsPositive
    <3>2. name[NameDigits - k] = DigitOf(m, NameDigits - (NameDigits - k))
      BY <2>1, <3>1
    <3>3. name[NameDigits - k] = DigitOf(n, NameDigits - (NameDigits - k))
      BY <1>3, <3>1
    <3> QED BY <3>1, <3>2, <3>3
  <2> QED BY <2>2, <2>3, SameDigits
<1> QED BY <1>1, <1>4, <1>5

-----------------------------------------------------------------------------
(***************************************************************************)
(* Directories.                                                            *)
(***************************************************************************)

\* The directories, the inodes there are, the number of entries of directory d
\* and its i-th entry.
Dirs == {FUSE_ROOT_INO, OBJECTS_INO}

Inodes == Dirs \cup {FIRST_FILE_INO + n : n \in 0 .. inode_count - 1}

Size(d) == IF d = FUSE_ROOT_INO THEN 3 ELSE 2 + inode_count

EntryAt(d, i) ==
  CASE i = 1 -> Dot(d)
    [] i = 2 -> DotDot
    [] OTHER -> IF d = FUSE_ROOT_INO THEN Entry(OBJECTS_INO, 3, "Dir", Objects)
                ELSE Entry(FIRST_FILE_INO + (i - 3), i, "File", index_to_name(i - 3))

\* The entries of directory d from the one after k to the l-th.
Slice(d, k, l) == [i \in 1 .. l - k |-> EntryAt(d, k + i)]

\* Every inode has attributes, its own.
LEMMA AttrOfInode ==
  ASSUME NEW ino \in Inodes
  PROVE  attr(ino) = {IF ino \in Dirs THEN dir_attr(ino) ELSE file_attr(ino)}
<1>1. CASE ino \in Dirs
  BY <1>1 DEF attr, Dirs
<1>2. CASE ino \notin Dirs
  <2>1. PICK n \in 0 .. inode_count - 1 : ino = FIRST_FILE_INO + n
    BY <1>2 DEF Inodes
  <2>2. n \in ino_to_index(ino)
    BY <2>1 DEF ino_to_index
  <2> QED BY <1>2, <2>2 DEF attr, Dirs
<1> QED BY <1>1, <1>2

\* lookup leads to inodes only, from a directory to at most one.
LEMMA LookupInode ==
  ASSUME NEW parent, NEW name
  PROVE  lookup(parent, name) \subseteq Inodes
<1>1. CASE parent = FUSE_ROOT_INO
  BY <1>1 DEF lookup, Inodes, Dirs, FUSE_ROOT_INO, OBJECTS_INO
<1>2. CASE parent = OBJECTS_INO
  <2>1. lookup(parent, name) = {FIRST_FILE_INO + n : n \in parse_name(name)}
    BY <1>2 DEF lookup, FUSE_ROOT_INO, OBJECTS_INO
  <2>2. parse_name(name) \subseteq 0 .. inode_count - 1
    BY DEF parse_name
  <2> QED BY <2>1, <2>2 DEF Inodes
<1>3. CASE parent # FUSE_ROOT_INO /\ parent # OBJECTS_INO
  BY <1>3 DEF lookup
<1> QED BY <1>1, <1>2, <1>3

\* The entries after the dots: looking up the name leads to the listed inode, of
\* the listed kind.
THEOREM LookupFindsEntry ==
  ASSUME NEW d \in Dirs, NEW i \in 3 .. Size(d)
  PROVE  /\ EntryAt(d, i).ino \in Inodes
         /\ lookup(d, EntryAt(d, i).name) = {EntryAt(d, i).ino}
         /\ \A spec \in attr(EntryAt(d, i).ino) :
              spec.ino = EntryAt(d, i).ino /\ spec.kind = EntryAt(d, i).kind
<1>1. CASE d = FUSE_ROOT_INO
  <2>1. EntryAt(d, i) = Entry(OBJECTS_INO, 3, "Dir", Objects)
    BY <1>1 DEF EntryAt
  <2>2. OBJECTS_INO \in Inodes /\ OBJECTS_INO \in Dirs
    BY DEF Inodes, Dirs
  <2>3. lookup(d, Objects) = {OBJECTS_INO}
    BY <1>1 DEF lookup, FUSE_ROOT_INO, OBJECTS_INO
  <2>4. attr(OBJECTS_INO) = {dir_attr(OBJECTS_INO)}
    BY <2>2, AttrOfInode
  <2> QED BY <2>1, <2>2, <2>3, <2>4 DEF Entry, dir_attr
<1>2. CASE d = OBJECTS_INO
  <2> DEFINE n == i - 3
             ino == FIRST_FILE_INO + n
  <2>1. d # FUSE_ROOT_INO
    BY <1>2 DEF FUSE_ROOT_INO, OBJECTS_INO
  <2>2. n \in 0 .. inode_count - 1
    BY <2>1, CountBounds DEF Size
  <2>3. EntryAt(d, i) = Entry(ino, i, "File", index_to_name(n))
    BY <2>1 DEF EntryAt
  <2>4. ino \in Inodes
    BY <2>2 DEF Inodes
  <2>5. ino \notin Dirs
    BY <2>2 DEF Dirs, FIRST_FILE_INO, FUSE_ROOT_INO, OBJECTS_INO
  <2>6. attr(ino) = {file_attr(ino)}
    BY <2>4, <2>5, AttrOfInode
  <2>7. lookup(d, index_to_name(n)) = {ino}
    <3>1. parse_name(index_to_name(n)) = {n}
      BY <2>2, ParseNameInverts
    <3> DEFINE name == index_to_name(n)
    <3> HIDE DEF name
    <3>2. lookup(d, name) = {FIRST_FILE_INO + m : m \in parse_name(name)}
      BY <1>2, <2>1 DEF lookup
    <3> QED BY <3>1, <3>2 DEF name
  <2> HIDE DEF n, ino
  <2> QED BY <2>3, <2>4, <2>6, <2>7 DEF Entry, file_attr
<1> QED BY <1>1, <1>2 DEF Dirs

\* The cookie of an entry is its position.
LEMMA EntryCookie ==
  ASSUME NEW d \in Dirs, NEW i \in 1 .. Size(d)
  PROVE  EntryAt(d, i).off = i
<1>1. CASE i = 1
  BY <1>1 DEF EntryAt, Dot, Entry
<1>2. CASE i = 2
  BY <1>2 DEF EntryAt, DotDot, Entry
<1>3. CASE i # 1 /\ i # 2 /\ d = FUSE_ROOT_INO
  BY <1>3 DEF EntryAt, Entry, Size
<1>4. CASE i # 1 /\ i # 2 /\ d # FUSE_ROOT_INO
  BY <1>4 DEF EntryAt, Entry
<1> QED BY <1>1, <1>2, <1>3, <1>4

\* A slice is a sequence of its length.
LEMMA SliceIsSeq ==
  ASSUME NEW d, NEW k \in Nat, NEW l \in Nat, k <= l,
         NEW S, \A i \in k + 1 .. l : EntryAt(d, i) \in S
  PROVE  /\ Slice(d, k, l) \in Seq(S)
         /\ Len(Slice(d, k, l)) = l - k
         /\ \A i \in 1 .. l - k : Slice(d, k, l)[i] = EntryAt(d, k + i)
<1>1. l - k \in Nat
  OBVIOUS
<1>2. \A i \in 1 .. l - k : EntryAt(d, k + i) \in S
  OBVIOUS
<1>3. Slice(d, k, l) \in [1 .. l - k -> S]
  BY <1>2 DEF Slice
<1>4. Slice(d, k, l) \in Seq(S)
  BY <1>1, <1>3, SeqDef
<1> QED BY <1>1, <1>3, <1>4 DEF Slice

\* Adjacent slices make one.
LEMMA SliceConcat ==
  ASSUME NEW d, NEW k \in Nat, NEW l \in Nat, NEW m \in Nat, k <= l, l <= m
  PROVE  Slice(d, k, l) \o Slice(d, l, m) = Slice(d, k, m)
<1> DEFINE S == {EntryAt(d, i) : i \in k + 1 .. m}
           s == Slice(d, k, l)
           t == Slice(d, l, m)
           u == Slice(d, k, m)
<1>1. /\ \A i \in k + 1 .. l : EntryAt(d, i) \in S
      /\ \A i \in l + 1 .. m : EntryAt(d, i) \in S
      /\ \A i \in k + 1 .. m : EntryAt(d, i) \in S
  OBVIOUS
<1> HIDE DEF S
<1>2. s \in Seq(S) /\ Len(s) = l - k /\ \A i \in 1 .. l - k : s[i] = EntryAt(d, k + i)
  BY <1>1, SliceIsSeq
<1>3. t \in Seq(S) /\ Len(t) = m - l /\ \A i \in 1 .. m - l : t[i] = EntryAt(d, l + i)
  BY <1>1, SliceIsSeq
<1>4. u \in Seq(S) /\ Len(u) = m - k /\ \A i \in 1 .. m - k : u[i] = EntryAt(d, k + i)
  <2>1. k <= m
    OBVIOUS
  <2> QED BY <1>1, <2>1, SliceIsSeq
<1>5. SUFFICES s \o t = u
  OBVIOUS
<1> HIDE DEF s, t, u
<1>6. s \o t \in Seq(S) /\ Len(s \o t) = Len(s) + Len(t)
      /\ \A i \in 1 .. Len(s) + Len(t) : (s \o t)[i] = IF i <= Len(s) THEN s[i] ELSE t[i - Len(s)]
  BY <1>2, <1>3, ConcatProperties
<1>7. Len(s \o t) = Len(u) /\ Len(s) + Len(t) = m - k
  BY <1>2, <1>3, <1>4, <1>6
<1>8. ASSUME NEW i \in 1 .. Len(s \o t) PROVE (s \o t)[i] = u[i]
  <2>1. i \in 1 .. m - k /\ i \in 1 .. Len(s) + Len(t)
    BY <1>6, <1>7
  <2>2. CASE i <= Len(s)
    <3>1. i \in 1 .. l - k
      BY <1>2, <2>1, <2>2
    <3> QED BY <1>2, <1>4, <1>6, <2>1, <2>2, <3>1
  <2>3. CASE ~(i <= Len(s))
    <3>1. i - Len(s) \in 1 .. m - l /\ l + (i - Len(s)) = k + i
      BY <1>2, <2>1, <2>3
    <3>2. (s \o t)[i] = EntryAt(d, l + (i - Len(s)))
      BY <1>3, <1>6, <2>1, <2>3, <3>1
    <3> QED BY <1>4, <2>1, <3>1, <3>2
  <2> QED BY <2>2, <2>3
<1> QED BY <1>4, <1>6, <1>7, <1>8, SeqEqual

\* A slice of one entry.
LEMMA SliceOne ==
  ASSUME NEW d, NEW k \in Nat
  PROVE  Slice(d, k, k + 1) = <<EntryAt(d, k + 1)>>
<1>1. (k + 1) - k = 1
  OBVIOUS
<1>2. Slice(d, k, k + 1) = [i \in 1 .. 1 |-> EntryAt(d, k + i)]
  BY <1>1 DEF Slice
<1>3. \A i \in 1 .. 1 : EntryAt(d, k + i) = EntryAt(d, k + 1)
  OBVIOUS
<1>4. Slice(d, k, k + 1) = [i \in 1 .. 1 |-> EntryAt(d, k + 1)]
  BY <1>2, <1>3
<1> QED BY <1>4

\* A slice of none.
LEMMA SliceNone ==
  ASSUME NEW d, NEW k \in Nat
  PROVE  Slice(d, k, k) = <<>>
BY DEF Slice

\* The files from number n on are what is left of the objects directory.
LEMMA FilesLeft ==
  ASSUME NEW n \in 0 .. inode_count
  PROVE  FilesFrom(n) = Slice(OBJECTS_INO, n + 2, Size(OBJECTS_INO))
<1> DEFINE d == OBJECTS_INO
<1>1. d # FUSE_ROOT_INO
  BY DEF FUSE_ROOT_INO, OBJECTS_INO
<1>2. (IF n < inode_count THEN inode_count - n ELSE 0) = inode_count - n
      /\ Size(d) - (n + 2) = inode_count - n
  BY <1>1, CountBounds DEF Size
<1>3. ASSUME NEW i \in 1 .. inode_count - n
      PROVE  Entry(FIRST_FILE_INO + (n + i - 1), (n + i - 1) + 3, "File", index_to_name(n + i - 1))
               = EntryAt(d, (n + 2) + i)
  <2> DEFINE j == (n + 2) + i
  <2>1. j # 1 /\ j # 2 /\ j - 3 = n + i - 1 /\ (n + i - 1) + 3 = j
    BY CountBounds
  <2>2. EntryAt(d, j) = Entry(FIRST_FILE_INO + (j - 3), j, "File", index_to_name(j - 3))
    BY <1>1, <2>1 DEF EntryAt
  <2> QED BY <2>1, <2>2
<1> HIDE DEF d
<1>4. FilesFrom(n) = [i \in 1 .. inode_count - n |-> EntryAt(d, (n + 2) + i)]
  BY <1>2, <1>3 DEF FilesFrom
<1>5. Slice(d, n + 2, Size(d)) = [i \in 1 .. inode_count - n |-> EntryAt(d, (n + 2) + i)]
  BY <1>2 DEF Slice
<1> QED BY <1>4, <1>5 DEF d

\* readdir from the cookie k gives the entries of the directory after the k-th,
\* all of them and in order.
THEOREM ReaddirFrom ==
  ASSUME NEW d \in Dirs, NEW k \in 0 .. Size(d)
  PROVE  readdir(d, k) = {Slice(d, k, Size(d))}
<1>1. Size(d) \in Nat /\ Size(d) >= 3
  BY CountBounds DEF Size
<1> DEFINE m == IF k > 2 THEN k ELSE 2
           rest == IF d = FUSE_ROOT_INO THEN Push(Entry(OBJECTS_INO, 3, "Dir", Objects), k)
                   ELSE FilesFrom(IF k > 2 THEN k - 2 ELSE 0)
<1>2. m \in Nat /\ m >= 2 /\ m <= Size(d)
  BY <1>1
<1>3. rest = Slice(d, m, Size(d))
  <2>1. CASE d = FUSE_ROOT_INO
    <3>1. Size(d) = 3 /\ EntryAt(d, 3) = Entry(OBJECTS_INO, 3, "Dir", Objects)
      BY <2>1 DEF Size, EntryAt
    <3>2. Entry(OBJECTS_INO, 3, "Dir", Objects).off = 3
      BY DEF Entry
    <3>3. CASE k > 2
      <4>1. k = 3 /\ m = 3
        BY <3>1, <3>3
      <4>2. rest = <<>>
        BY <2>1, <3>2, <4>1 DEF Push
      <4> QED BY <3>1, <4>1, <4>2, SliceNone
    <3>4. CASE ~(k > 2)
      <4>1. m = 2 /\ 3 > k /\ 2 + 1 = 3
        BY <3>4
      <4>2. rest = <<EntryAt(d, 3)>>
        BY <2>1, <3>1, <3>2, <4>1 DEF Push
      <4>3. Slice(d, 2, 2 + 1) = <<EntryAt(d, 2 + 1)>>
        BY SliceOne
      <4> QED BY <3>1, <4>1, <4>2, <4>3
    <3> QED BY <3>3, <3>4
  <2>2. CASE d # FUSE_ROOT_INO
    <3>1. d = OBJECTS_INO /\ Size(d) = 2 + inode_count
      BY <2>2 DEF Dirs, Size
    <3>2. m - 2 \in 0 .. inode_count /\ (m - 2) + 2 = m
      BY <1>2, <3>1, CountBounds
    <3>3. rest = FilesFrom(m - 2)
      BY <2>2
    <3> HIDE DEF rest, m
    <3> QED BY <3>1, <3>2, <3>3, FilesLeft
  <2> QED BY <2>1, <2>2
<1>4. readdir(d, k) = {Dots(d, k) \o rest}
  BY DEF readdir, Dirs, FUSE_ROOT_INO, OBJECTS_INO
<1>5. Dots(d, k) = Slice(d, k, m)
  <2>1. Dot(d) = EntryAt(d, 1) /\ DotDot = EntryAt(d, 2) /\ Dot(d).off = 1 /\ DotDot.off = 2
    BY DEF EntryAt, Dot, DotDot, Entry
  <2>2. CASE k = 0
    <3>1. Push(Dot(d), k) = Slice(d, 0, 1)
      <4>1. Slice(d, 0, 0 + 1) = <<EntryAt(d, 0 + 1)>>
        BY SliceOne
      <4> QED BY <2>1, <2>2, <4>1 DEF Push
    <3>2. Push(DotDot, k) = Slice(d, 1, 2)
      <4>1. Slice(d, 1, 1 + 1) = <<EntryAt(d, 1 + 1)>>
        BY SliceOne
      <4> QED BY <2>1, <2>2, <4>1 DEF Push
    <3>3. Slice(d, 0, 1) \o Slice(d, 1, 2) = Slice(d, 0, 2)
      <4>1. 0 \in Nat /\ 1 \in Nat /\ 2 \in Nat /\ 0 <= 1 /\ 1 <= 2
        OBVIOUS
      <4> QED BY <4>1, SliceConcat, Zenon
    <3>4. m = 2
      BY <2>2
    <3> HIDE DEF m
    <3> QED BY <2>2, <3>1, <3>2, <3>3, <3>4 DEF Dots
  <2>3. CASE k = 1
    <3>1. Push(Dot(d), k) = Slice(d, 1, 1)
      <4>1. Push(Dot(d), k) = <<>>
        BY <2>1, <2>3 DEF Push
      <4> QED BY <4>1, SliceNone
    <3>2. Push(DotDot, k) = Slice(d, 1, 2)
      <4>1. Slice(d, 1, 1 + 1) = <<EntryAt(d, 1 + 1)>>
        BY SliceOne
      <4> QED BY <2>1, <2>3, <4>1 DEF Push
    <3>3. Slice(d, 1, 1) \o Slice(d, 1, 2) = Slice(d, 1, 2)
      <4>1. 1 \in Nat /\ 2 \in Nat /\ 1 <= 1 /\ 1 <= 2
        OBVIOUS
      <4> QED BY <4>1, SliceConcat, Zenon
    <3>4. m = 2
      BY <2>3
    <3> HIDE DEF m
    <3> QED BY <2>3, <3>1, <3>2, <3>3, <3>4 DEF Dots
  <2>4. CASE k > 1
    <3>1. Push(Dot(d), k) = <<>> /\ Push(DotDot, k) = <<>>
      BY <2>1, <2>4 DEF Push
    <3>2. m = k
      BY <2>4
    <3>3. Slice(d, k, k) = <<>> /\ Slice(d, k, k) \o Slice(d, k, k) = Slice(d, k, k)
      <4>1. k \in Nat /\ k <= k
        BY <1>1
      <4> QED BY <4>1, SliceNone, SliceConcat, Zenon
    <3> HIDE DEF m
    <3> QED BY <3>1, <3>2, <3>3 DEF Dots
  <2> QED BY <1>1, <2>2, <2>3, <2>4
<1>6. k \in Nat /\ k <= m
  BY <1>1
<1> HIDE DEF m, rest
<1>7. Slice(d, k, m) \o Slice(d, m, Size(d)) = Slice(d, k, Size(d))
  BY <1>1, <1>2, <1>6, SliceConcat, Zenon
<1> QED BY <1>3, <1>4, <1>5, <1>7
=============================================================================
