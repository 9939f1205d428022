-------------------------- MODULE MultiFileProofs --------------------------
(***************************************************************************)
(* What MultiFile keeps, with proofs, for files, writes and reserves of    *)
(* any size and any number of jobs.  There are at most three files: with   *)
(* four TLC finds an archive that cannot be read back.                     *)
(***************************************************************************)
EXTENDS MultiFile, FiniteSetTheorems, SequenceTheorems, TLAPS

\* m_pszFileExt names three files, .pck, .pkx and .pkg; an index that an edit in place
\* writes fits into the last file there is.
ThreeFiles == Cells <= 3 /\ ~EditsMayCross

(***************************************************************************)
(* Cells of addresses.                                                     *)
(***************************************************************************)
LEMMA CellBegins ==
  /\ \A i \in Nat \ {0} : CellBegin(i) \in Nat /\ CellBegin(i + 1) = CellBegin(i) + MaxPck
  /\ CellBegin(1) = 0
  /\ \A i, j \in Nat \ {0} : i < j => CellBegin(i) + MaxPck <= CellBegin(j)
<1>1. \A i \in Nat \ {0} : CellBegin(i) \in Nat /\ CellBegin(i + 1) = CellBegin(i) + MaxPck
  BY CellsAssumption DEF CellBegin
<1>2. CellBegin(1) = 0
  BY CellsAssumption DEF CellBegin
<1>3. ASSUME NEW i \in Nat \ {0}, NEW j \in Nat \ {0}, i < j
      PROVE  CellBegin(i) + MaxPck <= CellBegin(j)
  <2>1. PICK k \in Nat : j = i + k + 1
    <3>1. j - i - 1 \in Nat /\ j = i + (j - i - 1) + 1
      BY <1>3
    <3>. QED
      BY <3>1
  <2>2. k * MaxPck \in Nat
    BY CellsAssumption
  <2>3. CellBegin(j) = CellBegin(i) + MaxPck + k * MaxPck
    BY <2>1, CellsAssumption DEF CellBegin
  <2>. QED
    BY <2>2, <2>3, <1>1, CellsAssumption
<1>. QED
  BY <1>1, <1>2, <1>3

\* GetCellIDByPoint and the mapped part of a cell, for any number of cells.
CellOf(p, n) == IF p >= n * MaxPck THEN n ELSE p \div MaxPck + 1
Part(d, n, i) ==
  LET c == CellOf(d, n) IN IF i < c THEN MaxPck ELSE IF i = c THEN d - CellBegin(c) ELSE 0

LEMMA CellOfPoint ==
  ASSUME NEW p \in Nat, NEW n \in Nat \ {0}
  PROVE  /\ CellOf(p, n) \in 1..n
         /\ CellBegin(CellOf(p, n)) <= p
         /\ CellOf(p, n) < n => p < CellBegin(CellOf(p, n) + 1)
<1>1. CASE p >= n * MaxPck
  BY <1>1, CellsAssumption DEF CellOf, CellBegin
<1>2. CASE p < n * MaxPck
  <2>1. p \div MaxPck \in Nat /\ MaxPck * (p \div MaxPck) <= p /\ p < MaxPck * (p \div MaxPck) + MaxPck
    BY CellsAssumption
  <2>2. p \div MaxPck < n
    <3>1. SUFFICES ASSUME p \div MaxPck >= n PROVE FALSE
      BY <2>1
    <3>2. PICK k \in Nat : p \div MaxPck = n + k
      <4>1. (p \div MaxPck) - n \in Nat /\ p \div MaxPck = n + ((p \div MaxPck) - n)
        BY <2>1, <3>1
      <4>. QED
        BY <4>1
    <3>3. MaxPck * (n + k) >= n * MaxPck
      BY CellsAssumption
    <3>. QED
      BY <1>2, <2>1, <3>2, <3>3, CellsAssumption
  <2>3. CellOf(p, n) = p \div MaxPck + 1
    BY <1>2, CellsAssumption DEF CellOf
  <2>. QED
    BY <2>1, <2>2, <2>3, CellsAssumption DEF CellBegin
<1>. QED
  BY <1>1, <1>2, CellsAssumption

LEMMA CellUnique ==
  ASSUME NEW p \in Nat, NEW n \in Nat \ {0}, NEW i \in 1..n,
         CellBegin(i) <= p, i < n => p < CellBegin(i + 1)
  PROVE  i = CellOf(p, n)
<1>1. PICK c \in 1..n : c = CellOf(p, n) /\ CellBegin(c) <= p /\ (c < n => p < CellBegin(c + 1))
  BY CellOfPoint
<1>2. /\ CellBegin(c) \in Nat /\ CellBegin(c + 1) = CellBegin(c) + MaxPck
      /\ CellBegin(i) \in Nat /\ CellBegin(i + 1) = CellBegin(i) + MaxPck
  BY CellBegins
<1>3. ~(i < c)
  <2>1. i < c => i < n /\ CellBegin(i) + MaxPck <= CellBegin(c)
    BY CellBegins
  <2>. QED
    BY <1>1, <1>2, <2>1, CellsAssumption
<1>4. ~(c < i)
  <2>1. c < i => c < n /\ CellBegin(c) + MaxPck <= CellBegin(i)
    BY CellBegins
  <2>. QED
    BY <1>1, <1>2, <2>1, CellsAssumption
<1>. QED
  BY <1>1, <1>3, <1>4

\* How much of a cell is needed for what lies below address d.
LEMMA PartIs ==
  ASSUME NEW d \in Nat, NEW n \in Nat \ {0}, NEW i \in 1..n
  PROVE  /\ Part(d, n, i) \in Nat
         /\ i < n => Part(d, n, i) <= MaxPck
         /\ Part(d, n, i) > 0 <=> CellBegin(i) < d
         /\ Part(d, n, i) > 0 => CellBegin(i) + Part(d, n, i) <= d
         /\ i < n /\ CellBegin(i + 1) <= d => Part(d, n, i) = MaxPck
         /\ CellBegin(i) <= d /\ (i < n => d < CellBegin(i + 1)) => Part(d, n, i) = d - CellBegin(i)
<1> DEFINE c == CellOf(d, n)
<1>1. c \in 1..n /\ CellBegin(c) <= d /\ (c < n => d < CellBegin(c + 1))
  BY CellOfPoint
<1>2. Part(d, n, i) = IF i < c THEN MaxPck ELSE IF i = c THEN d - CellBegin(c) ELSE 0
  BY DEF Part
<1>3. CellBegin(c) \in Nat /\ CellBegin(i) \in Nat /\ CellBegin(i + 1) = CellBegin(i) + MaxPck
  BY <1>1, CellBegins
<1>4. CellBegin(c + 1) = CellBegin(c) + MaxPck
  BY <1>1, CellBegins
<1>5. i < c => CellBegin(i) + MaxPck <= CellBegin(c)
  BY <1>1, CellBegins
<1>6. c < i => CellBegin(c) + MaxPck <= CellBegin(i)
  BY <1>1, CellBegins
<1>. HIDE DEF c
<1>7. CASE i < c
  BY <1>1, <1>2, <1>3, <1>5, <1>7, CellsAssumption
<1>8. CASE i = c
  BY <1>1, <1>2, <1>3, <1>4, <1>8, CellsAssumption
<1>9. CASE c < i
  BY <1>1, <1>2, <1>3, <1>4, <1>6, <1>9, CellsAssumption
<1>. QED
  BY <1>1, <1>7, <1>8, <1>9

\* An address below d lies in the mapped part of its cell.
LEMMA PartHolds ==
  ASSUME NEW d \in Nat, NEW n \in Nat \ {0}, NEW i \in 1..n, NEW a \in Nat,
         CellBegin(i) <= a, i < n => a < CellBegin(i + 1), a < d
  PROVE  a - CellBegin(i) < Part(d, n, i)
<1>1. CellBegin(i) \in Nat /\ CellBegin(i + 1) = CellBegin(i) + MaxPck
  BY CellBegins
<1>2. CASE i < n /\ CellBegin(i + 1) <= d
  BY <1>1, <1>2, PartIs, CellsAssumption
<1>3. CASE ~(i < n /\ CellBegin(i + 1) <= d)
  <2>1. CellBegin(i) <= d /\ (i < n => d < CellBegin(i + 1))
    BY <1>1, <1>3, CellsAssumption
  <2>2. Part(d, n, i) = d - CellBegin(i)
    BY <2>1, PartIs
  <2>. QED
    BY <1>1, <2>2
<1>. QED
  BY <1>2, <1>3

(***************************************************************************)
(* The sizes of up to three files, and their contents end to end.          *)
(***************************************************************************)
Total(f, n) ==
  (IF n >= 1 THEN f[1] ELSE 0) + (IF n >= 2 THEN f[2] ELSE 0) + (IF n >= 3 THEN f[3] ELSE 0)

First(s) == CHOOSE x \in s : TRUE
Sums(h, f, S) ==
  h = [s \in SUBSET S |-> IF s = {} THEN 0 ELSE f[First(s)] + h[s \ {First(s)}]]

LEMMA SumExists ==
  ASSUME NEW S \in SUBSET (1..3), NEW f, \A i \in S : f[i] \in Nat
  PROVE  \E h : Sums(h, f, S)
<1> DEFINE one(s, i) == IF i \in s THEN f[i] ELSE 0
           g == [s \in SUBSET S |-> one(s, 1) + one(s, 2) + one(s, 3)]
<1>1. ASSUME NEW s \in SUBSET S, s # {}
      PROVE  g[s] = f[First(s)] + g[s \ {First(s)}]
  <2>1. PICK x \in s : x = First(s)
    BY <1>1 DEF First
  <2>2. x \in {1, 2, 3} /\ x \in S /\ s \ {x} \in SUBSET S
    OBVIOUS
  <2>3. \A t \in SUBSET S : g[t] = one(t, 1) + one(t, 2) + one(t, 3)
    OBVIOUS
  <2>4. \A t \in SUBSET S : one(t, 1) \in Nat /\ one(t, 2) \in Nat /\ one(t, 3) \in Nat
    OBVIOUS
  <2>5. /\ one(s, x) = f[x] /\ one(s \ {x}, x) = 0
        /\ \A y : y # x => one(s \ {x}, y) = one(s, y)
    OBVIOUS
  <2>. HIDE DEF one, g
  <2>6. g[s] = one(s, 1) + one(s, 2) + one(s, 3)
    BY <2>3
  <2>7. g[s \ {x}] = one(s \ {x}, 1) + one(s \ {x}, 2) + one(s \ {x}, 3)
    BY <2>2, <2>3
  <2>8. one(s, 1) \in Nat /\ one(s, 2) \in Nat /\ one(s, 3) \in Nat
    BY <2>4
  <2>9. g[s] = f[x] + g[s \ {x}]
    BY <2>2, <2>5, <2>6, <2>7, <2>8
  <2>. QED
    BY <2>1, <2>9
<1>2. g[{}] = 0
  OBVIOUS
<1>3. Sums(g, f, S)
  <2>1. \A s \in SUBSET S : g[s] = IF s = {} THEN 0 ELSE f[First(s)] + g[s \ {First(s)}]
    BY <1>1, <1>2
  <2>2. g = [s \in SUBSET S |-> g[s]]
    OBVIOUS
  <2>. HIDE DEF g
  <2>. QED
    BY <2>1, <2>2 DEF Sums
<1>. QED
  BY <1>3

LEMMA SumIs ==
  ASSUME NEW n \in 0..3, NEW f, \A i \in 1..n : f[i] \in Nat
  PROVE  SumFunctionOnSet(f, 1..n) = Total(f, n)
<1> DEFINE S == 1..n
<1>1. PICK h : Sums(h, f, S) /\ SumFunctionOnSet(f, S) = h[S]
  <2>1. \E h : Sums(h, f, S)
    <3>1. S \in SUBSET (1..3) /\ \A i \in S : f[i] \in Nat
      OBVIOUS
    <3>. HIDE DEF S
    <3>. QED
      BY <3>1, SumExists
  <2>2. SumFunctionOnSet(f, S)
          = (CHOOSE h : h = [s \in SUBSET S |->
                               IF s = {} THEN 0
                               ELSE f[CHOOSE x \in s : TRUE]
                                      + h[s \ {CHOOSE x \in s : TRUE}]])[S]
    BY DEF SumFunctionOnSet, FoldFunctionOnSet, MapThenFoldSet
  <2>3. SumFunctionOnSet(f, S) = (CHOOSE h : Sums(h, f, S))[S]
    BY <2>2 DEF Sums, First
  <2>. QED
    BY <2>1, <2>3
<1>2. h[{}] = 0
  BY <1>1 DEF Sums
<1>3. ASSUME NEW s \in SUBSET S, s # {}
      PROVE  \E x \in s : h[s] = f[x] + h[s \ {x}]
  BY <1>1, <1>3 DEF Sums, First
<1>4. ASSUME NEW a \in S PROVE h[{a}] = f[a]
  <2>1. {a} \ {a} = {} /\ f[a] \in Nat
    OBVIOUS
  <2>. QED
    BY <1>2, <1>3, <2>1
<1>5. ASSUME NEW a \in S, NEW b \in S, a # b PROVE h[{a, b}] = f[a] + f[b]
  <2>1. {a, b} \ {a} = {b} /\ {a, b} \ {b} = {a}
    BY <1>5
  <2>2. h[{a, b}] = f[a] + h[{b}] \/ h[{a, b}] = f[b] + h[{a}]
    BY <1>3, <2>1
  <2>3. f[a] \in Nat /\ f[b] \in Nat
    OBVIOUS
  <2>4. h[{a}] = f[a] /\ h[{b}] = f[b]
    BY <1>4
  <2>. QED
    BY <2>2, <2>3, <2>4
<1>6. CASE n = 0
  <2>1. S = {}
    BY <1>6
  <2>. QED
    BY <1>1, <1>2, <1>6, <2>1 DEF Total
<1>7. CASE n = 1
  <2>1. S = {1} /\ f[1] \in Nat
    BY <1>7
  <2>. QED
    BY <1>1, <1>4, <1>7, <2>1 DEF Total
<1>8. CASE n = 2
  <2>1. S = {1, 2} /\ f[1] \in Nat /\ f[2] \in Nat
    BY <1>8
  <2>. QED
    BY <1>1, <1>5, <1>8, <2>1 DEF Total
<1>9. CASE n = 3
  <2>1. S = {1, 2, 3} /\ f[1] \in Nat /\ f[2] \in Nat /\ f[3] \in Nat
    BY <1>9
  <2>2. S \ {1} = {2, 3} /\ S \ {2} = {1, 3} /\ S \ {3} = {1, 2}
    BY <2>1
  <2>. HIDE DEF S
  <2>3. PICK x \in S : h[S] = f[x] + h[S \ {x}]
    <3>1. S \in SUBSET S /\ S # {}
      BY <2>1
    <3>. QED
      BY <1>3, <3>1
  <2>4. h[{2, 3}] = f[2] + f[3] /\ h[{1, 3}] = f[1] + f[3] /\ h[{1, 2}] = f[1] + f[2]
    <3>1. 1 \in S /\ 2 \in S /\ 3 \in S
      BY <2>1
    <3>2. h[{2, 3}] = f[2] + f[3]
      BY <1>5, <3>1
    <3>3. h[{1, 3}] = f[1] + f[3]
      BY <1>5, <3>1
    <3>4. h[{1, 2}] = f[1] + f[2]
      BY <1>5, <3>1
    <3>. QED
      BY <3>2, <3>3, <3>4
  <2>5. h[S] = f[1] + f[2] + f[3]
    BY <2>1, <2>2, <2>3, <2>4
  <2>. QED
    BY <1>1, <1>9, <2>1, <2>5 DEF Total
<1>. QED
  BY <1>6, <1>7, <1>8, <1>9

LEMMA SumOfAll ==
  ASSUME NEW n \in 0..3, NEW f \in [1..n -> Nat]
  PROVE  SumFunction(f) = Total(f, n) /\ SumFunction(f) \in Nat
<1>1. SumFunction(f) = SumFunctionOnSet(f, 1..n)
  BY DEF SumFunction
<1>2. SumFunctionOnSet(f, 1..n) = Total(f, n)
  BY SumIs
<1>3. Total(f, n) \in Nat
  BY DEF Total
<1>. QED
  BY <1>1, <1>2, <1>3

\* The units of the first n files, one file after the other.
Cat(s, t) == s \o t
Two(d) == Cat(d[1], d[2])
Three(d) == Cat(Two(d), d[3])
Joined(d, n) == IF n = 0 THEN <<>> ELSE IF n = 1 THEN d[1] ELSE IF n = 2 THEN Two(d) ELSE Three(d)

LEMMA Flattened ==
  ASSUME NEW n \in 0..3, NEW d
  PROVE  FlattenSeq([i \in 1..n |-> d[i]]) = Joined(d, n)
<1> DEFINE q == [i \in 1..n |-> d[i]]
<1>1. q \in Seq({d[i] : i \in 1..n}) /\ Len(q) = n
  OBVIOUS
<1>2. CASE n = 0
  BY <1>1, <1>2 DEF FlattenSeq, Joined
<1>3. CASE n # 0
  <2> DEFINE Flat(h) == h = [i \in 1..n |-> IF i = 1 THEN q[i] ELSE Cat(h[i - 1], q[i])]
             g == [i \in 1..n |-> Joined(d, i)]
  <2>1. FlattenSeq(q) = (CHOOSE h : Flat(h))[n]
    BY <1>1, <1>3 DEF FlattenSeq, Cat
  <2>2. /\ Joined(d, 1) = d[1] /\ Joined(d, 2) = Cat(Joined(d, 1), d[2])
        /\ Joined(d, 3) = Cat(Joined(d, 2), d[3])
    BY DEF Joined, Two, Three
  <2>3. Flat(g)
    <3>1. \A i \in 1..n : g[i] = IF i = 1 THEN q[i] ELSE Cat(g[i - 1], q[i])
      <4>. SUFFICES ASSUME NEW i \in 1..n PROVE g[i] = IF i = 1 THEN q[i] ELSE Cat(g[i - 1], q[i])
        OBVIOUS
      <4>1. i \in {1, 2, 3} /\ g[i] = Joined(d, i) /\ q[i] = d[i]
        OBVIOUS
      <4>2. i # 1 => g[i - 1] = Joined(d, i - 1)
        OBVIOUS
      <4>. HIDE DEF g, q
      <4>3. CASE i = 1
        BY <2>2, <4>1, <4>3
      <4>4. CASE i = 2
        BY <2>2, <4>1, <4>2, <4>4
      <4>5. CASE i = 3
        BY <2>2, <4>1, <4>2, <4>5
      <4>. QED
        BY <4>1, <4>3, <4>4, <4>5
    <3>2. g = [i \in 1..n |-> g[i]]
      OBVIOUS
    <3>. HIDE DEF g, q
    <3>. QED
      BY <3>1, <3>2
  <2>4. PICK h : Flat(h) /\ FlattenSeq(q) = h[n]
    BY <2>1, <2>3
  <2>5. \A i \in 1..n : h[i] = IF i = 1 THEN q[i] ELSE Cat(h[i - 1], q[i])
    BY <2>4
  <2>6. \A i \in 1..n : q[i] = d[i]
    OBVIOUS
  <2>. HIDE DEF Flat, q, g
  <2>7. h[1] = Joined(d, 1)
    BY <1>3, <2>2, <2>5, <2>6
  <2>8. n >= 2 => h[2] = Joined(d, 2)
    <3>1. n >= 2 => h[2] = Cat(h[1], d[2])
      BY <2>5, <2>6
    <3>. QED
      BY <2>2, <2>7, <3>1
  <2>9. n >= 3 => h[3] = Joined(d, 3)
    <3>1. n >= 3 => h[3] = Cat(h[2], d[3])
      BY <2>5, <2>6
    <3>2. n >= 3 => h[2] = Joined(d, 2)
      BY <2>8
    <3>. QED
      BY <2>2, <3>1, <3>2
  <2>10. n = 1 \/ n = 2 \/ n = 3
    BY <1>3
  <2>11. FlattenSeq(q) = Joined(d, n)
    BY <2>4, <2>7, <2>8, <2>9, <2>10
  <2>. QED
    BY <2>11 DEF q
<1>. QED
  BY <1>2, <1>3

(***************************************************************************)
(* Files.                                                                  *)
(***************************************************************************)
Units == {Zero} \cup (Addresses \X (1..MaxJobs))
IsFile(f) == f \in Seq(Units)
IsDisk(d) == d \in [Files -> {NoFile} \cup Seq(Units)]

LEMMA NoFileIsNone == ~IsFile(NoFile) /\ Len(NoFile) = 1
<1>1. Len(NoFile) = 1 /\ NoFile[1] = <<-2, 0>>
  BY DEF NoFile
<1>2. <<-2, 0>> \notin Units
  BY SizesAssumption DEF Units, Addresses, Zero
<1>3. ASSUME NoFile \in Seq(Units) PROVE FALSE
  <2>1. NoFile[1] \in Units
    BY <1>1, <1>3
  <2>. QED
    BY <1>1, <1>2, <2>1
<1>. QED
  BY <1>1, <1>3 DEF IsFile

LEMMA ResizedIs ==
  ASSUME NEW f, IsFile(f), NEW n \in Nat
  PROVE  /\ IsFile(Resized(f, n)) /\ Len(Resized(f, n)) = n
         /\ \A k \in 1..n : Resized(f, n)[k] = IF k <= Len(f) THEN f[k] ELSE Zero
<1>1. \A k \in 1..n : (IF k <= Len(f) THEN f[k] ELSE Zero) \in Units
  BY DEF Units, IsFile
<1>. QED
  BY <1>1 DEF Resized, IsFile

LEMMA GrownIs ==
  ASSUME NEW f, IsFile(f), NEW n \in Nat
  PROVE  /\ IsFile(Grown(f, n))
         /\ Len(Grown(f, n)) = IF Len(f) >= n THEN Len(f) ELSE n
         /\ \A k \in 1..Len(f) : Grown(f, n)[k] = f[k]
<1>0. Len(f) \in Nat
  BY DEF IsFile
<1>1. CASE Len(f) >= n
  BY <1>1 DEF Grown
<1>2. CASE ~(Len(f) >= n)
  <2>1. Grown(f, n) = Resized(f, n)
    BY <1>2 DEF Grown
  <2>2. /\ IsFile(Resized(f, n)) /\ Len(Resized(f, n)) = n
        /\ \A k \in 1..n : Resized(f, n)[k] = IF k <= Len(f) THEN f[k] ELSE Zero
    BY ResizedIs
  <2>. QED
    BY <1>0, <1>2, <2>1, <2>2
<1>. QED
  BY <1>1, <1>2

(***************************************************************************)
(* What the reader sees: the files that are there without a gap.           *)
(***************************************************************************)
\* Where file i begins in the reader's address space.
Sizes == [k \in Files |-> FileSize(k)]
Before(i) == Total(Sizes, i - 1)

LEMMA SizesType ==
  ASSUME IsDisk(disk)
  PROVE  /\ \A i \in Files : Exists(i) => IsFile(disk[i])
         /\ \A i \in Files : Sizes[i] = FileSize(i) /\ FileSize(i) \in Nat
         /\ \A i \in Files : Exists(i) => FileSize(i) = Len(disk[i])
<1>1. \A i \in Files : Exists(i) => disk[i] \in Seq(Units)
  BY DEF IsDisk, Exists
<1>. QED
  BY <1>1 DEF IsFile, Sizes, FileSize

LEMMA OpenedIs ==
  ASSUME ThreeFiles, IsDisk(disk)
  PROVE  \E n \in 0..Cells : /\ Cardinality(Opened) = n /\ Opened = 1..n
                             /\ \A i \in 1..n : Exists(i)
                             /\ n < Cells => ~Exists(n + 1)
<1>1. \E n \in 0..Cells : (\A i \in 1..n : Exists(i)) /\ (n < Cells => ~Exists(n + 1))
  <2>1. Cells \in {1, 2, 3}
    BY CellsAssumption DEF ThreeFiles
  <2>2. CASE ~Exists(1)
    <3>. 0 \in 0..Cells
      BY <2>1
    <3>. WITNESS 0 \in 0..Cells
    <3>. QED
      BY <2>2
  <2>3. CASE Exists(1) /\ (Cells = 1 \/ ~Exists(2))
    <3>. 1 \in 0..Cells
      BY <2>1
    <3>. WITNESS 1 \in 0..Cells
    <3>. QED
      BY <2>1, <2>3
  <2>4. CASE Exists(1) /\ Exists(2) /\ Cells > 1 /\ (Cells = 2 \/ ~Exists(3))
    <3>. 2 \in 0..Cells
      BY <2>1, <2>4
    <3>. WITNESS 2 \in 0..Cells
    <3>. QED
      BY <2>1, <2>4
  <2>5. CASE Exists(1) /\ Exists(2) /\ Exists(3) /\ Cells = 3
    <3>. 3 \in 0..Cells
      BY <2>5
    <3>. WITNESS 3 \in 0..Cells
    <3>. QED
      BY <2>5
  <2>. QED
    BY <2>1, <2>2, <2>3, <2>4, <2>5
<1>2. PICK n \in 0..Cells : (\A i \in 1..n : Exists(i)) /\ (n < Cells => ~Exists(n + 1))
  BY <1>1
<1>3. n \in Nat /\ Cells \in Nat
  BY CellsAssumption
<1>4. Opened = 1..n
  <2>1. ASSUME NEW i \in Opened PROVE i \in 1..n
    <3>1. i \in 1..Cells /\ \A k \in 1..i : Exists(k)
      BY <2>1 DEF Opened, Files
    <3>. QED
      BY <1>2, <1>3, <3>1
  <2>2. ASSUME NEW i \in 1..n PROVE i \in Opened
    <3>1. i \in 1..Cells /\ \A k \in 1..i : k \in 1..n
      BY <1>3
    <3>. QED
      BY <1>2, <3>1 DEF Opened, Files
  <2>. QED
    BY <2>1, <2>2
<1>5. Cardinality(1..n) = n
  BY <1>3, FS_Interval
<1>. QED
  BY <1>2, <1>4, <1>5

LEMMA BeforeIs ==
  ASSUME ThreeFiles, IsDisk(disk)
  PROVE  /\ Before(1) = 0
         /\ \A i \in Files : Before(i) \in Nat /\ Before(i + 1) = Before(i) + FileSize(i)
<1>1. Cells \in {1, 2, 3}
  BY CellsAssumption DEF ThreeFiles
<1>2. \A i \in Files : Sizes[i] = FileSize(i) /\ FileSize(i) \in Nat
  BY SizesType
<1>3. Before(1) = 0
  BY DEF Before, Total
<1>4. Before(2) = FileSize(1)
  BY <1>1, <1>2 DEF Before, Total, Files
<1>5. Cells > 1 => Before(3) = FileSize(1) + FileSize(2)
  BY <1>1, <1>2 DEF Before, Total, Files
<1>6. Cells > 2 => Before(4) = FileSize(1) + FileSize(2) + FileSize(3)
  BY <1>1, <1>2 DEF Before, Total, Files
<1>7. ASSUME NEW i \in Files PROVE Before(i) \in Nat /\ Before(i + 1) = Before(i) + FileSize(i)
  <2>1. i \in {1, 2, 3} /\ (i = 2 => Cells > 1) /\ (i = 3 => Cells > 2)
    BY <1>1 DEF Files
  <2>2. FileSize(1) \in Nat /\ (Cells > 1 => FileSize(2) \in Nat) /\ (Cells > 2 => FileSize(3) \in Nat)
    BY <1>1, <1>2 DEF Files
  <2>. QED
    BY <1>1, <1>3, <1>4, <1>5, <1>6, <2>1, <2>2
<1>. QED
  BY <1>3, <1>7

\* u is s and then t.
Joins(u, s, t) ==
  /\ IsFile(u) /\ Len(u) = Len(s) + Len(t)
  /\ \A k \in 1..Len(s) : u[k] = s[k]
  /\ \A k \in 1..Len(t) : u[Len(s) + k] = t[k]

LEMMA CatIs ==
  ASSUME NEW s, IsFile(s), NEW t, IsFile(t)
  PROVE  Joins(Cat(s, t), s, t)
<1>0. s \in Seq(Units) /\ t \in Seq(Units)
  BY DEF IsFile
<1>1. /\ IsFile(Cat(s, t)) /\ Len(Cat(s, t)) = Len(s) + Len(t)
      /\ \A k \in 1..(Len(s) + Len(t)) :
           Cat(s, t)[k] = IF k <= Len(s) THEN s[k] ELSE t[k - Len(s)]
  BY <1>0, ConcatProperties DEF Cat, IsFile
<1>2. Len(s) \in Nat /\ Len(t) \in Nat
  BY <1>0
<1>3. \A k \in 1..Len(s) : Cat(s, t)[k] = s[k]
  BY <1>1, <1>2
<1>4. ASSUME NEW k \in 1..Len(t) PROVE Cat(s, t)[Len(s) + k] = t[k]
  <2>1. /\ Len(s) + k \in 1..(Len(s) + Len(t)) /\ ~(Len(s) + k <= Len(s))
        /\ (Len(s) + k) - Len(s) = k
    BY <1>2
  <2>. QED
    BY <1>1, <2>1
<1>. QED
  BY <1>1, <1>2, <1>3, <1>4 DEF Joins

\* The reader finds the units of each file from where it begins.
LEMMA ContentsAre ==
  ASSUME ThreeFiles, IsDisk(disk), NEW n \in 0..Cells, Cardinality(Opened) = n,
         \A i \in 1..n : Exists(i)
  PROVE  /\ Len(Contents) = Before(n + 1)
         /\ \A i \in 1..n : \A k \in 1..Len(disk[i]) : Contents[Before(i) + k] = disk[i][k]
<1>1. n \in 0..3 /\ (\A i \in 1..n : i \in Files)
  BY CellsAssumption DEF ThreeFiles, Files
<1>2. Contents = Joined(disk, n)
  BY <1>1, Flattened DEF Contents
<1>3. \A i \in 1..n : IsFile(disk[i]) /\ FileSize(i) = Len(disk[i]) /\ Len(disk[i]) \in Nat
  BY <1>1, SizesType
<1>4. /\ Before(1) = 0
      /\ \A i \in 1..n : Before(i) \in Nat /\ Before(i + 1) = Before(i) + Len(disk[i])
  BY <1>1, <1>3, BeforeIs
<1>5. CASE n = 0
  BY <1>2, <1>4, <1>5 DEF Joined
<1>6. CASE n = 1
  <2>1. Contents = disk[1] /\ \A i \in 1..n : i = 1
    BY <1>2, <1>6 DEF Joined
  <2>2. Before(1) = 0 /\ Before(2) = Len(disk[1]) /\ Len(disk[1]) \in Nat
    BY <1>3, <1>4, <1>6
  <2>3. ASSUME NEW k \in 1..Len(disk[1]) PROVE Contents[Before(1) + k] = disk[1][k]
    <3>1. Before(1) + k = k
      BY <2>2
    <3>. QED
      BY <2>1, <3>1
  <2>. QED
    BY <1>6, <2>1, <2>2, <2>3
<1>7. CASE n >= 2
  <2>1. IsFile(disk[1]) /\ IsFile(disk[2]) /\ Len(disk[1]) \in Nat /\ Len(disk[2]) \in Nat
    BY <1>3, <1>7
  <2>2. /\ IsFile(Two(disk)) /\ Len(Two(disk)) = Len(disk[1]) + Len(disk[2])
        /\ \A k \in 1..Len(disk[1]) : Two(disk)[k] = disk[1][k]
        /\ \A k \in 1..Len(disk[2]) : Two(disk)[Len(disk[1]) + k] = disk[2][k]
    <3>1. Joins(Two(disk), disk[1], disk[2])
      BY <2>1, CatIs DEF Two
    <3>. QED
      BY <3>1 DEF Joins
  <2>3. 1 \in 1..n /\ 2 \in 1..n
    BY <1>7
  <2>4. Before(1) = 0 /\ Before(2) = Len(disk[1]) /\ Before(3) = Len(disk[1]) + Len(disk[2])
    <3>1. Len(disk[1]) \in Nat
      BY <2>1
    <3>2. Before(2) = Len(disk[1])
      BY <1>4, <2>3, <3>1
    <3>3. Before(3) = Before(2) + Len(disk[2])
      BY <1>4, <2>3
    <3>. QED
      BY <1>4, <3>2, <3>3
  <2>5. CASE n = 2
    <3>1. Contents = Two(disk) /\ \A i \in 1..n : i = 1 \/ i = 2
      BY <1>2, <2>5 DEF Joined
    <3>. QED
      <4>1. Len(disk[1]) \in Nat /\ Len(disk[2]) \in Nat
        BY <2>1
      <4>2. Len(Contents) = Before(3)
        BY <2>2, <2>4, <3>1
      <4>3. ASSUME NEW k \in 1..Len(disk[1]) PROVE Contents[Before(1) + k] = disk[1][k]
        <5>1. Before(1) + k = k
          BY <2>4
        <5>. QED
          BY <2>2, <3>1, <5>1
      <4>4. \A k \in 1..Len(disk[2]) : Contents[Before(2) + k] = disk[2][k]
        BY <2>2, <2>4, <3>1
      <4>. QED
        BY <2>5, <3>1, <4>2, <4>3, <4>4
  <2>6. CASE n = 3
    <3>1. IsFile(disk[3]) /\ Len(disk[3]) \in Nat /\ 3 \in 1..n
      BY <1>3, <2>6
    <3>2. /\ Len(Three(disk)) = Len(Two(disk)) + Len(disk[3])
          /\ \A k \in 1..Len(Two(disk)) : Three(disk)[k] = Two(disk)[k]
          /\ \A k \in 1..Len(disk[3]) : Three(disk)[Len(Two(disk)) + k] = disk[3][k]
      <4>1. Joins(Three(disk), Two(disk), disk[3])
        BY <2>2, <3>1, CatIs DEF Three
      <4>. QED
        BY <4>1 DEF Joins
    <3>3. Contents = Three(disk)
      BY <1>2, <2>6 DEF Joined
    <3>4. Before(4) = Len(Two(disk)) + Len(disk[3])
      <4>1. Before(4) = Before(3) + Len(disk[3])
        BY <1>4, <3>1
      <4>. QED
        BY <2>2, <2>4, <4>1
    <3>5. Len(disk[1]) \in Nat /\ Len(disk[2]) \in Nat /\ Len(disk[3]) \in Nat
      BY <2>1, <3>1
    <3>10. Len(Two(disk)) = Len(disk[1]) + Len(disk[2])
      BY <2>2
    <3>11. PICK p \in Nat, q \in Nat : p = Len(disk[1]) /\ q = Len(disk[2])
      BY <3>5
    <3>12. Len(Two(disk)) = p + q
      BY <3>10, <3>11
    <3>6. ASSUME NEW k \in 1..Len(disk[1]) PROVE Contents[Before(1) + k] = disk[1][k]
      <4>0. k \in 1..p
        BY <3>11
      <4>1. k \in 1..Len(Two(disk))
        BY <3>12, <4>0
      <4>4. Before(1) + k = k
        BY <2>4
      <4>2. Three(disk)[k] = Two(disk)[k]
        BY <3>2, <4>1
      <4>3. Two(disk)[k] = disk[1][k]
        BY <2>2
      <4>. QED
        BY <3>3, <4>2, <4>3, <4>4
    <3>7. ASSUME NEW k \in 1..Len(disk[2]) PROVE Contents[Before(2) + k] = disk[2][k]
      <4>0. k \in 1..q
        BY <3>11
      <4>5. p + k \in 1..Len(Two(disk))
        BY <3>12, <4>0
      <4>1. Len(disk[1]) + k \in 1..Len(Two(disk))
        BY <3>11, <4>5
      <4>4. Before(2) + k = Len(disk[1]) + k
        BY <2>4
      <4>2. Three(disk)[Len(disk[1]) + k] = Two(disk)[Len(disk[1]) + k]
        BY <3>2, <4>1
      <4>3. Two(disk)[Len(disk[1]) + k] = disk[2][k]
        BY <2>2
      <4>. QED
        BY <3>3, <4>2, <4>3, <4>4
    <3>8. ASSUME NEW k \in 1..Len(disk[3]) PROVE Contents[Before(3) + k] = disk[3][k]
      BY <2>2, <2>4, <3>2, <3>3
    <3>9. \A i \in 1..n : i = 1 \/ i = 2 \/ i = 3
      BY <2>6
    <3>. QED
      BY <2>6, <3>2, <3>3, <3>4, <3>6, <3>7, <3>8, <3>9
  <2>. QED
    BY <1>1, <1>7, <2>5, <2>6
<1>. QED
  BY <1>1, <1>5, <1>6, <1>7

(***************************************************************************)
(* The archive on disk as the writer lays it out.                          *)
(***************************************************************************)
\* Address a lies in cell i; unit <<a, g>> is where the writer puts it.
InCell(i, a) == CellBegin(i) <= a /\ (i < Cells => a < CellBegin(i + 1))
Stores(d, i, a, g) == a - CellBegin(i) < Len(d[i]) /\ d[i][a - CellBegin(i) + 1] = <<a, g>>

\* What f says was written below address h is on disk d.
Keeps(d, h, f) ==
  \A i \in Files, a \in Addresses :
     InCell(i, a) /\ a < h /\ f[a] # 0 => Stores(d, i, a, f[a])

\* The files of d reach up to address h, each but the last of them exactly to the next.
Reaches(d, h) ==
  \A i \in Files : CellBegin(i) < h =>
    /\ d[i] # NoFile
    /\ IF i < Cells /\ CellBegin(i + 1) < h THEN Len(d[i]) = MaxPck
       ELSE h - CellBegin(i) <= Len(d[i])

\* The file of the end.
LEMMA LastCell ==
  ASSUME NEW h \in Nat \ {0}
  PROVE  \E e \in Files : /\ CellBegin(e) < h
                          /\ e < Cells => h <= CellBegin(e + 1)
                          /\ \A i \in Files : CellBegin(i) < h <=> i <= e
<1>1. Cells \in Nat \ {0} /\ h - 1 \in Nat
  BY CellsAssumption
<1>2. PICK e \in 1..Cells : CellBegin(e) <= h - 1 /\ (e < Cells => h - 1 < CellBegin(e + 1))
  BY <1>1, CellOfPoint
<1>3. CellBegin(e) \in Nat /\ CellBegin(e + 1) \in Nat
  BY CellBegins
<1>4. ASSUME NEW i \in Files PROVE CellBegin(i) < h <=> i <= e
  <2>1. i \in 1..Cells /\ CellBegin(i) \in Nat
    BY CellBegins DEF Files
  <2>2. i < e => CellBegin(i) + MaxPck <= CellBegin(e)
    BY <2>1, CellBegins
  <2>3. e + 1 < i => CellBegin(e + 1) + MaxPck <= CellBegin(i)
    BY <2>1, CellBegins
  <2>4. CASE i <= e
    BY <1>2, <1>3, <2>1, <2>2, <2>4, CellsAssumption
  <2>5. CASE i = e + 1
    BY <1>2, <1>3, <2>1, <2>5, CellsAssumption
  <2>6. CASE e + 1 < i
    BY <1>2, <1>3, <2>1, <2>3, <2>6, CellsAssumption
  <2>. QED
    BY <1>1, <2>1, <2>4, <2>5, <2>6
<1>. QED
  BY <1>2, <1>3, <1>4 DEF Files

\* Below its end an archive that is reached lies where the reader looks for it.
LEMMA BeginsWhereWritten ==
  ASSUME ThreeFiles, IsDisk(disk), NEW h \in Nat, Reaches(disk, h),
         NEW i \in Files, CellBegin(i) < h
  PROVE  Before(i) = CellBegin(i)
<1>1. Cells \in {1, 2, 3} /\ MaxPck \in Nat
  BY CellsAssumption DEF ThreeFiles
<1>2. CellBegin(1) = 0 /\ CellBegin(2) = MaxPck /\ CellBegin(3) = 2 * MaxPck
  BY <1>1 DEF CellBegin
<1>3. ASSUME NEW j \in Files, j < i PROVE FileSize(j) = MaxPck
  <2>1. j \in 1..Cells /\ i \in 1..Cells /\ CellBegin(j + 1) \in Nat /\ CellBegin(i) \in Nat
    BY CellBegins DEF Files
  <2>2. CellBegin(j + 1) <= CellBegin(i) /\ j < Cells
    <3>1. CellBegin(j) + MaxPck <= CellBegin(i) /\ CellBegin(j + 1) = CellBegin(j) + MaxPck
      BY <1>3, <2>1, CellBegins
    <3>2. j < Cells
      BY <1>1, <1>3, <2>1
    <3>. QED
      BY <3>1, <3>2
  <2>3. CellBegin(j) < h /\ CellBegin(j + 1) < h
    <3>1. CellBegin(j) \in Nat /\ CellBegin(j + 1) = CellBegin(j) + MaxPck
      BY <2>1, CellBegins
    <3>. QED
      BY <2>1, <2>2, <3>1, CellsAssumption
  <2>4. disk[j] # NoFile /\ Len(disk[j]) = MaxPck
    BY <2>2, <2>3 DEF Reaches
  <2>. QED
    BY <2>4 DEF FileSize, Exists
<1>4. /\ Before(1) = 0
      /\ \A j \in Files : Before(j) \in Nat /\ Before(j + 1) = Before(j) + FileSize(j)
  BY BeforeIs
<1>5. CASE i = 1
  BY <1>2, <1>4, <1>5
<1>6. CASE i = 2
  <2>1. 1 \in Files
    BY <1>1 DEF Files
  <2>2. Before(2) = Before(1) + FileSize(1) /\ FileSize(1) = MaxPck
    BY <1>3, <1>4, <1>6, <2>1
  <2>. QED
    BY <1>1, <1>2, <1>4, <1>6, <2>2
<1>7. CASE i = 3
  <2>1. 1 \in Files /\ 2 \in Files
    BY <1>1, <1>7 DEF Files
  <2>2. Before(2) = Before(1) + FileSize(1) /\ FileSize(1) = MaxPck
    BY <1>3, <1>4, <1>7, <2>1
  <2>3. Before(3) = Before(2) + FileSize(2) /\ FileSize(2) = MaxPck
    BY <1>3, <1>4, <1>7, <2>1
  <2>. QED
    BY <1>1, <1>2, <1>4, <1>7, <2>2, <2>3
<1>. QED
  BY <1>1, <1>5, <1>6, <1>7 DEF Files

\* The archive is found as it was written: ReadBack follows.
LEMMA FoundAgain ==
  ASSUME ThreeFiles, IsDisk(disk), head \in 0..MaxAddress, head > 0,
         Reaches(disk, head), Keeps(disk, head, flat)
  PROVE  /\ head <= Len(Contents)
         /\ \A a \in 0..(head - 1) : flat[a] # 0 => Contents[a + 1] = <<a, flat[a]>>
<1>0. head \in Nat \ {0} /\ Cells \in Nat
  BY SizesAssumption, CellsAssumption
<1>1. PICK n \in 0..Cells : /\ Cardinality(Opened) = n
                            /\ \A i \in 1..n : Exists(i)
                            /\ n < Cells => ~Exists(n + 1)
  BY OpenedIs
<1>2. /\ Len(Contents) = Before(n + 1)
      /\ \A i \in 1..n : \A k \in 1..Len(disk[i]) : Contents[Before(i) + k] = disk[i][k]
  BY <1>1, ContentsAre
<1>3. PICK e \in Files : /\ CellBegin(e) < head
                         /\ e < Cells => head <= CellBegin(e + 1)
                         /\ \A i \in Files : CellBegin(i) < head <=> i <= e
  BY <1>0, LastCell
<1>4. \A i \in Files : i <= e => Exists(i)
  BY <1>3 DEF Reaches, Exists
<1>5. e <= n
  <2>1. n < Cells => n + 1 \in Files
    BY <1>0 DEF Files
  <2>2. ~(n + 1 <= e)
    BY <1>0, <1>1, <1>3, <1>4, <2>1 DEF Files
  <2>. QED
    BY <1>0, <2>2 DEF Files
<1>6. /\ Before(1) = 0
      /\ \A i \in Files : Before(i) \in Nat /\ Before(i + 1) = Before(i) + FileSize(i)
  BY BeforeIs
<1>7. \A i \in Files : i <= e => Before(i) = CellBegin(i)
  BY <1>0, <1>3, BeginsWhereWritten
<1>8. \A i \in 1..n : i \in Files /\ FileSize(i) = Len(disk[i]) /\ FileSize(i) \in Nat
  <2>1. \A i \in 1..n : i \in Files
    BY <1>0 DEF Files
  <2>. QED
    BY <1>1, <2>1, SizesType
<1>9. head <= Before(e + 1)
  <2>1. head - CellBegin(e) <= Len(disk[e])
    BY <1>0, <1>3, CellBegins DEF Reaches, Files
  <2>2. e \in 1..n /\ CellBegin(e) \in Nat
    BY <1>3, <1>5, CellBegins DEF Files
  <2>3. Before(e + 1) = CellBegin(e) + Len(disk[e])
    BY <1>6, <1>7, <1>8, <2>2
  <2>4. Len(disk[e]) \in Nat
    BY <1>8, <2>2
  <2>. QED
    BY <1>0, <2>1, <2>2, <2>3, <2>4
<1>10. Before(e + 1) <= Before(n + 1)
  <2>1. n \in 1..3 /\ e \in 1..n
    BY <1>0, <1>3, <1>5 DEF ThreeFiles, Files
  <2>2. \A i \in 1..n : Before(i) \in Nat /\ Before(i + 1) \in Nat /\ Before(i) <= Before(i + 1)
    BY <1>6, <1>8
  <2>3. n >= 2 => Before(2) \in Nat /\ Before(3) \in Nat /\ Before(2) <= Before(3)
    BY <2>1, <2>2
  <2>4. n >= 3 => Before(4) \in Nat /\ Before(3) <= Before(4)
    BY <2>1, <2>2
  <2>5. Before(2) \in Nat
    BY <2>1, <2>2
  <2>6. CASE e = n
    BY <2>2, <2>6, <2>1
  <2>7. CASE e = 1 /\ n = 2
    BY <2>3, <2>7
  <2>8. CASE e = 1 /\ n = 3
    BY <2>3, <2>4, <2>5, <2>8
  <2>9. CASE e = 2 /\ n = 3
    BY <2>3, <2>4, <2>9
  <2>10. (e = n) \/ (e = 1 /\ n = 2) \/ (e = 1 /\ n = 3) \/ (e = 2 /\ n = 3)
    BY <2>1
  <2>. QED
    BY <2>6, <2>7, <2>8, <2>9, <2>10
<1>11. head <= Len(Contents)
  <2>1. Before(e + 1) \in Nat /\ Before(n + 1) \in Nat
    <3>1. e \in 1..n /\ n \in 1..n
      BY <1>0, <1>3, <1>5 DEF Files
    <3>2. \A i \in 1..n : Before(i + 1) \in Nat
      BY <1>6, <1>8
    <3>. QED
      BY <3>1, <3>2
  <2>. QED
    BY <1>0, <1>2, <1>9, <1>10, <2>1
<1>12. ASSUME NEW a \in 0..(head - 1), flat[a] # 0 PROVE Contents[a + 1] = <<a, flat[a]>>
  <2>1. a \in Nat /\ a < head /\ a \in Addresses
    BY <1>0, SizesAssumption DEF Addresses
  <2>2. PICK i \in 1..Cells : CellBegin(i) <= a /\ (i < Cells => a < CellBegin(i + 1))
    BY <2>1, CellOfPoint, CellsAssumption
  <2>3. i \in Files /\ CellBegin(i) \in Nat
    BY CellBegins DEF Files
  <2>4. CellBegin(i) < head
    BY <1>0, <2>1, <2>2, <2>3
  <2>5. i \in 1..n /\ Before(i) = CellBegin(i)
    BY <1>0, <1>3, <1>5, <1>7, <2>3, <2>4 DEF Files
  <2>6. Stores(disk, i, a, flat[a])
    BY <1>12, <2>1, <2>2, <2>3 DEF Keeps, InCell
  <2>7. Len(disk[i]) \in Nat
    BY <1>8, <2>5
  <2>8. (a - CellBegin(i)) + 1 \in 1..Len(disk[i])
          /\ CellBegin(i) + ((a - CellBegin(i)) + 1) = a + 1
    BY <2>1, <2>2, <2>3, <2>6, <2>7 DEF Stores
  <2>9. Contents[Before(i) + ((a - CellBegin(i)) + 1)] = disk[i][(a - CellBegin(i)) + 1]
    BY <1>2, <2>5, <2>8
  <2>. QED
    BY <2>5, <2>6, <2>8, <2>9 DEF Stores
<1>. QED
  BY <1>11, <1>12

LEMMA InOneFileIs ==
  ASSUME ThreeFiles, IsDisk(disk), NEW a, NEW m, InOneFile(a, m)
  PROVE  \E i \in Opened : Before(i) <= a /\ a + m <= Before(i) + FileSize(i)
<1>1. PICK i \in Opened : LET before == SumFunctionOnSet([k \in Files |-> FileSize(k)], 1..(i - 1))
                          IN before <= a /\ a + m <= before + FileSize(i)
  BY DEF InOneFile
<1>2. i \in 1..Cells /\ Cells \in 1..3
  BY CellsAssumption DEF Opened, Files, ThreeFiles
<1>3. i - 1 \in 0..3 /\ \A k \in 1..(i - 1) : k \in Files
  BY <1>2 DEF Files
<1>4. \A k \in 1..(i - 1) : Sizes[k] \in Nat
  BY <1>3, SizesType
<1>5. SumFunctionOnSet(Sizes, 1..(i - 1)) = Before(i)
  BY <1>3, <1>4, SumIs DEF Before
<1>. QED
  BY <1>1, <1>5 DEF Sizes

\* An archive that mounts ends where its last file does, and the tail is in that file.
LastFile(n) ==
  /\ Cardinality(Opened) = n /\ Opened = 1..n
  /\ \A i \in 1..n : Exists(i) /\ Len(disk[i]) \in Nat \ {0}
  /\ n < Cells => ~Exists(n + 1)
  /\ \A i \in Files : CellBegin(i) < head <=> i <= n
  /\ n < Cells => head <= CellBegin(n + 1)
  /\ \A i \in 1..(n - 1) : Len(disk[i]) = MaxPck
  /\ CellBegin(n) < head /\ Len(disk[n]) = head - CellBegin(n)
  /\ CellBegin(n) <= head - TailSize
  /\ Total(Sizes, n) = head

LEMMA MountedIs ==
  ASSUME ThreeFiles, IsDisk(disk), head \in 0..MaxAddress, Mounted, Reaches(disk, head)
  PROVE  \E n \in Files : LastFile(n)
<1>0. head \in Nat \ {0} /\ Cells \in 1..3 /\ head = Len(Contents)
  BY SizesAssumption, CellsAssumption DEF Mounted, ThreeFiles
<1>1. PICK n \in 0..Cells : /\ Cardinality(Opened) = n /\ Opened = 1..n
                            /\ \A i \in 1..n : Exists(i)
                            /\ n < Cells => ~Exists(n + 1)
  BY OpenedIs
<1>2. head = Before(n + 1)
  BY <1>0, <1>1, ContentsAre
<1>3. PICK e \in Files : /\ CellBegin(e) < head
                         /\ e < Cells => head <= CellBegin(e + 1)
                         /\ \A i \in Files : CellBegin(i) < head <=> i <= e
  BY <1>0, LastCell
<1>4. \A i \in Files : i <= e => Exists(i)
  BY <1>3 DEF Reaches, Exists
<1>5. e <= n
  <2>1. n < Cells => n + 1 \in Files
    BY <1>0 DEF Files
  <2>2. ~(n + 1 <= e)
    BY <1>0, <1>1, <1>3, <1>4, <2>1 DEF Files
  <2>. QED
    BY <1>0, <2>2 DEF Files
<1>6. /\ Before(1) = 0
      /\ \A i \in Files : Before(i) \in Nat /\ Before(i + 1) = Before(i) + FileSize(i)
  BY BeforeIs
<1>7. \A i \in Files : i <= e => Before(i) = CellBegin(i)
  BY <1>0, <1>3, BeginsWhereWritten
<1>8. \A i \in 1..n : i \in Files /\ FileSize(i) = Len(disk[i]) /\ FileSize(i) \in Nat \ {0}
  <2>1. \A i \in 1..n : i \in Files /\ i \in Opened
    BY <1>0, <1>1 DEF Files
  <2>2. \A i \in 1..n : FileSize(i) > 0
    BY <2>1 DEF Mounted
  <2>3. \A i \in 1..n : FileSize(i) = Len(disk[i]) /\ FileSize(i) \in Nat
    BY <1>1, <2>1, SizesType
  <2>. QED
    BY <2>1, <2>2, <2>3
<1>9. e \in 1..n /\ n \in 1..3 /\ CellBegin(e) \in Nat
  <2>1. e \in 1..n /\ n \in 1..3
    BY <1>0, <1>3, <1>5 DEF Files
  <2>. QED
    BY <2>1, CellBegins
<1>10. head <= Before(e + 1)
  <2>1. head - CellBegin(e) <= Len(disk[e])
    BY <1>0, <1>3, CellBegins DEF Reaches, Files
  <2>2. Before(e + 1) = CellBegin(e) + Len(disk[e]) /\ Len(disk[e]) \in Nat
    BY <1>6, <1>7, <1>8, <1>9
  <2>. QED
    BY <1>0, <1>9, <2>1, <2>2
<1>11. e = n
  <2>1. \A i \in 1..n : Before(i) \in Nat /\ Before(i + 1) \in Nat /\ Before(i) < Before(i + 1)
    BY <1>6, <1>8
  <2>2. n >= 2 => Before(2) \in Nat /\ Before(3) \in Nat /\ Before(2) < Before(3)
    BY <1>9, <2>1
  <2>3. n >= 3 => Before(4) \in Nat /\ Before(3) < Before(4)
    BY <1>9, <2>1
  <2>4. Before(2) \in Nat
    BY <1>9, <2>1
  <2>5. ~(e = 1 /\ n = 2)
    BY <1>2, <1>10, <2>2, <2>4
  <2>6. ~(e = 1 /\ n = 3)
    BY <1>2, <1>10, <2>2, <2>3, <2>4
  <2>7. ~(e = 2 /\ n = 3)
    BY <1>2, <1>10, <2>2, <2>3
  <2>. QED
    BY <1>9, <2>5, <2>6, <2>7
<1>12. \A i \in 1..(n - 1) : Len(disk[i]) = MaxPck
  <2>. SUFFICES ASSUME NEW i \in 1..(n - 1) PROVE Len(disk[i]) = MaxPck
    OBVIOUS
  <2>1. i \in Files /\ i + 1 \in Files /\ i < Cells /\ i <= e /\ i + 1 <= e
    BY <1>0, <1>1, <1>9, <1>11 DEF Files
  <2>2. CellBegin(i) < head /\ CellBegin(i + 1) < head
    BY <1>3, <2>1
  <2>. QED
    BY <2>1, <2>2 DEF Reaches
<1>13. Len(disk[n]) = head - CellBegin(n)
  <2>1. Before(n + 1) = CellBegin(n) + Len(disk[n]) /\ Len(disk[n]) \in Nat
    BY <1>6, <1>7, <1>8, <1>9, <1>11
  <2>. QED
    BY <1>2, <1>9, <1>11, <2>1
<1>14. CellBegin(n) <= head - TailSize
  <2>0. InOneFile(head - TailSize, TailSize)
    BY DEF Mounted
  <2>1. PICK i \in Opened :
          Before(i) <= head - TailSize /\ (head - TailSize) + TailSize <= Before(i) + FileSize(i)
    BY <2>0, InOneFileIs
  <2>2. i \in 1..n /\ TailSize \in Nat
    BY <1>1, <2>1, SizesAssumption
  <2>3. i \in Files /\ Before(i) \in Nat /\ FileSize(i) \in Nat
          /\ Before(i + 1) = Before(i) + FileSize(i) /\ Before(i) = CellBegin(i)
    BY <1>6, <1>7, <1>8, <1>9, <1>11, <2>2
  <2>4. head <= Before(i + 1)
    BY <1>0, <2>1, <2>2, <2>3
  <2>5. i = n
    <3>1. SUFFICES ASSUME i + 1 <= e PROVE FALSE
      BY <1>9, <1>11, <2>2
    <3>2. i + 1 \in Files
      BY <1>0, <1>1, <1>9, <1>11, <2>2, <3>1 DEF Files
    <3>3. Before(i + 1) = CellBegin(i + 1) /\ CellBegin(i + 1) < head /\ Before(i + 1) \in Nat
      BY <1>3, <1>6, <1>7, <3>1, <3>2
    <3>. QED
      BY <1>0, <2>4, <3>3
  <2>. QED
    BY <2>1, <2>3, <2>5
<1>16. Total(Sizes, n) = head
  <2>1. (n + 1) - 1 = n
    BY <1>9
  <2>. QED
    BY <1>2, <2>1 DEF Before
<1>15. LastFile(n)
  BY <1>1, <1>3, <1>8, <1>11, <1>12, <1>13, <1>14, <1>16 DEF LastFile
<1>. QED
  BY <1>3, <1>11, <1>15

(***************************************************************************)
(* What the writer does to the files.                                      *)
(***************************************************************************)
Writing == {"data", "index", "tail", "head"}
Making == {"map"} \cup Writing

TypeInv ==
  /\ IsDisk(disk)
  /\ head \in 0..MaxAddress /\ entry \in 0..MaxAddress
  /\ cells \in 0..Cells
  /\ size \in [1..cells -> Nat] /\ mapped \in [1..cells -> Nat] /\ full \in Nat
  /\ step \in {"idle", "map", "data", "index", "tail", "head", "cut", "close", "finish"}
  /\ step = "idle" <=> cells = 0
  /\ cell \in 0..cells /\ (cells > 0 => cell \in 1..cells)
  /\ kind \in {"none", "new", "append", "rename", "comment", "mount"}
  /\ at \in 0..MaxAddress /\ index \in 0..MaxAddress /\ jobs \in 0..MaxJobs
  /\ flat \in [Addresses -> 0..MaxJobs] /\ pending \in [Addresses -> 0..MaxJobs]
  /\ promised \in BOOLEAN /\ trouble \in {"none", "space", "refused"}

\* The files the writer has are there.
AllPresent == cells \in 1..Cells /\ \A i \in 1..cells : Exists(i)

\* As much of the cells is mapped as address d needs.
Mapped(w, d) ==
  \A i \in 1..cells : w.mapped[i] = Part(d, cells, i) /\ w.mapped[i] <= Len(w.disk[i])

\* The files only grew, none but the last beyond its cell.
Fields == {"ok", "short", "disk", "mapped", "size", "full"}
Longer(w) ==
  /\ DOMAIN w = Fields
  /\ IsDisk(w.disk)
  /\ \A i \in Files : i > cells => w.disk[i] = disk[i]
  /\ \A i \in 1..cells :
       /\ IsFile(w.disk[i]) /\ Len(disk[i]) <= Len(w.disk[i])
       /\ i < cells => Len(w.disk[i]) <= MaxPck \/ Len(w.disk[i]) = Len(disk[i])
       /\ size[i] > 0 => w.size[i] > 0
  /\ w.mapped \in [1..cells -> Nat] /\ w.size \in [1..cells -> Nat]
  /\ w.full \in Nat /\ full <= w.full
  /\ w.ok \in BOOLEAN /\ w.short \in BOOLEAN

\* Nothing changed but the n units from address a.
Others(w, a, n) ==
  \A i \in 1..cells : \A k \in 1..Len(disk[i]) :
    ~(a <= CellBegin(i) + k - 1 /\ CellBegin(i) + k - 1 < a + n) => w.disk[i][k] = disk[i][k]

LEMMA MapLengthIs == \A d, i : MapLength(d, i) = Part(d, cells, i)
BY DEF MapLength, Part, GetCellIDByPoint, CellOf

LEMMA FilesOf ==
  ASSUME IsDisk(disk), AllPresent
  PROVE  \A i \in 1..cells : IsFile(disk[i]) /\ Len(disk[i]) \in Nat /\ FileSize(i) = Len(disk[i])
<1>1. \A i \in 1..cells : i \in Files /\ Exists(i)
  BY CellsAssumption DEF AllPresent, Files
<1>2. \A i \in 1..cells : IsFile(disk[i]) /\ FileSize(i) = Len(disk[i])
  BY <1>1, SizesType
<1>. QED
  BY <1>2 DEF IsFile

LEMMA MappingIs ==
  ASSUME TypeInv, AllPresent, NEW d \in Nat, full <= d, NEW f \in FailsAt(d), NEW w, w = Mapping(d, f)
  PROVE  /\ Longer(w) /\ Others(w, 0, 0)
         /\ f \in 1..(cells + 1) /\ (w.ok <=> f = cells + 1) /\ (w.short <=> f <= cells)
         /\ w.ok => Mapped(w, d) /\ w.full = d
         /\ ~w.ok => w.full = full
<1>0. /\ cells \in Nat \ {0} /\ full \in Nat /\ size \in [1..cells -> Nat] /\ IsDisk(disk)
      /\ cells <= Cells /\ Cells \in Nat
  BY CellsAssumption DEF TypeInv, AllPresent
<1>1. f \in 1..(cells + 1)
  BY <1>0 DEF FailsAt
<1>2. \A i \in 1..cells : Part(d, cells, i) \in Nat /\ (i < cells => Part(d, cells, i) <= MaxPck)
  BY <1>0, PartIs
<1>3. \A i \in 1..cells : IsFile(disk[i]) /\ Len(disk[i]) \in Nat
  BY <1>0, FilesOf
<1>4. /\ w.ok = (f > cells) /\ w.short = (f <= cells)
      /\ w.disk = [i \in Files |-> IF i <= cells /\ i < f
                                   THEN Grown(disk[i], Part(d, cells, i)) ELSE disk[i]]
      /\ w.mapped = [i \in 1..cells |-> IF i < f THEN Part(d, cells, i) ELSE 0]
      /\ w.size = [i \in 1..cells |-> IF i < f /\ Part(d, cells, i) > 0
                                      THEN Part(d, cells, i) ELSE size[i]]
      /\ w.full = IF f > cells /\ d > full THEN d ELSE full
  BY MapLengthIs DEF Mapping
<1>5. \A i \in 1..cells : i \in Files
  BY <1>0 DEF Files
<1>6. ASSUME NEW i \in 1..cells
      PROVE  /\ IsFile(w.disk[i]) /\ Len(disk[i]) <= Len(w.disk[i])
             /\ i < cells => Len(w.disk[i]) <= MaxPck \/ Len(w.disk[i]) = Len(disk[i])
             /\ size[i] > 0 => w.size[i] > 0
             /\ \A k \in 1..Len(disk[i]) : w.disk[i][k] = disk[i][k]
             /\ i < f => w.mapped[i] = Part(d, cells, i) /\ w.mapped[i] <= Len(w.disk[i])
  <2>1. Part(d, cells, i) \in Nat /\ (i < cells => Part(d, cells, i) <= MaxPck)
    BY <1>2
  <2>2. IsFile(disk[i]) /\ Len(disk[i]) \in Nat /\ size[i] \in Nat
    BY <1>0, <1>3
  <2>3. CASE i < f
    <3>1. w.disk[i] = Grown(disk[i], Part(d, cells, i)) /\ w.mapped[i] = Part(d, cells, i)
      BY <1>4, <1>5, <2>3
    <3>2. /\ IsFile(w.disk[i])
          /\ Len(w.disk[i]) = IF Len(disk[i]) >= Part(d, cells, i) THEN Len(disk[i]) ELSE Part(d, cells, i)
          /\ \A k \in 1..Len(disk[i]) : w.disk[i][k] = disk[i][k]
      BY <2>1, <2>2, <3>1, GrownIs
    <3>3. w.size[i] = IF Part(d, cells, i) > 0 THEN Part(d, cells, i) ELSE size[i]
      BY <1>4, <2>3
    <3>4. Len(disk[i]) <= Len(w.disk[i]) /\ w.mapped[i] <= Len(w.disk[i])
      BY <2>1, <2>2, <3>1, <3>2
    <3>5. i < cells => Len(w.disk[i]) <= MaxPck \/ Len(w.disk[i]) = Len(disk[i])
      BY <2>1, <2>2, <3>2
    <3>6. size[i] > 0 => w.size[i] > 0
      BY <2>1, <3>3
    <3>. QED
      BY <3>1, <3>2, <3>4, <3>5, <3>6
  <2>4. CASE ~(i < f)
    <3>1. w.disk[i] = disk[i] /\ w.size[i] = size[i]
      BY <1>4, <1>5, <2>4
    <3>. QED
      BY <2>2, <2>4, <3>1
  <2>. QED
    BY <2>3, <2>4
<1>7. IsDisk(w.disk)
  <2>1. ASSUME NEW i \in Files PROVE w.disk[i] \in {NoFile} \cup Seq(Units)
    <3>1. CASE i \in 1..cells
      BY <1>6, <3>1 DEF IsFile
    <3>2. CASE i \notin 1..cells
      <4>1. w.disk[i] = disk[i]
        BY <1>0, <1>4, <3>2 DEF Files
      <4>. QED
        BY <1>0, <4>1 DEF IsDisk
    <3>. QED
      BY <3>1, <3>2
  <2>. QED
    BY <1>4, <2>1 DEF IsDisk
<1>8. w.mapped \in [1..cells -> Nat] /\ w.size \in [1..cells -> Nat]
  BY <1>0, <1>2, <1>4
<1>9. w.full \in Nat /\ full <= w.full /\ (f > cells => w.full = d) /\ (~(f > cells) => w.full = full)
  BY <1>0, <1>4
<1>10. \A i \in Files : i > cells => w.disk[i] = disk[i]
  BY <1>0, <1>4 DEF Files
<1>18. DOMAIN w = Fields
  BY DEF Mapping, Fields
<1>11. Longer(w)
  BY <1>4, <1>6, <1>7, <1>8, <1>9, <1>10, <1>18 DEF Longer
<1>12. Others(w, 0, 0)
  BY <1>6 DEF Others
<1>13. ASSUME w.ok PROVE Mapped(w, d)
  <2>1. f > cells
    BY <1>4, <1>13
  <2>2. \A i \in 1..cells : i < f
    BY <1>0, <1>1, <2>1
  <2>3. \A i \in 1..cells : w.mapped[i] = Part(d, cells, i) /\ w.mapped[i] <= Len(w.disk[i])
    BY <1>6, <2>2
  <2>. QED
    BY <2>3 DEF Mapped
<1>14. (w.ok <=> f = cells + 1) /\ (w.short <=> f <= cells)
  <2>1. (w.ok <=> f > cells) /\ (w.short <=> f <= cells)
    BY <1>4
  <2>2. f > cells <=> f = cells + 1
    BY <1>0, <1>1
  <2>. QED
    BY <2>1, <2>2
<1>15. ASSUME w.ok PROVE w.full = d
  BY <1>0, <1>1, <1>9, <1>14, <1>15
<1>16. ASSUME ~w.ok PROVE w.full = full
  BY <1>0, <1>1, <1>9, <1>14, <1>16
<1>17. (w.ok => Mapped(w, d) /\ w.full = d) /\ (~w.ok => w.full = full)
  BY <1>13, <1>15, <1>16
<1>. QED
  BY <1>1, <1>11, <1>12, <1>14, <1>17

\* What IsNeedExpandWritingFile makes of the state: the files are mapped as far as they
\* are said to reach, and far enough for the write unless the disk is full.
Here == [ok |-> TRUE, short |-> FALSE, disk |-> disk, mapped |-> mapped, size |-> size, full |-> full]
Wide(w, a, n) ==
  /\ Longer(w) /\ Others(w, 0, 0) /\ Mapped(w, w.full)
  /\ ~w.ok => w.short
  /\ w.ok /\ ~w.short /\ a <= full => a + n < w.full

LEMMA HereIs ==
  ASSUME TypeInv, AllPresent, Mapped(Here, full)
  PROVE  Longer(Here) /\ Others(Here, 0, 0)
<1>0. /\ cells \in Nat \ {0} /\ full \in Nat /\ size \in [1..cells -> Nat] /\ IsDisk(disk)
      /\ mapped \in [1..cells -> Nat]
  BY CellsAssumption DEF TypeInv, AllPresent
<1>1. \A i \in 1..cells : IsFile(disk[i]) /\ Len(disk[i]) \in Nat
  BY <1>0, FilesOf
<1>2. /\ Here.ok = TRUE /\ Here.short = FALSE /\ Here.disk = disk /\ Here.mapped = mapped
      /\ Here.size = size /\ Here.full = full
  BY DEF Here
<1>3. Longer(Here)
  <2>1. \A i \in 1..cells :
          /\ IsFile(Here.disk[i]) /\ Len(disk[i]) <= Len(Here.disk[i])
          /\ i < cells => Len(Here.disk[i]) <= MaxPck \/ Len(Here.disk[i]) = Len(disk[i])
          /\ size[i] > 0 => Here.size[i] > 0
    BY <1>1, <1>2
  <2>2. IsDisk(Here.disk) /\ Here.mapped \in [1..cells -> Nat] /\ Here.size \in [1..cells -> Nat]
    BY <1>0, <1>2
  <2>3. Here.full \in Nat /\ full <= Here.full
    BY <1>0, <1>2
  <2>4. Here.ok \in BOOLEAN /\ Here.short \in BOOLEAN
    BY <1>2
  <2>5. \A i \in Files : i > cells => Here.disk[i] = disk[i]
    BY <1>2
  <2>6. DOMAIN Here = Fields
    BY DEF Here, Fields
  <2>. QED
    BY <2>1, <2>2, <2>3, <2>4, <2>5, <2>6 DEF Longer
<1>4. Others(Here, 0, 0)
  BY <1>2 DEF Others
<1>. QED
  BY <1>3, <1>4

LEMMA ExpandIs ==
  ASSUME TypeInv, AllPresent, Mapped(Here, full), NEW a \in Nat, NEW n \in Nat \ {0},
         NEW w \in IsNeedExpandWritingFile(a, n)
  PROVE  Wide(w, a, n)
<1>0. /\ cells \in Nat \ {0} /\ full \in Nat /\ DetectSize \in Nat \ {0}
  BY CellsAssumption, SizesAssumption DEF TypeInv, AllPresent
<1>1. CASE w = Here /\ ~NeedExpand(a, n)
  <2>1. w.ok = TRUE /\ w.full = full
    BY <1>1 DEF Here
  <2>2. a + n < w.full
    BY <1>0, <1>1, <2>1 DEF NeedExpand
  <2>. QED
    BY <1>1, <2>1, <2>2, HereIs DEF Wide
<1>2. CASE w = [Here EXCEPT !.ok = FALSE, !.short = TRUE]
  <2>1. /\ w.ok = FALSE /\ w.short = TRUE /\ w.disk = disk /\ w.mapped = mapped
        /\ w.size = size /\ w.full = full
    BY <1>2 DEF Here
  <2>2. /\ Here.disk = disk /\ Here.mapped = mapped /\ Here.size = size /\ Here.full = full
    BY DEF Here
  <2>6. DOMAIN w = Fields
    BY <1>2 DEF Here, Fields
  <2>3. Longer(w)
    BY <2>1, <2>2, <2>6, HereIs DEF Longer
  <2>4. Others(w, 0, 0)
    BY <2>1, <2>2, HereIs DEF Others
  <2>5. Mapped(w, w.full)
    BY <2>1, <2>2 DEF Mapped
  <2>. QED
    BY <2>1, <2>3, <2>4, <2>5 DEF Wide
<1>3. ASSUME NEW e \in Nat, e >= n, NEW k \in FailsAt(full + e),
             NEW v, v = [Mapping(full + e, k) EXCEPT !.short = @ \/ e < WantedStep(n)],
             w = IF v.ok THEN v ELSE [v EXCEPT !.mapped = [i \in 1..cells |-> MapLength(full, i)]]
      PROVE  Wide(w, a, n)
  <2> DEFINE m == Mapping(full + e, k)
  <2>0. full + e \in Nat /\ full <= full + e
    BY <1>0, <1>3
  <2>1. /\ Longer(m) /\ Others(m, 0, 0) /\ (m.ok <=> k = cells + 1) /\ (m.short <=> k <= cells)
        /\ k \in 1..(cells + 1)
        /\ m.ok => Mapped(m, full + e) /\ m.full = full + e
        /\ ~m.ok => m.full = full
    BY <2>0, MappingIs
  <2>2. m.ok \in BOOLEAN
    BY <2>1 DEF Longer
  <2>3. /\ v.ok = m.ok /\ v.short = (m.short \/ e < WantedStep(n)) /\ v.disk = m.disk
        /\ v.mapped = m.mapped /\ v.size = m.size /\ v.full = m.full
    BY <1>3 DEF Mapping
  <2>6. DOMAIN v = Fields
    BY <1>3 DEF Mapping, Fields
  <2>. HIDE DEF m
  <2>4. CASE v.ok
    <3>1. w = v
      BY <1>3, <2>4
    <3>2. Longer(w)
      BY <2>1, <2>3, <2>6, <3>1 DEF Longer
    <3>3. Others(w, 0, 0)
      BY <2>1, <2>3, <3>1 DEF Others
    <3>4. w.full = full + e
      BY <2>1, <2>3, <2>4, <3>1
    <3>5. Mapped(w, w.full)
      BY <2>1, <2>3, <2>4, <3>1, <3>4 DEF Mapped
    <3>6. ASSUME ~w.short, a <= full PROVE a + n < w.full
      <4>1. ~(e < WantedStep(n))
        BY <2>3, <3>1, <3>6
      <4>2. e >= n + DetectSize
        BY <1>0, <1>3, <4>1, SizesAssumption DEF WantedStep
      <4>. QED
        BY <1>0, <1>3, <3>4, <3>6, <4>2
    <3>. QED
      BY <2>4, <3>1, <3>2, <3>3, <3>5, <3>6 DEF Wide
  <2>5. CASE ~v.ok
    <3>1. /\ w.ok = FALSE /\ w.short = v.short /\ w.disk = m.disk /\ w.size = m.size
          /\ w.full = full /\ w.mapped = [i \in 1..cells |-> MapLength(full, i)]
      <4>1. w = [v EXCEPT !.mapped = [i \in 1..cells |-> MapLength(full, i)]]
        BY <1>3, <2>5
      <4>2. v = [Mapping(full + e, k) EXCEPT !.short = @ \/ e < WantedStep(n)]
        BY <1>3
      <4>3. /\ w.ok = v.ok /\ w.short = v.short /\ w.disk = v.disk /\ w.size = v.size
            /\ w.full = v.full /\ w.mapped = [i \in 1..cells |-> MapLength(full, i)]
        BY <4>1, <4>2 DEF Mapping
      <4>. QED
        BY <2>1, <2>2, <2>3, <2>5, <4>3
    <3>2. w.short
      <4>1. ~m.ok
        BY <2>3, <2>5
      <4>2. k <= cells
        BY <1>0, <2>1, <4>1
      <4>3. m.short
        BY <2>1, <4>2
      <4>. QED
        BY <2>3, <3>1, <4>3
    <3>3. Others(w, 0, 0)
      BY <2>1, <3>1 DEF Others
    <3>4. /\ IsDisk(m.disk) /\ \A i \in Files : i > cells => m.disk[i] = disk[i]
          /\ m.size \in [1..cells -> Nat] /\ m.short \in BOOLEAN
      BY <2>1 DEF Longer
    <3>5. \A i \in 1..cells :
            /\ IsFile(m.disk[i]) /\ Len(disk[i]) <= Len(m.disk[i])
            /\ i < cells => Len(m.disk[i]) <= MaxPck \/ Len(m.disk[i]) = Len(disk[i])
            /\ size[i] > 0 => m.size[i] > 0
      BY <2>1 DEF Longer
    <3>6. \A i \in 1..cells : /\ w.mapped[i] = Part(full, cells, i) /\ Part(full, cells, i) \in Nat
                              /\ mapped[i] = Part(full, cells, i) /\ mapped[i] <= Len(disk[i])
      <4>1. \A i \in 1..cells : w.mapped[i] = Part(full, cells, i)
        BY <3>1, MapLengthIs
      <4>2. \A i \in 1..cells : Part(full, cells, i) \in Nat
        BY <1>0, PartIs
      <4>3. Here.disk = disk /\ Here.mapped = mapped
        BY DEF Here
      <4>4. \A i \in 1..cells : mapped[i] = Part(full, cells, i) /\ mapped[i] <= Len(disk[i])
        BY <4>3 DEF Mapped
      <4>. QED
        BY <4>1, <4>2, <4>4
    <3>7. \A i \in 1..cells : Len(disk[i]) \in Nat /\ Len(m.disk[i]) \in Nat
      <4>1. \A i \in 1..cells : IsFile(m.disk[i])
        BY <3>5
      <4>2. \A i \in 1..cells : Len(disk[i]) \in Nat
        BY FilesOf DEF TypeInv
      <4>. QED
        BY <4>1, <4>2 DEF IsFile
    <3>8. Mapped(w, w.full)
      <4>1. \A i \in 1..cells : w.mapped[i] <= Len(w.disk[i])
        <5>. SUFFICES ASSUME NEW i \in 1..cells PROVE w.mapped[i] <= Len(w.disk[i])
          OBVIOUS
        <5>1. PICK p \in Nat, q \in Nat, r \in Nat :
                p = Part(full, cells, i) /\ q = Len(disk[i]) /\ r = Len(m.disk[i])
          BY <3>6, <3>7
        <5>2. p <= q /\ q <= r
          BY <3>5, <3>6, <5>1
        <5>. QED
          BY <3>1, <3>6, <5>1, <5>2
      <4>. QED
        BY <3>1, <3>6, <4>1 DEF Mapped
    <3>9. w.mapped \in [1..cells -> Nat]
      BY <3>1, <3>6
    <3>10. Longer(w)
      <4>1. w.short \in BOOLEAN
        BY <2>3, <3>1
      <4>2. full <= w.full /\ w.full \in Nat
        BY <1>0, <3>1
      <4>3. DOMAIN w = Fields
        BY <1>3, <2>5, <2>6
      <4>. QED
        BY <3>1, <3>4, <3>5, <3>9, <4>1, <4>2, <4>3 DEF Longer
    <3>. QED
      BY <3>1, <3>2, <3>3, <3>8, <3>10 DEF Wide
  <2>. QED
    BY <2>4, <2>5
<1>4. WantedStep(n) \in Nat
  BY SizesAssumption DEF WantedStep
<1>5. CASE NeedExpand(a, n)
  <2> DEFINE spaces == {WantedStep(n)} \cup (IF SpaceMayLack THEN 0..WantedStep(n) ELSE {})
             tried(e) == {[Mapping(full + e, k) EXCEPT !.short = @ \/ e < WantedStep(n)] :
                            k \in FailsAt(full + e)}
             again(v) == [v EXCEPT !.mapped = [i \in 1..cells |-> MapLength(full, i)]]
  <2>1. \E e \in spaces :
          w \in IF n > e THEN {[Here EXCEPT !.ok = FALSE, !.short = TRUE]}
                ELSE {IF v.ok THEN v ELSE again(v) : v \in tried(e)}
    BY <1>5 DEF IsNeedExpandWritingFile, Here
  <2>2. spaces \subseteq Nat
    BY <1>4
  <2>3. PICK e \in Nat :
          w \in IF n > e THEN {[Here EXCEPT !.ok = FALSE, !.short = TRUE]}
                ELSE {IF v.ok THEN v ELSE again(v) : v \in tried(e)}
    BY <2>1, <2>2
  <2>4. CASE n > e
    BY <1>2, <2>3, <2>4
  <2>5. CASE ~(n > e)
    <3>1. PICK v \in tried(e) : w = IF v.ok THEN v ELSE again(v)
      BY <2>3, <2>5
    <3>2. PICK k \in FailsAt(full + e) :
            v = [Mapping(full + e, k) EXCEPT !.short = @ \/ e < WantedStep(n)]
      BY <3>1
    <3>3. e >= n
      BY <2>5
    <3>. QED
      BY <1>3, <3>1, <3>2, <3>3
  <2>. QED
    BY <2>4, <2>5
<1>6. CASE ~NeedExpand(a, n)
  <2>1. w = Here
    BY <1>6 DEF IsNeedExpandWritingFile, Here
  <2>. QED
    BY <1>1, <1>6, <2>1
<1>. QED
  BY <1>5, <1>6

LEMMA CellOrder ==
  ASSUME NEW n \in Nat \ {0}, NEW p \in Nat, NEW q \in Nat, p <= q
  PROVE  CellOf(p, n) <= CellOf(q, n)
<1>1. PICK c \in 1..n : c = CellOf(p, n) /\ CellBegin(c) <= p
  BY CellOfPoint
<1>2. PICK d \in 1..n : d = CellOf(q, n) /\ (d < n => q < CellBegin(d + 1))
  BY CellOfPoint
<1>3. /\ CellBegin(c) \in Nat /\ CellBegin(d) \in Nat /\ CellBegin(d + 1) = CellBegin(d) + MaxPck
      /\ d < c => CellBegin(d) + MaxPck <= CellBegin(c)
  BY CellBegins
<1>4. ~(d < c)
  BY <1>1, <1>2, <1>3, CellsAssumption
<1>. QED
  BY <1>1, <1>2, <1>4

\* ViewAndWrite2: the end of the view of a cell, the cells that can be viewed, and what is
\* then in a file.
ViewEnd(a, n, i) == IF i = CellOf(a + n, cells) THEN a + n - CellBegin(i) ELSE MaxPck
Viewed(w, a, n, i) == w.mapped[i] > 0 /\ w.mapped[i] >= ViewEnd(a, n, i)
Touched(a, n) == CellOf(a, cells)..CellOf(a + n, cells)
Done(w, a, n) == {i \in Touched(a, n) : \A k \in CellOf(a, cells)..i : Viewed(w, a, n, k)}
Put(w, a, n, i) ==
  [k \in 1..Len(w.disk[i]) |->
     IF a <= CellBegin(i) + k - 1 /\ CellBegin(i) + k - 1 < a + n /\ k <= ViewEnd(a, n, i)
     THEN <<CellBegin(i) + k - 1, jobs>> ELSE w.disk[i][k]]

\* All units of the write are in the files.
Written(w, a, n) ==
  \A i \in 1..cells, b \in a..(a + n - 1) :
    CellBegin(i) <= b /\ (i < cells => b < CellBegin(i + 1)) => Stores(w.disk, i, b, jobs)

LEMMA ViewFields ==
  ASSUME NEW w, DOMAIN w = Fields, NEW a, NEW n, NEW v, v = ViewAndWrite2(w, a, n)
  PROVE  /\ DOMAIN v = Fields
         /\ v.ok = (Done(w, a, n) = Touched(a, n)) /\ v.short = w.short
         /\ v.mapped = w.mapped /\ v.size = w.size /\ v.full = w.full
         /\ v.disk = [i \in Files |-> IF i \notin Done(w, a, n) THEN w.disk[i] ELSE Put(w, a, n, i)]
<1> DEFINE d == [i \in Files |-> IF i \notin Done(w, a, n) THEN w.disk[i] ELSE Put(w, a, n, i)]
<1>1. v = [w EXCEPT !.ok = (Done(w, a, n) = Touched(a, n)), !.disk = d]
  BY DEF ViewAndWrite2, Done, Touched, Viewed, ViewEnd, Put, GetCellIDByPoint, CellOf
<1>. HIDE DEF d
<1>2. /\ DOMAIN v = Fields
      /\ v.ok = (Done(w, a, n) = Touched(a, n)) /\ v.short = w.short
      /\ v.mapped = w.mapped /\ v.size = w.size /\ v.full = w.full
      /\ v.disk = d
  BY <1>1 DEF Fields
<1>. QED
  BY <1>2 DEF d

LEMMA PutIs ==
  ASSUME NEW w, NEW a \in Nat, NEW n \in Nat \ {0}, a + n <= MaxAddress, jobs \in 1..MaxJobs,
         NEW i \in 1..cells, cells \in Nat, IsFile(w.disk[i])
  PROVE  /\ IsFile(Put(w, a, n, i)) /\ Len(Put(w, a, n, i)) = Len(w.disk[i])
         /\ \A k \in 1..Len(w.disk[i]) :
              ~(a <= CellBegin(i) + k - 1 /\ CellBegin(i) + k - 1 < a + n)
                => Put(w, a, n, i)[k] = w.disk[i][k]
<1>1. CellBegin(i) \in Nat
  BY CellBegins
<1>2. ASSUME NEW k \in 1..Len(w.disk[i]) PROVE Put(w, a, n, i)[k] \in Units
  <2>1. k \in Nat \ {0} /\ w.disk[i][k] \in Units
    BY DEF IsFile
  <2>2. CASE a <= CellBegin(i) + k - 1 /\ CellBegin(i) + k - 1 < a + n /\ k <= ViewEnd(a, n, i)
    <3>1. CellBegin(i) + k - 1 \in Addresses
      BY <1>1, <2>1, <2>2, SizesAssumption DEF Addresses
    <3>2. <<CellBegin(i) + k - 1, jobs>> \in Units
      BY <3>1 DEF Units
    <3>. QED
      BY <2>2, <3>2 DEF Put
  <2>3. CASE ~(a <= CellBegin(i) + k - 1 /\ CellBegin(i) + k - 1 < a + n /\ k <= ViewEnd(a, n, i))
    BY <2>1, <2>3 DEF Put
  <2>. QED
    BY <2>2, <2>3
<1>3. Put(w, a, n, i) = [k \in 1..Len(w.disk[i]) |-> Put(w, a, n, i)[k]]
  BY DEF Put
<1>4. Len(w.disk[i]) \in Nat
  BY DEF IsFile
<1>5. IsFile(Put(w, a, n, i)) /\ Len(Put(w, a, n, i)) = Len(w.disk[i])
  <2> DEFINE p == Put(w, a, n, i)
             m == Len(w.disk[i])
  <2>1. m \in Nat /\ p = [k \in 1..m |-> p[k]] /\ \A k \in 1..m : p[k] \in Units
    BY <1>2, <1>3, <1>4
  <2>. HIDE DEF p, m
  <2>2. p \in Seq(Units) /\ Len(p) = m
    BY <2>1
  <2>. QED
    BY <2>2 DEF p, m, IsFile
<1>6. \A k \in 1..Len(w.disk[i]) :
        ~(a <= CellBegin(i) + k - 1 /\ CellBegin(i) + k - 1 < a + n)
          => Put(w, a, n, i)[k] = w.disk[i][k]
  BY DEF Put
<1>. QED
  BY <1>5, <1>6

\* Whether the mapped part of the cells that a write touches is long enough for it.
LEMMA ViewedUpTo ==
  ASSUME cells \in Nat \ {0}, NEW w, w.full \in Nat, Mapped(w, w.full),
         NEW a \in Nat, NEW n \in Nat \ {0}
  PROVE  /\ Done(w, a, n) = Touched(a, n) => a + n <= w.full
         /\ a + n < w.full => Done(w, a, n) = Touched(a, n)
<1> DEFINE c == CellOf(a, cells)
           e == CellOf(a + n, cells)
<1>1. /\ a + n \in Nat /\ a <= a + n /\ MaxPck \in Nat \ {0}
  BY CellsAssumption
<1>2. c \in 1..cells /\ e \in 1..cells /\ c <= e /\ CellBegin(e) <= a + n
      /\ (e < cells => a + n < CellBegin(e + 1))
  BY <1>1, CellOfPoint, CellOrder
<1>3. \A i \in 1..cells : w.mapped[i] = Part(w.full, cells, i) /\ w.mapped[i] \in Nat
  <2>1. \A i \in 1..cells : Part(w.full, cells, i) \in Nat
    BY PartIs
  <2>. QED
    BY <2>1 DEF Mapped
<1>. HIDE DEF c, e
<1>4. ASSUME Done(w, a, n) = Touched(a, n) PROVE a + n <= w.full
  <2>1. e \in Done(w, a, n)
    BY <1>2, <1>4 DEF Touched, c, e
  <2>2. Viewed(w, a, n, e)
    <3>1. e \in CellOf(a, cells)..e
      BY <1>2 DEF c
    <3>. QED
      BY <2>1, <3>1 DEF Done
  <2>3. Part(w.full, cells, e) > 0 /\ Part(w.full, cells, e) >= a + n - CellBegin(e)
    BY <1>2, <1>3, <2>2 DEF Viewed, ViewEnd, e
  <2>4. CellBegin(e) + Part(w.full, cells, e) <= w.full
    BY <1>2, <2>3, PartIs
  <2>5. CellBegin(e) \in Nat /\ Part(w.full, cells, e) \in Nat
    BY <1>2, <1>3, CellBegins
  <2>. QED
    BY <1>1, <2>3, <2>4, <2>5
<1>5. ASSUME a + n < w.full PROVE Done(w, a, n) = Touched(a, n)
  <2>1. ASSUME NEW i \in c..e PROVE Viewed(w, a, n, i)
    <3>1. i \in 1..cells /\ i <= e /\ CellBegin(i) \in Nat
            /\ CellBegin(i + 1) = CellBegin(i) + MaxPck /\ w.mapped[i] = Part(w.full, cells, i)
      BY <1>2, <1>3, CellBegins
    <3>2. CASE i = e
      <4>1. (a + n) - CellBegin(i) < Part(w.full, cells, i)
        BY <1>1, <1>2, <1>5, <3>1, <3>2, PartHolds
      <4>2. ViewEnd(a, n, i) = (a + n) - CellBegin(i) /\ (a + n) - CellBegin(i) \in Nat
        BY <1>1, <1>2, <3>1, <3>2 DEF ViewEnd, e
      <4>3. Part(w.full, cells, i) \in Nat
        BY <1>3, <3>1
      <4>. QED
        BY <3>1, <4>1, <4>2, <4>3 DEF Viewed
    <3>3. CASE i < e
      <4>1. CellBegin(i) + MaxPck <= CellBegin(e) /\ CellBegin(e) \in Nat
        BY <1>2, <3>1, <3>3, CellBegins
      <4>2. i < cells /\ CellBegin(i + 1) <= w.full
        BY <1>1, <1>2, <1>5, <3>1, <3>3, <4>1
      <4>3. Part(w.full, cells, i) = MaxPck
        BY <3>1, <4>2, PartIs
      <4>4. ViewEnd(a, n, i) = MaxPck
        BY <1>2, <3>1, <3>3 DEF ViewEnd, e
      <4>. QED
        BY <1>1, <3>1, <4>3, <4>4 DEF Viewed
    <3>. QED
      BY <1>2, <3>1, <3>2, <3>3
  <2>2. \A i \in c..e : \A k \in c..i : k \in c..e
    BY <1>2
  <2>. QED
    BY <2>1, <2>2 DEF Done, Touched, c, e
<1>. QED
  BY <1>4, <1>5

LEMMA WrittenIs ==
  ASSUME cells \in Nat \ {0}, NEW w, w.full \in Nat, Mapped(w, w.full), DOMAIN w = Fields,
         \A i \in 1..cells : IsFile(w.disk[i]), cells <= Cells, jobs \in 1..MaxJobs,
         NEW a \in Nat, NEW n \in Nat \ {0}, a + n <= MaxAddress,
         NEW v, v = ViewAndWrite2(w, a, n), Done(w, a, n) = Touched(a, n)
  PROVE  Written(v, a, n)
<1>. SUFFICES ASSUME NEW i \in 1..cells, NEW b \in a..(a + n - 1),
                     CellBegin(i) <= b, i < cells => b < CellBegin(i + 1)
              PROVE  Stores(v.disk, i, b, jobs)
  BY DEF Written
<1>1. /\ b \in Nat /\ a <= b /\ b < a + n /\ a + n \in Nat /\ CellBegin(i) \in Nat
      /\ CellBegin(i + 1) = CellBegin(i) + MaxPck /\ MaxPck \in Nat \ {0} /\ i \in Files
  <2>1. b \in Nat /\ a <= b /\ b < a + n /\ a + n \in Nat
    OBVIOUS
  <2>2. i \in Nat \ {0} /\ i \in Files
    BY CellsAssumption DEF Files
  <2>3. CellBegin(i) \in Nat /\ CellBegin(i + 1) = CellBegin(i) + MaxPck
    BY <2>2, CellBegins
  <2>. QED
    BY <2>1, <2>2, <2>3, CellsAssumption
<1>2. a + n <= w.full
  BY ViewedUpTo
<1>3. i = CellOf(b, cells)
  BY <1>1, CellUnique
<1>4. /\ CellOf(a, cells) \in 1..cells /\ CellOf(a + n, cells) \in 1..cells
      /\ CellOf(a, cells) <= i /\ i <= CellOf(a + n, cells)
  BY <1>1, <1>3, CellOfPoint, CellOrder
<1>5. i \in Done(w, a, n)
  BY <1>4 DEF Touched
<1>6. v.disk[i] = Put(w, a, n, i)
  <2>1. v.disk = [j \in Files |-> IF j \notin Done(w, a, n) THEN w.disk[j] ELSE Put(w, a, n, j)]
    BY ViewFields
  <2>. QED
    BY <1>1, <1>5, <2>1
<1>7. b - CellBegin(i) < Len(w.disk[i])
  <2>1. b - CellBegin(i) < Part(w.full, cells, i)
    BY <1>1, <1>2, PartHolds
  <2>2. Part(w.full, cells, i) <= Len(w.disk[i]) /\ Part(w.full, cells, i) \in Nat
    BY PartIs DEF Mapped
  <2>3. Len(w.disk[i]) \in Nat
    BY DEF IsFile
  <2>. QED
    BY <1>1, <2>1, <2>2, <2>3
<1>8. Len(Put(w, a, n, i)) = Len(w.disk[i])
  BY PutIs
<1> DEFINE k == (b - CellBegin(i)) + 1
<1>9. k \in 1..Len(w.disk[i]) /\ CellBegin(i) + k - 1 = b
  <2>1. PICK p \in Nat : p = Len(w.disk[i])
    BY DEF IsFile
  <2>2. b - CellBegin(i) < p
    BY <1>7, <2>1
  <2>3. k \in 1..p /\ CellBegin(i) + k - 1 = b
    BY <1>1, <2>2
  <2>. QED
    BY <2>1, <2>3
<1>10. k <= ViewEnd(a, n, i)
  <2>1. CASE i = CellOf(a + n, cells)
    BY <1>1, <2>1 DEF ViewEnd
  <2>2. CASE i # CellOf(a + n, cells)
    <3>1. i < cells
      BY <1>4, <2>2
    <3>. QED
      BY <1>1, <2>2, <3>1 DEF ViewEnd
  <2>. QED
    BY <2>1, <2>2
<1>. HIDE DEF k
<1>11. Put(w, a, n, i)[k] = <<b, jobs>>
  <2>1. Put(w, a, n, i)[k] =
          IF a <= CellBegin(i) + k - 1 /\ CellBegin(i) + k - 1 < a + n /\ k <= ViewEnd(a, n, i)
          THEN <<CellBegin(i) + k - 1, jobs>> ELSE w.disk[i][k]
    BY <1>9 DEF Put
  <2>. QED
    BY <1>1, <1>9, <1>10, <2>1
<1>12. b - CellBegin(i) + 1 = k
  BY DEF k
<1>. QED
  BY <1>6, <1>7, <1>8, <1>11, <1>12 DEF Stores

\* ViewAndWrite2 after IsNeedExpandWritingFile.
LEMMA ViewIs ==
  ASSUME TypeInv, AllPresent, jobs \in 1..MaxJobs,
         NEW w, Longer(w), Others(w, 0, 0), Mapped(w, w.full),
         NEW a \in Nat, NEW n \in Nat \ {0}, a + n <= MaxAddress,
         NEW v, v = ViewAndWrite2(w, a, n)
  PROVE  /\ Longer(v) /\ Others(v, a, n) /\ Mapped(v, v.full) /\ v.full = w.full
         /\ v.short = w.short
         /\ v.ok => a + n <= v.full /\ Written(v, a, n)
         /\ a + n < w.full => v.ok
<1>0. /\ cells \in Nat \ {0} /\ cells <= Cells /\ w.full \in Nat /\ DOMAIN w = Fields /\ Cells \in Nat
  BY CellsAssumption DEF TypeInv, AllPresent, Longer
<1>1. /\ DOMAIN v = Fields
      /\ v.ok = (Done(w, a, n) = Touched(a, n)) /\ v.short = w.short
      /\ v.mapped = w.mapped /\ v.size = w.size /\ v.full = w.full
      /\ v.disk = [i \in Files |-> IF i \notin Done(w, a, n) THEN w.disk[i] ELSE Put(w, a, n, i)]
  BY <1>0, ViewFields
<1>2. v.ok <=> (Done(w, a, n) = Touched(a, n))
  BY <1>1
<1>3. \A i \in 1..cells : i \in Files /\ IsFile(w.disk[i])
  BY <1>0 DEF Files, Longer
<1>4. ASSUME NEW i \in 1..cells
      PROVE  /\ IsFile(v.disk[i]) /\ Len(v.disk[i]) = Len(w.disk[i])
             /\ \A k \in 1..Len(w.disk[i]) :
                  ~(a <= CellBegin(i) + k - 1 /\ CellBegin(i) + k - 1 < a + n)
                    => v.disk[i][k] = w.disk[i][k]
  <2>1. CASE i \in Done(w, a, n)
    <3>1. v.disk[i] = Put(w, a, n, i)
      BY <1>1, <1>3, <2>1
    <3>2. cells \in Nat /\ IsFile(w.disk[i])
      BY <1>0, <1>3
    <3>3. /\ IsFile(Put(w, a, n, i)) /\ Len(Put(w, a, n, i)) = Len(w.disk[i])
          /\ \A k \in 1..Len(w.disk[i]) :
               ~(a <= CellBegin(i) + k - 1 /\ CellBegin(i) + k - 1 < a + n)
                 => Put(w, a, n, i)[k] = w.disk[i][k]
      BY <3>2, PutIs
    <3>. QED
      BY <3>1, <3>3
  <2>2. CASE i \notin Done(w, a, n)
    <3>1. v.disk[i] = w.disk[i]
      BY <1>1, <1>3, <2>2
    <3>. QED
      BY <1>3, <3>1
  <2>. QED
    BY <2>1, <2>2
<1>5. \A i \in Files : i > cells => v.disk[i] = disk[i]
  <2>1. \A i \in Files : i > cells => i \notin Done(w, a, n)
    <3>1. CellOf(a, cells) \in 1..cells /\ CellOf(a + n, cells) \in 1..cells
      BY <1>0, CellOfPoint
    <3>. QED
      BY <1>0, <3>1 DEF Done, Touched, Files
  <2>2. \A i \in Files : i > cells => w.disk[i] = disk[i]
    BY DEF Longer
  <2>. QED
    BY <1>1, <2>1, <2>2
<1>6. IsDisk(v.disk)
  <2>1. ASSUME NEW i \in Files PROVE v.disk[i] \in {NoFile} \cup Seq(Units)
    <3>1. CASE i \in 1..cells
      BY <1>4, <3>1 DEF IsFile
    <3>2. CASE i \notin 1..cells
      <4>1. i > cells
        BY <1>0, <3>2 DEF Files
      <4>2. v.disk[i] = disk[i]
        BY <1>5, <4>1
      <4>. QED
        BY <4>2 DEF IsDisk, TypeInv
    <3>. QED
      BY <3>1, <3>2
  <2>. QED
    BY <1>1, <2>1 DEF IsDisk
<1>7. Longer(v)
  <2>1. \A i \in 1..cells :
          /\ IsFile(v.disk[i]) /\ Len(disk[i]) <= Len(v.disk[i])
          /\ i < cells => Len(v.disk[i]) <= MaxPck \/ Len(v.disk[i]) = Len(disk[i])
          /\ size[i] > 0 => v.size[i] > 0
    <3>1. \A i \in 1..cells :
            /\ Len(disk[i]) <= Len(w.disk[i])
            /\ i < cells => Len(w.disk[i]) <= MaxPck \/ Len(w.disk[i]) = Len(disk[i])
            /\ size[i] > 0 => w.size[i] > 0
      BY DEF Longer
    <3>2. \A i \in 1..cells : IsFile(v.disk[i]) /\ Len(v.disk[i]) = Len(w.disk[i])
      BY <1>4
    <3>. QED
      BY <1>1, <3>1, <3>2
  <2>2. v.mapped \in [1..cells -> Nat] /\ v.size \in [1..cells -> Nat]
    BY <1>1 DEF Longer
  <2>3. v.full \in Nat /\ full <= v.full /\ v.short \in BOOLEAN
    BY <1>1 DEF Longer
  <2>4. v.ok \in BOOLEAN
    BY <1>1
  <2>. QED
    BY <1>1, <1>5, <1>6, <2>1, <2>2, <2>3, <2>4 DEF Longer
<1>8. Others(v, a, n)
  <2>. SUFFICES ASSUME NEW i \in 1..cells, NEW k \in 1..Len(disk[i]),
                       ~(a <= CellBegin(i) + k - 1 /\ CellBegin(i) + k - 1 < a + n)
                PROVE  v.disk[i][k] = disk[i][k]
    BY DEF Others
  <2>1. Len(disk[i]) <= Len(w.disk[i])
    BY DEF Longer
  <2>2. Len(disk[i]) \in Nat /\ Len(w.disk[i]) \in Nat
    <3>1. Len(disk[i]) \in Nat
      BY FilesOf DEF TypeInv
    <3>2. Len(w.disk[i]) \in Nat
      BY <1>3 DEF IsFile
    <3>. QED
      BY <3>1, <3>2
  <2>3. k \in 1..Len(w.disk[i])
    <3>1. PICK p \in Nat, q \in Nat : p = Len(disk[i]) /\ q = Len(w.disk[i])
      BY <2>2
    <3>. QED
      BY <2>1, <3>1
  <2>4. v.disk[i][k] = w.disk[i][k]
    BY <1>4, <2>3
  <2>5. CellBegin(i) + k - 1 \in Nat
    <3>1. i \in Nat \ {0}
      BY <1>0
    <3>2. CellBegin(i) \in Nat /\ k \in Nat \ {0}
      BY <2>2, <3>1, CellBegins
    <3>. QED
      BY <3>2
  <2>6. w.disk[i][k] = disk[i][k]
    <3>1. ~(0 <= CellBegin(i) + k - 1 /\ CellBegin(i) + k - 1 < 0 + 0)
      BY <2>5
    <3>. QED
      BY <3>1 DEF Others
  <2>. QED
    BY <2>4, <2>6
<1>9. Mapped(v, v.full)
  BY <1>1, <1>4 DEF Mapped
<1>10. v.ok => a + n <= v.full /\ Written(v, a, n)
  <2>1. Done(w, a, n) = Touched(a, n) => Written(v, a, n)
    BY <1>0, <1>3, WrittenIs
  <2>2. Done(w, a, n) = Touched(a, n) => a + n <= w.full
    BY <1>0, ViewedUpTo
  <2>. QED
    BY <1>1, <1>2, <2>1, <2>2
<1>11. a + n < w.full => v.ok
  BY <1>0, <1>2, ViewedUpTo
<1>. QED
  BY <1>1, <1>7, <1>8, <1>9, <1>10, <1>11

\* Write2: what it may leave behind.
LEMMA Write2Is ==
  ASSUME TypeInv, AllPresent, jobs \in 1..MaxJobs, Mapped(Here, full),
         NEW a \in Nat, NEW n \in Nat \ {0}, a + n <= MaxAddress, NEW w \in Write2(a, n)
  PROVE  /\ Longer(w) /\ Others(w, a, n) /\ Mapped(w, w.full)
         /\ w.ok => a + n <= w.full /\ Written(w, a, n)
         /\ ~w.ok /\ a <= full => w.short
         /\ ~w.ok /\ a + n < full => Others(w, 0, 0)
<1>1. PICK u \in IsNeedExpandWritingFile(a, n) : w = IF u.ok THEN ViewAndWrite2(u, a, n) ELSE u
  BY DEF Write2
<1>2. Wide(u, a, n)
  BY ExpandIs
<1>3. Longer(u) /\ Others(u, 0, 0) /\ Mapped(u, u.full) /\ u.full \in Nat /\ full <= u.full
  BY <1>2 DEF Wide, Longer
<1>4. CASE u.ok
  <2>1. w = ViewAndWrite2(u, a, n)
    BY <1>1, <1>4
  <2>2. /\ Longer(w) /\ Others(w, a, n) /\ Mapped(w, w.full) /\ w.full = u.full
        /\ w.short = u.short
        /\ w.ok => a + n <= w.full /\ Written(w, a, n)
        /\ a + n < u.full => w.ok
    BY <1>3, <2>1, ViewIs
  <2>3. ~w.ok /\ a <= full => w.short
    BY <1>2, <1>4, <2>2 DEF Wide
  <2>4. a + n < full => w.ok
    <3>1. full \in Nat
      BY DEF TypeInv
    <3>. QED
      BY <1>3, <2>2, <3>1
  <2>. QED
    BY <2>2, <2>3, <2>4
<1>5. CASE ~u.ok
  <2>1. w = u
    BY <1>1, <1>5
  <2>2. Others(w, a, n)
    <3>. SUFFICES ASSUME NEW i \in 1..cells, NEW k \in 1..Len(disk[i])
                  PROVE  w.disk[i][k] = disk[i][k]
      BY DEF Others
    <3>1. i \in Nat \ {0} /\ k \in Nat \ {0}
      <4>1. cells \in Nat
        BY CellsAssumption DEF TypeInv
      <4>2. Len(disk[i]) \in Nat
        BY FilesOf DEF TypeInv
      <4>. QED
        BY <4>1, <4>2
    <3>2. CellBegin(i) + k - 1 \in Nat
      <4>1. CellBegin(i) \in Nat
        BY <3>1, CellBegins
      <4>. QED
        BY <3>1, <4>1
    <3>3. ~(0 <= CellBegin(i) + k - 1 /\ CellBegin(i) + k - 1 < 0 + 0)
      BY <3>2
    <3>. QED
      BY <1>3, <2>1, <3>3 DEF Others
  <2>. QED
    BY <1>2, <1>3, <1>5, <2>1, <2>2 DEF Wide
<1>. QED
  BY <1>4, <1>5

(***************************************************************************)
(* What a write does to an archive.                                        *)
(***************************************************************************)
\* An archive stays in place but for the units that are written.
LEMMA KeepsOutside ==
  ASSUME TypeInv, AllPresent, NEW w, NEW a, NEW n, Longer(w), Others(w, a, n),
         NEW h, NEW f, Keeps(disk, h, f),
         NEW i \in Files, NEW b \in Addresses, InCell(i, b), b < h, f[b] # 0,
         ~(a <= b /\ b < a + n)
  PROVE  Stores(w.disk, i, b, f[b])
<1>1. Stores(disk, i, b, f[b])
  BY DEF Keeps
<1>2. i \in Nat \ {0} /\ b \in Nat /\ cells \in Nat
  BY CellsAssumption, SizesAssumption DEF Files, Addresses, TypeInv
<1>3. CASE i > cells
  <2>1. w.disk[i] = disk[i]
    BY <1>3 DEF Longer
  <2>. QED
    BY <1>1, <2>1 DEF Stores
<1>4. CASE ~(i > cells)
  <2>1. i \in 1..cells
    BY <1>2, <1>4
  <2>2. PICK p \in Nat, q \in Nat : p = Len(disk[i]) /\ q = Len(w.disk[i])
    <3>1. Len(disk[i]) \in Nat
      BY <2>1, FilesOf DEF TypeInv
    <3>2. IsFile(w.disk[i])
      BY <2>1 DEF Longer
    <3>3. Len(w.disk[i]) \in Nat
      BY <3>2 DEF IsFile
    <3>. QED
      BY <3>1, <3>3
  <2>3. p <= q
    BY <2>1, <2>2 DEF Longer
  <2>4. CellBegin(i) \in Nat /\ CellBegin(i) <= b
    BY <1>2, CellBegins DEF InCell
  <2>5. PICK k \in Nat \ {0} : k = b - CellBegin(i) + 1
    BY <1>2, <2>4
  <2>6. k \in 1..Len(disk[i]) /\ CellBegin(i) + k - 1 = b
    <3>1. b - CellBegin(i) < p
      BY <1>1, <2>2 DEF Stores
    <3>2. k \in 1..p /\ CellBegin(i) + k - 1 = b
      BY <1>2, <2>4, <2>5, <3>1
    <3>. QED
      BY <2>2, <3>2
  <2>7. w.disk[i][k] = disk[i][k]
    <3>1. ~(a <= CellBegin(i) + k - 1 /\ CellBegin(i) + k - 1 < a + n)
      BY <2>6
    <3>. QED
      BY <2>1, <2>6, <3>1 DEF Others
  <2>8. disk[i][k] = <<b, f[b]>>
    BY <1>1, <2>5 DEF Stores
  <2>9. b - CellBegin(i) < q
    <3>1. b - CellBegin(i) < p
      BY <1>1, <2>2 DEF Stores
    <3>. QED
      BY <1>2, <2>3, <2>4, <3>1
  <2>. QED
    BY <2>2, <2>5, <2>7, <2>8, <2>9 DEF Stores
<1>. QED
  BY <1>3, <1>4

LEMMA KeepsStill ==
  ASSUME TypeInv, AllPresent, NEW w, NEW a, NEW n, Longer(w), Others(w, a, n),
         NEW h, NEW f, Keeps(disk, h, f), \A b \in Addresses : b < h => ~(a <= b /\ b < a + n)
  PROVE  Keeps(w.disk, h, f)
BY KeepsOutside DEF Keeps

\* What the job has written it finds again, the units it is writing included.
LEMMA KeepsMarked ==
  ASSUME TypeInv, AllPresent, NEW w, NEW a \in Nat, NEW n \in Nat, Longer(w), Others(w, a, n),
         NEW h \in Nat, Keeps(disk, h, pending), NEW g, (g = jobs /\ Written(w, a, n)) \/ g = 0,
         cells < Cells => a + n <= CellBegin(cells + 1),
         NEW m \in Nat, \A b \in Addresses : b < m => b < h \/ (a <= b /\ b < a + n)
  PROVE  Keeps(w.disk, m, Marked(a, n, g))
<1>. SUFFICES ASSUME NEW i \in Files, NEW b \in Addresses, InCell(i, b), b < m,
                     Marked(a, n, g)[b] # 0
              PROVE  Stores(w.disk, i, b, Marked(a, n, g)[b])
  BY DEF Keeps
<1>1. Marked(a, n, g)[b] = IF a <= b /\ b < a + n THEN g ELSE pending[b]
  BY DEF Marked
<1>2. CASE a <= b /\ b < a + n
  <2>1. Marked(a, n, g)[b] = jobs /\ Written(w, a, n)
    BY <1>1, <1>2
  <2>2. /\ i \in Nat \ {0} /\ i <= Cells /\ b \in Nat /\ cells \in Nat \ {0} /\ cells <= Cells
        /\ Cells \in Nat
    <3>1. i \in 1..Cells /\ b \in 0..(MaxAddress - 1)
      BY DEF Files, Addresses
    <3>2. cells \in 1..Cells
      BY DEF AllPresent
    <3>3. Cells \in Nat /\ MaxAddress \in Nat
      BY CellsAssumption, SizesAssumption
    <3>. QED
      BY <3>1, <3>2, <3>3
  <2>3. i <= cells
    <3>1. SUFFICES ASSUME i > cells PROVE FALSE
      BY <2>2
    <3>2. CellBegin(cells + 1) <= CellBegin(i)
      <4>1. CASE i = cells + 1
        <5>1. CellBegin(i) \in Nat /\ CellBegin(cells + 1) = CellBegin(i)
          BY <2>2, <4>1, CellBegins
        <5>. QED
          BY <5>1
      <4>2. CASE i > cells + 1
        <5>1. cells + 1 \in Nat \ {0}
          BY <2>2
        <5>2. CellBegin(cells + 1) + MaxPck <= CellBegin(i)
                /\ CellBegin(cells + 1) \in Nat /\ CellBegin(i) \in Nat
          BY <2>2, <4>2, <5>1, CellBegins
        <5>. QED
          BY <5>2, CellsAssumption
      <4>. QED
        BY <2>2, <3>1, <4>1, <4>2
    <3>3. /\ CellBegin(i) <= b /\ CellBegin(i) \in Nat /\ CellBegin(cells + 1) \in Nat
          /\ a + n <= CellBegin(cells + 1)
      <4>1. cells + 1 \in Nat \ {0} /\ cells < Cells
        BY <2>2, <3>1
      <4>. QED
        BY <2>2, <4>1, CellBegins DEF InCell
    <3>. QED
      BY <1>2, <2>2, <3>2, <3>3
  <2>4. i < cells => b < CellBegin(i + 1)
    BY <2>2 DEF InCell
  <2>5. b \in a..(a + n - 1) /\ i \in 1..cells
    BY <1>2, <2>2, <2>3
  <2>. QED
    BY <2>1, <2>4, <2>5 DEF Written, InCell
<1>3. CASE ~(a <= b /\ b < a + n)
  <2>1. Marked(a, n, g)[b] = pending[b] /\ b < h /\ pending[b] # 0
    BY <1>1, <1>3
  <2>. QED
    BY <1>3, <2>1, KeepsOutside
<1>. QED
  BY <1>2, <1>3

(***************************************************************************)
(* The inductive invariant.                                                *)
(***************************************************************************)
\* Where a job is: it rewrites an index in the files there are, or has them all.
JobInv ==
  /\ step \in Making => cell = 1 /\ jobs \in 1..MaxJobs /\ kind \in {"new", "append", "rename"}
  /\ step \in Making /\ kind # "rename" => cells = Cells
  /\ step = "data" => kind # "rename"

\* The archive the head describes is on disk, where it was written.
WholeInv ==
  promised /\ head > 0 => Reaches(disk, head) /\ Keeps(disk, head, flat) /\ entry \in 1..head

\* A file grows beyond its cell only as the last one there is: that of the writer.
SlimInv ==
  \A i \in Files : i < Cells /\ Exists(i) /\ Len(disk[i]) > MaxPck =>
    /\ \A k \in 1..i : Exists(k)
    /\ ~Exists(i + 1)
    /\ cells \in {0, i}
    /\ step # "finish"

\* The writer has the files that are there without a gap.
PresentInv ==
  /\ cells \in 1..(Cells - 1) => ~Exists(cells + 1)
  /\ \A i \in 1..cells : i >= cell \/ step \notin {"close", "finish"} => Exists(i)

\* No cell of the archive is taken for an empty one.
SizeInv ==
  step \in Making \cup {"close"} =>
    /\ promised /\ head > 0 =>
         \A i \in Files : CellBegin(i) < head => i <= cells /\ size[i] > 0
    /\ cells < Cells => \A i \in 1..cells : size[i] > 0

\* What is said to be mapped is.
MapInv == step \in Writing => Mapped(Here, full)

\* The next write begins inside the mapped part, or the disk was full.
AtInv ==
  /\ step = "map" => at <= full + 1
  /\ step \in Writing /\ (trouble = "none" \/ step = "head") => at <= full
  /\ step \in Making => at >= 1 /\ (cells < Cells => at <= CellBegin(cells + 1))
  /\ step = "tail" => /\ at + TailSize <= MaxAddress /\ at >= 2 /\ index \in 1..at
                      /\ cells < Cells => at + TailSize <= CellBegin(cells + 1)
  /\ step = "head" => at >= 3 /\ index \in 1..at
  /\ trouble # "refused"

\* What the job wrote is on disk; it writes behind the old archive, or that is given up.
PendingInv ==
  step \in Making =>
    /\ Keeps(disk, at, pending)
    /\ kind = "new" => head = 0
    /\ kind = "append" => head <= at
    /\ kind = "rename" /\ step \in {"tail", "head"} => ~promised

\* Behind the head the files are cut to the archive, then closed or removed.
EndInv ==
  /\ step \in {"cut", "finish"} => promised /\ head = at /\ head > 0
  /\ step = "cut" =>
       \A i \in 1..(cell - 1) : size[i] = Len(disk[i]) /\ size[i] = Part(at, cells, i)
  /\ step = "finish" => \A i \in 1..cells :
       /\ size[i] = Part(at, cells, i)
       /\ i >= cell \/ size[i] > 0 => Len(disk[i]) = size[i] /\ Exists(i)
       /\ i < cell /\ size[i] = 0 => ~Exists(i)

IInv ==
  /\ TypeInv /\ JobInv /\ WholeInv /\ SlimInv /\ PresentInv /\ SizeInv /\ MapInv /\ AtInv
  /\ PendingInv /\ EndInv

LEMMA MakingIs ==
  ASSUME TypeInv, PresentInv, step \in Making \cup {"cut"}
  PROVE  AllPresent
<1>1. cells \in Nat \ {0} /\ cells \in 0..Cells
  BY CellsAssumption DEF TypeInv, Making, Writing
<1>2. step \notin {"close", "finish"}
  BY DEF Making, Writing
<1>. QED
  BY <1>1, <1>2 DEF PresentInv, AllPresent

\* An archive that is on disk stays within the files that grow.
LEMMA ReachesStill ==
  ASSUME TypeInv, AllPresent, PresentInv, NEW w, Longer(w), NEW h \in Nat, Reaches(disk, h)
  PROVE  Reaches(w.disk, h)
<1>0. cells \in Nat \ {0} /\ cells <= Cells /\ Cells \in Nat /\ MaxPck \in Nat
  BY CellsAssumption DEF TypeInv, AllPresent
<1>. SUFFICES ASSUME NEW i \in Files, CellBegin(i) < h
              PROVE  /\ w.disk[i] # NoFile
                     /\ IF i < Cells /\ CellBegin(i + 1) < h THEN Len(w.disk[i]) = MaxPck
                        ELSE h - CellBegin(i) <= Len(w.disk[i])
  BY DEF Reaches
<1>1. /\ disk[i] # NoFile
      /\ IF i < Cells /\ CellBegin(i + 1) < h THEN Len(disk[i]) = MaxPck
         ELSE h - CellBegin(i) <= Len(disk[i])
  BY DEF Reaches
<1>2. CASE i > cells
  <2>1. w.disk[i] = disk[i]
    BY <1>2 DEF Longer
  <2>. QED
    BY <1>1, <2>1
<1>3. CASE ~(i > cells)
  <2>1. i \in 1..cells /\ i \in Nat \ {0}
    BY <1>0, <1>3 DEF Files
  <2>2. /\ IsFile(w.disk[i]) /\ Len(disk[i]) <= Len(w.disk[i])
        /\ i < cells => Len(w.disk[i]) <= MaxPck \/ Len(w.disk[i]) = Len(disk[i])
    BY <2>1 DEF Longer
  <2>3. w.disk[i] # NoFile
    BY <2>2, NoFileIsNone
  <2>4. PICK p \in Nat, q \in Nat : p = Len(disk[i]) /\ q = Len(w.disk[i])
    <3>1. Len(disk[i]) \in Nat
      BY <2>1, FilesOf DEF TypeInv
    <3>2. Len(w.disk[i]) \in Nat
      BY <2>2 DEF IsFile
    <3>. QED
      BY <3>1, <3>2
  <2>5. p <= q /\ (i < cells => q <= MaxPck \/ q = p)
    BY <2>2, <2>4
  <2>6. CASE i < Cells /\ CellBegin(i + 1) < h
    <3>1. p = MaxPck
      BY <1>1, <2>4, <2>6
    <3>2. i # cells
      <4>1. SUFFICES ASSUME i = cells PROVE FALSE
        OBVIOUS
      <4>2. cells + 1 \in Files /\ cells \in 1..(Cells - 1)
        BY <1>0, <2>6, <4>1 DEF Files
      <4>3. disk[cells + 1] # NoFile
        BY <2>6, <4>1, <4>2 DEF Reaches
      <4>. QED
        BY <4>2, <4>3 DEF PresentInv, Exists
    <3>3. i < cells
      BY <1>0, <2>1, <3>2
    <3>4. q = MaxPck
      BY <1>0, <2>5, <3>1, <3>3
    <3>. QED
      BY <2>3, <2>4, <2>6, <3>4
  <2>7. CASE ~(i < Cells /\ CellBegin(i + 1) < h)
    <3>1. h - CellBegin(i) <= p
      BY <1>1, <2>4, <2>7
    <3>2. CellBegin(i) \in Nat
      BY <2>1, CellBegins
    <3>3. h - CellBegin(i) <= q
      BY <2>5, <3>1, <3>2
    <3>. QED
      BY <2>3, <2>4, <2>7, <3>3
  <2>. QED
    BY <2>6, <2>7
<1>. QED
  BY <1>2, <1>3

\* The files that grew fit as before.
LEMMA GrowthFits ==
  ASSUME TypeInv, AllPresent, PresentInv, SlimInv, NEW w, Longer(w), disk' = w.disk,
         cells' = cells, step' # "finish"
  PROVE  SlimInv' /\ PresentInv'
<1>0. cells \in Nat \ {0} /\ cells <= Cells /\ Cells \in Nat
  BY CellsAssumption DEF TypeInv, AllPresent
<1>6. \A i \in 1..cells : i \in Files /\ Exists(i) /\ IsFile(w.disk[i]) /\ w.disk[i] # NoFile
  BY <1>0, NoFileIsNone DEF AllPresent, Longer, Files
<1>7. SlimInv'
  <2>. SUFFICES ASSUME NEW i \in Files, i < Cells, w.disk[i] # NoFile, Len(w.disk[i]) > MaxPck
                PROVE  /\ \A k \in 1..i : w.disk[k] # NoFile
                       /\ w.disk[i + 1] = NoFile
                       /\ cells \in {0, i}
                       /\ step' # "finish"
    BY DEF SlimInv, Exists
  <2>2. i \in Nat \ {0} /\ MaxPck \in Nat
    BY CellsAssumption DEF Files
  <2>3. i = cells
    <3>1. CASE i > cells
      <4>1. w.disk[i] = disk[i]
        BY <3>1 DEF Longer
      <4>2. cells \in {0, i}
        BY <1>0, <4>1 DEF SlimInv, Exists
      <4>. QED
        BY <1>0, <3>1, <4>2
    <3>2. CASE i < cells
      <4>1. i \in 1..cells
        BY <1>0, <2>2, <3>2
      <4>2. Len(w.disk[i]) <= MaxPck \/ Len(w.disk[i]) = Len(disk[i])
        BY <3>2, <4>1 DEF Longer
      <4>3. Len(w.disk[i]) \in Nat
        BY <1>6, <4>1 DEF IsFile
      <4>4. Len(disk[i]) > MaxPck
        BY <2>2, <4>2, <4>3
      <4>5. cells \in {0, i}
        BY <1>0, <1>6, <4>1, <4>4 DEF SlimInv
      <4>. QED
        BY <1>0, <3>2, <4>5
    <3>. QED
      BY <1>0, <2>2, <3>1, <3>2
  <2>4. \A k \in 1..i : w.disk[k] # NoFile
    BY <1>6, <2>3
  <2>5. w.disk[i + 1] = NoFile
    <3>1. i + 1 \in Files /\ i + 1 > cells /\ cells \in 1..(Cells - 1)
      BY <1>0, <2>2, <2>3 DEF Files
    <3>2. w.disk[i + 1] = disk[i + 1]
      BY <3>1 DEF Longer
    <3>. QED
      BY <1>0, <2>3, <3>1, <3>2 DEF PresentInv, Exists
  <2>. QED
    BY <2>3, <2>4, <2>5
<1>8. PresentInv'
  <2>1. \A i \in 1..cells : Exists(i)'
    BY <1>6 DEF Exists
  <2>2. ASSUME cells \in 1..(Cells - 1) PROVE ~Exists(cells + 1)'
    <3>1. cells + 1 \in Files /\ cells + 1 > cells
      BY <1>0, <2>2 DEF Files
    <3>2. w.disk[cells + 1] = disk[cells + 1]
      BY <3>1 DEF Longer
    <3>. QED
      BY <1>0, <2>2, <3>2 DEF PresentInv, Exists
  <2>. QED
    BY <2>1, <2>2 DEF PresentInv, Exists
<1>. QED
  BY <1>7, <1>8

\* What every write of a job keeps, whatever becomes of it.
LEMMA GrowthKeeps ==
  ASSUME IInv, step \in Making, NEW w, NEW a, NEW n, Longer(w), Others(w, a, n), Becomes(w),
         UNCHANGED <<archive, cells, cell, flat>>, step' \in Making \cup {"close"},
         promised' \in BOOLEAN, promised' => promised,
         promised' /\ head > 0 => \A b \in Addresses : b < head => ~(a <= b /\ b < a + n)
  PROVE  /\ IsDisk(disk') /\ size' \in [1..cells -> Nat] /\ mapped' \in [1..cells -> Nat]
         /\ full' \in Nat /\ trouble' \in {"none", "space", "refused"}
         /\ WholeInv' /\ SlimInv' /\ PresentInv' /\ SizeInv'
<1>0. /\ TypeInv /\ AllPresent /\ PresentInv /\ SlimInv /\ WholeInv /\ SizeInv
      /\ cells \in Nat \ {0} /\ cells <= Cells /\ Cells \in Nat /\ head \in Nat
  <2>1. AllPresent
    BY MakingIs DEF IInv
  <2>. QED
    BY <2>1, CellsAssumption, SizesAssumption DEF IInv, TypeInv, AllPresent
<1>1. disk' = w.disk /\ mapped' = w.mapped /\ size' = w.size /\ full' = w.full
  BY DEF Becomes
<1>2. head' = head /\ entry' = entry /\ cells' = cells /\ flat' = flat
  BY DEF archive
<1>3. IsDisk(disk') /\ size' \in [1..cells -> Nat] /\ mapped' \in [1..cells -> Nat] /\ full' \in Nat
  BY <1>1 DEF Longer
<1>4. trouble' \in {"none", "space", "refused"}
  BY <1>0 DEF Becomes, TypeInv
<1>5. WholeInv'
  <2>1. SUFFICES ASSUME promised', head > 0
                 PROVE  Reaches(disk', head) /\ Keeps(disk', head, flat) /\ entry \in 1..head
    BY <1>2 DEF WholeInv
  <2>2. Reaches(disk, head) /\ Keeps(disk, head, flat) /\ entry \in 1..head
    BY <1>0, <2>1 DEF WholeInv
  <2>3. Reaches(w.disk, head)
    BY <1>0, <2>2, ReachesStill
  <2>4. Keeps(w.disk, head, flat)
    BY <1>0, <2>1, <2>2, KeepsStill
  <2>. QED
    BY <1>1, <2>2, <2>3, <2>4
<1>7. SlimInv' /\ PresentInv'
  <2>1. step' # "finish"
    BY DEF Making, Writing
  <2>. QED
    BY <1>0, <1>1, <1>2, <2>1, GrowthFits
<1>9. SizeInv'
  <2>1. \A i \in 1..cells : size[i] > 0 => w.size[i] > 0
    BY DEF Longer
  <2>2. ASSUME promised', head > 0, NEW i \in Files, CellBegin(i) < head
        PROVE  i <= cells /\ w.size[i] > 0
    <3>1. i <= cells /\ size[i] > 0
      BY <1>0, <2>2 DEF SizeInv
    <3>2. i \in 1..cells
      BY <1>0, <3>1 DEF Files
    <3>. QED
      BY <2>1, <3>1, <3>2
  <2>3. ASSUME cells < Cells PROVE \A i \in 1..cells : w.size[i] > 0
    BY <1>0, <2>1, <2>3 DEF SizeInv
  <2>. QED
    BY <1>1, <1>2, <2>2, <2>3 DEF SizeInv, CellBegin
<1>. QED
  BY <1>3, <1>4, <1>5, <1>7, <1>9

(***************************************************************************)
(* The steps of a job that writes.                                         *)
(***************************************************************************)
\* The parts of the invariant that a write leaves to each step.
LEMMA WritingStep ==
  ASSUME IInv, step \in Making, NEW w, NEW a, NEW n, Longer(w), Others(w, a, n), Becomes(w),
         UNCHANGED <<archive, cells, cell, kind, jobs, flat>>, step' \in Making \cup {"close"},
         promised' \in BOOLEAN, promised' => promised,
         promised' /\ head > 0 => \A b \in Addresses : b < head => ~(a <= b /\ b < a + n),
         at' \in 0..MaxAddress, index' \in 0..MaxAddress, pending' \in [Addresses -> 0..MaxJobs],
         step' = "data" => kind # "rename",
         step' \in Writing => Mapped(w, w.full),
         AtInv', PendingInv'
  PROVE  IInv'
<1>0. cells \in Nat \ {0} /\ TypeInv /\ JobInv
  <2>1. AllPresent
    BY MakingIs DEF IInv
  <2>. QED
    BY <2>1, CellsAssumption DEF IInv, AllPresent
<1>1. /\ IsDisk(disk') /\ size' \in [1..cells -> Nat] /\ mapped' \in [1..cells -> Nat]
      /\ full' \in Nat /\ trouble' \in {"none", "space", "refused"}
      /\ WholeInv' /\ SlimInv' /\ PresentInv' /\ SizeInv'
  BY GrowthKeeps
<1>2. /\ head' = head /\ entry' = entry /\ cells' = cells /\ cell' = cell /\ kind' = kind
      /\ jobs' = jobs /\ flat' = flat
  BY DEF archive
<1>3. TypeInv'
  BY <1>0, <1>1, <1>2 DEF TypeInv, Making, Writing
<1>4. JobInv'
  BY <1>0, <1>2 DEF JobInv, Making, Writing
<1>5. MapInv'
  <2>1. ASSUME step' \in Writing, NEW i \in 1..cells
        PROVE  mapped'[i] = Part(full', cells, i) /\ mapped'[i] <= Len(disk'[i])
    BY <2>1 DEF Mapped, Becomes
  <2>. QED
    BY <1>2, <2>1 DEF MapInv, Mapped, Here, Part, CellOf, CellBegin
<1>6. EndInv'
  BY DEF EndInv, Making, Writing
<1>. QED
  BY <1>1, <1>3, <1>4, <1>5, <1>6 DEF IInv

LEMMA MapStep ==
  ASSUME IInv, Map
  PROVE  IInv'
<1>0. /\ TypeInv /\ AllPresent /\ AtInv /\ JobInv /\ PendingInv /\ step = "map" /\ step \in Making
      /\ full \in Nat /\ cells \in Nat \ {0} /\ at \in Nat
  <2>1. step = "map" /\ step \in Making
    BY DEF Map, Making
  <2>2. AllPresent
    BY <2>1, MakingIs DEF IInv
  <2>3. TypeInv /\ AtInv /\ JobInv /\ PendingInv
    BY DEF IInv
  <2>. QED
    BY <2>1, <2>2, <2>3, CellsAssumption, SizesAssumption DEF TypeInv, AllPresent
<1>1. PICK n \in {0} \cup IF kind = "rename" THEN {} ELSE Chunks :
        \E e \in {n + DetectSize} \cup IF SpaceMayLack THEN 0..(n + DetectSize) ELSE {} :
        \E k \in FailsAt(full + e) :
          /\ Becomes([Mapping(full + e, k) EXCEPT !.short = @ \/ e < n + DetectSize])
          /\ step' = IF k <= cells THEN "close" ELSE IF kind = "rename" THEN "index" ELSE "data"
  BY DEF Map
<1>2. n \in Nat /\ n + DetectSize \in Nat \ {0}
  BY SizesAssumption
<1>3. PICK e \in Nat :
        \E k \in FailsAt(full + e) :
          /\ Becomes([Mapping(full + e, k) EXCEPT !.short = @ \/ e < n + DetectSize])
          /\ step' = IF k <= cells THEN "close" ELSE IF kind = "rename" THEN "index" ELSE "data"
  BY <1>1, <1>2
<1>4. PICK k \in FailsAt(full + e) :
        /\ Becomes([Mapping(full + e, k) EXCEPT !.short = @ \/ e < n + DetectSize])
        /\ step' = IF k <= cells THEN "close" ELSE IF kind = "rename" THEN "index" ELSE "data"
  BY <1>3
<1> DEFINE m == Mapping(full + e, k)
           w == [m EXCEPT !.short = @ \/ e < n + DetectSize]
<1>5. /\ Longer(m) /\ Others(m, 0, 0) /\ (m.ok <=> k = cells + 1) /\ (m.short <=> k <= cells)
      /\ k \in 1..(cells + 1)
      /\ m.ok => Mapped(m, full + e) /\ m.full = full + e
  <2>1. full + e \in Nat /\ full <= full + e
    BY <1>0
  <2>. QED
    BY <1>0, <2>1, MappingIs
<1>6. /\ w.ok = m.ok /\ w.short = (m.short \/ e < n + DetectSize) /\ w.disk = m.disk
      /\ w.mapped = m.mapped /\ w.size = m.size /\ w.full = m.full /\ DOMAIN w = Fields
  BY DEF Mapping, Fields
<1>7. Becomes(w)
  BY <1>4
<1>. HIDE DEF m, w
<1>8. Longer(w) /\ Others(w, 0, 0)
  <2>1. w.short \in BOOLEAN
    BY <1>6
  <2>2. Longer(w)
    BY <1>5, <1>6, <2>1 DEF Longer
  <2>. QED
    BY <1>5, <1>6, <2>2 DEF Others
<1>9. /\ UNCHANGED <<archive, cells, cell, kind, jobs, flat>> /\ at' = at /\ index' = index
      /\ pending' = pending /\ promised' = promised
  BY DEF Map
<1>10. ASSUME k = cells + 1 PROVE Mapped(w, w.full)
  BY <1>5, <1>6, <1>10 DEF Mapped
<1>11. CASE k <= cells
  <2>1. step' = "close"
    BY <1>4, <1>11
  <2>2. trouble' = "space"
    BY <1>5, <1>6, <1>7, <1>11 DEF Becomes
  <2>3. AtInv' /\ PendingInv'
    BY <2>1, <2>2 DEF AtInv, PendingInv, Making, Writing
  <2>. QED
    <3>1. step' \in Making \cup {"close"} /\ step' \notin Writing /\ step' # "data"
      BY <2>1 DEF Making, Writing
    <3>2. promised' \in BOOLEAN /\ at' \in 0..MaxAddress /\ index' \in 0..MaxAddress
            /\ pending' \in [Addresses -> 0..MaxJobs]
      BY <1>0, <1>9 DEF TypeInv
    <3>3. \A b \in Addresses : ~(0 <= b /\ b < 0 + 0)
      BY SizesAssumption DEF Addresses
    <3>. QED
      BY <1>0, <1>7, <1>8, <1>9, <2>3, <3>1, <3>2, <3>3, WritingStep
<1>12. CASE ~(k <= cells)
  <2>1. k = cells + 1 /\ m.ok
    BY <1>0, <1>5, <1>12
  <2>2. step' \in {"index", "data"} /\ (step' = "data" => kind # "rename")
    BY <1>4, <1>12
  <2>3. full' = full + e
    BY <1>5, <1>6, <1>7, <2>1 DEF Becomes
  <2>4. w.ok
    BY <1>6, <2>1
  <2>5. trouble' # "refused" /\ (trouble' = "none" => ~w.short)
    BY <1>0, <1>7, <2>4 DEF Becomes, AtInv
  <2>6. trouble' = "none" => at <= full'
    <3>1. ASSUME trouble' = "none" PROVE e >= n + DetectSize
      <4>1. ~w.short
        BY <2>5, <3>1
      <4>2. ~(e < n + DetectSize)
        BY <1>6, <4>1
      <4>. QED
        BY <1>2, <4>2
    <3>. QED
      BY <1>0, <1>2, <2>3, <3>1 DEF AtInv
  <2>7. AtInv'
    <3>1. step' \notin {"map", "tail", "head"} /\ cells' = cells
      BY <1>9, <2>2
    <3>. QED
      BY <1>0, <1>9, <2>5, <2>6, <3>1 DEF AtInv, CellBegin
  <2>8. PendingInv'
    <3>1. Keeps(disk, at, pending)
      BY <1>0 DEF PendingInv
    <3>2. \A b \in Addresses : ~(0 <= b /\ b < 0 + 0)
      BY SizesAssumption DEF Addresses
    <3>3. Keeps(w.disk, at, pending)
      BY <1>0, <1>8, <3>1, <3>2, KeepsStill
    <3>4. disk' = w.disk /\ kind' = kind /\ head' = head
      BY <1>7, <1>9 DEF Becomes, archive
    <3>. QED
      BY <1>0, <1>9, <2>2, <3>3, <3>4 DEF PendingInv
  <2>. QED
    <3>1. step' \in Making \cup {"close"}
      BY <2>2 DEF Making, Writing
    <3>2. promised' \in BOOLEAN /\ at' \in 0..MaxAddress /\ index' \in 0..MaxAddress
            /\ pending' \in [Addresses -> 0..MaxJobs]
      BY <1>0, <1>9 DEF TypeInv
    <3>3. \A b \in Addresses : ~(0 <= b /\ b < 0 + 0)
      BY SizesAssumption DEF Addresses
    <3>. QED
      BY <1>0, <1>7, <1>8, <1>9, <1>10, <2>1, <2>2, <2>7, <2>8, <3>1, <3>2, <3>3, WritingStep
<1>. QED
  BY <1>11, <1>12

LEMMA EndOfDataStep ==
  ASSUME IInv, EndOfData
  PROVE  IInv'
<1>1. /\ step = "data" /\ step' = "index"
      /\ UNCHANGED <<disk, archive, writer, cell, kind, at, index, jobs, ghost>>
  BY DEF EndOfData
<1>2. /\ disk' = disk /\ head' = head /\ entry' = entry /\ cells' = cells /\ size' = size
      /\ mapped' = mapped /\ full' = full /\ cell' = cell /\ kind' = kind /\ at' = at
      /\ index' = index /\ jobs' = jobs /\ flat' = flat /\ pending' = pending
      /\ promised' = promised /\ trouble' = trouble
  BY <1>1 DEF archive, writer, ghost
<1>3. TypeInv'
  BY <1>1, <1>2 DEF IInv, TypeInv
<1>4. JobInv'
  BY <1>1, <1>2 DEF IInv, JobInv, Making, Writing
<1>5. WholeInv'
  BY <1>2 DEF IInv, WholeInv
<1>6. SlimInv'
  BY <1>1, <1>2 DEF IInv, SlimInv, Exists
<1>7. PresentInv'
  BY <1>1, <1>2 DEF IInv, PresentInv, Exists
<1>8. SizeInv'
  BY <1>1, <1>2 DEF IInv, SizeInv, Making, Writing
<1>9. MapInv'
  <2>1. Here' = Here /\ full' = full
    BY <1>2 DEF Here
  <2>2. Mapped(Here, full)
    BY <1>1 DEF IInv, MapInv, Writing
  <2>3. Mapped(Here, full)'
    BY <1>2, <2>1, <2>2 DEF Mapped, Part, CellOf, CellBegin
  <2>. QED
    BY <2>3 DEF MapInv
<1>10. AtInv'
  BY <1>1, <1>2 DEF IInv, AtInv, Making, Writing, CellBegin
<1>11. PendingInv'
  BY <1>1, <1>2 DEF IInv, PendingInv, Making, Writing
<1>12. EndInv'
  BY <1>1 DEF EndInv
<1>. QED
  BY <1>3, <1>4, <1>5, <1>6, <1>7, <1>8, <1>9, <1>10, <1>11, <1>12 DEF IInv

\* What the steps that write share.
LEMMA WritingFacts ==
  ASSUME IInv, step \in Writing
  PROVE  /\ TypeInv /\ AllPresent /\ JobInv /\ AtInv /\ PendingInv /\ Mapped(Here, full)
         /\ jobs \in 1..MaxJobs /\ at \in Nat \ {0} /\ at \in 0..MaxAddress /\ full \in Nat
         /\ cells \in Nat \ {0} /\ step \in Making /\ promised \in BOOLEAN
         /\ Keeps(disk, at, pending) /\ pending \in [Addresses -> 0..MaxJobs]
         /\ index \in 0..MaxAddress /\ jobs \in 0..MaxJobs
         /\ cells < Cells => kind = "rename" /\ at <= CellBegin(cells + 1)
         /\ promised /\ head > 0 /\ kind # "rename" => head <= at
<1>1. TypeInv /\ JobInv /\ AtInv /\ PendingInv /\ Mapped(Here, full) /\ step \in Making
  BY DEF IInv, MapInv, Making
<1>2. AllPresent
  BY <1>1, MakingIs DEF IInv
<1>3. /\ at \in 0..MaxAddress /\ full \in Nat /\ cells \in 0..Cells /\ promised \in BOOLEAN
      /\ pending \in [Addresses -> 0..MaxJobs] /\ index \in 0..MaxAddress /\ jobs \in 0..MaxJobs
  BY <1>1 DEF TypeInv
<1>4. at >= 1 /\ (cells < Cells => at <= CellBegin(cells + 1))
  BY <1>1 DEF AtInv
<1>5. at \in Nat \ {0} /\ cells \in Nat \ {0}
  BY <1>2, <1>3, <1>4, SizesAssumption, CellsAssumption DEF AllPresent
<1>6. /\ jobs \in 1..MaxJobs /\ kind \in {"new", "append", "rename"}
      /\ kind # "rename" => cells = Cells
  BY <1>1 DEF JobInv
<1>7. cells < Cells => kind = "rename"
  BY <1>3, <1>6, CellsAssumption
<1>8. /\ Keeps(disk, at, pending) /\ (kind = "new" => head = 0) /\ (kind = "append" => head <= at)
  BY <1>1 DEF PendingInv
<1>9. promised /\ head > 0 /\ kind # "rename" => head <= at
  BY <1>6, <1>8
<1>. QED
  BY <1>1, <1>2, <1>3, <1>4, <1>5, <1>6, <1>7, <1>8, <1>9

LEMMA MarkedType ==
  ASSUME TypeInv, NEW a, NEW n, NEW g \in 0..MaxJobs
  PROVE  Marked(a, n, g) \in [Addresses -> 0..MaxJobs]
BY DEF Marked, TypeInv

LEMMA WriteDataStep ==
  ASSUME IInv, NEW n \in Chunks, WriteData(n)
  PROVE  IInv'
<1>0. /\ step = "data" /\ at + n < MaxAddress
      /\ UNCHANGED <<archive, cells, cell, kind, index, jobs, flat, promised>>
  BY DEF WriteData
<1>1. PICK w \in Write2(at, n) :
        /\ Becomes(w)
        /\ IF w.ok THEN at' = at + n /\ pending' = Marked(at, n, jobs) /\ UNCHANGED step
           ELSE step' = "index" /\ UNCHANGED <<at, pending>>
  BY DEF WriteData
<1>2. /\ TypeInv /\ AllPresent /\ JobInv /\ AtInv /\ PendingInv /\ Mapped(Here, full)
      /\ jobs \in 1..MaxJobs /\ at \in Nat \ {0} /\ at \in 0..MaxAddress /\ full \in Nat
      /\ cells \in Nat \ {0} /\ step \in Making /\ promised \in BOOLEAN
      /\ Keeps(disk, at, pending) /\ pending \in [Addresses -> 0..MaxJobs]
      /\ index \in 0..MaxAddress /\ jobs \in 0..MaxJobs
      /\ cells < Cells => kind = "rename" /\ at <= CellBegin(cells + 1)
      /\ promised /\ head > 0 /\ kind # "rename" => head <= at
  BY <1>0, WritingFacts DEF Writing
<1>3. n \in Nat \ {0} /\ at \in Nat /\ at + n \in Nat /\ at + n <= MaxAddress /\ MaxAddress \in Nat
  BY <1>0, <1>2, SizesAssumption
<1>4. kind # "rename" /\ cells = Cells
  BY <1>0, <1>2 DEF JobInv
<1>5. /\ Longer(w) /\ Others(w, at, n) /\ Mapped(w, w.full)
      /\ w.ok => at + n <= w.full /\ Written(w, at, n)
      /\ ~w.ok /\ at <= full => w.short
  BY <1>1, <1>2, <1>3, Write2Is
<1>6. /\ disk' = w.disk /\ full' = w.full
      /\ trouble' = IF w.short THEN "space"
                    ELSE IF ~w.ok /\ trouble = "none" THEN "refused" ELSE trouble
  BY <1>1 DEF Becomes
<1>7. /\ head' = head /\ cells' = cells /\ kind' = kind /\ jobs' = jobs /\ promised' = promised
      /\ index' = index
  BY <1>0 DEF archive
<1>8. trouble = "none" => at <= full
  BY <1>0, <1>2 DEF AtInv, Writing
<1>9. /\ step' \in {"data", "index"} /\ at' \in 0..MaxAddress /\ at <= at'
      /\ pending' \in [Addresses -> 0..MaxJobs]
  <2>1. CASE w.ok
    BY <1>0, <1>1, <1>2, <1>3, <2>1, MarkedType
  <2>2. CASE ~w.ok
    BY <1>1, <1>2, <1>3, <2>2
  <2>. QED
    BY <2>1, <2>2
<1>10. promised' /\ head > 0 => \A b \in Addresses : b < head => ~(at <= b /\ b < at + n)
  BY <1>2, <1>3, <1>4, <1>7, SizesAssumption DEF TypeInv, Addresses
<1>11. trouble' # "refused" /\ (trouble' = "none" => w.ok)
  BY <1>2, <1>5, <1>6, <1>8 DEF AtInv
<1>12. AtInv'
  <2>1. trouble' = "none" => at' <= full'
    BY <1>1, <1>5, <1>6, <1>11
  <2>2. at' >= 1
    BY <1>2, <1>3, <1>9
  <2>. QED
    BY <1>4, <1>7, <1>9, <1>11, <2>1, <2>2, CellsAssumption DEF AtInv
<1>13. Keeps(disk', at', pending')
  <2>1. CASE w.ok
    <3>1. Keeps(w.disk, at + n, Marked(at, n, jobs))
      <4>1. \A b \in Addresses : b < at + n => b < at \/ (at <= b /\ b < at + n)
        BY <1>3 DEF Addresses
      <4>2. ~(cells < Cells)
        BY <1>4, CellsAssumption
      <4>. QED
        BY <1>2, <1>3, <1>5, <2>1, <4>1, <4>2, KeepsMarked
    <3>. QED
      BY <1>1, <1>6, <2>1, <3>1
  <2>2. CASE ~w.ok
    <3>1. \A b \in Addresses : b < at => ~(at <= b /\ b < at + n)
      BY <1>3, SizesAssumption DEF Addresses
    <3>2. Keeps(w.disk, at, pending)
      BY <1>2, <1>5, <3>1, KeepsStill
    <3>. QED
      BY <1>1, <1>6, <2>2, <3>2
  <2>. QED
    BY <2>1, <2>2
<1>14. PendingInv'
  <2>1. kind' = "new" => head' = 0
    BY <1>2, <1>7 DEF PendingInv
  <2>2. kind' = "append" => head' <= at'
    <3>1. kind = "append" => head <= at
      BY <1>2 DEF PendingInv
    <3>2. head \in Nat /\ at' \in Nat
      BY <1>2, <1>3, <1>9 DEF TypeInv
    <3>. QED
      BY <1>3, <1>7, <1>9, <3>1, <3>2
  <2>3. kind' # "rename"
    BY <1>4, <1>7
  <2>. QED
    BY <1>13, <2>1, <2>2, <2>3 DEF PendingInv
<1>15. step' \in Making \cup {"close"} /\ promised' \in BOOLEAN /\ index' \in 0..MaxAddress
  BY <1>2, <1>7, <1>9 DEF Making, Writing
<1>. QED
  BY <1>0, <1>1, <1>2, <1>4, <1>5, <1>7, <1>9, <1>10, <1>12, <1>14, <1>15, WritingStep

LEMMA WriteIndexStep ==
  ASSUME ThreeFiles, IInv, NEW n \in Chunks, WriteIndex(n)
  PROVE  IInv'
<1>0. /\ step = "index" /\ at + n + TailSize <= MaxAddress
      /\ kind # "rename" \/ EditsMayCross \/ cells = Cells \/ at + n + TailSize <= cells * MaxPck
      /\ at' = at + n /\ index' = at /\ promised' = (promised /\ kind # "rename") /\ step' = "tail"
      /\ UNCHANGED <<archive, cells, cell, kind, jobs, flat>>
  BY DEF WriteIndex
<1>1. PICK w \in Write2(at, n) :
        Becomes(w) /\ pending' = Marked(at, n, IF w.ok THEN jobs ELSE 0)
  BY DEF WriteIndex
<1>2. /\ TypeInv /\ AllPresent /\ JobInv /\ AtInv /\ PendingInv /\ Mapped(Here, full)
      /\ jobs \in 1..MaxJobs /\ at \in Nat \ {0} /\ at \in 0..MaxAddress /\ full \in Nat
      /\ cells \in Nat \ {0} /\ step \in Making /\ promised \in BOOLEAN
      /\ Keeps(disk, at, pending) /\ pending \in [Addresses -> 0..MaxJobs]
      /\ index \in 0..MaxAddress /\ jobs \in 0..MaxJobs
      /\ cells < Cells => kind = "rename" /\ at <= CellBegin(cells + 1)
      /\ promised /\ head > 0 /\ kind # "rename" => head <= at
  BY <1>0, WritingFacts DEF Writing
<1>3. /\ n \in Nat \ {0} /\ at \in Nat /\ at + n \in Nat /\ at + n <= MaxAddress
      /\ MaxAddress \in Nat /\ TailSize \in Nat \ {0}
  BY <1>0, <1>2, SizesAssumption
<1>4. cells < Cells => at + n + TailSize <= CellBegin(cells + 1)
  <2>1. CellBegin(cells + 1) = cells * MaxPck
    BY <1>2, CellsAssumption DEF CellBegin
  <2>2. cells < Cells => cells # Cells
    BY <1>2, CellsAssumption
  <2>. QED
    BY <1>0, <1>2, <2>1, <2>2 DEF ThreeFiles
<1>5. /\ Longer(w) /\ Others(w, at, n) /\ Mapped(w, w.full)
      /\ w.ok => at + n <= w.full /\ Written(w, at, n)
      /\ ~w.ok /\ at <= full => w.short
  BY <1>1, <1>2, <1>3, Write2Is
<1>6. /\ disk' = w.disk /\ full' = w.full
      /\ trouble' = IF w.short THEN "space"
                    ELSE IF ~w.ok /\ trouble = "none" THEN "refused" ELSE trouble
  BY <1>1 DEF Becomes
<1>7. head' = head /\ cells' = cells /\ kind' = kind /\ jobs' = jobs
  BY <1>0 DEF archive
<1>8. trouble = "none" => at <= full
  BY <1>0, <1>2 DEF AtInv, Writing
<1>9. pending' \in [Addresses -> 0..MaxJobs]
  <2>1. (IF w.ok THEN jobs ELSE 0) \in 0..MaxJobs
    BY <1>2, SizesAssumption
  <2>. QED
    BY <1>1, <1>2, <2>1, MarkedType
<1>10. promised' /\ head > 0 => \A b \in Addresses : b < head => ~(at <= b /\ b < at + n)
  <2>1. promised' => promised /\ kind # "rename"
    BY <1>0
  <2>2. promised' /\ head > 0 => head <= at
    BY <1>2, <2>1
  <2>3. head \in Nat /\ Addresses \subseteq Nat
    BY <1>2, <1>3 DEF TypeInv, Addresses
  <2>. QED
    BY <1>3, <2>2, <2>3
<1>11. trouble' # "refused" /\ (trouble' = "none" => w.ok)
  BY <1>2, <1>5, <1>6, <1>8 DEF AtInv
<1>12. AtInv'
  <2>1. trouble' = "none" => at' <= full'
    BY <1>0, <1>5, <1>6, <1>11
  <2>2. at' >= 2 /\ index' \in 1..at' /\ at' + TailSize <= MaxAddress
    BY <1>0, <1>2, <1>3
  <2>3. /\ cells' < Cells => at' + TailSize <= CellBegin(cells' + 1)
        /\ cells' < Cells => at' <= CellBegin(cells' + 1)
    <3>1. CellBegin(cells + 1) \in Nat
      BY <1>2, CellBegins
    <3>. QED
      BY <1>0, <1>3, <1>4, <1>7, <3>1
  <2>4. at' >= 1
    BY <1>0, <1>3, <2>2
  <2>. QED
    BY <1>0, <1>11, <2>1, <2>2, <2>3, <2>4 DEF AtInv, CellBegin
<1>13. Keeps(disk', at', pending')
  <2> DEFINE g == IF w.ok THEN jobs ELSE 0
  <2>1. (g = jobs /\ Written(w, at, n)) \/ g = 0
    BY <1>5
  <2>. HIDE DEF g
  <2>2. \A b \in Addresses : b < at + n => b < at \/ (at <= b /\ b < at + n)
    BY <1>3 DEF Addresses
  <2>3. cells < Cells => at + n <= CellBegin(cells + 1)
    <3>1. CellBegin(cells + 1) \in Nat
      BY <1>2, CellBegins
    <3>. QED
      BY <1>3, <1>4, <3>1
  <2>4. n \in Nat
    BY <1>3
  <2>5. Keeps(w.disk, at + n, Marked(at, n, g))
    BY <1>2, <1>3, <1>5, <2>1, <2>2, <2>3, <2>4, KeepsMarked
  <2>. QED
    BY <1>0, <1>1, <1>6, <2>5 DEF g
<1>14. PendingInv'
  <2>1. kind' = "new" => head' = 0
    BY <1>2, <1>7 DEF PendingInv
  <2>2. kind' = "append" => head' <= at'
    <3>1. kind = "append" => head <= at
      BY <1>2 DEF PendingInv
    <3>2. head \in Nat
      BY <1>2, <1>3 DEF TypeInv
    <3>. QED
      BY <1>0, <1>3, <1>7, <3>1, <3>2
  <2>3. kind' = "rename" => ~promised'
    BY <1>0, <1>7
  <2>. QED
    BY <1>13, <2>1, <2>2, <2>3 DEF PendingInv
<1>15. /\ step' \in Making \cup {"close"} /\ promised' \in BOOLEAN /\ index' \in 0..MaxAddress
       /\ at' \in 0..MaxAddress /\ (promised' => promised) /\ step' # "data"
  BY <1>0, <1>2, <1>3 DEF Making, Writing
<1>. QED
  BY <1>0, <1>1, <1>2, <1>5, <1>9, <1>10, <1>12, <1>14, <1>15, WritingStep

LEMMA WriteTailStep ==
  ASSUME IInv, WriteTail
  PROVE  IInv'
<1>0. /\ step = "tail"
      /\ UNCHANGED <<archive, cells, cell, kind, index, jobs, flat, promised>>
  BY DEF WriteTail
<1>1. PICK w \in Write2(at, TailSize) :
        /\ Becomes(w)
        /\ IF w.ok THEN /\ step' = "head" /\ at' = at + TailSize
                        /\ pending' = Marked(at, TailSize, jobs)
           ELSE step' = "close" /\ UNCHANGED <<at, pending>>
  BY DEF WriteTail
<1>2. /\ TypeInv /\ AllPresent /\ JobInv /\ AtInv /\ PendingInv /\ Mapped(Here, full)
      /\ jobs \in 1..MaxJobs /\ at \in Nat \ {0} /\ at \in 0..MaxAddress /\ full \in Nat
      /\ cells \in Nat \ {0} /\ step \in Making /\ promised \in BOOLEAN
      /\ Keeps(disk, at, pending) /\ pending \in [Addresses -> 0..MaxJobs]
      /\ index \in 0..MaxAddress /\ jobs \in 0..MaxJobs
      /\ cells < Cells => kind = "rename" /\ at <= CellBegin(cells + 1)
      /\ promised /\ head > 0 /\ kind # "rename" => head <= at
  BY <1>0, WritingFacts DEF Writing
<1>3. /\ at + TailSize <= MaxAddress /\ at >= 2 /\ index \in 1..at
      /\ cells < Cells => at + TailSize <= CellBegin(cells + 1)
  BY <1>0, <1>2 DEF AtInv
<1>4. /\ TailSize \in Nat \ {0} /\ at \in Nat /\ at + TailSize \in Nat /\ MaxAddress \in Nat
      /\ head \in Nat /\ Addresses \subseteq Nat
  BY <1>2, SizesAssumption DEF TypeInv, Addresses
<1>5. /\ Longer(w) /\ Others(w, at, TailSize) /\ Mapped(w, w.full)
      /\ w.ok => at + TailSize <= w.full /\ Written(w, at, TailSize)
      /\ ~w.ok /\ at <= full => w.short
  BY <1>1, <1>2, <1>3, <1>4, Write2Is
<1>6. /\ disk' = w.disk /\ full' = w.full
      /\ trouble' = IF w.short THEN "space"
                    ELSE IF ~w.ok /\ trouble = "none" THEN "refused" ELSE trouble
  BY <1>1 DEF Becomes
<1>7. /\ head' = head /\ cells' = cells /\ kind' = kind /\ jobs' = jobs /\ promised' = promised
      /\ index' = index
  BY <1>0 DEF archive
<1>8. trouble' # "refused"
  <2>1. trouble = "none" => at <= full
    BY <1>0, <1>2 DEF AtInv, Writing
  <2>. QED
    BY <1>2, <1>5, <1>6, <2>1 DEF AtInv
<1>9. promised' /\ head > 0 => \A b \in Addresses : b < head => ~(at <= b /\ b < at + TailSize)
  <2>1. kind = "rename" => ~promised
    BY <1>0, <1>2 DEF PendingInv
  <2>2. promised' /\ head > 0 => head <= at
    BY <1>2, <1>7, <2>1
  <2>. QED
    BY <1>4, <2>2
<1>10. CASE w.ok
  <2>1. step' = "head" /\ at' = at + TailSize /\ pending' = Marked(at, TailSize, jobs)
    BY <1>1, <1>10
  <2>2. AtInv'
    <3>1. at' <= full' /\ at' >= 3 /\ at' >= 1 /\ index' \in 1..at'
      BY <1>3, <1>4, <1>5, <1>6, <1>7, <1>10, <2>1
    <3>2. cells' < Cells => at' <= CellBegin(cells' + 1)
      BY <1>3, <1>7, <2>1
    <3>. QED
      BY <1>8, <2>1, <3>1, <3>2 DEF AtInv, CellBegin
  <2>3. Keeps(disk', at', pending')
    <3>1. \A b \in Addresses : b < at + TailSize => b < at \/ (at <= b /\ b < at + TailSize)
      BY <1>4
    <3>2. Keeps(w.disk, at + TailSize, Marked(at, TailSize, jobs))
      BY <1>2, <1>3, <1>4, <1>5, <1>10, <3>1, KeepsMarked
    <3>. QED
      BY <1>6, <2>1, <3>2
  <2>4. PendingInv'
    <3>1. (kind' = "new" => head' = 0) /\ (kind' = "rename" => ~promised')
      BY <1>0, <1>2, <1>7 DEF PendingInv
    <3>2. kind' = "append" => head' <= at'
      <4>1. kind = "append" => head <= at
        BY <1>2 DEF PendingInv
      <4>. QED
        BY <1>4, <1>7, <2>1, <4>1
    <3>. QED
      BY <2>3, <3>1, <3>2 DEF PendingInv
  <2>5. /\ step' \in Making \cup {"close"} /\ promised' \in BOOLEAN /\ index' \in 0..MaxAddress
        /\ at' \in 0..MaxAddress /\ step' # "data" /\ (promised' => promised)
    BY <1>2, <1>3, <1>4, <1>7, <2>1 DEF Making, Writing
  <2>6. pending' \in [Addresses -> 0..MaxJobs]
    BY <1>2, <2>1, MarkedType
  <2>. QED
    BY <1>0, <1>1, <1>2, <1>5, <1>9, <2>2, <2>4, <2>5, <2>6, WritingStep
<1>11. CASE ~w.ok
  <2>1. step' = "close" /\ at' = at /\ pending' = pending
    BY <1>1, <1>11
  <2>2. AtInv' /\ PendingInv'
    BY <1>8, <2>1 DEF AtInv, PendingInv, Making, Writing
  <2>3. /\ step' \in Making \cup {"close"} /\ promised' \in BOOLEAN /\ index' \in 0..MaxAddress
        /\ at' \in 0..MaxAddress /\ step' # "data" /\ (promised' => promised)
        /\ step' \notin Writing
    BY <1>2, <1>7, <2>1 DEF Making, Writing
  <2>4. pending' \in [Addresses -> 0..MaxJobs]
    BY <1>2, <2>1
  <2>. QED
    BY <1>0, <1>1, <1>2, <1>5, <1>9, <2>2, <2>3, <2>4, WritingStep
<1>. QED
  BY <1>10, <1>11

\* What is mapped and written up to address h is there for the reader.
LEMMA ReachesMapped ==
  ASSUME TypeInv, AllPresent, SlimInv, Mapped(Here, full), NEW h \in Nat, h <= full,
         cells < Cells => h <= CellBegin(cells + 1)
  PROVE  Reaches(disk, h)
<1>0. cells \in Nat \ {0} /\ cells <= Cells /\ Cells \in Nat /\ MaxPck \in Nat \ {0} /\ full \in Nat
  BY CellsAssumption DEF TypeInv, AllPresent
<1>. SUFFICES ASSUME NEW i \in Files, CellBegin(i) < h
              PROVE  /\ disk[i] # NoFile
                     /\ IF i < Cells /\ CellBegin(i + 1) < h THEN Len(disk[i]) = MaxPck
                        ELSE h - CellBegin(i) <= Len(disk[i])
  BY DEF Reaches
<1>1. i \in Nat \ {0} /\ CellBegin(i) \in Nat /\ CellBegin(i + 1) = CellBegin(i) + MaxPck
  BY CellBegins DEF Files
<1>2. i <= cells
  <2>1. SUFFICES ASSUME i > cells PROVE FALSE
    BY <1>0, <1>1
  <2>2. cells + 1 \in Nat \ {0} /\ CellBegin(cells + 1) \in Nat /\ cells < Cells
    <3>1. cells + 1 \in Nat \ {0} /\ cells < Cells
      BY <1>0, <2>1 DEF Files
    <3>. QED
      BY <3>1, CellBegins
  <2>3. CASE i = cells + 1
    BY <2>2, <2>3
  <2>4. CASE i > cells + 1
    <3>1. CellBegin(cells + 1) + MaxPck <= CellBegin(i)
      BY <1>1, <2>2, <2>4, CellBegins
    <3>. QED
      BY <1>0, <1>1, <2>2, <3>1
  <2>. QED
    BY <1>0, <1>1, <2>1, <2>3, <2>4
<1>3. i \in 1..cells /\ Exists(i)
  BY <1>0, <1>1, <1>2 DEF AllPresent
<1>4. PICK p \in Nat, q \in Nat : p = Len(disk[i]) /\ q = Part(full, cells, i)
  <2>1. Len(disk[i]) \in Nat
    BY <1>3, FilesOf DEF TypeInv
  <2>2. Part(full, cells, i) \in Nat
    BY <1>0, <1>3, PartIs
  <2>. QED
    BY <2>1, <2>2
<1>5. q <= p
  BY <1>3, <1>4 DEF Mapped, Here
<1>6. CASE i < Cells /\ CellBegin(i + 1) < h
  <2>1. i < cells
    <3>1. i # cells
      <4>1. i = cells => h <= CellBegin(i + 1)
        BY <1>6
      <4>. QED
        BY <1>0, <1>1, <1>6, <4>1
    <3>. QED
      BY <1>0, <1>2, <1>1, <3>1
  <2>2. q = MaxPck
    <3>1. CellBegin(i + 1) <= full
      BY <1>0, <1>1, <1>6
    <3>. QED
      BY <1>0, <1>3, <1>4, <2>1, <3>1, PartIs
  <2>3. ~(p > MaxPck)
    <3>1. Exists(i + 1)
      BY <1>0, <1>1, <2>1 DEF AllPresent
    <3>. QED
      BY <1>3, <1>4, <1>6, <3>1 DEF SlimInv
  <2>4. p = MaxPck
    BY <1>0, <1>5, <2>2, <2>3
  <2>. QED
    BY <1>3, <1>4, <1>6, <2>4 DEF Exists
<1>7. CASE ~(i < Cells /\ CellBegin(i + 1) < h)
  <2>1. PICK a \in Nat : a = h - 1
    BY <1>1
  <2>2. CellBegin(i) <= a /\ a < full
    BY <1>0, <1>1, <2>1
  <2>3. i < cells => a < CellBegin(i + 1)
    BY <1>0, <1>1, <1>7, <2>1
  <2>4. a - CellBegin(i) < q
    BY <1>0, <1>3, <1>4, <2>2, <2>3, PartHolds
  <2>5. h - CellBegin(i) <= p
    BY <1>1, <1>5, <2>1, <2>4
  <2>. QED
    BY <1>3, <1>4, <1>7, <2>5 DEF Exists
<1>. QED
  BY <1>6, <1>7

LEMMA WriteHeadStep ==
  ASSUME IInv, WriteHead
  PROVE  IInv'
<1>0. step = "head" /\ UNCHANGED <<cells, cell, kind, at, index, jobs, pending>>
  BY DEF WriteHead
<1>1. PICK w \in Write2(0, 1) :
        IF w.ok
        THEN /\ Becomes([w EXCEPT !.mapped = [i \in 1..cells |-> 0]])
             /\ head' = at /\ entry' = index
             /\ flat' = Marked(0, 1, jobs)
             /\ promised' = TRUE
             /\ step' = "cut"
        ELSE Becomes(w) /\ step' = "close" /\ UNCHANGED <<archive, flat, promised>>
  BY DEF WriteHead
<1>2. /\ TypeInv /\ AllPresent /\ JobInv /\ AtInv /\ PendingInv /\ Mapped(Here, full)
      /\ jobs \in 1..MaxJobs /\ at \in Nat \ {0} /\ at \in 0..MaxAddress /\ full \in Nat
      /\ cells \in Nat \ {0} /\ step \in Making /\ promised \in BOOLEAN
      /\ Keeps(disk, at, pending) /\ pending \in [Addresses -> 0..MaxJobs]
      /\ index \in 0..MaxAddress /\ jobs \in 0..MaxJobs
      /\ cells < Cells => kind = "rename" /\ at <= CellBegin(cells + 1)
      /\ promised /\ head > 0 /\ kind # "rename" => head <= at
  BY <1>0, WritingFacts DEF Writing
<1>3. at <= full /\ at >= 3 /\ index \in 1..at
  BY <1>0, <1>2 DEF AtInv, Writing
<1>4. /\ 0 \in Nat /\ 1 \in Nat \ {0} /\ 0 + 1 <= MaxAddress /\ 0 <= full /\ 0 + 1 < full
      /\ Addresses \subseteq Nat
  BY <1>2, <1>3, SizesAssumption DEF Addresses
<1>5. /\ Longer(w) /\ Others(w, 0, 1) /\ Mapped(w, w.full)
      /\ w.ok => Written(w, 0, 1)
      /\ ~w.ok => w.short /\ Others(w, 0, 0)
  BY <1>1, <1>2, <1>4, Write2Is
<1>6. /\ cells' = cells /\ cell' = cell /\ kind' = kind /\ at' = at /\ index' = index
      /\ jobs' = jobs /\ pending' = pending
  BY <1>0
<1>7. CASE w.ok
  <2> DEFINE v == [w EXCEPT !.mapped = [i \in 1..cells |-> 0]]
  <2>1. /\ Becomes(v) /\ head' = at /\ entry' = index /\ flat' = Marked(0, 1, jobs)
        /\ promised' = TRUE /\ step' = "cut"
    BY <1>1, <1>7
  <2>2. /\ v.disk = w.disk /\ v.size = w.size /\ v.full = w.full /\ v.ok = w.ok /\ v.short = w.short
        /\ v.mapped = [i \in 1..cells |-> 0]
    <3>1. DOMAIN w = Fields
      BY <1>5 DEF Longer
    <3>. QED
      BY <3>1 DEF Fields
  <2>. HIDE DEF v
  <2>3. /\ disk' = w.disk /\ size' = w.size /\ full' = w.full
        /\ mapped' = [i \in 1..cells |-> 0]
        /\ trouble' = IF w.short THEN "space" ELSE trouble
    BY <1>7, <2>1, <2>2 DEF Becomes
  <2>4. /\ IsDisk(w.disk) /\ w.size \in [1..cells -> Nat] /\ w.full \in Nat
    BY <1>5 DEF Longer
  <2>5. TypeInv'
    <3>1. flat' \in [Addresses -> 0..MaxJobs]
      BY <1>2, <2>1, MarkedType
    <3>2. mapped' \in [1..cells -> Nat]
      BY <2>3
    <3>3. trouble' \in {"none", "space", "refused"}
      BY <1>2, <2>3 DEF TypeInv
    <3>4. step' \in {"idle", "map", "data", "index", "tail", "head", "cut", "close", "finish"}
            /\ ~(step' = "idle") /\ ~(cells = 0)
      BY <1>2, <2>1
    <3>. QED
      BY <1>2, <1>6, <2>1, <2>3, <2>4, <3>1, <3>2, <3>3, <3>4 DEF TypeInv
  <2>6. JobInv' /\ SizeInv' /\ MapInv' /\ PendingInv'
    BY <2>1 DEF JobInv, SizeInv, MapInv, PendingInv, Making, Writing
  <2>7. WholeInv'
    <3>1. SlimInv /\ PresentInv
      BY DEF IInv
    <3>2. at \in Nat /\ (cells < Cells => at <= CellBegin(cells + 1))
      BY <1>2
    <3>3. Reaches(disk, at)
      BY <1>2, <1>3, <3>1, <3>2, ReachesMapped
    <3>4. Reaches(w.disk, at)
      BY <1>2, <1>5, <3>1, <3>2, <3>3, ReachesStill
    <3>5. \A b \in Addresses : b < at => b < at \/ (0 <= b /\ b < 0 + 1)
      OBVIOUS
    <3>6. cells < Cells => 0 + 1 <= CellBegin(cells + 1)
      <4>1. CellBegin(cells + 1) \in Nat
        BY <1>2, CellBegins
      <4>. QED
        BY <1>2, <1>3, <3>2, <4>1
    <3>7. Keeps(w.disk, at, Marked(0, 1, jobs))
      BY <1>2, <1>4, <1>5, <1>7, <3>2, <3>5, <3>6, KeepsMarked
    <3>. QED
      BY <1>3, <2>1, <2>3, <3>4, <3>7 DEF WholeInv
  <2>8. SlimInv' /\ PresentInv'
    <3>1. SlimInv /\ PresentInv /\ step' # "finish"
      BY <2>1 DEF IInv
    <3>. QED
      BY <1>2, <1>5, <1>6, <2>3, <3>1, GrowthFits
  <2>9. AtInv'
    <3>1. trouble' # "refused"
      BY <1>2, <2>3 DEF AtInv
    <3>. QED
      BY <2>1, <3>1 DEF AtInv, Making, Writing
  <2>10. EndInv'
    <3>1. cell' = 1
      BY <1>2, <1>6 DEF JobInv
    <3>. QED
      BY <1>2, <1>6, <2>1, <3>1 DEF EndInv
  <2>. QED
    BY <2>5, <2>6, <2>7, <2>8, <2>9, <2>10 DEF IInv
<1>8. CASE ~w.ok
  <2>1. Becomes(w) /\ step' = "close" /\ UNCHANGED <<archive, flat, promised>>
    BY <1>1, <1>8
  <2>2. trouble' = "space" /\ Others(w, 0, 0)
    BY <1>5, <1>8, <2>1 DEF Becomes
  <2>3. AtInv' /\ PendingInv'
    BY <2>1, <2>2 DEF AtInv, PendingInv, Making, Writing
  <2>4. /\ step' \in Making \cup {"close"} /\ promised' \in BOOLEAN /\ index' \in 0..MaxAddress
        /\ at' \in 0..MaxAddress /\ step' # "data" /\ (promised' => promised)
        /\ step' \notin Writing /\ pending' \in [Addresses -> 0..MaxJobs]
    BY <1>2, <1>6, <2>1 DEF Making, Writing
  <2>5. \A b \in Addresses : ~(0 <= b /\ b < 0 + 0)
    BY <1>4
  <2>6. UNCHANGED <<archive, cells, cell, kind, jobs, flat>>
    BY <1>6, <2>1
  <2>. QED
    BY <1>2, <1>5, <2>1, <2>2, <2>3, <2>4, <2>5, <2>6, WritingStep
<1>. QED
  BY <1>7, <1>8

(***************************************************************************)
(* The steps that end a job.                                               *)
(***************************************************************************)
\* What an archive that is on disk needs of each cell the writer has.
LEMMA EndFits ==
  ASSUME TypeInv, AllPresent, PresentInv, SlimInv, head > 0, Reaches(disk, head)
  PROVE  /\ head \in Nat \ {0}
         /\ cells < Cells => head <= CellBegin(cells + 1)
         /\ \A i \in 1..cells : /\ Part(head, cells, i) \in Nat
                                /\ i < Cells => Part(head, cells, i) <= MaxPck
                                /\ i < CellOf(head, cells) =>
                                     Len(disk[i]) = MaxPck /\ Part(head, cells, i) = MaxPck
<1>0. /\ cells \in Nat \ {0} /\ cells <= Cells /\ Cells \in Nat /\ MaxPck \in Nat \ {0}
      /\ head \in Nat \ {0} /\ head \in Nat
  BY CellsAssumption, SizesAssumption DEF TypeInv, AllPresent
<1>1. cells < Cells => head <= CellBegin(cells + 1)
  <2>1. SUFFICES ASSUME cells < Cells, CellBegin(cells + 1) < head PROVE FALSE
    <3>1. cells < Cells => CellBegin(cells + 1) \in Nat
      BY <1>0, CellBegins
    <3>. QED
      BY <1>0, <3>1
  <2>2. cells + 1 \in Files /\ cells \in 1..(Cells - 1)
    BY <1>0, <2>1 DEF Files
  <2>. QED
    BY <2>1, <2>2 DEF Reaches, PresentInv, Exists
<1>2. ASSUME NEW i \in 1..cells
      PROVE  Part(head, cells, i) \in Nat /\ (i < Cells => Part(head, cells, i) <= MaxPck)
  <2>1. PICK p \in Nat : p = Part(head, cells, i)
    BY <1>0, PartIs
  <2>2. (i < cells => p <= MaxPck) /\ (p > 0 => CellBegin(i) + p <= head)
    BY <1>0, <2>1, PartIs
  <2>3. CellBegin(i) \in Nat /\ CellBegin(i + 1) = CellBegin(i) + MaxPck
    <3>1. i \in Nat \ {0}
      BY <1>0
    <3>. QED
      BY <3>1, CellBegins
  <2>4. CASE i < cells
    BY <2>1, <2>2, <2>4
  <2>5. CASE i = cells
    <3>1. i < Cells => head <= CellBegin(i) + MaxPck
      BY <1>1, <2>3, <2>5
    <3>2. i < Cells => p <= MaxPck
      BY <1>0, <2>2, <2>3, <3>1
    <3>. QED
      BY <2>1, <3>2
  <2>. QED
    BY <1>0, <2>4, <2>5
<1>3. ASSUME NEW i \in 1..cells, i < CellOf(head, cells)
      PROVE  Len(disk[i]) = MaxPck /\ Part(head, cells, i) = MaxPck
  <2>1. PICK c \in 1..cells : c = CellOf(head, cells) /\ CellBegin(c) <= head
    BY <1>0, CellOfPoint
  <2>2. i < c /\ i + 1 \in 1..cells /\ i < Cells /\ i \in Files /\ i < cells
    BY <1>0, <1>3, <2>1 DEF Files
  <2>3. /\ CellBegin(i) \in Nat /\ CellBegin(i + 1) = CellBegin(i) + MaxPck
        /\ CellBegin(c) \in Nat /\ CellBegin(i) + MaxPck <= CellBegin(c)
    <3>1. i \in Nat \ {0} /\ c \in Nat \ {0} /\ i < c
      BY <1>0, <2>2
    <3>. QED
      BY <3>1, CellBegins
  <2>4. CellBegin(i) < head /\ CellBegin(i + 1) <= head
    BY <1>0, <2>1, <2>3
  <2>5. Part(head, cells, i) = MaxPck
    BY <1>0, <2>2, <2>4, PartIs
  <2>6. PICK p \in Nat : p = Len(disk[i])
    BY FilesOf DEF TypeInv
  <2>7. CASE CellBegin(i + 1) < head
    BY <2>2, <2>4, <2>5, <2>7 DEF Reaches
  <2>8. CASE ~(CellBegin(i + 1) < head)
    <3>1. head - CellBegin(i) <= p
      BY <2>2, <2>4, <2>6, <2>8 DEF Reaches
    <3>2. MaxPck <= p
      BY <1>0, <2>3, <2>4, <3>1
    <3>3. ~(p > MaxPck)
      <4>1. Exists(i) /\ Exists(i + 1)
        BY <2>2 DEF AllPresent
      <4>. QED
        BY <2>2, <2>6, <4>1 DEF SlimInv
    <3>4. p = MaxPck
      BY <1>0, <3>2, <3>3
    <3>. QED
      BY <2>5, <2>6, <3>4
  <2>. QED
    BY <2>7, <2>8
<1>. QED
  BY <1>0, <1>1, <1>2, <1>3

LEMMA SetEndOfFileStep ==
  ASSUME IInv, SetEndOfFile
  PROVE  IInv'
<1> DEFINE c == CellOf(at, cells)
           n == IF cell < c THEN FileSize(cell) ELSE IF cell = c THEN at - CellBegin(c) ELSE 0
           r == Resized(disk[cell], n)
<1>0. /\ step = "cut" /\ disk' = [disk EXCEPT ![cell] = r] /\ size' = [size EXCEPT ![cell] = n]
      /\ IF cell = cells THEN step' = "finish" /\ cell' = 1 /\ full' = at
         ELSE cell' = cell + 1 /\ UNCHANGED <<step, full>>
      /\ UNCHANGED <<archive, cells, mapped, kind, at, index, jobs, ghost>>
  BY DEF SetEndOfFile, GetCellIDByPoint, CellOf
<1>1. /\ TypeInv /\ AllPresent /\ PresentInv /\ SlimInv /\ WholeInv /\ EndInv /\ AtInv
  <2>1. AllPresent
    BY <1>0, MakingIs DEF IInv
  <2>. QED
    BY <2>1 DEF IInv
<1>2. /\ promised /\ head = at /\ head > 0 /\ Reaches(disk, at) /\ Keeps(disk, at, flat)
      /\ \A i \in 1..(cell - 1) : size[i] = Len(disk[i]) /\ size[i] = Part(at, cells, i)
  BY <1>0, <1>1 DEF EndInv, WholeInv
<1>3. /\ cells \in Nat \ {0} /\ cells <= Cells /\ Cells \in Nat /\ cell \in 1..cells /\ cell \in Files
      /\ size \in [1..cells -> Nat] /\ MaxPck \in Nat \ {0} /\ IsDisk(disk)
  BY <1>1, CellsAssumption DEF TypeInv, AllPresent, Files
<1>4. /\ at \in Nat \ {0} /\ at \in Nat
      /\ cells < Cells => at <= CellBegin(cells + 1)
      /\ \A i \in 1..cells : /\ Part(at, cells, i) \in Nat
                             /\ i < Cells => Part(at, cells, i) <= MaxPck
                             /\ i < c => Len(disk[i]) = MaxPck /\ Part(at, cells, i) = MaxPck
  <2>1. /\ head \in Nat \ {0}
        /\ cells < Cells => head <= CellBegin(cells + 1)
        /\ \A i \in 1..cells : /\ Part(head, cells, i) \in Nat
                               /\ i < Cells => Part(head, cells, i) <= MaxPck
                               /\ i < CellOf(head, cells) =>
                                    Len(disk[i]) = MaxPck /\ Part(head, cells, i) = MaxPck
    BY <1>1, <1>2, EndFits
  <2>. QED
    BY <1>2, <2>1
<1>5. n = Part(at, cells, cell)
  <2>1. FileSize(cell) = Len(disk[cell])
    BY <1>1, <1>3, FilesOf
  <2>2. cell < c => Len(disk[cell]) = MaxPck
    BY <1>3, <1>4
  <2>. QED
    BY <2>1, <2>2 DEF Part
<1>6. n \in Nat /\ (cell < Cells => n <= MaxPck)
  <2>1. Part(at, cells, cell) \in Nat /\ (cell < Cells => Part(at, cells, cell) <= MaxPck)
    BY <1>3, <1>4
  <2>. QED
    BY <1>5, <2>1
<1>. HIDE DEF n, c
<1>7. /\ IsFile(r) /\ Len(r) = n /\ r # NoFile
      /\ \A k \in 1..n : r[k] = IF k <= Len(disk[cell]) THEN disk[cell][k] ELSE Zero
  <2>1. IsFile(disk[cell])
    BY <1>1, <1>3, FilesOf
  <2>2. /\ IsFile(Resized(disk[cell], n)) /\ Len(Resized(disk[cell], n)) = n
        /\ \A k \in 1..n : Resized(disk[cell], n)[k] = IF k <= Len(disk[cell]) THEN disk[cell][k] ELSE Zero
    BY <1>6, <2>1, ResizedIs
  <2>. QED
    BY <2>2, NoFileIsNone
<1>. HIDE DEF r
<1>8. /\ disk'[cell] = r /\ (\A i \in Files : i # cell => disk'[i] = disk[i])
      /\ disk' \in [Files -> {NoFile} \cup Seq(Units)]
  BY <1>0, <1>3, <1>7 DEF IsDisk, IsFile
<1>9. size' \in [1..cells -> Nat] /\ size'[cell] = n /\ (\A i \in 1..cells : i # cell => size'[i] = size[i])
  BY <1>0, <1>3, <1>6
<1>10. /\ head' = head /\ entry' = entry /\ cells' = cells /\ mapped' = mapped /\ kind' = kind
       /\ at' = at /\ index' = index /\ jobs' = jobs /\ flat' = flat /\ pending' = pending
       /\ promised' = promised /\ trouble' = trouble
  BY <1>0 DEF archive, ghost
<1>11. TypeInv'
  <2>1. IsDisk(disk')
    BY <1>8 DEF IsDisk
  <2>2. cell' \in 1..cells /\ full' \in Nat
    <3>1. full \in Nat
      BY <1>1 DEF TypeInv
    <3>2. CASE cell = cells
      BY <1>0, <1>3, <1>4, <3>2
    <3>3. CASE cell # cells
      <4>1. cell' = cell + 1 /\ full' = full
        BY <1>0, <3>3
      <4>. QED
        BY <1>3, <3>1, <3>3, <4>1
    <3>. QED
      BY <3>2, <3>3
  <2>3. step' \in {"cut", "finish"} /\ cell' \in 0..cells /\ ~(cells = 0)
    BY <1>0, <1>3, <2>2
  <2>. QED
    BY <1>1, <1>9, <1>10, <2>1, <2>2, <2>3 DEF TypeInv
<1>12. JobInv' /\ SizeInv' /\ MapInv' /\ PendingInv' /\ AtInv'
  <2>1. step' \in {"cut", "finish"} /\ trouble' # "refused"
    BY <1>0, <1>1, <1>10 DEF AtInv
  <2>. QED
    BY <2>1 DEF JobInv, SizeInv, MapInv, PendingInv, AtInv, Making, Writing
<1>13. Reaches(disk', at)
  <2>. SUFFICES ASSUME NEW i \in Files, CellBegin(i) < at
                PROVE  /\ disk'[i] # NoFile
                       /\ IF i < Cells /\ CellBegin(i + 1) < at THEN Len(disk'[i]) = MaxPck
                          ELSE at - CellBegin(i) <= Len(disk'[i])
    BY DEF Reaches
  <2>1. CASE i # cell
    BY <1>2, <1>8, <2>1 DEF Reaches
  <2>2. CASE i = cell
    <3>1. disk'[i] # NoFile /\ Len(disk'[i]) = n
      BY <1>7, <1>8, <2>2
    <3>2. CellBegin(i) \in Nat /\ CellBegin(i + 1) = CellBegin(i) + MaxPck
      <4>1. i \in Nat \ {0}
        BY <1>3, <2>2
      <4>. QED
        BY <4>1, CellBegins
    <3>3. CASE i < Cells /\ CellBegin(i + 1) < at
      <4>1. i < cells
        <5>1. i = cells => at <= CellBegin(i + 1)
          BY <1>4, <3>3
        <5>. QED
          BY <1>3, <1>4, <2>2, <3>2, <3>3, <5>1
      <4>2. CellBegin(i + 1) <= at
        BY <1>3, <1>4, <3>2, <3>3
      <4>3. Part(at, cells, i) = MaxPck
        BY <1>3, <1>4, <2>2, <4>1, <4>2, PartIs
      <4>. QED
        BY <1>5, <2>2, <3>1, <3>3, <4>3
    <3>4. CASE ~(i < Cells /\ CellBegin(i + 1) < at)
      <4>1. PICK a \in Nat : a = at - 1
        BY <1>4
      <4>2. CellBegin(i) <= a /\ a < at /\ (i < cells => a < CellBegin(i + 1))
        BY <1>3, <1>4, <2>2, <3>2, <3>4, <4>1
      <4>3. a - CellBegin(i) < n
        BY <1>3, <1>4, <1>5, <2>2, <4>2, PartHolds
      <4>4. at - CellBegin(i) <= n
        BY <1>4, <1>6, <3>2, <4>1, <4>3
      <4>. QED
        BY <3>1, <3>4, <4>4
    <3>. QED
      BY <3>3, <3>4
  <2>. QED
    BY <2>1, <2>2
<1>14. Keeps(disk', at, flat)
  <2>. SUFFICES ASSUME NEW i \in Files, NEW a \in Addresses, InCell(i, a), a < at, flat[a] # 0
                PROVE  Stores(disk', i, a, flat[a])
    BY DEF Keeps
  <2>1. Stores(disk, i, a, flat[a])
    BY <1>2 DEF Keeps
  <2>2. CASE i # cell
    BY <1>8, <2>1, <2>2 DEF Stores
  <2>3. CASE i = cell
    <3>1. CellBegin(i) \in Nat /\ CellBegin(i) <= a /\ a \in Nat /\ (i < cells => a < CellBegin(i + 1))
      <4>1. i \in Nat \ {0} /\ a \in Nat /\ (i < cells => i < Cells)
        BY <1>3, <2>3, SizesAssumption DEF Addresses
      <4>2. CellBegin(i) \in Nat
        BY <4>1, CellBegins
      <4>. QED
        BY <4>1, <4>2 DEF InCell
    <3>2. a - CellBegin(i) < n
      BY <1>3, <1>4, <1>5, <2>3, <3>1, PartHolds
    <3>3. PICK k \in Nat \ {0} : k = a - CellBegin(i) + 1
      BY <3>1
    <3>4. k \in 1..n
      BY <1>6, <3>1, <3>2, <3>3
    <3>5. k <= Len(disk[cell])
      <4>1. PICK p \in Nat : p = Len(disk[cell])
        BY <1>1, <1>3, FilesOf
      <4>2. a - CellBegin(i) < p
        BY <2>1, <2>3, <4>1 DEF Stores
      <4>. QED
        BY <3>1, <3>3, <4>1, <4>2
    <3>6. r[k] = <<a, flat[a]>>
      <4>1. disk[cell][k] = <<a, flat[a]>>
        BY <2>1, <2>3, <3>3 DEF Stores
      <4>. QED
        BY <1>7, <3>4, <3>5, <4>1
    <3>. QED
      BY <1>7, <1>8, <2>3, <3>2, <3>3, <3>6 DEF Stores
  <2>. QED
    BY <2>2, <2>3
<1>15. WholeInv'
  BY <1>1, <1>2, <1>10, <1>13, <1>14 DEF WholeInv
<1>16. \A i \in 1..cells : i \in Files /\ disk'[i] # NoFile
  <2>1. \A i \in 1..cells : i \in Files /\ disk[i] # NoFile
    BY <1>1, <1>3 DEF AllPresent, Exists, Files
  <2>. QED
    BY <1>7, <1>8, <2>1
<1>17. PresentInv'
  <2>1. cells \in 1..(Cells - 1) => disk'[cells + 1] = NoFile
    <3>1. cells \in 1..(Cells - 1) => cells + 1 \in Files /\ cells + 1 # cell
      BY <1>3 DEF Files
    <3>. QED
      BY <1>1, <1>8, <3>1 DEF PresentInv, Exists
  <2>. QED
    BY <1>10, <1>16, <2>1 DEF PresentInv, Exists
<1>18. SlimInv'
  <2>. SUFFICES ASSUME NEW i \in Files, i < Cells, disk'[i] # NoFile, Len(disk'[i]) > MaxPck
                PROVE  /\ \A k \in 1..i : disk'[k] # NoFile
                       /\ disk'[i + 1] = NoFile
                       /\ cells \in {0, i}
                       /\ step' # "finish"
    BY <1>10 DEF SlimInv, Exists
  <2>1. i # cell
    BY <1>3, <1>6, <1>7, <1>8
  <2>2. /\ cells \in {0, i} /\ disk[i + 1] = NoFile
    BY <1>1, <1>8, <2>1 DEF SlimInv, Exists
  <2>3. i = cells
    BY <1>3, <2>2
  <2>4. step' # "finish"
    BY <1>0, <2>1, <2>3
  <2>5. i + 1 \in Files /\ i + 1 # cell
    BY <1>3, <2>3 DEF Files
  <2>. QED
    BY <1>8, <1>16, <2>2, <2>3, <2>4, <2>5
<1>19. \A i \in 1..cells : i < cell => size'[i] = Len(disk'[i]) /\ size'[i] = Part(at, cells, i)
  <2>. SUFFICES ASSUME NEW i \in 1..cells, i < cell
                PROVE  size'[i] = Len(disk'[i]) /\ size'[i] = Part(at, cells, i)
    OBVIOUS
  <2>1. i \in 1..(cell - 1) /\ i # cell /\ i \in Files
    BY <1>3, <1>16
  <2>. QED
    BY <1>2, <1>8, <1>9, <2>1
<1>20. size'[cell] = Len(disk'[cell]) /\ size'[cell] = Part(at, cells, cell)
  BY <1>5, <1>7, <1>8, <1>9
<1>21. EndInv'
  <2>1. CASE cell = cells
    <3>1. step' = "finish" /\ cell' = 1
      BY <1>0, <2>1
    <3>2. \A i \in 1..cells : size'[i] = Len(disk'[i]) /\ size'[i] = Part(at, cells, i) /\ ~(i < 1)
      <4>. SUFFICES ASSUME NEW i \in 1..cells
                    PROVE  size'[i] = Len(disk'[i]) /\ size'[i] = Part(at, cells, i) /\ ~(i < 1)
        OBVIOUS
      <4>1. (i < cell \/ i = cell) /\ ~(i < 1)
        BY <1>3, <2>1
      <4>. QED
        BY <1>19, <1>20, <4>1
    <3>3. \A i \in 1..cells : size'[i] = Part(at', cells', i)
      BY <1>10, <3>2
    <3>. QED
      BY <1>2, <1>10, <1>16, <3>1, <3>2, <3>3 DEF EndInv, Exists, Part, CellOf, CellBegin
  <2>2. CASE cell # cells
    <3>1. step' = "cut" /\ cell' = cell + 1
      BY <1>0, <2>2
    <3>2. \A i \in 1..(cell' - 1) : size'[i] = Len(disk'[i]) /\ size'[i] = Part(at, cells, i)
      <4>. SUFFICES ASSUME NEW i \in 1..(cell' - 1)
                    PROVE  size'[i] = Len(disk'[i]) /\ size'[i] = Part(at, cells, i)
        OBVIOUS
      <4>1. (i < cell \/ i = cell) /\ i \in 1..cells
        BY <1>3, <3>1
      <4>. QED
        BY <1>19, <1>20, <4>1
    <3>3. /\ ~(step' = "finish") /\ promised' /\ head' = at' /\ head' > 0
          /\ \A i \in 1..(cell' - 1) : size'[i] = Len(disk'[i]) /\ size'[i] = Part(at', cells', i)
      BY <1>2, <1>10, <3>1, <3>2
    <3>. QED
      BY <3>1, <3>3 DEF EndInv, Part, CellOf, CellBegin
  <2>. QED
    BY <2>1, <2>2
<1>. QED
  BY <1>11, <1>12, <1>15, <1>17, <1>18, <1>21 DEF IInv

\* Once no writer is open only the archive matters.
LEMMA NoWriterIs ==
  ASSUME TypeInv, NoWriter, IsDisk(disk'), UNCHANGED <<archive, jobs, flat, promised>>,
         WholeInv', SlimInv'
  PROVE  IInv'
<1>1. /\ cells' = 0 /\ size' = <<>> /\ mapped' = <<>> /\ full' = 0
      /\ step' = "idle" /\ cell' = 0 /\ kind' = "none" /\ at' = 0 /\ index' = 0
      /\ pending' = flat /\ trouble' = "none"
  BY DEF NoWriter
<1>2. /\ head' = head /\ entry' = entry /\ jobs' = jobs /\ flat' = flat /\ promised' = promised
  BY DEF archive
<1>3. size' \in [1..cells' -> Nat] /\ mapped' \in [1..cells' -> Nat]
  <2>1. 1..0 = {} /\ <<>> \in [{} -> Nat]
    OBVIOUS
  <2>. QED
    BY <1>1, <2>1
<1>4. TypeInv'
  <2>1. 0 \in 0..Cells /\ 0 \in 0..MaxAddress /\ 0 \in 0..0
    BY CellsAssumption, SizesAssumption
  <2>. QED
    BY <1>1, <1>2, <1>3, <2>1 DEF TypeInv
<1>5. JobInv' /\ SizeInv' /\ MapInv' /\ PendingInv' /\ AtInv' /\ EndInv'
  BY <1>1 DEF JobInv, SizeInv, MapInv, PendingInv, AtInv, EndInv, Making, Writing
<1>6. PresentInv'
  BY <1>1, CellsAssumption DEF PresentInv
<1>. QED
  BY <1>4, <1>5, <1>6 DEF IInv

LEMMA CrashStep ==
  ASSUME IInv, Crash
  PROVE  IInv'
<1>1. NoWriter /\ UNCHANGED <<disk, archive, jobs, flat, promised>>
  BY DEF Crash
<1>2. disk' = disk /\ head' = head /\ entry' = entry /\ flat' = flat /\ promised' = promised
  BY <1>1 DEF archive
<1>3. cells' = 0 /\ step' = "idle"
  BY <1>1 DEF NoWriter
<1>4. WholeInv'
  BY <1>2 DEF IInv, WholeInv
<1>5. SlimInv'
  BY <1>2, <1>3 DEF IInv, SlimInv, Exists
<1>6. TypeInv /\ IsDisk(disk')
  BY <1>2 DEF IInv, TypeInv
<1>. QED
  BY <1>1, <1>4, <1>5, <1>6, NoWriterIs

LEMMA CloseStep ==
  ASSUME IInv, Close
  PROVE  IInv'
<1>0. /\ step \in {"close", "finish"}
      /\ disk' = [disk EXCEPT ![cell] = IF size[cell] = 0 THEN NoFile ELSE @]
      /\ IF cell = cells THEN NoWriter
         ELSE cell' = cell + 1 /\ UNCHANGED <<writer, step, kind, at, index, pending, trouble>>
      /\ UNCHANGED <<archive, jobs, flat, promised>>
  BY DEF Close
<1>1. TypeInv /\ PresentInv /\ SlimInv /\ WholeInv /\ SizeInv /\ EndInv /\ AtInv
  BY DEF IInv
<1>2. /\ cells \in Nat \ {0} /\ cells <= Cells /\ Cells \in Nat /\ cell \in 1..cells /\ cell \in Files
      /\ size \in [1..cells -> Nat] /\ IsDisk(disk) /\ head \in Nat
  <2>1. cells \in 0..Cells /\ ~(cells = 0) /\ (cells > 0 => cell \in 1..cells)
    BY <1>0, <1>1 DEF TypeInv
  <2>. QED
    BY <1>1, <2>1, CellsAssumption, SizesAssumption DEF TypeInv, Files
<1>3. /\ disk'[cell] = IF size[cell] = 0 THEN NoFile ELSE disk[cell]
      /\ \A i \in Files : i # cell => disk'[i] = disk[i]
  BY <1>0, <1>2 DEF IsDisk
<1>4. IsDisk(disk')
  <2>1. disk[cell] \in {NoFile} \cup Seq(Units)
    BY <1>2 DEF IsDisk
  <2>. QED
    BY <1>0, <1>2, <2>1 DEF IsDisk
<1>5. /\ head' = head /\ entry' = entry /\ jobs' = jobs /\ flat' = flat /\ promised' = promised
  BY <1>0 DEF archive
<1>6. ASSUME promised, head > 0, size[cell] = 0 PROVE head <= CellBegin(cell)
  <2>1. CellBegin(cell) \in Nat
    <3>1. cell \in Nat \ {0}
      BY <1>2
    <3>. QED
      BY <3>1, CellBegins
  <2>2. CASE step = "close"
    <3>1. ~(CellBegin(cell) < head)
      BY <1>1, <1>2, <1>6, <2>2 DEF SizeInv
    <3>. QED
      BY <1>2, <2>1, <3>1
  <2>3. CASE step = "finish"
    <3>1. head = at /\ size[cell] = Part(at, cells, cell)
      BY <1>1, <1>2, <2>3 DEF EndInv
    <3>2. ~(Part(head, cells, cell) > 0)
      BY <1>6, <3>1
    <3>3. ~(CellBegin(cell) < head)
      BY <1>2, <3>2, PartIs
    <3>. QED
      BY <1>2, <2>1, <3>3
  <2>. QED
    BY <1>0, <2>2, <2>3
<1>7. WholeInv'
  <2>1. SUFFICES ASSUME promised, head > 0
                 PROVE  Reaches(disk', head) /\ Keeps(disk', head, flat) /\ entry \in 1..head
    BY <1>5 DEF WholeInv
  <2>2. Reaches(disk, head) /\ Keeps(disk, head, flat) /\ entry \in 1..head
    BY <1>1, <2>1 DEF WholeInv
  <2>3. CellBegin(cell) \in Nat
    <3>1. cell \in Nat \ {0}
      BY <1>2
    <3>. QED
      BY <3>1, CellBegins
  <2>4. ASSUME NEW i \in Files, CellBegin(i) < head PROVE disk'[i] = disk[i]
    <3>1. i = cell => ~(size[cell] = 0)
      BY <1>2, <1>6, <2>1, <2>3, <2>4
    <3>. QED
      BY <1>3, <3>1
  <2>5. Reaches(disk', head)
    BY <2>2, <2>4 DEF Reaches
  <2>6. Keeps(disk', head, flat)
    <3>. SUFFICES ASSUME NEW i \in Files, NEW a \in Addresses, InCell(i, a), a < head, flat[a] # 0
                  PROVE  Stores(disk', i, a, flat[a])
      BY DEF Keeps
    <3>1. Stores(disk, i, a, flat[a])
      BY <2>2 DEF Keeps
    <3>2. CellBegin(i) < head
      <4>1. i \in Nat \ {0} /\ a \in Nat
        BY <1>2, SizesAssumption DEF Files, Addresses
      <4>2. CellBegin(i) \in Nat /\ CellBegin(i) <= a
        BY <4>1, CellBegins DEF InCell
      <4>. QED
        BY <1>2, <4>1, <4>2
    <3>. QED
      BY <2>4, <3>1, <3>2 DEF Stores
  <2>. QED
    BY <2>2, <2>5, <2>6
<1>8. SlimInv'
  <2>. SUFFICES ASSUME NEW i \in Files, i < Cells, disk'[i] # NoFile, Len(disk'[i]) > MaxPck
                PROVE  /\ \A k \in 1..i : disk'[k] # NoFile
                       /\ disk'[i + 1] = NoFile
                       /\ cells' \in {0, i}
                       /\ step' # "finish"
    BY DEF SlimInv, Exists
  <2>1. disk'[i] = disk[i]
    BY <1>3
  <2>2. /\ \A k \in 1..i : disk[k] # NoFile
        /\ disk[i + 1] = NoFile /\ cells \in {0, i} /\ step # "finish"
    BY <1>1, <2>1 DEF SlimInv, Exists
  <2>3. i = cells /\ step = "close"
    BY <1>0, <1>2, <2>2
  <2>4. size[cell] > 0
    BY <1>1, <1>2, <2>3 DEF SizeInv
  <2>5. disk' = disk
    <3>1. ~(size[cell] = 0)
      BY <2>4
    <3>. QED
      BY <1>0, <1>2, <3>1 DEF IsDisk
  <2>6. cells' \in {0, cells} /\ step' \in {"close", "idle"}
    BY <1>0, <2>3 DEF NoWriter, writer
  <2>. QED
    BY <2>2, <2>3, <2>5, <2>6
<1>9. CASE cell = cells
  BY <1>0, <1>1, <1>4, <1>7, <1>8, <1>9, NoWriterIs
<1>10. CASE cell # cells
  <2>1. /\ cell' = cell + 1 /\ cells' = cells /\ size' = size /\ mapped' = mapped /\ full' = full
        /\ step' = step /\ kind' = kind /\ at' = at /\ index' = index /\ pending' = pending
        /\ trouble' = trouble
    BY <1>0, <1>10 DEF writer
  <2>2. TypeInv'
    <3>1. cell' \in 1..cells /\ cell' \in 0..cells
      BY <1>2, <1>10, <2>1
    <3>. QED
      BY <1>1, <1>4, <1>5, <2>1, <3>1 DEF TypeInv
  <2>3. JobInv' /\ MapInv' /\ PendingInv' /\ AtInv'
    <3>1. step' \in {"close", "finish"} /\ trouble' # "refused"
      BY <1>0, <1>1, <2>1 DEF AtInv
    <3>. QED
      BY <3>1 DEF JobInv, MapInv, PendingInv, AtInv, Making, Writing
  <2>4. PresentInv'
    <3>1. cells \in 1..(Cells - 1) => disk'[cells + 1] = NoFile
      <4>1. cells \in 1..(Cells - 1) => cells + 1 \in Files /\ cells + 1 # cell
        BY <1>2 DEF Files
      <4>. QED
        BY <1>1, <1>3, <4>1 DEF PresentInv, Exists
    <3>2. ASSUME NEW i \in 1..cells, i >= cell' PROVE disk'[i] # NoFile
      <4>1. i \in Files /\ i >= cell /\ i # cell
        BY <1>2, <2>1, <3>2 DEF Files
      <4>2. disk[i] # NoFile
        BY <1>1, <4>1 DEF PresentInv, Exists
      <4>. QED
        BY <1>3, <4>1, <4>2
    <3>3. step' \in {"close", "finish"}
      BY <1>0, <2>1
    <3>. QED
      BY <2>1, <3>1, <3>2, <3>3 DEF PresentInv, Exists
  <2>5. SizeInv'
    BY <1>1, <1>5, <2>1 DEF SizeInv, CellBegin, Making, Writing
  <2>6. EndInv'
    <3>1. ~(step' = "cut")
      BY <1>0, <2>1
    <3>2. step = "finish" => promised' /\ head' = at' /\ head' > 0
      BY <1>1, <1>5, <2>1 DEF EndInv
    <3>3. ASSUME step = "finish", NEW i \in 1..cells
          PROVE  /\ size[i] = Part(at, cells, i)
                 /\ i >= cell + 1 \/ size[i] > 0 => Len(disk'[i]) = size[i] /\ disk'[i] # NoFile
                 /\ i < cell + 1 /\ size[i] = 0 => disk'[i] = NoFile
      <4>1. /\ size[i] = Part(at, cells, i)
            /\ i >= cell \/ size[i] > 0 => Len(disk[i]) = size[i] /\ disk[i] # NoFile
            /\ i < cell /\ size[i] = 0 => disk[i] = NoFile
        BY <1>1, <3>3 DEF EndInv, Exists
      <4>2. i \in Files /\ size[i] \in Nat
        BY <1>2 DEF Files
      <4>3. CASE i = cell
        BY <1>2, <1>3, <4>1, <4>2, <4>3
      <4>4. CASE i # cell
        <5>1. disk'[i] = disk[i]
          BY <1>3, <4>2, <4>4
        <5>2. (i >= cell + 1 => i >= cell) /\ (i < cell + 1 => i < cell)
          BY <1>2, <4>4
        <5>. QED
          BY <4>1, <5>1, <5>2
      <4>. QED
        BY <4>3, <4>4
    <3>. QED
      BY <2>1, <3>1, <3>2, <3>3 DEF EndInv, Exists, Part, CellOf, CellBegin
  <2>. QED
    BY <1>7, <1>8, <2>2, <2>3, <2>4, <2>5, <2>6 DEF IInv
<1>. QED
  BY <1>9, <1>10

(***************************************************************************)
(* The steps that begin a job.                                             *)
(***************************************************************************)
LEMMA AddFilesIs ==
  ASSUME ThreeFiles, NEW d, IsDisk(d), NEW n \in 1..Cells, AddFiles(d, n)
  PROVE  /\ disk' = d /\ cells' = n
         /\ size' \in [1..n -> Nat] /\ mapped' \in [1..n -> Nat] /\ full' \in Nat
         /\ full' = Total(size', n)
         /\ \A i \in 1..n : size'[i] = IF d[i] = NoFile THEN 0 ELSE Len(d[i])
<1>1. /\ disk' = d /\ cells' = n
      /\ size' = [i \in 1..n |-> IF d[i] = NoFile THEN 0 ELSE Len(d[i])]
      /\ mapped' = [i \in 1..n |-> 0] /\ full' = SumFunction(size')
  BY DEF AddFiles
<1>2. \A i \in 1..n : d[i] # NoFile => Len(d[i]) \in Nat
  <2>1. \A i \in 1..n : i \in Files
    BY CellsAssumption DEF Files
  <2>2. \A i \in 1..n : d[i] # NoFile => d[i] \in Seq(Units)
    BY <2>1 DEF IsDisk
  <2>. QED
    BY <2>2
<1> DEFINE q == [i \in 1..n |-> IF d[i] = NoFile THEN 0 ELSE Len(d[i])]
<1>3. q \in [1..n -> Nat] /\ \A i \in 1..n : q[i] = IF d[i] = NoFile THEN 0 ELSE Len(d[i])
  BY <1>2
<1>4. size' = q
  BY <1>1
<1>. HIDE DEF q
<1>5. n \in 0..3
  BY CellsAssumption DEF ThreeFiles
<1>6. SumFunction(q) = Total(q, n) /\ SumFunction(q) \in Nat
  BY <1>3, <1>5, SumOfAll
<1>7. mapped' \in [1..n -> Nat]
  BY <1>1
<1>. QED
  BY <1>1, <1>3, <1>4, <1>6, <1>7

LEMMA TotalGrows ==
  ASSUME NEW m \in 0..3, NEW n \in 0..m, NEW f \in [1..m -> Nat]
  PROVE  Total(f, n) <= Total(f, m)
<1>1. (m >= 1 => f[1] \in Nat) /\ (m >= 2 => f[2] \in Nat) /\ (m >= 3 => f[3] \in Nat)
  OBVIOUS
<1>. QED
  BY <1>1 DEF Total

\* A job begins with files that are there, as much of them as the archive needs, and none
\* beyond its cell.
LEMMA StartStep ==
  ASSUME ThreeFiles, IInv, jobs < MaxJobs, NEW d, IsDisk(d), NEW n \in 1..Cells, AddFiles(d, n),
         NEW k \in {"new", "append", "rename"}, NEW a \in 1..MaxAddress, Start(k, "map", a),
         k # "rename" => n = Cells,
         head' \in 0..MaxAddress, entry' \in 0..MaxAddress, flat' \in [Addresses -> 0..MaxJobs],
         pending' \in [Addresses -> 0..MaxJobs], promised' \in BOOLEAN, WholeInv',
         \A i \in Files : i < Cells /\ d[i] # NoFile => ~(Len(d[i]) > MaxPck),
         \A i \in 1..n : d[i] # NoFile,
         n < Cells => d[n + 1] = NoFile /\ a <= CellBegin(n + 1),
         promised' /\ head' > 0 => \A i \in Files : CellBegin(i) < head' => i <= n /\ Len(d[i]) > 0,
         n < Cells => \A i \in 1..n : Len(d[i]) > 0,
         a <= full' + 1, Keeps(d, a, pending'), k = "new" => head' = 0, k = "append" => head' <= a
  PROVE  IInv'
<1>0. Cells \in Nat \ {0} /\ n \in Nat \ {0} /\ n <= Cells /\ a \in Nat \ {0} /\ MaxAddress \in Nat
  BY CellsAssumption, SizesAssumption
<1>1. /\ disk' = d /\ cells' = n
      /\ size' \in [1..n -> Nat] /\ mapped' \in [1..n -> Nat] /\ full' \in Nat
      /\ \A i \in 1..n : size'[i] = Len(d[i])
  BY AddFilesIs
<1>2. /\ step' = "map" /\ cell' = 1 /\ kind' = k /\ at' = a /\ index' = 0
      /\ jobs' = jobs + 1 /\ trouble' = "none"
  BY DEF Start
<1>3. jobs' \in 1..MaxJobs /\ jobs' \in 0..MaxJobs
  <2>1. jobs \in 0..MaxJobs
    BY DEF IInv, TypeInv
  <2>. QED
    BY <1>2, <2>1, SizesAssumption
<1>4. TypeInv'
  <2>1. n \in 0..Cells /\ 1 \in 0..n /\ 1 \in 1..n /\ a \in 0..MaxAddress /\ 0 \in 0..MaxAddress /\ ~(n = 0)
    BY <1>0
  <2>. QED
    BY <1>1, <1>2, <1>3, <2>1 DEF TypeInv
<1>5. JobInv'
  BY <1>1, <1>2, <1>3 DEF JobInv
<1>6. SlimInv'
  BY <1>1 DEF SlimInv, Exists
<1>7. PresentInv'
  <2>1. n \in 1..(Cells - 1) => n < Cells
    BY <1>0
  <2>. QED
    BY <1>1, <2>1 DEF PresentInv, Exists
<1>8. SizeInv'
  <2>1. ASSUME promised', head' > 0, NEW i \in Files, CellBegin(i) < head'
        PROVE  i <= n /\ size'[i] > 0
    <3>1. i <= n /\ Len(d[i]) > 0
      BY <2>1
    <3>2. i \in 1..n
      BY <1>0, <3>1 DEF Files
    <3>. QED
      BY <1>1, <3>1, <3>2
  <2>2. ASSUME n < Cells PROVE \A i \in 1..n : size'[i] > 0
    BY <1>1, <2>2
  <2>. QED
    BY <1>1, <2>1, <2>2 DEF SizeInv, CellBegin
<1>9. MapInv' /\ EndInv'
  BY <1>2 DEF MapInv, EndInv, Writing
<1>10. AtInv'
  <2>1. a >= 1
    BY <1>0
  <2>. QED
    BY <1>1, <1>2, <2>1 DEF AtInv, CellBegin, Writing
<1>11. PendingInv'
  BY <1>1, <1>2 DEF PendingInv
<1>. QED
  BY <1>4, <1>5, <1>6, <1>7, <1>8, <1>9, <1>10, <1>11 DEF IInv

LEMMA NewStep ==
  ASSUME ThreeFiles, IInv, New
  PROVE  IInv'
<1> DEFINE d == [i \in Files |-> <<>>]
<1>1. /\ cells = 0 /\ jobs < MaxJobs /\ AddFiles(d, Cells) /\ Start("new", "map", 1)
      /\ head' = 0 /\ entry' = 0 /\ promised' = FALSE
      /\ flat' = [a \in Addresses |-> 0] /\ pending' = flat'
  BY DEF New
<1>2. IsDisk(d) /\ \A i \in Files : d[i] = <<>>
  <2>1. <<>> \in Seq(Units)
    OBVIOUS
  <2>. QED
    BY <2>1 DEF IsDisk
<1>. HIDE DEF d
<1>3. <<>> # NoFile /\ Len(<<>>) = 0
  <2>1. Len(<<>>) = 0
    OBVIOUS
  <2>2. Len(NoFile) = 1
    BY NoFileIsNone
  <2>. QED
    BY <2>1, <2>2
<1>4. Cells \in Nat \ {0} /\ Cells \in 1..Cells /\ 1 \in 1..MaxAddress /\ 0 \in 0..MaxAddress
        /\ MaxPck \in Nat /\ 0 \in 0..MaxJobs
  BY CellsAssumption, SizesAssumption
<1>5. flat' \in [Addresses -> 0..MaxJobs] /\ pending' \in [Addresses -> 0..MaxJobs]
  BY <1>1, <1>4
<1>6. WholeInv'
  BY <1>1 DEF WholeInv
<1>7. \A i \in Files : d[i] # NoFile /\ ~(Len(d[i]) > MaxPck)
  BY <1>2, <1>3, <1>4
<1>8. \A i \in 1..Cells : d[i] # NoFile
  BY <1>7 DEF Files
<1>9. Keeps(d, 1, pending')
  BY <1>1 DEF Keeps
<1>10. 1 <= full' + 1
  <2>1. full' \in Nat
    BY <1>1, <1>2, <1>4, AddFilesIs
  <2>2. PICK q \in Nat : q = full'
    BY <2>1
  <2>3. 1 <= q + 1
    OBVIOUS
  <2>. QED
    BY <2>2, <2>3
<1>11. ~(Cells < Cells) /\ head' \in 0..MaxAddress /\ entry' \in 0..MaxAddress
  BY <1>1, <1>4
<1>12. \A i \in Files : i < Cells /\ d[i] # NoFile => ~(Len(d[i]) > MaxPck)
  BY <1>7
<1>. QED
  BY <1>1, <1>2, <1>4, <1>5, <1>6, <1>8, <1>9, <1>10, <1>11, <1>12, StartStep

\* An archive that mounts: its last file ends with it, none goes beyond its cell.
LEMMA MountedFits ==
  ASSUME ThreeFiles, IInv, Mounted
  PROVE  \E n \in 1..Cells :
           /\ LastFile(n) /\ head \in 1..MaxAddress
           /\ Reaches(disk, head) /\ Keeps(disk, head, flat) /\ entry \in 1..head
           /\ \A i \in Files : i < Cells /\ Exists(i) => ~(Len(disk[i]) > MaxPck)
<1>1. TypeInv /\ IsDisk(disk) /\ head > 0 /\ promised /\ head \in 0..MaxAddress
  BY DEF IInv, TypeInv, Mounted
<1>2. Reaches(disk, head) /\ Keeps(disk, head, flat) /\ entry \in 1..head /\ SlimInv
  BY <1>1 DEF IInv, WholeInv
<1>3. PICK n \in Files : LastFile(n)
  BY <1>1, <1>2, MountedIs
<1>4. n \in 1..Cells /\ n \in Nat \ {0} /\ Cells \in Nat /\ MaxPck \in Nat /\ head \in Nat \ {0}
        /\ head \in 1..MaxAddress
  BY <1>1, <1>3, CellsAssumption, SizesAssumption DEF Files
<1>5. ASSUME NEW i \in Files, i < Cells, Exists(i), Len(disk[i]) > MaxPck PROVE FALSE
  <2>1. (\A k \in 1..i : Exists(k)) /\ ~Exists(i + 1)
    BY <1>2, <1>5 DEF SlimInv
  <2>2. i \in Opened /\ i + 1 \notin Opened
    <3>1. i \in Opened
      BY <2>1 DEF Opened
    <3>2. i + 1 \in 1..(i + 1)
      BY <1>4 DEF Files
    <3>. QED
      BY <2>1, <3>1, <3>2 DEF Opened
  <2>3. i = n
    <3>1. Opened = 1..n
      BY <1>3 DEF LastFile
    <3>. QED
      BY <1>4, <2>2, <3>1 DEF Files
  <2>4. /\ Len(disk[n]) = head - CellBegin(n) /\ head <= CellBegin(n + 1)
    BY <1>3, <1>5, <2>3 DEF LastFile
  <2>5. CellBegin(n) \in Nat /\ CellBegin(n + 1) = CellBegin(n) + MaxPck
    BY <1>4, CellBegins
  <2>6. PICK p \in Nat : p = Len(disk[n])
    <3>1. n \in 1..n
      BY <1>4
    <3>. QED
      BY <1>3, <3>1 DEF LastFile
  <2>. QED
    BY <1>4, <1>5, <2>3, <2>4, <2>5, <2>6
<1>. QED
  BY <1>2, <1>3, <1>4, <1>5

LEMMA UpdateStep ==
  ASSUME ThreeFiles, IInv, Update
  PROVE  IInv'
<1> DEFINE d == [i \in Files |-> IF Exists(i) THEN disk[i] ELSE <<>>]
<1>1. /\ cells = 0 /\ jobs < MaxJobs /\ Mounted /\ AddFiles(d, Cells) /\ Start("append", "map", head)
      /\ pending' = flat /\ UNCHANGED <<archive, flat, promised>>
  BY DEF Update
<1>2. PICK n \in 1..Cells :
           /\ LastFile(n) /\ head \in 1..MaxAddress
           /\ Reaches(disk, head) /\ Keeps(disk, head, flat) /\ entry \in 1..head
           /\ \A i \in Files : i < Cells /\ Exists(i) => ~(Len(disk[i]) > MaxPck)
  BY <1>1, MountedFits
<1>3. TypeInv /\ IsDisk(disk)
  BY DEF IInv, TypeInv
<1>4. <<>> # NoFile /\ Len(<<>>) = 0 /\ <<>> \in Seq(Units)
  <2>1. Len(<<>>) = 0 /\ <<>> \in Seq(Units)
    OBVIOUS
  <2>2. Len(NoFile) = 1
    BY NoFileIsNone
  <2>. QED
    BY <2>1, <2>2
<1>5. /\ IsDisk(d) /\ \A i \in Files : d[i] = IF Exists(i) THEN disk[i] ELSE <<>>
  BY <1>3, <1>4 DEF IsDisk
<1>6. \A i \in Files : d[i] # NoFile
  BY <1>4, <1>5 DEF Exists
<1>. HIDE DEF d
<1>7. Cells \in Nat \ {0} /\ Cells \in 1..Cells /\ n \in Nat /\ n <= Cells /\ MaxPck \in Nat
        /\ Cells \in 0..3 /\ n \in 0..Cells
  BY CellsAssumption DEF ThreeFiles
<1>8. head' = head /\ entry' = entry /\ flat' = flat /\ promised' = promised /\ pending' = flat
  BY <1>1 DEF archive
<1>9. \A i \in Files : CellBegin(i) < head => i <= n /\ Exists(i) /\ d[i] = disk[i] /\ Len(d[i]) > 0
  <2>. SUFFICES ASSUME NEW i \in Files, CellBegin(i) < head
                PROVE  i <= n /\ Exists(i) /\ d[i] = disk[i] /\ Len(d[i]) > 0
    OBVIOUS
  <2>1. i <= n
    BY <1>2 DEF LastFile
  <2>2. i \in 1..n
    BY <1>7, <2>1 DEF Files
  <2>3. Exists(i) /\ Len(disk[i]) \in Nat \ {0}
    BY <1>2, <2>2 DEF LastFile
  <2>. QED
    BY <1>5, <2>1, <2>3
<1>10. Reaches(d, head)
  BY <1>2, <1>9 DEF Reaches
<1>11. Keeps(d, head, flat)
  <2>. SUFFICES ASSUME NEW i \in Files, NEW a \in Addresses, InCell(i, a), a < head, flat[a] # 0
                PROVE  Stores(d, i, a, flat[a])
    BY DEF Keeps
  <2>1. Stores(disk, i, a, flat[a])
    BY <1>2 DEF Keeps
  <2>2. CellBegin(i) < head
    <3>1. i \in Nat \ {0} /\ a \in Nat /\ head \in Nat
      BY <1>2, SizesAssumption, CellsAssumption DEF Files, Addresses
    <3>2. CellBegin(i) \in Nat /\ CellBegin(i) <= a
      BY <3>1, CellBegins DEF InCell
    <3>. QED
      BY <3>1, <3>2
  <2>. QED
    BY <1>9, <2>1, <2>2 DEF Stores
<1>12. WholeInv'
  <2>1. disk' = d
    BY <1>1 DEF AddFiles
  <2>. QED
    BY <1>2, <1>8, <1>10, <1>11, <2>1 DEF WholeInv
<1>13. \A i \in Files : i < Cells /\ d[i] # NoFile => ~(Len(d[i]) > MaxPck)
  BY <1>2, <1>4, <1>5, <1>7
<1>14. head <= full' + 1
  <2>1. /\ size' \in [1..Cells -> Nat] /\ full' = Total(size', Cells) /\ full' \in Nat
        /\ \A i \in 1..Cells : size'[i] = Len(d[i])
    <3>1. \A i \in 1..Cells : i \in Files
      BY DEF Files
    <3>2. /\ size' \in [1..Cells -> Nat] /\ full' = Total(size', Cells) /\ full' \in Nat
          /\ \A i \in 1..Cells : size'[i] = IF d[i] = NoFile THEN 0 ELSE Len(d[i])
      BY <1>1, <1>5, <1>7, AddFilesIs
    <3>. QED
      BY <1>6, <3>1, <3>2
  <2>2. PICK q \in [1..Cells -> Nat] : q = size'
    BY <2>1
  <2>3. \A i \in 1..Cells : q[i] = Sizes[i]
    <3>1. \A i \in 1..Cells : i \in Files
      BY DEF Files
    <3>. QED
      BY <1>4, <1>5, <2>1, <2>2, <3>1 DEF Sizes, FileSize
  <2>4. Total(q, n) = Total(Sizes, n)
    <3>1. (n >= 1 => q[1] = Sizes[1]) /\ (n >= 2 => q[2] = Sizes[2]) /\ (n >= 3 => q[3] = Sizes[3])
      BY <1>7, <2>3
    <3>. QED
      BY <3>1 DEF Total
  <2>5. Total(q, n) <= Total(q, Cells)
    BY <1>7, TotalGrows
  <2>6. Total(q, n) = head
    BY <1>2, <2>4 DEF LastFile
  <2>7. PICK p \in Nat : p = full'
    BY <2>1
  <2>8. head <= p /\ head \in Nat
    BY <1>2, <2>1, <2>2, <2>5, <2>6, <2>7, SizesAssumption
  <2>9. head <= p + 1
    BY <2>8
  <2>. QED
    BY <2>7, <2>9
<1>15. /\ head' \in 0..MaxAddress /\ entry' \in 0..MaxAddress /\ flat' \in [Addresses -> 0..MaxJobs]
       /\ pending' \in [Addresses -> 0..MaxJobs] /\ promised' \in BOOLEAN
  BY <1>3, <1>8 DEF TypeInv
<1>16. promised' /\ head' > 0 => \A i \in Files : CellBegin(i) < head' => i <= Cells /\ Len(d[i]) > 0
  BY <1>8, <1>9 DEF Files
<1>17. \A i \in 1..Cells : d[i] # NoFile
  BY <1>6 DEF Files
<1>18. ~(Cells < Cells) /\ Keeps(d, head, pending') /\ head' <= head
  BY <1>2, <1>7, <1>8, <1>11, SizesAssumption
<1>. QED
  BY <1>1, <1>2, <1>5, <1>7, <1>12, <1>13, <1>14, <1>15, <1>16, <1>17, <1>18, StartStep

LEMMA RenameStep ==
  ASSUME ThreeFiles, IInv, Rename
  PROVE  IInv'
<1>1. /\ cells = 0 /\ jobs < MaxJobs /\ Mounted /\ AddFiles(disk, Cardinality(Opened))
      /\ Start("rename", "map", entry)
      /\ pending' = flat /\ UNCHANGED <<archive, flat, promised>>
  BY DEF Rename
<1>2. PICK n \in 1..Cells :
           /\ LastFile(n) /\ head \in 1..MaxAddress
           /\ Reaches(disk, head) /\ Keeps(disk, head, flat) /\ entry \in 1..head
           /\ \A i \in Files : i < Cells /\ Exists(i) => ~(Len(disk[i]) > MaxPck)
  BY <1>1, MountedFits
<1>3. TypeInv /\ IsDisk(disk)
  BY DEF IInv, TypeInv
<1>4. /\ AddFiles(disk, n) /\ \A i \in 1..n : Exists(i) /\ Len(disk[i]) \in Nat \ {0}
      /\ n < Cells => ~Exists(n + 1) /\ head <= CellBegin(n + 1)
      /\ \A i \in Files : CellBegin(i) < head <=> i <= n
      /\ Total(Sizes, n) = head
  BY <1>1, <1>2 DEF LastFile
<1>5. Cells \in Nat \ {0} /\ n \in Nat \ {0} /\ n <= Cells /\ n \in 0..3 /\ head \in Nat /\ entry \in Nat
        /\ entry <= head /\ entry \in 1..MaxAddress
  BY <1>2, CellsAssumption, SizesAssumption DEF ThreeFiles
<1>6. head' = head /\ entry' = entry /\ flat' = flat /\ promised' = promised /\ pending' = flat
        /\ disk' = disk
  BY <1>1 DEF archive, AddFiles
<1>7. WholeInv'
  BY <1>2, <1>6 DEF WholeInv
<1>8. /\ head' \in 0..MaxAddress /\ entry' \in 0..MaxAddress /\ flat' \in [Addresses -> 0..MaxJobs]
      /\ pending' \in [Addresses -> 0..MaxJobs] /\ promised' \in BOOLEAN
  BY <1>3, <1>6 DEF TypeInv
<1>9. n < Cells => disk[n + 1] = NoFile /\ entry <= CellBegin(n + 1)
  <2>1. CellBegin(n + 1) \in Nat
    <3>1. n + 1 \in Nat \ {0}
      BY <1>5
    <3>. QED
      BY <3>1, CellBegins
  <2>. QED
    BY <1>4, <1>5, <2>1 DEF Exists
<1>10. \A i \in Files : CellBegin(i) < head => i <= n /\ Len(disk[i]) > 0
  <2>1. \A i \in Files : i <= n => i \in 1..n
    BY <1>5 DEF Files
  <2>. QED
    BY <1>4, <2>1
<1>11. entry <= full' + 1
  <2>1. /\ full' = Total(size', n) /\ \A i \in 1..n : size'[i] = Len(disk[i])
    BY <1>3, <1>4, AddFilesIs DEF Exists
  <2>2. \A i \in 1..n : size'[i] = Sizes[i]
    <3>1. \A i \in 1..n : i \in Files
      BY <1>5 DEF Files
    <3>. QED
      BY <1>4, <2>1, <3>1 DEF Sizes, FileSize
  <2>3. Total(size', n) = Total(Sizes, n)
    <3>1. (n >= 1 => size'[1] = Sizes[1]) /\ (n >= 2 => size'[2] = Sizes[2]) /\ (n >= 3 => size'[3] = Sizes[3])
      BY <1>5, <2>2
    <3>. QED
      BY <3>1 DEF Total
  <2>4. full' = head
    BY <1>4, <2>1, <2>3
  <2>5. entry <= head + 1
    BY <1>5
  <2>. QED
    BY <2>4, <2>5
<1>12. Keeps(disk, entry, pending')
  <2>1. \A b \in Addresses : b < entry => b < head
    BY <1>5, SizesAssumption DEF Addresses
  <2>. QED
    BY <1>2, <1>6, <2>1 DEF Keeps
<1>13. \A i \in Files : i < Cells /\ disk[i] # NoFile => ~(Len(disk[i]) > MaxPck)
  BY <1>2 DEF Exists
<1>14. \A i \in 1..n : disk[i] # NoFile /\ Len(disk[i]) > 0
  BY <1>4 DEF Exists
<1>. QED
  BY <1>1, <1>3, <1>4, <1>5, <1>6, <1>7, <1>8, <1>9, <1>10, <1>11, <1>12, <1>13, <1>14, StartStep

LEMMA SetAdditionalInfoStep ==
  ASSUME ThreeFiles, IInv, SetAdditionalInfo
  PROVE  IInv'
<1>1. cells = 0 /\ jobs < MaxJobs /\ Mounted /\ UNCHANGED <<archive, promised>>
        /\ Start("comment", "close", head)
        /\ flat' = [a \in Addresses |-> IF head - TailSize <= a /\ a < head THEN jobs + 1 ELSE flat[a]]
        /\ pending' = flat'
  BY DEF SetAdditionalInfo
<1>2. PICK n \in 1..Cells :
           /\ LastFile(n) /\ head \in 1..MaxAddress
           /\ Reaches(disk, head) /\ Keeps(disk, head, flat) /\ entry \in 1..head
           /\ \A i \in Files : i < Cells /\ Exists(i) => ~(Len(disk[i]) > MaxPck)
  BY <1>1, MountedFits
<1>3. TypeInv /\ IsDisk(disk) /\ jobs \in 0..MaxJobs /\ flat \in [Addresses -> 0..MaxJobs]
  BY DEF IInv, TypeInv
<1>4. /\ \A i \in 1..n : Exists(i) /\ Len(disk[i]) \in Nat \ {0}
      /\ n < Cells => ~Exists(n + 1) /\ head <= CellBegin(n + 1)
      /\ \A i \in Files : CellBegin(i) < head <=> i <= n
      /\ CellBegin(n) < head /\ Len(disk[n]) = head - CellBegin(n)
      /\ CellBegin(n) <= head - TailSize
  BY <1>2 DEF LastFile
<1>5. /\ Cells \in Nat \ {0} /\ n \in Nat \ {0} /\ n <= Cells /\ n \in Files /\ head \in Nat \ {0}
      /\ TailSize \in Nat \ {0} /\ CellBegin(n) \in Nat /\ CellBegin(n + 1) = CellBegin(n) + MaxPck
      /\ MaxPck \in Nat \ {0} /\ jobs + 1 \in 1..MaxJobs /\ Addresses \subseteq Nat
      /\ head <= MaxAddress /\ MaxAddress \in Nat
  <2>1. n \in Nat \ {0} /\ n <= Cells /\ n \in Files /\ Cells \in Nat \ {0}
    BY CellsAssumption DEF Files
  <2>2. CellBegin(n) \in Nat /\ CellBegin(n + 1) = CellBegin(n) + MaxPck
    BY <2>1, CellBegins
  <2>3. jobs + 1 \in 1..MaxJobs
    BY <1>1, <1>3, SizesAssumption
  <2>. QED
    BY <1>2, <2>1, <2>2, <2>3, CellsAssumption, SizesAssumption DEF Addresses
<1> DEFINE p == head - TailSize
           written(c, f) == [k \in 1..Len(Grown(f, p - CellBegin(c) + TailSize)) |->
                               LET b == CellBegin(c) + k - 1
                               IN IF p <= b /\ b < p + TailSize THEN <<b, jobs + 1>> ELSE f[k]]
           t == [k \in 1..Len(disk[n]) |->
                   IF head - TailSize <= CellBegin(n) + k - 1 THEN <<CellBegin(n) + k - 1, jobs + 1>>
                   ELSE disk[n][k]]
           d == [disk EXCEPT ![n] = t]
<1>6. p \in Nat /\ p + TailSize = head /\ p < head /\ CellBegin(n) <= p
  BY <1>4, <1>5
<1>7. n = CellOf(p, n)
  <2>1. n \in 1..n
    BY <1>5
  <2>. QED
    BY <1>5, <1>6, <2>1, CellUnique
<1>8. IsFile(disk[n]) /\ Len(disk[n]) \in Nat /\ disk[n] # NoFile
  BY <1>3, <1>4, <1>5, SizesType DEF Exists
<1>9. written(n, disk[n]) = t
  <2>1. p - CellBegin(n) + TailSize = Len(disk[n])
    BY <1>4, <1>5
  <2>2. Grown(disk[n], p - CellBegin(n) + TailSize) = disk[n]
    BY <1>8, <2>1 DEF Grown
  <2>3. \A k \in 1..Len(disk[n]) : CellBegin(n) + k - 1 < p + TailSize
    <3>1. PICK q \in Nat : q = Len(disk[n])
      BY <1>8
    <3>2. \A k \in 1..q : CellBegin(n) + k - 1 < p + TailSize
      BY <1>4, <1>5, <1>6, <3>1
    <3>. QED
      BY <3>1, <3>2
  <2>. QED
    BY <2>2, <2>3
<1>10. AddFiles(d, n)
  <2>1. Cardinality(Opened) = n
    BY <1>2 DEF LastFile
  <2>2. LET m == Cardinality(Opened)
            c == IF p >= m * MaxPck THEN m ELSE p \div MaxPck + 1
        IN AddFiles([disk EXCEPT ![c] = written(c, @)], m)
    BY DEF SetAdditionalInfo
  <2>3. LET c == CellOf(p, n)
        IN AddFiles([disk EXCEPT ![c] = written(c, @)], n)
    BY <2>1, <2>2 DEF CellOf
  <2>. HIDE DEF written, t
  <2>4. AddFiles([disk EXCEPT ![n] = written(n, @)], n)
    BY <1>7, <2>3
  <2>. QED
    BY <1>9, <2>4
<1>. HIDE DEF p, written
<1>11. IsFile(t) /\ Len(t) = Len(disk[n]) /\ t # NoFile
  <2>1. ASSUME NEW k \in 1..Len(disk[n]) PROVE t[k] \in Units
    <3>1. k \in Nat \ {0} /\ CellBegin(n) + k - 1 < head
      <4>1. PICK q \in Nat : q = Len(disk[n])
        BY <1>8
      <4>. QED
        BY <1>4, <1>5, <4>1
    <3>2. CASE head - TailSize <= CellBegin(n) + k - 1
      <4>1. CellBegin(n) + k - 1 \in Addresses
        BY <1>5, <3>1 DEF Addresses
      <4>2. <<CellBegin(n) + k - 1, jobs + 1>> \in Units
        BY <1>5, <4>1 DEF Units
      <4>. QED
        BY <3>2, <4>2
    <3>3. CASE ~(head - TailSize <= CellBegin(n) + k - 1)
      BY <1>8, <3>3 DEF IsFile
    <3>. QED
      BY <3>2, <3>3
  <2> DEFINE m == Len(disk[n])
  <2>2. m \in Nat /\ t = [k \in 1..m |-> t[k]] /\ \A k \in 1..m : t[k] \in Units
    BY <1>8, <2>1
  <2>. HIDE DEF t, m
  <2>3. t \in Seq(Units) /\ Len(t) = m
    BY <2>2
  <2>4. IsFile(t) /\ Len(t) = Len(disk[n])
    BY <2>3 DEF m, IsFile
  <2>. QED
    BY <2>4, NoFileIsNone
<1>12. \A k \in 1..Len(disk[n]) :
         t[k] = IF head - TailSize <= CellBegin(n) + k - 1 THEN <<CellBegin(n) + k - 1, jobs + 1>>
                ELSE disk[n][k]
  OBVIOUS
<1>. HIDE DEF t
<1>13. /\ IsDisk(d) /\ d[n] = t /\ (\A i \in Files : i # n => d[i] = disk[i])
       /\ \A i \in Files : Len(d[i]) = Len(disk[i])
       /\ \A i \in Files : d[i] = NoFile <=> disk[i] = NoFile
  <2>1. d \in [Files -> {NoFile} \cup Seq(Units)] /\ d[n] = t /\ (\A i \in Files : i # n => d[i] = disk[i])
    BY <1>3, <1>5, <1>11 DEF IsDisk, IsFile
  <2>. HIDE DEF d
  <2>2. \A i \in Files : Len(d[i]) = Len(disk[i])
    BY <1>11, <2>1
  <2>3. \A i \in Files : d[i] = NoFile <=> disk[i] = NoFile
    BY <1>8, <1>11, <2>1
  <2>. QED
    BY <2>1, <2>2, <2>3 DEF IsDisk
<1>. HIDE DEF d
<1>14. /\ disk' = d /\ cells' = n
       /\ size' \in [1..n -> Nat] /\ mapped' \in [1..n -> Nat] /\ full' \in Nat
       /\ \A i \in 1..n : size'[i] = Len(disk[i]) /\ size'[i] > 0 /\ d[i] # NoFile /\ i \in Files
  <2>1. /\ disk' = d /\ cells' = n
        /\ size' \in [1..n -> Nat] /\ mapped' \in [1..n -> Nat] /\ full' \in Nat
        /\ \A i \in 1..n : size'[i] = IF d[i] = NoFile THEN 0 ELSE Len(d[i])
    BY <1>10, <1>13, AddFilesIs
  <2>2. \A i \in 1..n : i \in Files /\ disk[i] # NoFile /\ Len(disk[i]) > 0
    BY <1>4, <1>5 DEF Files, Exists
  <2>. QED
    BY <1>13, <2>1, <2>2
<1>15. /\ step' = "close" /\ cell' = 1 /\ kind' = "comment" /\ at' = head /\ index' = 0
       /\ jobs' = jobs + 1 /\ trouble' = "none" /\ head' = head /\ entry' = entry
       /\ promised' = promised
  BY <1>1 DEF Start, archive
<1>16. /\ flat' \in [Addresses -> 0..MaxJobs] /\ pending' \in [Addresses -> 0..MaxJobs]
       /\ \A a \in Addresses : flat'[a] = IF head - TailSize <= a /\ a < head THEN jobs + 1 ELSE flat[a]
  BY <1>1, <1>3, <1>5
<1>17. TypeInv'
  <2>1. /\ n \in 0..Cells /\ 1 \in 1..n /\ 1 \in 0..n /\ ~(n = 0) /\ head \in 0..MaxAddress
        /\ 0 \in 0..MaxAddress /\ jobs + 1 \in 0..MaxJobs
    BY <1>5
  <2>. QED
    BY <1>3, <1>13, <1>14, <1>15, <1>16, <2>1 DEF TypeInv
<1>18. Reaches(d, head)
  BY <1>2, <1>13 DEF Reaches
<1>19. Keeps(d, head, flat')
  <2>. SUFFICES ASSUME NEW i \in Files, NEW a \in Addresses, InCell(i, a), a < head, flat'[a] # 0
                PROVE  Stores(d, i, a, flat'[a])
    BY DEF Keeps
  <2>1. i \in Nat \ {0} /\ i <= Cells /\ a \in Nat
    BY <1>5 DEF Files
  <2>2. CellBegin(i) \in Nat /\ CellBegin(i) <= a
    BY <2>1, CellBegins DEF InCell
  <2>3. i <= n
    <3>1. CellBegin(i) < head
      BY <1>5, <2>1, <2>2
    <3>. QED
      BY <1>4, <3>1
  <2>4. CASE head - TailSize <= a
    <3>1. flat'[a] = jobs + 1
      BY <1>16, <2>4
    <3>2. i = n
      <4>1. SUFFICES ASSUME i < n PROVE FALSE
        BY <1>5, <2>1, <2>3
      <4>2. CellBegin(i) + MaxPck <= CellBegin(n) /\ CellBegin(i + 1) = CellBegin(i) + MaxPck
        BY <1>5, <2>1, <4>1, CellBegins
      <4>3. a < CellBegin(i + 1)
        BY <1>5, <4>1 DEF InCell
      <4>. QED
        BY <1>4, <1>5, <2>1, <2>2, <2>4, <4>2, <4>3
    <3>3. PICK k \in Nat \ {0} : k = a - CellBegin(i) + 1
      BY <2>1, <2>2
    <3>4. PICK q \in Nat : q = Len(disk[n])
      BY <1>8
    <3>5. k \in 1..q /\ CellBegin(n) + k - 1 = a /\ a - CellBegin(i) < q
      BY <1>4, <1>5, <2>1, <2>2, <3>2, <3>3, <3>4
    <3>6. t[k] = <<a, jobs + 1>>
      BY <1>12, <2>4, <3>4, <3>5
    <3>. QED
      BY <1>11, <1>13, <3>1, <3>2, <3>3, <3>4, <3>5, <3>6 DEF Stores
  <2>5. CASE ~(head - TailSize <= a)
    <3>1. flat'[a] = flat[a]
      BY <1>16, <2>5
    <3>2. Stores(disk, i, a, flat[a])
      BY <1>2, <3>1 DEF Keeps
    <3>3. CASE i # n
      BY <1>13, <3>1, <3>2, <3>3 DEF Stores
    <3>4. CASE i = n
      <4>1. PICK k \in Nat \ {0} : k = a - CellBegin(i) + 1
        BY <2>1, <2>2
      <4>2. PICK q \in Nat : q = Len(disk[n])
        BY <1>8
      <4>3. a - CellBegin(i) < q
        BY <3>2, <3>4, <4>2 DEF Stores
      <4>4. k \in 1..q /\ CellBegin(n) + k - 1 = a
        BY <1>5, <2>1, <2>2, <3>4, <4>1, <4>3
      <4>5. t[k] = disk[n][k]
        BY <1>12, <2>5, <4>2, <4>4
      <4>6. disk[n][k] = <<a, flat[a]>>
        BY <3>2, <3>4, <4>1 DEF Stores
      <4>. QED
        BY <1>11, <1>13, <3>1, <3>4, <4>1, <4>2, <4>3, <4>5, <4>6 DEF Stores
    <3>. QED
      BY <3>3, <3>4
  <2>. QED
    BY <2>4, <2>5
<1>20. WholeInv'
  BY <1>2, <1>14, <1>15, <1>18, <1>19 DEF WholeInv
<1>21. SlimInv'
  BY <1>2, <1>13, <1>14 DEF SlimInv, Exists
<1>22. PresentInv'
  <2>1. n \in 1..(Cells - 1) => n < Cells /\ n + 1 \in Files
    BY <1>5 DEF Files
  <2>. QED
    BY <1>4, <1>13, <1>14, <2>1 DEF PresentInv, Exists
<1>23. SizeInv'
  <2>1. ASSUME NEW i \in Files, CellBegin(i) < head PROVE i <= n /\ size'[i] > 0
    <3>1. i <= n
      BY <1>4, <2>1
    <3>2. i \in 1..n
      BY <1>5, <3>1 DEF Files
    <3>. QED
      BY <1>14, <3>1, <3>2
  <2>. QED
    BY <1>14, <1>15, <2>1 DEF SizeInv, CellBegin
<1>24. JobInv' /\ MapInv' /\ PendingInv' /\ EndInv' /\ AtInv'
  BY <1>15 DEF JobInv, MapInv, PendingInv, EndInv, AtInv, Making, Writing
<1>. QED
  BY <1>17, <1>20, <1>21, <1>22, <1>23, <1>24 DEF IInv
\* Opening an archive removes what is empty: the files it needs stay, and so does one that
\* goes beyond its cell, the last one the writer will have.
LEMMA MountStep ==
  ASSUME ThreeFiles, IInv, Mount
  PROVE  IInv'
<1> DEFINE d == [i \in Files |-> IF i \in Opened /\ FileSize(i) = 0 THEN NoFile ELSE disk[i]]
           n == CHOOSE k \in Files : /\ \A i \in 1..k : d[i] # NoFile
                                     /\ k = Cells \/ d[k + 1] = NoFile
<1>1. /\ cells = 0 /\ head > 0 /\ promised
      /\ IF head < Len(Contents)
         THEN /\ AddFiles(d, n)
              /\ step' = "cut" /\ cell' = 1 /\ kind' = "mount" /\ at' = head
              /\ UNCHANGED <<index, jobs, trouble>>
         ELSE disk' = d /\ UNCHANGED <<writer, job, trouble>>
      /\ UNCHANGED <<archive, flat, pending, promised>>
  BY DEF Mount
<1>2. TypeInv /\ IsDisk(disk) /\ SlimInv /\ AtInv /\ step = "idle" /\ head \in 0..MaxAddress
  BY <1>1 DEF IInv, TypeInv
<1>3. Reaches(disk, head) /\ Keeps(disk, head, flat) /\ entry \in 1..head
  BY <1>1 DEF IInv, WholeInv
<1>4. Cells \in {1, 2, 3} /\ MaxPck \in Nat \ {0} /\ head \in Nat \ {0} /\ MaxAddress \in Nat
  BY <1>1, <1>2, CellsAssumption, SizesAssumption DEF ThreeFiles
<1>5. \A i \in Files : d[i] = IF i \in Opened /\ FileSize(i) = 0 THEN NoFile ELSE disk[i]
  OBVIOUS
<1>6. IsDisk(d)
  BY <1>2 DEF IsDisk
<1> DEFINE Good(k) == (\A i \in 1..k : d[i] # NoFile) /\ (k = Cells \/ d[k + 1] = NoFile)
<1>7. n = CHOOSE k \in Files : Good(k)
  OBVIOUS
<1>. HIDE DEF n
<1>. HIDE DEF d
<1>8. \A i \in Files : CellBegin(i) \in Nat /\ CellBegin(i + 1) = CellBegin(i) + MaxPck
  <2>1. \A i \in Files : i \in Nat \ {0}
    BY <1>4 DEF Files
  <2>. QED
    BY <2>1, CellBegins
<1>9. ASSUME NEW i \in Files, Exists(i), Len(disk[i]) > 0 PROVE d[i] = disk[i] /\ d[i] # NoFile
  <2>1. FileSize(i) # 0
    BY <1>9 DEF FileSize
  <2>. QED
    BY <1>5, <1>9, <2>1 DEF Exists
<1>10. ASSUME NEW i \in Files, CellBegin(i) < head PROVE Exists(i) /\ Len(disk[i]) > 0
  <2>1. /\ disk[i] # NoFile
        /\ IF i < Cells /\ CellBegin(i + 1) < head THEN Len(disk[i]) = MaxPck
           ELSE head - CellBegin(i) <= Len(disk[i])
    BY <1>3, <1>10 DEF Reaches
  <2>2. Len(disk[i]) \in Nat
    BY <1>2, <2>1, SizesType DEF Exists, IsFile
  <2>3. PICK q \in Nat : q = Len(disk[i])
    BY <2>2
  <2>4. CellBegin(i) \in Nat
    BY <1>8
  <2>5. q > 0
    BY <1>4, <1>10, <2>1, <2>3, <2>4
  <2>. QED
    BY <2>1, <2>3, <2>5 DEF Exists
<1>11. d[1] # NoFile /\ Exists(1) /\ Len(disk[1]) > 0 /\ 1 \in Files
  <2>1. 1 \in Files /\ CellBegin(1) = 0
    BY <1>4 DEF Files, CellBegin
  <2>2. CellBegin(1) < head
    BY <1>4, <2>1
  <2>. QED
    BY <1>9, <1>10, <2>1, <2>2
<1>12. n \in Files /\ Good(n)
  <2>1. \E k \in Files : Good(k)
    <3>1. CASE Cells = 1 \/ d[2] = NoFile
      <4>1. Good(1)
        BY <1>11, <3>1
      <4>. QED
        BY <1>11, <4>1
    <3>2. CASE Cells # 1 /\ d[2] # NoFile /\ (Cells = 2 \/ d[3] = NoFile)
      <4>1. \A i \in 1..2 : d[i] # NoFile
        BY <1>11, <3>2
      <4>2. Good(2) /\ 2 \in Files
        BY <1>4, <3>2, <4>1 DEF Files
      <4>. QED
        BY <4>2
    <3>3. CASE Cells = 3 /\ d[2] # NoFile /\ d[3] # NoFile
      <4>1. \A i \in 1..3 : d[i] # NoFile
        BY <1>11, <3>3
      <4>2. Good(3) /\ 3 \in Files
        BY <3>3, <4>1 DEF Files
      <4>. QED
        BY <4>2
    <3>. QED
      BY <1>4, <3>1, <3>2, <3>3
  <2>. HIDE DEF Good
  <2>. QED
    BY <1>7, <2>1
<1>13. n \in 1..Cells /\ n \in Nat \ {0} /\ n <= Cells /\ Cells \in Nat
  BY <1>4, <1>12 DEF Files
<1>14. /\ head' = head /\ entry' = entry /\ flat' = flat /\ pending' = pending /\ promised' = promised
  BY <1>1 DEF archive
<1>15. disk' = d
  BY <1>1 DEF AddFiles
<1>16. Reaches(d, head)
  BY <1>3, <1>9, <1>10 DEF Reaches
<1>17. Keeps(d, head, flat)
  <2>. SUFFICES ASSUME NEW i \in Files, NEW a \in Addresses, InCell(i, a), a < head, flat[a] # 0
                PROVE  Stores(d, i, a, flat[a])
    BY DEF Keeps
  <2>1. CellBegin(i) < head
    <3>1. CellBegin(i) \in Nat /\ a \in Nat /\ CellBegin(i) <= a
      BY <1>4, <1>8 DEF Addresses, InCell
    <3>. QED
      BY <1>4, <3>1
  <2>2. d[i] = disk[i]
    BY <1>9, <1>10, <2>1
  <2>3. Stores(disk, i, a, flat[a])
    BY <1>3 DEF Keeps
  <2>. QED
    BY <2>2, <2>3 DEF Stores
<1>18. WholeInv'
  BY <1>3, <1>14, <1>15, <1>16, <1>17 DEF WholeInv
\* A file beyond its cell is the last one there is without a gap.
<1>19. ASSUME NEW i \in Files, i < Cells, d[i] # NoFile, Len(d[i]) > MaxPck
       PROVE  (\A k \in 1..i : d[k] # NoFile) /\ d[i + 1] = NoFile /\ n = i
  <2>1. d[i] = disk[i] /\ i \in Nat \ {0} /\ i + 1 \in Files /\ i \in {1, 2}
    BY <1>4, <1>5, <1>19 DEF Files
  <2>2. (\A k \in 1..i : Exists(k)) /\ ~Exists(i + 1)
    BY <1>2, <1>19, <2>1 DEF SlimInv, Exists
  <2>3. \A k \in 1..i : d[k] # NoFile
    <3>. SUFFICES ASSUME NEW k \in 1..i PROVE d[k] # NoFile
      OBVIOUS
    <3>1. k = 1 \/ k = i
      BY <2>1
    <3>. QED
      BY <1>11, <1>19, <3>1
  <2>4. d[i + 1] = NoFile
    BY <1>5, <2>1, <2>2 DEF Exists
  <2>5. n = i
    <3>1. ~(n > i)
      <4>1. n > i => i + 1 \in 1..n
        BY <1>13, <2>1
      <4>. QED
        BY <1>12, <2>4, <4>1
    <3>2. ~(n < i)
      <4>1. n < i => n + 1 \in 1..i /\ n # Cells
        BY <1>4, <1>13, <1>19, <2>1
      <4>. QED
        BY <1>12, <2>3, <4>1
    <3>. QED
      BY <1>13, <2>1, <3>1, <3>2
  <2>. QED
    BY <2>3, <2>4, <2>5
<1>20. CASE head < Len(Contents)
  <2>1. /\ AddFiles(d, n)
        /\ step' = "cut" /\ cell' = 1 /\ kind' = "mount" /\ at' = head
        /\ index' = index /\ jobs' = jobs /\ trouble' = trouble
    BY <1>1, <1>20
  <2>2. /\ cells' = n
        /\ size' \in [1..n -> Nat] /\ mapped' \in [1..n -> Nat] /\ full' \in Nat
    BY <1>6, <1>13, <2>1, AddFilesIs
  <2>3. TypeInv'
    <3>1. n \in 0..Cells /\ 1 \in 0..n /\ 1 \in 1..n /\ ~(n = 0)
      BY <1>13
    <3>. QED
      BY <1>2, <1>6, <1>14, <1>15, <2>1, <2>2, <3>1 DEF TypeInv
  <2>4. SlimInv'
    BY <1>15, <1>19, <2>1, <2>2 DEF SlimInv, Exists
  <2>5. PresentInv'
    <3>1. n \in 1..(Cells - 1) => n # Cells
      BY <1>13
    <3>. QED
      BY <1>12, <1>15, <2>1, <2>2, <3>1 DEF PresentInv, Exists
  <2>6. JobInv' /\ SizeInv' /\ MapInv' /\ PendingInv'
    BY <2>1 DEF JobInv, SizeInv, MapInv, PendingInv, Making, Writing
  <2>7. AtInv'
    BY <1>2, <2>1 DEF AtInv, Making, Writing
  <2>8. EndInv'
    <3>1. 1..(cell' - 1) = {}
      BY <2>1
    <3>. QED
      BY <1>1, <1>14, <2>1, <3>1 DEF EndInv
  <2>. QED
    BY <1>18, <2>3, <2>4, <2>5, <2>6, <2>7, <2>8 DEF IInv
<1>21. CASE ~(head < Len(Contents))
  <2>1. /\ cells' = cells /\ size' = size /\ mapped' = mapped /\ full' = full
        /\ step' = step /\ cell' = cell /\ kind' = kind /\ at' = at /\ index' = index /\ jobs' = jobs
        /\ trouble' = trouble
    BY <1>1, <1>21 DEF writer, job
  <2>2. TypeInv'
    BY <1>2, <1>6, <1>14, <1>15, <2>1 DEF TypeInv
  <2>3. SlimInv'
    BY <1>1, <1>2, <1>15, <1>19, <2>1 DEF SlimInv, Exists
  <2>4. PresentInv'
    <3>1. 1..cells = {} /\ cells \notin 1..(Cells - 1)
      BY <1>1, <1>4
    <3>. QED
      BY <2>1, <3>1 DEF PresentInv
  <2>5. JobInv' /\ SizeInv' /\ MapInv' /\ PendingInv' /\ EndInv'
    BY <1>2, <2>1 DEF JobInv, SizeInv, MapInv, PendingInv, EndInv, Making, Writing
  <2>6. AtInv'
    BY <1>2, <2>1 DEF AtInv, Making, Writing
  <2>. QED
    BY <1>18, <2>2, <2>3, <2>4, <2>5, <2>6 DEF IInv
<1>. QED
  BY <1>20, <1>21
LEMMA InitInv ==
  ASSUME Init
  PROVE  IInv
<1>1. /\ disk = [i \in Files |-> NoFile] /\ head = 0 /\ entry = 0
      /\ cells = 0 /\ size = <<>> /\ mapped = <<>> /\ full = 0
      /\ step = "idle" /\ cell = 0 /\ kind = "none" /\ at = 0 /\ index = 0 /\ jobs = 0
      /\ flat = [a \in Addresses |-> 0] /\ pending = flat
      /\ promised = FALSE /\ trouble = "none"
  BY DEF Init
<1>2. 0 \in 0..MaxAddress /\ 0 \in 0..MaxJobs /\ 0 \in 0..Cells /\ 0 \in 0..0 /\ Cells \in Nat
  BY CellsAssumption, SizesAssumption
<1>3. IsDisk(disk)
  BY <1>1 DEF IsDisk
<1>4. size \in [1..cells -> Nat] /\ mapped \in [1..cells -> Nat]
  <2>1. 1..0 = {} /\ <<>> \in [{} -> Nat]
    OBVIOUS
  <2>. QED
    BY <1>1, <2>1
<1>5. TypeInv
  <2>1. flat \in [Addresses -> 0..MaxJobs] /\ pending \in [Addresses -> 0..MaxJobs]
    BY <1>1, <1>2
  <2>2. /\ head \in 0..MaxAddress /\ entry \in 0..MaxAddress /\ cells \in 0..Cells /\ full \in Nat
        /\ cell \in 0..cells /\ (cells > 0 => cell \in 1..cells)
        /\ at \in 0..MaxAddress /\ index \in 0..MaxAddress /\ jobs \in 0..MaxJobs
    BY <1>1, <1>2
  <2>3. /\ step \in {"idle", "map", "data", "index", "tail", "head", "cut", "close", "finish"}
        /\ step = "idle" <=> cells = 0
        /\ kind \in {"none", "new", "append", "rename", "comment", "mount"}
        /\ promised \in BOOLEAN /\ trouble \in {"none", "space", "refused"}
    BY <1>1
  <2>. QED
    BY <1>3, <1>4, <2>1, <2>2, <2>3 DEF TypeInv
<1>6. JobInv /\ WholeInv /\ SizeInv /\ MapInv /\ AtInv /\ PendingInv /\ EndInv
  BY <1>1 DEF JobInv, WholeInv, SizeInv, MapInv, AtInv, PendingInv, EndInv, Making, Writing
<1>7. SlimInv
  BY <1>1 DEF SlimInv, Exists
<1>8. PresentInv
  <2>1. 1..0 = {} /\ 0 \notin 1..(Cells - 1)
    BY <1>2
  <2>. QED
    BY <1>1, <2>1 DEF PresentInv
<1>. QED
  BY <1>5, <1>6, <1>7, <1>8 DEF IInv

LEMMA NextInv ==
  ASSUME ThreeFiles, IInv, [Next]_vars
  PROVE  IInv'
<1>1. CASE UNCHANGED vars
  <2>1. /\ disk' = disk /\ head' = head /\ entry' = entry
        /\ cells' = cells /\ size' = size /\ mapped' = mapped /\ full' = full
        /\ step' = step /\ cell' = cell /\ kind' = kind /\ at' = at /\ index' = index /\ jobs' = jobs
        /\ flat' = flat /\ pending' = pending /\ promised' = promised /\ trouble' = trouble
    BY <1>1 DEF vars, archive, writer, job, ghost
  <2>2. TypeInv' /\ JobInv' /\ WholeInv' /\ SizeInv'
    BY <2>1 DEF IInv, TypeInv, JobInv, WholeInv, SizeInv, CellBegin
  <2>3. SlimInv' /\ PresentInv'
    BY <2>1 DEF IInv, SlimInv, PresentInv, Exists
  <2>4. AtInv' /\ PendingInv' /\ EndInv'
    BY <2>1 DEF IInv, AtInv, PendingInv, EndInv, CellBegin, Part, CellOf, Exists
  <2>5. MapInv'
    <3>1. Mapped(Here, full)' = Mapped(Here, full)
      BY <2>1 DEF Mapped, Here, Part, CellOf
    <3>. QED
      BY <2>1, <3>1 DEF IInv, MapInv
  <2>. QED
    BY <2>2, <2>3, <2>4, <2>5 DEF IInv
<1>2. CASE New \/ Update \/ Rename \/ SetAdditionalInfo \/ Mount
  BY <1>2, NewStep, UpdateStep, RenameStep, SetAdditionalInfoStep, MountStep
<1>3. CASE Map \/ EndOfData \/ WriteTail \/ WriteHead \/ SetEndOfFile \/ Close \/ Crash
  BY <1>3, MapStep, EndOfDataStep, WriteTailStep, WriteHeadStep, SetEndOfFileStep, CloseStep, CrashStep
<1>4. CASE \E n \in Chunks : WriteData(n) \/ WriteIndex(n)
  BY <1>4, WriteDataStep, WriteIndexStep
<1>. QED
  BY <1>1, <1>2, <1>3, <1>4 DEF Next

\* The inductive invariant holds: where the files are, what of them is mapped, and what
\* the jobs have written fit together at every step, crashes and lack of space included.
THEOREM Invariant == ThreeFiles => (Spec => []IInv)
<1>1. ThreeFiles => []ThreeFiles
  OBVIOUS
<1>2. Init => IInv
  BY InitInv
<1>3. ThreeFiles /\ IInv /\ [Next]_vars => IInv'
  BY NextInv
<1>. QED
  BY <1>1, <1>2, <1>3, PTL DEF Spec

\* Every variable keeps its type; in particular nothing is on disk but what a job wrote
\* at an address of the archive, and filling.
THEOREM TypeCorrect == ThreeFiles => (Spec => []TypeOK)
<1>1. IInv => TypeOK
  <2>. SUFFICES ASSUME TypeInv PROVE TypeOK
    BY DEF IInv
  <2>1. \A i \in Files : disk[i] = NoFile \/ \A k \in 1..Len(disk[i]) :
          disk[i][k] = Zero \/ disk[i][k] \in Addresses \X (1..MaxJobs)
    <3>. SUFFICES ASSUME NEW i \in Files, disk[i] # NoFile, NEW k \in 1..Len(disk[i])
                  PROVE  disk[i][k] = Zero \/ disk[i][k] \in Addresses \X (1..MaxJobs)
      OBVIOUS
    <3>1. disk[i] \in Seq(Units)
      BY DEF TypeInv, IsDisk
    <3>2. disk[i][k] \in Units
      BY <3>1
    <3>. QED
      BY <3>2 DEF Units
  <2>2. /\ DOMAIN size = 1..cells /\ DOMAIN mapped = 1..cells
        /\ \A i \in 1..cells : size[i] \in Nat /\ mapped[i] \in Nat
    BY DEF TypeInv
  <2>. QED
    BY <2>1, <2>2 DEF TypeInv, TypeOK
<1>. QED
  BY <1>1, Invariant, PTL

\* Whatever was written at an address is read there whenever no writer is open, with any
\* interleaving of jobs, crashes and lack of space before.
THEOREM WrittenIsRead == ThreeFiles => (Spec => []ReadBack)
<1>1. ThreeFiles => []ThreeFiles
  OBVIOUS
<1>2. ThreeFiles /\ IInv => ReadBack
  <2>. SUFFICES ASSUME ThreeFiles, IInv, head > 0, promised
                PROVE  /\ head <= Len(Contents)
                       /\ \A a \in 0..(head - 1) : flat[a] # 0 => Contents[a + 1] = <<a, flat[a]>>
    BY DEF ReadBack
  <2>1. IsDisk(disk) /\ head \in 0..MaxAddress
    BY DEF IInv, TypeInv
  <2>2. Reaches(disk, head) /\ Keeps(disk, head, flat)
    BY DEF IInv, WholeInv
  <2>. QED
    BY <2>1, <2>2, FoundAgain
<1>. QED
  BY <1>1, <1>2, Invariant, PTL

\* Write2 never fails but for want of space: what it writes to is mapped.
THEOREM WritesAreMapped == ThreeFiles => (Spec => []NeverRefused)
<1>1. IInv => NeverRefused
  BY DEF IInv, AtInv, NeverRefused
<1>. QED
  BY <1>1, Invariant, PTL

(***************************************************************************)
(* The size of the files when a job has ended.                             *)
(***************************************************************************)
\* The files end where the archive does.
Exact ==
  /\ IsDisk(disk) /\ head \in Nat \ {0} /\ Reaches(disk, head)
  /\ \E e \in Files : /\ CellBegin(e) < head /\ \A i \in 1..e : Exists(i)
                      /\ e < Cells => ~Exists(e + 1)
                      /\ Len(disk[e]) = head - CellBegin(e)
HeadIsEnd == head = Len(Contents)

LEMMA ExactIsEnd ==
  ASSUME ThreeFiles, Exact
  PROVE  HeadIsEnd
<1>1. IsDisk(disk) /\ head \in Nat \ {0} /\ Reaches(disk, head)
  BY DEF Exact
<1>2. PICK e \in Files : /\ CellBegin(e) < head /\ \A i \in 1..e : Exists(i)
                         /\ e < Cells => ~Exists(e + 1)
                         /\ Len(disk[e]) = head - CellBegin(e)
  BY DEF Exact
<1>3. PICK n \in 0..Cells : /\ Cardinality(Opened) = n
                            /\ \A i \in 1..n : Exists(i)
                            /\ n < Cells => ~Exists(n + 1)
  BY <1>1, OpenedIs
<1>4. e \in 1..Cells /\ e \in Nat \ {0} /\ Cells \in Nat /\ CellBegin(e) \in Nat
  <2>1. e \in 1..Cells /\ e \in Nat \ {0} /\ Cells \in Nat
    BY CellsAssumption DEF Files
  <2>. QED
    BY <2>1, CellBegins
<1>5. n = e
  <2>1. ~(n < e)
    <3>1. n < e => n + 1 \in 1..e /\ n < Cells
      BY <1>4
    <3>. QED
      BY <1>2, <1>3, <3>1
  <2>2. ~(e < n)
    <3>1. e < n => e + 1 \in 1..n /\ e < Cells
      BY <1>4
    <3>. QED
      BY <1>2, <1>3, <3>1
  <2>. QED
    BY <1>4, <2>1, <2>2
<1>6. Len(Contents) = Before(e + 1)
  BY <1>1, <1>3, <1>5, ContentsAre
<1>7. Before(e + 1) = Before(e) + FileSize(e)
  BY <1>1, BeforeIs
<1>8. Before(e) = CellBegin(e)
  BY <1>1, <1>2, BeginsWhereWritten
<1>9. FileSize(e) = Len(disk[e])
  <2>1. e \in 1..e
    BY <1>4
  <2>. QED
    BY <1>2, <2>1 DEF FileSize
<1>. QED
  BY <1>1, <1>2, <1>4, <1>6, <1>7, <1>8, <1>9 DEF HeadIsEnd

Ending == Close /\ step = "finish" /\ cells' = 0
LeavesNoneEmpty == \A i \in 1..cells : (Exists(i) => FileSize(i) > 0)'

LEMMA EndingIs ==
  ASSUME ThreeFiles, IInv, IInv', Ending
  PROVE  Exact' /\ LeavesNoneEmpty
<1>0. /\ step = "finish" /\ cells' = 0
      /\ disk' = [disk EXCEPT ![cell] = IF size[cell] = 0 THEN NoFile ELSE @]
      /\ IF cell = cells THEN NoWriter
         ELSE cell' = cell + 1 /\ UNCHANGED <<writer, step, kind, at, index, pending, trouble>>
      /\ UNCHANGED <<archive, jobs, flat, promised>>
  BY DEF Ending, Close
<1>1. TypeInv /\ PresentInv /\ WholeInv /\ EndInv /\ TypeInv' /\ WholeInv'
  BY DEF IInv
<1>2. /\ cells \in Nat \ {0} /\ cells <= Cells /\ Cells \in Nat /\ cell \in 1..cells /\ cell \in Files
      /\ size \in [1..cells -> Nat] /\ IsDisk(disk)
      /\ promised /\ head = at /\ head \in Nat \ {0}
  <2>1. cells \in 0..Cells /\ ~(cells = 0) /\ (cells > 0 => cell \in 1..cells)
    BY <1>0, <1>1 DEF TypeInv
  <2>2. promised /\ head = at /\ head > 0 /\ head \in 0..MaxAddress
    BY <1>0, <1>1 DEF EndInv, TypeInv
  <2>3. head \in Nat \ {0}
    BY <2>2, SizesAssumption
  <2>4. size \in [1..cells -> Nat] /\ IsDisk(disk)
    BY <1>1 DEF TypeInv
  <2>. QED
    BY <2>1, <2>2, <2>3, <2>4, CellsAssumption DEF Files
<1>3. cell = cells
  BY <1>0, <1>2 DEF writer
<1>4. head' = head /\ promised' = promised /\ IsDisk(disk')
  BY <1>0, <1>1 DEF archive, TypeInv
<1>5. /\ disk'[cell] = IF size[cell] = 0 THEN NoFile ELSE disk[cell]
      /\ \A i \in Files : i # cell => disk'[i] = disk[i]
  BY <1>0, <1>2 DEF IsDisk
<1>6. ASSUME NEW i \in 1..cells
      PROVE  /\ size[i] \in Nat /\ size[i] = Part(head, cells, i) /\ i \in Files
             /\ size[i] > 0 => disk'[i] = disk[i] /\ disk'[i] # NoFile /\ Len(disk'[i]) = size[i]
             /\ size[i] = 0 => disk'[i] = NoFile
  <2>1. /\ size[i] = Part(at, cells, i)
        /\ i >= cell \/ size[i] > 0 => Len(disk[i]) = size[i] /\ Exists(i)
        /\ i < cell /\ size[i] = 0 => ~Exists(i)
    BY <1>0, <1>1 DEF EndInv
  <2>2. size[i] \in Nat /\ i \in Files /\ (i < cell \/ i = cell)
    BY <1>2, <1>3 DEF Files
  <2>3. CASE i = cell
    BY <1>2, <1>5, <2>1, <2>2, <2>3 DEF Exists
  <2>4. CASE i < cell
    BY <1>2, <1>5, <2>1, <2>2, <2>4 DEF Exists
  <2>. QED
    BY <2>2, <2>3, <2>4
<1>7. LeavesNoneEmpty
  <2>. SUFFICES ASSUME NEW i \in 1..cells, disk'[i] # NoFile
                PROVE  Len(disk'[i]) > 0
    BY DEF LeavesNoneEmpty, Exists, FileSize
  <2>. QED
    BY <1>6
<1>8. Reaches(disk, head) /\ Reaches(disk', head')
  BY <1>1, <1>2, <1>4 DEF WholeInv
<1>9. PICK e \in Files : /\ CellBegin(e) < head
                         /\ e < Cells => head <= CellBegin(e + 1)
                         /\ \A i \in Files : CellBegin(i) < head <=> i <= e
  BY <1>2, LastCell
<1>10. e \in Nat \ {0} /\ e <= Cells /\ CellBegin(e) \in Nat /\ CellBegin(e + 1) = CellBegin(e) + MaxPck
  <2>1. e \in Nat \ {0} /\ e <= Cells
    BY <1>2 DEF Files
  <2>. QED
    BY <2>1, CellBegins
<1>11. cells < Cells => ~Exists(cells + 1)
  <2>1. cells < Cells => cells \in 1..(Cells - 1)
    BY <1>2
  <2>. QED
    BY <1>1, <2>1 DEF PresentInv
<1>12. e <= cells
  <2>. SUFFICES ASSUME cells < e PROVE FALSE
    BY <1>2, <1>10
  <2>1. cells + 1 \in Files /\ cells + 1 <= e /\ cells < Cells
    BY <1>2, <1>10 DEF Files
  <2>2. disk[cells + 1] # NoFile
    BY <1>8, <1>9, <2>1 DEF Reaches
  <2>. QED
    BY <1>11, <2>1, <2>2 DEF Exists
<1>13. ASSUME NEW i \in 1..e PROVE disk'[i] # NoFile
  <2>1. i \in 1..cells /\ i \in Files /\ i <= e
    BY <1>2, <1>10, <1>12 DEF Files
  <2>2. Part(head, cells, i) > 0
    BY <1>2, <1>9, <2>1, PartIs
  <2>. QED
    BY <1>6, <2>1, <2>2
<1>14. ASSUME e < Cells PROVE disk'[e + 1] = NoFile
  <2>1. CASE e = cells
    <3>1. e + 1 \in Files /\ e + 1 # cell
      BY <1>2, <1>3, <1>10, <1>14, <2>1 DEF Files
    <3>. QED
      BY <1>5, <1>11, <1>14, <2>1, <3>1 DEF Exists
  <2>2. CASE e < cells
    <3>1. e + 1 \in 1..cells /\ e + 1 \in Files /\ ~(e + 1 <= e)
      BY <1>2, <1>10, <2>2 DEF Files
    <3>2. ~(Part(head, cells, e + 1) > 0)
      BY <1>2, <1>9, <3>1, PartIs
    <3>. QED
      BY <1>6, <3>1, <3>2
  <2>. QED
    BY <1>2, <1>10, <1>12, <2>1, <2>2
<1>15. Len(disk'[e]) = head - CellBegin(e)
  <2>1. e \in 1..cells
    BY <1>2, <1>10, <1>12
  <2>2. Part(head, cells, e) > 0 /\ Part(head, cells, e) = head - CellBegin(e)
    <3>1. Part(head, cells, e) > 0
      BY <1>2, <1>9, <2>1, PartIs
    <3>2. CASE e < cells /\ CellBegin(e + 1) <= head
      <4>1. Part(head, cells, e) = MaxPck
        BY <1>2, <2>1, <3>2, PartIs
      <4>2. head <= CellBegin(e + 1) /\ CellBegin(e + 1) \in Nat /\ MaxPck \in Nat
        BY <1>2, <1>9, <1>10, <3>2, CellsAssumption
      <4>. QED
        BY <1>2, <1>10, <3>1, <3>2, <4>1, <4>2
    <3>3. CASE ~(e < cells /\ CellBegin(e + 1) <= head)
      <4>1. CellBegin(e) <= head /\ (e < cells => head < CellBegin(e + 1))
        BY <1>2, <1>9, <1>10, <3>3, CellsAssumption
      <4>2. Part(head, cells, e) = head - CellBegin(e)
        BY <1>2, <2>1, <4>1, PartIs
      <4>. QED
        BY <3>1, <4>2
    <3>. QED
      BY <3>2, <3>3
  <2>. QED
    BY <1>6, <2>1, <2>2
<1>16. Exact'
  <2>1. /\ CellBegin(e) < head' /\ \A i \in 1..e : disk'[i] # NoFile
        /\ e < Cells => disk'[e + 1] = NoFile
        /\ Len(disk'[e]) = head' - CellBegin(e)
    BY <1>4, <1>9, <1>13, <1>14, <1>15
  <2>2. IsDisk(disk') /\ head' \in Nat \ {0} /\ Reaches(disk', head')
    BY <1>2, <1>4, <1>8
  <2>. QED
    BY <2>1, <2>2 DEF Exact, Exists, CellBegin
<1>. QED
  BY <1>7, <1>16

\* A job that wrote its head leaves files that end with the archive, none of those it had
\* empty: SetEndOfFile and clear() leave nothing behind, whatever was mapped ahead.
THEOREM JobsEndExactly == ThreeFiles => (Spec => EndsExact)
<1>1. ThreeFiles => []ThreeFiles
  OBVIOUS
<1>2. ThreeFiles /\ IInv /\ IInv' /\ Ending => Exact' /\ LeavesNoneEmpty
  BY EndingIs
<1>3. ThreeFiles /\ Exact => HeadIsEnd
  BY ExactIsEnd
<1>4. ThreeFiles => (Spec => [][Ending => HeadIsEnd' /\ LeavesNoneEmpty]_vars)
  BY <1>1, <1>2, <1>3, Invariant, PTL DEF Spec
<1>. QED
  BY <1>4, PTL DEF EndsExact, Ending, HeadIsEnd, LeavesNoneEmpty
=============================================================================
