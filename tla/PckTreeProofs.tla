---------------------------- MODULE PckTreeProofs ----------------------------
(***************************************************************************)
(* What PckTree keeps, with proofs, for any names, sizes, scripts and      *)
(* number of operations.                                                   *)
(***************************************************************************)
EXTENDS PckTree, FiniteSetTheorems, TLAPS

(***************************************************************************)
(* Folds.  FoldLeft recurs over sets of places; what it computes is a      *)
(* chain with one link for each element.                                   *)
(***************************************************************************)
LEMMA EmptyInterval == 1..0 = {} /\ SUBSET (1..0) = {{}}
OBVIOUS

LEMMA UpTo ==
  ASSUME NEW k \in Nat, NEW T \in SUBSET (1..(k + 1)), k + 1 \notin T
  PROVE  T \in SUBSET (1..k)
<1>1. \A z \in 1..(k + 1) : z # k + 1 => z \in 1..k
  OBVIOUS
<1>. QED
  BY <1>1

LEMMA MaxOfUpTo ==
  ASSUME NEW k \in Nat, NEW T \in SUBSET (1..k), k \in T
  PROVE  Max(T) = k
<1>1. \A y \in T : y \in Int /\ k >= y
  OBVIOUS
<1>2. \A x \in T : (\A y \in T : x >= y) => x = k
  BY <1>1
<1>. QED
  BY <1>1, <1>2 DEF Max

LEMMA UpToIs ==
  ASSUME NEW n \in Nat, NEW k \in 1..n
  PROVE  1..k \in SUBSET (1..n) /\ 1..k # {} /\ Max(1..k) = k /\ (1..k) \ {k} = 1..(k - 1)
<1>1. k \in 1..k /\ k \in Nat /\ 1..k \in SUBSET (1..k)
  OBVIOUS
<1>2. Max(1..k) = k
  BY <1>1, MaxOfUpTo
<1>. QED
  BY <1>1, <1>2

LEMMA LeastOf ==
  ASSUME NEW T \in SUBSET Nat, T # {}
  PROVE  \E x \in T : \A y \in T : x <= y
<1> DEFINE R == OpToRel(<, Nat)
<1>1. IsWellFoundedOn(R, Nat)
  BY NatLessThanWellFounded
<1>2. \A x, y \in Nat : ~(<<y, x>> \in R) => x <= y
  BY DEF OpToRel
<1>. HIDE DEF R
<1>3. PICK x \in T : \A y \in T : ~(<<y, x>> \in R)
  BY <1>1, WFMin
<1>. QED
  BY <1>2, <1>3

\* An induction over numbers that needs no operator: those it is about are a set.
LEMMA UpwardInduction ==
  ASSUME NEW n \in Nat, NEW G, 0 \in G, \A k \in 0..(n - 1) : k \in G => k + 1 \in G
  PROVE  \A k \in 0..n : k \in G
<1> DEFINE bad == {k \in 0..n : k \notin G}
<1>. SUFFICES ASSUME bad # {} PROVE FALSE
  OBVIOUS
<1>1. PICK k \in bad : \A j \in bad : k <= j
  <2>1. bad \in SUBSET Nat
    OBVIOUS
  <2>. HIDE DEF bad
  <2>. QED
    BY <2>1, LeastOf
<1>2. k \in 0..n /\ k \notin G /\ k # 0
  OBVIOUS
<1>3. k - 1 \in 0..(n - 1) /\ k - 1 \in 0..n /\ ~(k <= k - 1) /\ (k - 1) + 1 = k
  BY <1>2
<1>4. k - 1 \in G
  BY <1>1, <1>3
<1>. QED
  BY <1>2, <1>3, <1>4


LEMMA NameSizeChain ==
  ASSUME NEW s, NEW n \in Nat, DOMAIN s = 1..n
  PROVE  \E c : /\ c[0] = -1
                /\ \A k \in 1..n : c[k] = c[k - 1] + PartSize[s[k]] + 1
                /\ NameSize(s) = c[n]
<1> DEFINE next(v, k) == v + PartSize[s[k]] + 1
           Recursion(h, k) == h = [T \in SUBSET (1..k) |->
             IF T = {} THEN -1 ELSE next(h[T \ {Max(T)}], Max(T))]
           G == {k \in 0..n : \E h : Recursion(h, k)}
<1>1. NameSize(s) = (CHOOSE h : Recursion(h, n))[1..n]
  BY DEF NameSize, FoldLeft, MapThenFoldSet
<1>. HIDE DEF next
<1>2. 0 \in G
  <2> DEFINE h == [T \in SUBSET (1..0) |-> -1]
  <2>1. Recursion(h, 0)
    BY EmptyInterval
  <2>. HIDE DEF h, Recursion
  <2>. QED
    BY <2>1
<1>3. ASSUME NEW k \in 0..(n - 1), k \in G PROVE k + 1 \in G
  <2>1. PICK h : Recursion(h, k)
    BY <1>3
  <2> DEFINE g == [T \in SUBSET (1..(k + 1)) |->
                     IF k + 1 \in T THEN next(h[T \ {k + 1}], k + 1) ELSE h[T]]
  <2>2. ASSUME NEW T \in SUBSET (1..(k + 1))
        PROVE  g[T] = IF T = {} THEN -1 ELSE next(g[T \ {Max(T)}], Max(T))
    <3>1. CASE k + 1 \in T
      <4>1. Max(T) = k + 1 /\ T \ {k + 1} \in SUBSET (1..(k + 1)) /\ T # {}
        BY <3>1, MaxOfUpTo
      <4>2. g[T \ {k + 1}] = h[T \ {k + 1}] /\ g[T] = next(h[T \ {k + 1}], k + 1)
        BY <3>1, <4>1
      <4>. QED
        BY <4>1, <4>2
    <3>2. CASE k + 1 \notin T
      <4>0. T \in SUBSET (1..k)
        BY <3>2, UpTo
      <4>1. T \in SUBSET (1..k) /\ T \ {Max(T)} \in SUBSET (1..k)
        BY <4>0
      <4>2. h[T] = IF T = {} THEN -1 ELSE next(h[T \ {Max(T)}], Max(T))
        BY <2>1, <4>1
      <4>3. T \in SUBSET (1..(k + 1)) /\ T \ {Max(T)} \in SUBSET (1..(k + 1))
        OBVIOUS
      <4>4. g[T] = h[T] /\ g[T \ {Max(T)}] = h[T \ {Max(T)}]
        BY <3>2, <4>3
      <4>. QED
        BY <4>2, <4>4
    <3>. QED
      BY <3>1, <3>2
  <2>3. Recursion(g, k + 1)
    <3>1. g = [T \in SUBSET (1..(k + 1)) |-> g[T]]
      OBVIOUS
    <3>. HIDE DEF g
    <3>. QED
      BY <2>2, <3>1
  <2>. HIDE DEF g, Recursion
  <2>. QED
    BY <2>3
<1>4. PICK h : Recursion(h, n) /\ NameSize(s) = h[1..n]
  <2>1. \A k \in 0..n : k \in G
    <3>. HIDE DEF G
    <3>. QED
      BY <1>2, <1>3, UpwardInduction
  <2>. HIDE DEF Recursion
  <2>2. \E h : Recursion(h, n)
    BY <2>1
  <2>. QED
    BY <1>1, <2>2
<1> DEFINE c == [k \in 0..n |-> h[1..k]]
<1>5. c[0] = -1
  BY <1>4, EmptyInterval
<1>6. ASSUME NEW k \in 1..n PROVE c[k] = next(c[k - 1], k)
  <2>1. 1..k \in SUBSET (1..n) /\ 1..k # {} /\ Max(1..k) = k /\ (1..k) \ {k} = 1..(k - 1)
    BY UpToIs
  <2>2. h[1..k] = next(h[(1..k) \ {k}], k)
    BY <1>4, <2>1
  <2>3. k \in 0..n /\ k - 1 \in 0..n
    OBVIOUS
  <2>4. c[k] = h[1..k] /\ c[k - 1] = h[1..(k - 1)]
    BY <2>3
  <2>. HIDE DEF c
  <2>. QED
    BY <2>1, <2>2, <2>4
<1>7. c[n] = h[1..n]
  OBVIOUS
<1>. HIDE DEF c
<1>. QED
  BY <1>4, <1>5, <1>6, <1>7 DEF next

LEMMA WrittenChain ==
  ASSUME NEW s, NEW n \in Nat, DOMAIN s = 1..n
  PROVE  \E c : /\ c[0] = <<>>
                /\ \A k \in 1..n : c[k] = IF s[k].isInvalid THEN c[k - 1] ELSE Append(c[k - 1], Record(s[k].name, s[k].at, s[k].rec.size, s[k].rec.id))
                /\ Written(s) = c[n]
<1> DEFINE next(v, k) == IF s[k].isInvalid THEN v ELSE Append(v, Record(s[k].name, s[k].at, s[k].rec.size, s[k].rec.id))
           Recursion(h, k) == h = [T \in SUBSET (1..k) |->
             IF T = {} THEN <<>> ELSE next(h[T \ {Max(T)}], Max(T))]
           G == {k \in 0..n : \E h : Recursion(h, k)}
<1>1. Written(s) = (CHOOSE h : Recursion(h, n))[1..n]
  BY DEF Written, FoldLeft, MapThenFoldSet
<1>. HIDE DEF next
<1>2. 0 \in G
  <2> DEFINE h == [T \in SUBSET (1..0) |-> <<>>]
  <2>1. Recursion(h, 0)
    BY EmptyInterval
  <2>. HIDE DEF h, Recursion
  <2>. QED
    BY <2>1
<1>3. ASSUME NEW k \in 0..(n - 1), k \in G PROVE k + 1 \in G
  <2>1. PICK h : Recursion(h, k)
    BY <1>3
  <2> DEFINE g == [T \in SUBSET (1..(k + 1)) |->
                     IF k + 1 \in T THEN next(h[T \ {k + 1}], k + 1) ELSE h[T]]
  <2>2. ASSUME NEW T \in SUBSET (1..(k + 1))
        PROVE  g[T] = IF T = {} THEN <<>> ELSE next(g[T \ {Max(T)}], Max(T))
    <3>1. CASE k + 1 \in T
      <4>1. Max(T) = k + 1 /\ T \ {k + 1} \in SUBSET (1..(k + 1)) /\ T # {}
        BY <3>1, MaxOfUpTo
      <4>2. g[T \ {k + 1}] = h[T \ {k + 1}] /\ g[T] = next(h[T \ {k + 1}], k + 1)
        BY <3>1, <4>1
      <4>. QED
        BY <4>1, <4>2
    <3>2. CASE k + 1 \notin T
      <4>0. T \in SUBSET (1..k)
        BY <3>2, UpTo
      <4>1. T \in SUBSET (1..k) /\ T \ {Max(T)} \in SUBSET (1..k)
        BY <4>0
      <4>2. h[T] = IF T = {} THEN <<>> ELSE next(h[T \ {Max(T)}], Max(T))
        BY <2>1, <4>1
      <4>3. T \in SUBSET (1..(k + 1)) /\ T \ {Max(T)} \in SUBSET (1..(k + 1))
        OBVIOUS
      <4>4. g[T] = h[T] /\ g[T \ {Max(T)}] = h[T \ {Max(T)}]
        BY <3>2, <4>3
      <4>. QED
        BY <4>2, <4>4
    <3>. QED
      BY <3>1, <3>2
  <2>3. Recursion(g, k + 1)
    <3>1. g = [T \in SUBSET (1..(k + 1)) |-> g[T]]
      OBVIOUS
    <3>. HIDE DEF g
    <3>. QED
      BY <2>2, <3>1
  <2>. HIDE DEF g, Recursion
  <2>. QED
    BY <2>3
<1>4. PICK h : Recursion(h, n) /\ Written(s) = h[1..n]
  <2>1. \A k \in 0..n : k \in G
    <3>. HIDE DEF G
    <3>. QED
      BY <1>2, <1>3, UpwardInduction
  <2>. HIDE DEF Recursion
  <2>2. \E h : Recursion(h, n)
    BY <2>1
  <2>. QED
    BY <1>1, <2>2
<1> DEFINE c == [k \in 0..n |-> h[1..k]]
<1>5. c[0] = <<>>
  BY <1>4, EmptyInterval
<1>6. ASSUME NEW k \in 1..n PROVE c[k] = next(c[k - 1], k)
  <2>1. 1..k \in SUBSET (1..n) /\ 1..k # {} /\ Max(1..k) = k /\ (1..k) \ {k} = 1..(k - 1)
    BY UpToIs
  <2>2. h[1..k] = next(h[(1..k) \ {k}], k)
    BY <1>4, <2>1
  <2>3. k \in 0..n /\ k - 1 \in 0..n
    OBVIOUS
  <2>4. c[k] = h[1..k] /\ c[k - 1] = h[1..(k - 1)]
    BY <2>3
  <2>. HIDE DEF c
  <2>. QED
    BY <2>1, <2>2, <2>4
<1>7. c[n] = h[1..n]
  OBVIOUS
<1>. HIDE DEF c
<1>. QED
  BY <1>4, <1>5, <1>6, <1>7 DEF next

StoredNext(a, base, p, sizes) == Stored(a, base \o p, sizes[p])

LEMMA StoredChain ==
  ASSUME NEW s, NEW n \in Nat, DOMAIN s = 1..n, NEW z, NEW base, NEW sizes
  PROVE  \E c : /\ c[0] = z
                /\ \A k \in 1..n : c[k] = StoredNext(c[k - 1], base, s[k], sizes)
                /\ StoredAll(z, base, s, sizes) = c[n]
<1> DEFINE next(v, k) == StoredNext(v, base, s[k], sizes)
           Recursion(h, k) == h = [T \in SUBSET (1..k) |->
             IF T = {} THEN z ELSE next(h[T \ {Max(T)}], Max(T))]
           G == {k \in 0..n : \E h : Recursion(h, k)}
<1>1. StoredAll(z, base, s, sizes) = (CHOOSE h : Recursion(h, n))[1..n]
  BY DEF StoredAll, StoredNext, FoldLeft, MapThenFoldSet
<1>. HIDE DEF next
<1>2. 0 \in G
  <2> DEFINE h == [T \in SUBSET (1..0) |-> z]
  <2>1. Recursion(h, 0)
    BY EmptyInterval
  <2>. HIDE DEF h, Recursion
  <2>. QED
    BY <2>1
<1>3. ASSUME NEW k \in 0..(n - 1), k \in G PROVE k + 1 \in G
  <2>1. PICK h : Recursion(h, k)
    BY <1>3
  <2> DEFINE g == [T \in SUBSET (1..(k + 1)) |->
                     IF k + 1 \in T THEN next(h[T \ {k + 1}], k + 1) ELSE h[T]]
  <2>2. ASSUME NEW T \in SUBSET (1..(k + 1))
        PROVE  g[T] = IF T = {} THEN z ELSE next(g[T \ {Max(T)}], Max(T))
    <3>1. CASE k + 1 \in T
      <4>1. Max(T) = k + 1 /\ T \ {k + 1} \in SUBSET (1..(k + 1)) /\ T # {}
        BY <3>1, MaxOfUpTo
      <4>2. g[T \ {k + 1}] = h[T \ {k + 1}] /\ g[T] = next(h[T \ {k + 1}], k + 1)
        BY <3>1, <4>1
      <4>. QED
        BY <4>1, <4>2
    <3>2. CASE k + 1 \notin T
      <4>0. T \in SUBSET (1..k)
        BY <3>2, UpTo
      <4>1. T \in SUBSET (1..k) /\ T \ {Max(T)} \in SUBSET (1..k)
        BY <4>0
      <4>2. h[T] = IF T = {} THEN z ELSE next(h[T \ {Max(T)}], Max(T))
        BY <2>1, <4>1
      <4>3. T \in SUBSET (1..(k + 1)) /\ T \ {Max(T)} \in SUBSET (1..(k + 1))
        OBVIOUS
      <4>4. g[T] = h[T] /\ g[T \ {Max(T)}] = h[T \ {Max(T)}]
        BY <3>2, <4>3
      <4>. QED
        BY <4>2, <4>4
    <3>. QED
      BY <3>1, <3>2
  <2>3. Recursion(g, k + 1)
    <3>1. g = [T \in SUBSET (1..(k + 1)) |-> g[T]]
      OBVIOUS
    <3>. HIDE DEF g
    <3>. QED
      BY <2>2, <3>1
  <2>. HIDE DEF g, Recursion
  <2>. QED
    BY <2>3
<1>4. PICK h : Recursion(h, n) /\ StoredAll(z, base, s, sizes) = h[1..n]
  <2>1. \A k \in 0..n : k \in G
    <3>. HIDE DEF G
    <3>. QED
      BY <1>2, <1>3, UpwardInduction
  <2>. HIDE DEF Recursion
  <2>2. \E h : Recursion(h, n)
    BY <2>1
  <2>. QED
    BY <1>1, <2>2
<1> DEFINE c == [k \in 0..n |-> h[1..k]]
<1>5. c[0] = z
  BY <1>4, EmptyInterval
<1>6. ASSUME NEW k \in 1..n PROVE c[k] = next(c[k - 1], k)
  <2>1. 1..k \in SUBSET (1..n) /\ 1..k # {} /\ Max(1..k) = k /\ (1..k) \ {k} = 1..(k - 1)
    BY UpToIs
  <2>2. h[1..k] = next(h[(1..k) \ {k}], k)
    BY <1>4, <2>1
  <2>3. k \in 0..n /\ k - 1 \in 0..n
    OBVIOUS
  <2>4. c[k] = h[1..k] /\ c[k - 1] = h[1..(k - 1)]
    BY <2>3
  <2>. HIDE DEF c
  <2>. QED
    BY <2>1, <2>2, <2>4
<1>7. c[n] = h[1..n]
  OBVIOUS
<1>. HIDE DEF c
<1>. QED
  BY <1>4, <1>5, <1>6, <1>7 DEF next

LEMMA ApplyChain ==
  ASSUME NEW s, NEW n \in Nat, DOMAIN s = 1..n
  PROVE  \E c : /\ c[0] = Unfiltered
                /\ \A k \in 1..n : c[k] = ApplyLine(c[k - 1], s[k])
                /\ ApplyLines(s) = c[n]
<1> DEFINE next(v, k) == ApplyLine(v, s[k])
           Recursion(h, k) == h = [T \in SUBSET (1..k) |->
             IF T = {} THEN Unfiltered ELSE next(h[T \ {Max(T)}], Max(T))]
           G == {k \in 0..n : \E h : Recursion(h, k)}
<1>1. ApplyLines(s) = (CHOOSE h : Recursion(h, n))[1..n]
  BY DEF ApplyLines, FoldLeft, MapThenFoldSet
<1>. HIDE DEF next
<1>2. 0 \in G
  <2> DEFINE h == [T \in SUBSET (1..0) |-> Unfiltered]
  <2>1. Recursion(h, 0)
    BY EmptyInterval
  <2>. HIDE DEF h, Recursion
  <2>. QED
    BY <2>1
<1>3. ASSUME NEW k \in 0..(n - 1), k \in G PROVE k + 1 \in G
  <2>1. PICK h : Recursion(h, k)
    BY <1>3
  <2> DEFINE g == [T \in SUBSET (1..(k + 1)) |->
                     IF k + 1 \in T THEN next(h[T \ {k + 1}], k + 1) ELSE h[T]]
  <2>2. ASSUME NEW T \in SUBSET (1..(k + 1))
        PROVE  g[T] = IF T = {} THEN Unfiltered ELSE next(g[T \ {Max(T)}], Max(T))
    <3>1. CASE k + 1 \in T
      <4>1. Max(T) = k + 1 /\ T \ {k + 1} \in SUBSET (1..(k + 1)) /\ T # {}
        BY <3>1, MaxOfUpTo
      <4>2. g[T \ {k + 1}] = h[T \ {k + 1}] /\ g[T] = next(h[T \ {k + 1}], k + 1)
        BY <3>1, <4>1
      <4>. QED
        BY <4>1, <4>2
    <3>2. CASE k + 1 \notin T
      <4>0. T \in SUBSET (1..k)
        BY <3>2, UpTo
      <4>1. T \in SUBSET (1..k) /\ T \ {Max(T)} \in SUBSET (1..k)
        BY <4>0
      <4>2. h[T] = IF T = {} THEN Unfiltered ELSE next(h[T \ {Max(T)}], Max(T))
        BY <2>1, <4>1
      <4>3. T \in SUBSET (1..(k + 1)) /\ T \ {Max(T)} \in SUBSET (1..(k + 1))
        OBVIOUS
      <4>4. g[T] = h[T] /\ g[T \ {Max(T)}] = h[T \ {Max(T)}]
        BY <3>2, <4>3
      <4>. QED
        BY <4>2, <4>4
    <3>. QED
      BY <3>1, <3>2
  <2>3. Recursion(g, k + 1)
    <3>1. g = [T \in SUBSET (1..(k + 1)) |-> g[T]]
      OBVIOUS
    <3>. HIDE DEF g
    <3>. QED
      BY <2>2, <3>1
  <2>. HIDE DEF g, Recursion
  <2>. QED
    BY <2>3
<1>4. PICK h : Recursion(h, n) /\ ApplyLines(s) = h[1..n]
  <2>1. \A k \in 0..n : k \in G
    <3>. HIDE DEF G
    <3>. QED
      BY <1>2, <1>3, UpwardInduction
  <2>. HIDE DEF Recursion
  <2>2. \E h : Recursion(h, n)
    BY <2>1
  <2>. QED
    BY <1>1, <2>2
<1> DEFINE c == [k \in 0..n |-> h[1..k]]
<1>5. c[0] = Unfiltered
  BY <1>4, EmptyInterval
<1>6. ASSUME NEW k \in 1..n PROVE c[k] = next(c[k - 1], k)
  <2>1. 1..k \in SUBSET (1..n) /\ 1..k # {} /\ Max(1..k) = k /\ (1..k) \ {k} = 1..(k - 1)
    BY UpToIs
  <2>2. h[1..k] = next(h[(1..k) \ {k}], k)
    BY <1>4, <2>1
  <2>3. k \in 0..n /\ k - 1 \in 0..n
    OBVIOUS
  <2>4. c[k] = h[1..k] /\ c[k - 1] = h[1..(k - 1)]
    BY <2>3
  <2>. HIDE DEF c
  <2>. QED
    BY <2>1, <2>2, <2>4
<1>7. c[n] = h[1..n]
  OBVIOUS
<1>. HIDE DEF c
<1>. QED
  BY <1>4, <1>5, <1>6, <1>7 DEF next

\* What AddFileToNode begins with.
Blank(index) ==
  [built |-> TRUE, nodes |-> <<>>,
   table |-> [i \in DOMAIN index |->
     [rec |-> index[i], name |-> index[i].name, at |-> index[i].at,
      isInvalid |-> FALSE, isProtected |-> FALSE, isToDeDelete |-> FALSE]]]

LEMMA TreeChain ==
  ASSUME NEW s, NEW n \in Nat, DOMAIN s = 1..n
  PROVE  \E c : /\ c[0] = Blank(s)
                /\ \A k \in 1..n : c[k] = AddFileToNode(c[k - 1], [i \in DOMAIN s |-> i][k])
                /\ BuildDirTree(s) = c[n]
<1> DEFINE next(v, k) == AddFileToNode(v, [i \in DOMAIN s |-> i][k])
           Recursion(h, k) == h = [T \in SUBSET (1..k) |->
             IF T = {} THEN Blank(s) ELSE next(h[T \ {Max(T)}], Max(T))]
           G == {k \in 0..n : \E h : Recursion(h, k)}
<1>1. BuildDirTree(s) = (CHOOSE h : Recursion(h, n))[1..n]
  BY DEF BuildDirTree, Blank, FoldLeft, MapThenFoldSet
<1>. HIDE DEF next
<1>2. 0 \in G
  <2> DEFINE h == [T \in SUBSET (1..0) |-> Blank(s)]
  <2>1. Recursion(h, 0)
    BY EmptyInterval
  <2>. HIDE DEF h, Recursion
  <2>. QED
    BY <2>1
<1>3. ASSUME NEW k \in 0..(n - 1), k \in G PROVE k + 1 \in G
  <2>1. PICK h : Recursion(h, k)
    BY <1>3
  <2> DEFINE g == [T \in SUBSET (1..(k + 1)) |->
                     IF k + 1 \in T THEN next(h[T \ {k + 1}], k + 1) ELSE h[T]]
  <2>2. ASSUME NEW T \in SUBSET (1..(k + 1))
        PROVE  g[T] = IF T = {} THEN Blank(s) ELSE next(g[T \ {Max(T)}], Max(T))
    <3>1. CASE k + 1 \in T
      <4>1. Max(T) = k + 1 /\ T \ {k + 1} \in SUBSET (1..(k + 1)) /\ T # {}
        BY <3>1, MaxOfUpTo
      <4>2. g[T \ {k + 1}] = h[T \ {k + 1}] /\ g[T] = next(h[T \ {k + 1}], k + 1)
        BY <3>1, <4>1
      <4>. QED
        BY <4>1, <4>2
    <3>2. CASE k + 1 \notin T
      <4>0. T \in SUBSET (1..k)
        BY <3>2, UpTo
      <4>1. T \in SUBSET (1..k) /\ T \ {Max(T)} \in SUBSET (1..k)
        BY <4>0
      <4>2. h[T] = IF T = {} THEN Blank(s) ELSE next(h[T \ {Max(T)}], Max(T))
        BY <2>1, <4>1
      <4>3. T \in SUBSET (1..(k + 1)) /\ T \ {Max(T)} \in SUBSET (1..(k + 1))
        OBVIOUS
      <4>4. g[T] = h[T] /\ g[T \ {Max(T)}] = h[T \ {Max(T)}]
        BY <3>2, <4>3
      <4>. QED
        BY <4>2, <4>4
    <3>. QED
      BY <3>1, <3>2
  <2>3. Recursion(g, k + 1)
    <3>1. g = [T \in SUBSET (1..(k + 1)) |-> g[T]]
      OBVIOUS
    <3>. HIDE DEF g
    <3>. QED
      BY <2>2, <3>1
  <2>. HIDE DEF g, Recursion
  <2>. QED
    BY <2>3
<1>4. PICK h : Recursion(h, n) /\ BuildDirTree(s) = h[1..n]
  <2>1. \A k \in 0..n : k \in G
    <3>. HIDE DEF G
    <3>. QED
      BY <1>2, <1>3, UpwardInduction
  <2>. HIDE DEF Recursion
  <2>2. \E h : Recursion(h, n)
    BY <2>1
  <2>. QED
    BY <1>1, <2>2
<1> DEFINE c == [k \in 0..n |-> h[1..k]]
<1>5. c[0] = Blank(s)
  BY <1>4, EmptyInterval
<1>6. ASSUME NEW k \in 1..n PROVE c[k] = next(c[k - 1], k)
  <2>1. 1..k \in SUBSET (1..n) /\ 1..k # {} /\ Max(1..k) = k /\ (1..k) \ {k} = 1..(k - 1)
    BY UpToIs
  <2>2. h[1..k] = next(h[(1..k) \ {k}], k)
    BY <1>4, <2>1
  <2>3. k \in 0..n /\ k - 1 \in 0..n
    OBVIOUS
  <2>4. c[k] = h[1..k] /\ c[k - 1] = h[1..(k - 1)]
    BY <2>3
  <2>. HIDE DEF c
  <2>. QED
    BY <2>1, <2>2, <2>4
<1>7. c[n] = h[1..n]
  OBVIOUS
<1>. HIDE DEF c
<1>. QED
  BY <1>4, <1>5, <1>6, <1>7 DEF next
-----------------------------------------------------------------------------
(***************************************************************************)
(* Names.  Those on the way to a name are its prefixes.                    *)
(***************************************************************************)
Paths == Seq(Parts) \ {<<>>}
\* It is not longer than its record; it may lack room for its end.
InRecord(p) == NameSize(p) <= MAX_PATH_PCK_256

LEMMA NameSizeIsInt ==
  ASSUME NEW p \in Seq(Parts)
  PROVE  NameSize(p) \in Int
<1>1. PICK n \in Nat : n = Len(p) /\ DOMAIN p = 1..n
  OBVIOUS
<1>2. PICK c : /\ c[0] = -1
               /\ \A k \in 1..n : c[k] = c[k - 1] + PartSize[p[k]] + 1
               /\ NameSize(p) = c[n]
  BY <1>1, NameSizeChain
<1> DEFINE G == {k \in 0..n : c[k] \in Int}
<1>3. 0 \in G
  BY <1>2
<1>4. ASSUME NEW k \in 0..(n - 1), k \in G PROVE k + 1 \in G
  <2>1. k + 1 \in 1..n /\ (k + 1) - 1 = k
    OBVIOUS
  <2>2. p[k + 1] \in Parts
    BY <1>1, <2>1
  <2>3. PartSize[p[k + 1]] \in Int
    BY <2>2, NamesAssumption
  <2>4. c[k + 1] = c[k] + PartSize[p[k + 1]] + 1
    BY <1>2, <2>1
  <2>. QED
    BY <1>4, <2>1, <2>3, <2>4
<1>5. \A k \in 0..n : k \in G
  <2>. HIDE DEF G
  <2>. QED
    BY <1>3, <1>4, UpwardInduction
<1>. QED
  BY <1>2, <1>5

LEMMA NameSizeOfChanged ==
  ASSUME NEW p \in Seq(Parts), NEW j \in 1..Len(p), NEW part \in Parts
  PROVE  NameSize([p EXCEPT ![j] = part]) = NameSize(p) - PartSize[p[j]] + PartSize[part]
<1> DEFINE q == [p EXCEPT ![j] = part]
<1>1. PICK n \in Nat : n = Len(p) /\ DOMAIN p = 1..n /\ DOMAIN q = 1..n
  OBVIOUS
<1>2. PICK c : /\ c[0] = -1
               /\ \A k \in 1..n : c[k] = c[k - 1] + PartSize[p[k]] + 1
               /\ NameSize(p) = c[n]
  BY <1>1, NameSizeChain
<1>3. PICK d : /\ d[0] = -1
               /\ \A k \in 1..n : d[k] = d[k - 1] + PartSize[q[k]] + 1
               /\ NameSize(q) = d[n]
  <2>. HIDE DEF q
  <2>. QED
    BY <1>1, NameSizeChain
<1> DEFINE diff == PartSize[part] - PartSize[p[j]]
           G == {k \in 0..n : c[k] \in Int /\ d[k] = c[k] + (IF k >= j THEN diff ELSE 0)}
<1>4. j \in 1..n /\ diff \in Int /\ PartSize[part] \in Int /\ PartSize[p[j]] \in Int
  BY <1>1, NamesAssumption
<1>5. 0 \in G
  BY <1>2, <1>3, <1>4
<1>6. ASSUME NEW k \in 0..(n - 1), k \in G PROVE k + 1 \in G
  <2>1. k + 1 \in 1..n /\ (k + 1) - 1 = k /\ k + 1 \in 0..n
    OBVIOUS
  <2>2. p[k + 1] \in Parts /\ q[k + 1] = IF k + 1 = j THEN part ELSE p[k + 1]
    BY <1>1, <2>1
  <2>3. PartSize[p[k + 1]] \in Int
    BY <2>2, NamesAssumption
  <2>4. c[k + 1] = c[k] + PartSize[p[k + 1]] + 1 /\ d[k + 1] = d[k] + PartSize[q[k + 1]] + 1
    BY <1>2, <1>3, <2>1
  <2>5. c[k] \in Int /\ d[k] = c[k] + (IF k >= j THEN diff ELSE 0)
    BY <1>6
  <2>6. c[k + 1] \in Int
    BY <2>3, <2>4, <2>5
  <2>. HIDE DEF q
  <2>7. CASE k + 1 = j
    <3>1. k + 1 >= j /\ ~(k >= j)
      BY <2>7
    <3>2. d[k] = c[k] /\ c[k + 1] = c[k] + PartSize[p[j]] + 1 /\ d[k + 1] = c[k] + PartSize[part] + 1
      BY <2>2, <2>4, <2>5, <2>7, <3>1
    <3>3. d[k + 1] = c[k + 1] + diff
      BY <1>4, <2>5, <3>2
    <3>. QED
      BY <2>1, <2>6, <3>1, <3>3
  <2>8. CASE k + 1 # j
    <3>1. q[k + 1] = p[k + 1] /\ (k + 1 >= j <=> k >= j)
      BY <1>4, <2>2, <2>8
    <3>. HIDE DEF diff
    <3>. QED
      BY <1>4, <2>1, <2>3, <2>4, <2>5, <2>6, <3>1
  <2>. QED
    BY <2>7, <2>8
<1>7. \A k \in 0..n : k \in G
  <2>. HIDE DEF G
  <2>. QED
    BY <1>5, <1>6, UpwardInduction
<1>8. NameSize(q) = d[n] /\ NameSize(p) = c[n]
  BY <1>2, <1>3
<1>. HIDE DEF q
<1>9. c[n] \in Int /\ d[n] = c[n] + diff
  <2>1. n \in 0..n /\ n >= j
    BY <1>4
  <2>2. n \in G
    BY <1>7, <2>1
  <2>. HIDE DEF diff
  <2>. QED
    BY <2>1, <2>2
<1>10. NameSize(q) = NameSize(p) - PartSize[p[j]] + PartSize[part]
  BY <1>4, <1>8, <1>9 DEF diff
<1>. QED
  BY <1>10 DEF q

LEMMA PathToIs ==
  ASSUME NEW p \in Seq(Parts), NEW q \in PathsTo(p)
  PROVE  /\ q \in Paths /\ Len(q) \in 1..Len(p) /\ q = SubSeq(p, 1, Len(q))
         /\ \A i \in 1..Len(q) : q[i] = p[i]
<1>1. PICK k \in 1..Len(p) : q = SubSeq(p, 1, k)
  BY DEF PathsTo
<1>2. q \in Seq(Parts) /\ Len(q) = k /\ \A i \in 1..k : q[i] = p[i]
  BY <1>1
<1>3. q # <<>>
  BY <1>2
<1>. QED
  BY <1>1, <1>2, <1>3 DEF Paths

LEMMA IsPathTo ==
  ASSUME NEW p \in Seq(Parts), NEW q \in Paths, Len(q) <= Len(p), \A i \in 1..Len(q) : q[i] = p[i]
  PROVE  q \in PathsTo(p)
<1>1. PICK n \in Nat, k \in Nat : n = Len(p) /\ k = Len(q)
  BY DEF Paths
<1>2. q \in Seq(Parts) /\ k # 0 /\ k <= n
  BY <1>1 DEF Paths
<1>3. k \in 1..Len(p)
  BY <1>1, <1>2
<1>4. SubSeq(p, 1, k) \in Seq(Parts) /\ Len(SubSeq(p, 1, k)) = k
  BY <1>1, <1>3
<1>5. \A i \in 1..k : SubSeq(p, 1, k)[i] = p[i]
  BY <1>1, <1>3
<1>6. q = SubSeq(p, 1, k)
  BY <1>1, <1>2, <1>4, <1>5
<1>. QED
  BY <1>3, <1>6 DEF PathsTo

LEMMA PathToSelf ==
  ASSUME NEW p \in Paths
  PROVE  p \in PathsTo(p)
<1>1. p \in Seq(Parts) /\ Len(p) <= Len(p)
  BY DEF Paths
<1>. QED
  BY <1>1, IsPathTo

LEMMA PathToPath ==
  ASSUME NEW p \in Seq(Parts), NEW q \in PathsTo(p), NEW r \in PathsTo(q)
  PROVE  r \in PathsTo(p)
<1>1. q \in Paths /\ Len(q) \in 1..Len(p) /\ \A i \in 1..Len(q) : q[i] = p[i]
  BY PathToIs
<1>2. r \in Paths /\ Len(r) \in 1..Len(q) /\ \A i \in 1..Len(r) : r[i] = q[i]
  BY <1>1, PathToIs DEF Paths
<1>3. PICK n \in Nat, k \in Nat, m \in Nat : n = Len(p) /\ k = Len(q) /\ m = Len(r)
  BY <1>1, <1>2 DEF Paths
<1>4. m <= n /\ \A i \in 1..m : r[i] = p[i]
  BY <1>1, <1>2, <1>3
<1>. QED
  BY <1>2, <1>3, <1>4, IsPathTo

\* The shorter of two paths to a name is a path to the longer.
LEMMA PathsToOne ==
  ASSUME NEW p \in Seq(Parts), NEW q \in PathsTo(p), NEW r \in PathsTo(p), Len(q) <= Len(r)
  PROVE  q \in PathsTo(r)
<1>1. q \in Paths /\ r \in Paths /\ \A i \in 1..Len(q) : q[i] = p[i]
  BY PathToIs
<1>2. \A i \in 1..Len(r) : r[i] = p[i]
  BY PathToIs
<1>3. PICK k \in Nat, m \in Nat : k = Len(q) /\ m = Len(r)
  BY <1>1 DEF Paths
<1>4. \A i \in 1..k : q[i] = r[i]
  BY <1>1, <1>2, <1>3
<1>5. r \in Seq(Parts)
  BY <1>1 DEF Paths
<1>. QED
  BY <1>1, <1>3, <1>4, <1>5, IsPathTo

LEMMA SameLength ==
  ASSUME NEW p \in Seq(Parts), NEW q \in PathsTo(p), NEW r \in PathsTo(p), Len(q) = Len(r)
  PROVE  q = r
BY PathToIs

LEMMA PrefixMeans ==
  ASSUME NEW q \in Seq(Parts), NEW r \in Seq(Parts)
  PROVE  IsPrefix(q, r) <=> Len(q) <= Len(r) /\ \A i \in 1..Len(q) : q[i] = r[i]
<1>1. PICK n \in Nat, k \in Nat : n = Len(r) /\ k = Len(q)
  OBVIOUS
<1>2. SubSeq(q, 1, k) = q
  BY <1>1
<1>3. CASE k <= n
  <2>1. SubSeq(r, 1, k) \in Seq(Parts) /\ Len(SubSeq(r, 1, k)) = k
    BY <1>1, <1>3
  <2>2. \A i \in 1..k : SubSeq(r, 1, k)[i] = r[i]
    BY <1>1, <1>3
  <2>3. q = SubSeq(r, 1, k) <=> \A i \in 1..k : q[i] = r[i]
    BY <1>1, <2>1, <2>2
  <2>. QED
    BY <1>1, <1>2, <1>3, <2>3 DEF IsPrefix
<1>4. CASE ~(k <= n)
  BY <1>1, <1>4 DEF IsPrefix
<1>. QED
  BY <1>3, <1>4

LEMMA PrefixIsPath ==
  ASSUME NEW q \in Paths, NEW r \in Seq(Parts)
  PROVE  IsStrictPrefix(q, r) <=> q \in PathsTo(r) /\ q # r
<1>1. q \in Seq(Parts)
  BY DEF Paths
<1>2. IsPrefix(q, r) => q \in PathsTo(r)
  BY <1>1, PrefixMeans, IsPathTo
<1>3. q \in PathsTo(r) => IsPrefix(q, r)
  <2>. SUFFICES ASSUME q \in PathsTo(r) PROVE IsPrefix(q, r)
    OBVIOUS
  <2>1. Len(q) \in 1..Len(r) /\ \A i \in 1..Len(q) : q[i] = r[i]
    BY PathToIs
  <2>. QED
    BY <1>1, <2>1, PrefixMeans
<1>. QED
  BY <1>2, <1>3 DEF IsStrictPrefix
-----------------------------------------------------------------------------
(***************************************************************************)
(* What the index, the table and the tree are made of.                     *)
(***************************************************************************)
Ids == Nat \X Nat
Recs == [name : Paths, at : Nat, size : DataSizes, id : Ids]
Rows == [rec : Recs, name : Paths, at : Nat,
         isInvalid : BOOLEAN, isProtected : BOOLEAN, isToDeDelete : BOOLEAN]
Units == Ids \X Nat
Nodes == [index : Nat, folder : BOOLEAN, left : Int]

\* No entry is there twice.
OnceEach(index) == \A i, j \in 1..Len(index) : index[i].id = index[j].id => i = j
\* An index of names that fit, for operations before the n-th.
IndexOK(index, n) ==
  /\ index \in Seq(Recs) /\ OnceEach(index)
  /\ \A i \in 1..Len(index) : InRecord(index[i].name) /\ index[i].id[1] < n

NoClash(index) == \A i, j \in 1..Len(index) : ~Clash(index[i].name, index[j].name)

\* The data of every record lies inside of what there is.
Inside(index, data) == \A i \in 1..Len(index) : index[i].at + index[i].size <= Len(data)
\* Where record r says, its data is.
HasData(r, data) == r.at + r.size <= Len(data) /\ \A k \in 1..r.size : data[r.at + k] = <<r.id, k>>
Whole(index, data) == \A i \in 1..Len(index) : HasData(index[i], data)

\* A tree has a node for every part of every name, and at its end the record.
IsTree(t, n, names) ==
  /\ DOMAIN t = UNION {PathsTo(names[i]) : i \in 1..n}
  /\ \A q \in DOMAIN t :
       /\ t[q] \in Nodes /\ t[q].index <= n
       /\ t[q].folder <=> t[q].index = 0
       /\ t[q].index # 0 => names[t[q].index] = q
  /\ \A i \in 1..n : /\ t[names[i]].index # 0
                     /\ \A q \in PathsTo(names[i]) : t[q].left <= FilelenLeft(names[i])

LEMMA AppendIs ==
  ASSUME NEW S, NEW s \in Seq(S), NEW e \in S
  PROVE  /\ Append(s, e) \in Seq(S) /\ Len(Append(s, e)) = Len(s) + 1
         /\ Append(s, e)[Len(s) + 1] = e
         /\ \A i \in 1..Len(s) : Append(s, e)[i] = s[i]
OBVIOUS

(***************************************************************************)
(* WriteAllIndex takes over the valid rows of the table, each once.        *)
(***************************************************************************)
RowRecord(r) == Record(r.name, r.at, r.rec.size, r.rec.id)
RowsOnceEach(t) == \A i, j \in 1..Len(t) : t[i].rec.id = t[j].rec.id => i = j
IsWritten(w, t, k) ==
  /\ w \in Seq(Recs) /\ Len(w) <= k
  /\ \A m \in 1..Len(w) : \E i \in 1..k : ~t[i].isInvalid /\ w[m] = RowRecord(t[i])
  /\ OnceEach(w)

LEMMA RowRecordIs ==
  ASSUME NEW r \in Rows
  PROVE  /\ RowRecord(r) \in Recs /\ RowRecord(r).name = r.name /\ RowRecord(r).at = r.at
         /\ RowRecord(r).size = r.rec.size /\ RowRecord(r).id = r.rec.id
BY DEF RowRecord, Record, Rows, Recs

LEMMA WrittenIs ==
  ASSUME NEW t \in Seq(Rows), RowsOnceEach(t)
  PROVE  IsWritten(Written(t), t, Len(t))
<1>1. PICK n \in Nat : n = Len(t) /\ DOMAIN t = 1..n
  OBVIOUS
<1>2. PICK c : /\ c[0] = <<>>
               /\ \A k \in 1..n : c[k] = IF t[k].isInvalid THEN c[k - 1]
                    ELSE Append(c[k - 1], Record(t[k].name, t[k].at, t[k].rec.size, t[k].rec.id))
               /\ Written(t) = c[n]
  BY <1>1, WrittenChain
<1> DEFINE G == {k \in 0..n : IsWritten(c[k], t, k)}
<1>3. 0 \in G
  <2>1. <<>> \in Seq(Recs) /\ Len(<<>>) = 0
    OBVIOUS
  <2>2. IsWritten(<<>>, t, 0)
    BY <2>1, EmptyInterval DEF IsWritten, OnceEach
  <2>. QED
    BY <1>2, <2>2
<1>4. ASSUME NEW k \in 0..(n - 1), k \in G PROVE k + 1 \in G
  <2>1. k + 1 \in 1..n /\ (k + 1) - 1 = k /\ k + 1 \in 0..n /\ t[k + 1] \in Rows
    BY <1>1
  <2>2. IsWritten(c[k], t, k)
    BY <1>4
  <2>3. CASE t[k + 1].isInvalid
    <3>1. c[k + 1] = c[k]
      BY <1>2, <2>1, <2>3
    <3>2. Len(c[k]) <= k => Len(c[k]) <= k + 1
      BY <2>2 DEF IsWritten
    <3>. QED
      BY <2>1, <2>2, <3>1, <3>2 DEF IsWritten
  <2>4. CASE ~t[k + 1].isInvalid
    <3> DEFINE e == RowRecord(t[k + 1])
               w == c[k]
               v == c[k + 1]
    <3>1. v = Append(w, e)
      BY <1>2, <2>1, <2>4 DEF RowRecord
    <3>2. e \in Recs /\ e.id = t[k + 1].rec.id
      BY <2>1, RowRecordIs
    <3>3. w \in Seq(Recs) /\ Len(w) <= k
      BY <2>2 DEF IsWritten
    <3>4. \A m \in 1..Len(w) : \E i \in 1..k : ~t[i].isInvalid /\ w[m] = RowRecord(t[i])
      BY <2>2 DEF IsWritten
    <3>5. \A m \in 1..Len(w) : w[m].id # e.id
      <4>. SUFFICES ASSUME NEW m \in 1..Len(w) PROVE w[m].id # e.id
        OBVIOUS
      <4>1. PICK i \in 1..k : w[m] = RowRecord(t[i])
        BY <3>4
      <4>2. i \in 1..n /\ i # k + 1 /\ t[i] \in Rows
        BY <1>1
      <4>3. w[m].id = t[i].rec.id
        BY <4>1, <4>2, RowRecordIs
      <4>. QED
        BY <1>1, <2>1, <3>2, <4>2, <4>3 DEF RowsOnceEach
    <3>. HIDE DEF e, w, v
    <3>6. /\ v \in Seq(Recs) /\ Len(v) = Len(w) + 1 /\ v[Len(w) + 1] = e
          /\ \A m \in 1..Len(w) : v[m] = w[m]
      BY <3>1, <3>2, <3>3, AppendIs
    <3>7. PICK l \in Nat : l = Len(w)
      BY <3>3
    <3>8. \A m \in 1..Len(v) : m \in 1..l \/ m = l + 1
      BY <3>6, <3>7
    <3>9. OnceEach(v)
      <4>1. OnceEach(w)
        BY <2>2 DEF IsWritten, w
      <4>. QED
        BY <3>5, <3>6, <3>7, <3>8, <4>1 DEF OnceEach
    <3>10. \A m \in 1..Len(v) : \E i \in 1..(k + 1) : ~t[i].isInvalid /\ v[m] = RowRecord(t[i])
      <4>. SUFFICES ASSUME NEW m \in 1..Len(v)
                    PROVE  \E i \in 1..(k + 1) : ~t[i].isInvalid /\ v[m] = RowRecord(t[i])
        OBVIOUS
      <4>1. CASE m \in 1..l
        <5>1. PICK i \in 1..k : ~t[i].isInvalid /\ w[m] = RowRecord(t[i])
          BY <3>4, <3>7, <4>1
        <5>. QED
          BY <3>6, <3>7, <4>1, <5>1
      <4>2. CASE m = l + 1
        <5>1. v[m] = RowRecord(t[k + 1]) /\ k + 1 \in 1..(k + 1)
          BY <3>6, <3>7, <4>2 DEF e
        <5>. QED
          BY <2>4, <5>1
      <4>. QED
        BY <3>8, <4>1, <4>2
    <3>11. Len(v) <= k + 1
      BY <3>3, <3>6, <3>7
    <3>12. IsWritten(v, t, k + 1)
      BY <3>6, <3>9, <3>10, <3>11 DEF IsWritten
    <3>. QED
      BY <2>1, <3>12 DEF v
  <2>. QED
    BY <2>3, <2>4
<1>5. \A k \in 0..n : k \in G
  <2>. HIDE DEF G
  <2>. QED
    BY <1>3, <1>4, UpwardInduction
<1>. QED
  BY <1>1, <1>2, <1>5
-----------------------------------------------------------------------------
(***************************************************************************)
(* Building the tree.                                                      *)
(***************************************************************************)
NamesOf(index) == [i \in 1..Len(index) |-> index[i].name]

\* The table of an archive just mounted, and the nodes, also those of a tree that failed.
RowOf(r, rec) ==
  r.rec = rec /\ r.name = rec.name /\ r.at = rec.at /\ ~r.isProtected /\ ~r.isToDeDelete
TableOf(t, index) ==
  /\ t \in Seq(Rows) /\ Len(t) = Len(index)
  /\ \A i \in 1..Len(index) : RowOf(t[i], index[i])
Shape(t, index) ==
  /\ t = [built |-> t.built, nodes |-> t.nodes, table |-> t.table] /\ t.built \in BOOLEAN
  /\ TableOf(t.table, index)
  /\ \A q \in DOMAIN t.nodes : t.nodes[q].index \in 0..Len(index) /\ t.nodes[q].folder \in BOOLEAN
\* With k records in the tree, those that are valid are at the ends of their names.
MarkedAt(t, index, k) ==
  /\ \A i \in 1..k : t.table[i].isInvalid <=> t.nodes[index[i].name].index # i
  /\ \A i \in (k + 1)..Len(index) : ~t.table[i].isInvalid
Built(t, index, k) == t.built => IsTree(t.nodes, k, NamesOf(index)) /\ MarkedAt(t, index, k)

LEMMA NameIs ==
  ASSUME NEW index \in Seq(Recs), NEW i \in 1..Len(index)
  PROVE  index[i] \in Recs /\ index[i].name \in Paths /\ index[i].name \in Seq(Parts)
         /\ NamesOf(index)[i] = index[i].name
<1>1. index[i] \in Recs
  OBVIOUS
<1>2. index[i].name \in Paths
  BY <1>1 DEF Recs
<1>3. index[i].name \in Seq(Parts)
  BY <1>2 DEF Paths
<1>. QED
  BY <1>1, <1>2, <1>3 DEF NamesOf

LEMMA FilelenLeftIsInt ==
  ASSUME NEW p \in Seq(Parts)
  PROVE  FilelenLeft(p) \in Int /\ MAX_PATH_PCK_256 \in Int
BY NameSizeIsInt, NamesAssumption DEF FilelenLeft, Left

LEMMA LeastIs ==
  ASSUME NEW m \in Int, NEW n \in Int
  PROVE  Least(m, n) \in Int /\ Least(m, n) <= m /\ Least(m, n) <= n
BY DEF Least

\* An index without clashes has a tree.
LEMMA AddFails ==
  ASSUME NEW index \in Seq(Recs), NEW k \in Nat, k < Len(index), NEW t, Shape(t, index), Built(t, index, k),
         ~t.built \/ (index[k + 1].name \in DOMAIN t.nodes /\ t.nodes[index[k + 1].name].index = 0),
         NoClash(index) => t.built
  PROVE  ~NoClash(index)
<1>. SUFFICES ASSUME NoClash(index) PROVE FALSE
  OBVIOUS
<1> DEFINE p == index[k + 1].name
<1>1. t.built /\ p \in DOMAIN t.nodes /\ t.nodes[p].index = 0
  OBVIOUS
<1>2. IsTree(t.nodes, k, NamesOf(index))
  BY <1>1 DEF Built
<1>3. PICK i \in 1..k : p \in PathsTo(NamesOf(index)[i])
  BY <1>1, <1>2 DEF IsTree
<1>4. i \in 1..Len(index) /\ k + 1 \in 1..Len(index)
  OBVIOUS
<1>5. NamesOf(index)[i] = index[i].name /\ index[i].name \in Seq(Parts) /\ p \in Paths
  BY <1>4, NameIs
<1>6. index[i].name # p
  BY <1>1, <1>2, <1>5 DEF IsTree
<1>7. IsStrictPrefix(p, index[i].name)
  BY <1>3, <1>5, <1>6, PrefixIsPath
<1>. QED
  BY <1>4, <1>7 DEF NoClash, Clash

\* What a record changes in the nodes, and in the table.
NodeWith(f, nds, p, i, q) ==
  /\ f[q] = [index |-> f[q].index, folder |-> f[q].folder, left |-> f[q].left]
  /\ q = p => f[q].index = i /\ f[q].folder = FALSE
  /\ q # p /\ q \in DOMAIN nds => f[q].index = nds[q].index /\ f[q].folder = nds[q].folder
  /\ q # p /\ q \notin DOMAIN nds => f[q].index = 0 /\ f[q].folder = TRUE
  /\ q \in DOMAIN nds => f[q].left = Least(nds[q].left, FilelenLeft(p))
  /\ q \notin DOMAIN nds => f[q].left = Least(MAX_PATH_PCK_256, FilelenLeft(p))
NodesWith(f, nds, p, i) ==
  /\ DOMAIN f = DOMAIN nds \cup PathsTo(p)
  /\ \A q \in DOMAIN nds : q \notin PathsTo(p) => f[q] = nds[q]
  /\ \A q \in PathsTo(p) : NodeWith(f, nds, p, i, q)
Struck(tab, i) == [tab EXCEPT ![i].isInvalid = TRUE]

LEMMA AddWorks ==
  ASSUME NEW t, NEW i, NEW p, p = t.table[i].name,
         t = [built |-> t.built, nodes |-> t.nodes, table |-> t.table], t.built,
         ~(p \in DOMAIN t.nodes /\ t.nodes[p].index = 0)
  PROVE  /\ AddFileToNode(t, i) = [built |-> TRUE, nodes |-> AddFileToNode(t, i).nodes,
              table |-> IF p \in DOMAIN t.nodes THEN Struck(t.table, t.nodes[p].index) ELSE t.table]
         /\ NodesWith(AddFileToNode(t, i).nodes, t.nodes, p, i)
<1> DEFINE old == DOMAIN t.nodes
           left(q) == IF q \in old THEN t.nodes[q].left ELSE MAX_PATH_PCK_256
           node(q) == IF q = p THEN [index |-> i, folder |-> FALSE]
                      ELSE IF q \in old THEN t.nodes[q] ELSE [index |-> 0, folder |-> TRUE]
           f == [q \in old \cup PathsTo(p) |->
              IF q \notin PathsTo(p) THEN t.nodes[q]
              ELSE [index |-> node(q).index, folder |-> node(q).folder,
                    left |-> Least(left(q), FilelenLeft(p))]]
           tab == IF p \in old THEN Struck(t.table, t.nodes[p].index) ELSE t.table
<1>1. AddFileToNode(t, i) = [t EXCEPT !.table = tab, !.nodes = f]
  BY DEF AddFileToNode, Struck
<1>2. NodesWith(f, t.nodes, p, i)
  <2>1. ASSUME NEW q \in PathsTo(p) PROVE NodeWith(f, t.nodes, p, i, q)
    <3>1. f[q] = [index |-> node(q).index, folder |-> node(q).folder,
                  left |-> Least(left(q), FilelenLeft(p))]
      OBVIOUS
    <3>2. /\ f[q].index = node(q).index /\ f[q].folder = node(q).folder
          /\ f[q].left = Least(left(q), FilelenLeft(p))
      BY <3>1
    <3>. HIDE DEF f
    <3>. QED
      BY <3>1, <3>2 DEF NodeWith
  <2>2. DOMAIN f = old \cup PathsTo(p) /\ \A q \in old : q \notin PathsTo(p) => f[q] = t.nodes[q]
    OBVIOUS
  <2>. HIDE DEF f
  <2>. QED
    BY <2>1, <2>2 DEF NodesWith
<1>. HIDE DEF f, tab
<1>3. AddFileToNode(t, i) = [built |-> TRUE, nodes |-> f, table |-> tab]
  BY <1>1
<1>4. AddFileToNode(t, i).nodes = f
  BY <1>3
<1>. QED
  BY <1>2, <1>3, <1>4 DEF tab

LEMMA TreeWithRecord ==
  ASSUME NEW n \in Nat, NEW names \in [1..n -> Paths], NEW k \in 0..(n - 1), NEW nds, NEW f,
         IsTree(nds, k, names), NodesWith(f, nds, names[k + 1], k + 1),
         ~(names[k + 1] \in DOMAIN nds /\ nds[names[k + 1]].index = 0)
  PROVE  IsTree(f, k + 1, names)
<1> DEFINE p == names[k + 1]
<1>1. k + 1 \in 1..n /\ p \in Paths /\ p \in Seq(Parts) /\ p \in PathsTo(p)
  BY PathToSelf DEF Paths
<1>2. FilelenLeft(p) \in Int /\ MAX_PATH_PCK_256 \in Int
  BY <1>1, FilelenLeftIsInt
<1>3. \A i \in 1..(k + 1) : i \in 1..k \/ i = k + 1
  OBVIOUS
<1>4. ASSUME NEW q \in DOMAIN nds
      PROVE  nds[q].index \in Nat /\ nds[q].folder \in BOOLEAN /\ nds[q].left \in Int /\ nds[q].index <= k
  <2>1. nds[q] \in Nodes /\ nds[q].index <= k
    BY DEF IsTree
  <2>. QED
    BY <2>1 DEF Nodes
<1>5. DOMAIN f = UNION {PathsTo(names[i]) : i \in 1..(k + 1)}
  <2>1. DOMAIN f = DOMAIN nds \cup PathsTo(p)
    BY DEF NodesWith
  <2>2. DOMAIN nds = UNION {PathsTo(names[i]) : i \in 1..k}
    BY DEF IsTree
  <2>. QED
    BY <1>3, <2>1, <2>2
<1>6. \A i \in 1..k : names[i] \in DOMAIN nds /\ \A q \in PathsTo(names[i]) : q \in DOMAIN nds
  <2>1. \A i \in 1..k : names[i] \in PathsTo(names[i])
    BY PathToSelf
  <2>. QED
    BY <2>1 DEF IsTree
<1> DEFINE l(q) == IF q \in DOMAIN nds THEN nds[q].left ELSE MAX_PATH_PCK_256
<1>7. ASSUME NEW q \in PathsTo(p)
      PROVE  /\ f[q].left \in Int /\ f[q].left <= FilelenLeft(p)
             /\ q \in DOMAIN nds => f[q].left <= nds[q].left
  <2>1. f[q].left = Least(l(q), FilelenLeft(p))
    BY DEF NodesWith, NodeWith
  <2>2. l(q) \in Int
    BY <1>2, <1>4
  <2>. QED
    BY <1>2, <2>1, <2>2, LeastIs
<1>8. ASSUME NEW q \in DOMAIN f
      PROVE  /\ f[q] \in Nodes /\ f[q].index <= k + 1
             /\ f[q].folder <=> f[q].index = 0
             /\ f[q].index # 0 => names[f[q].index] = q
  <2>0. q \in PathsTo(p) /\ f[q].index \in Nat /\ f[q].folder \in BOOLEAN => f[q] \in Nodes
    <3>. SUFFICES ASSUME q \in PathsTo(p), f[q].index \in Nat, f[q].folder \in BOOLEAN
                  PROVE  f[q] \in Nodes
      OBVIOUS
    <3>1. f[q] = [index |-> f[q].index, folder |-> f[q].folder, left |-> f[q].left]
      BY DEF NodesWith, NodeWith
    <3>2. f[q].left \in Int
      BY <1>7
    <3>. QED
      BY <3>1, <3>2 DEF Nodes
  <2>1. CASE q \notin PathsTo(p)
    <3>1. q \in DOMAIN nds /\ f[q] = nds[q]
      BY <2>1 DEF NodesWith
    <3>2. nds[q] \in Nodes /\ (nds[q].folder <=> nds[q].index = 0)
          /\ (nds[q].index # 0 => names[nds[q].index] = q)
      BY <3>1 DEF IsTree
    <3>3. nds[q].index <= k + 1
      BY <1>4, <3>1
    <3>. QED
      BY <3>1, <3>2, <3>3
  <2>2. CASE q \in PathsTo(p) /\ q = p
    <3>1. f[q].index = k + 1 /\ f[q].folder = FALSE
      BY <2>2 DEF NodesWith, NodeWith
    <3>2. f[q] \in Nodes
      <4>1. f[q].index \in Nat
        BY <3>1
      <4>2. f[q].folder \in BOOLEAN
        BY <3>1
      <4>. QED
        BY <2>0, <2>2, <4>1, <4>2
    <3>. QED
      BY <2>2, <3>1, <3>2
  <2>3. CASE q \in PathsTo(p) /\ q # p /\ q \in DOMAIN nds
    <3>1. f[q].index = nds[q].index /\ f[q].folder = nds[q].folder
      BY <2>3 DEF NodesWith, NodeWith
    <3>2. f[q] \in Nodes /\ f[q].index <= k + 1
      BY <1>4, <2>0, <2>3, <3>1
    <3>3. (nds[q].folder <=> nds[q].index = 0) /\ (nds[q].index # 0 => names[nds[q].index] = q)
      BY <2>3 DEF IsTree
    <3>. QED
      BY <3>1, <3>2, <3>3
  <2>4. CASE q \in PathsTo(p) /\ q # p /\ q \notin DOMAIN nds
    <3>1. f[q].index = 0 /\ f[q].folder = TRUE
      BY <2>4 DEF NodesWith, NodeWith
    <3>2. f[q] \in Nodes
      <4>1. f[q].index \in Nat
        BY <3>1
      <4>2. f[q].folder \in BOOLEAN
        BY <3>1
      <4>. QED
        BY <2>0, <2>4, <4>1, <4>2
    <3>. QED
      BY <3>1, <3>2
  <2>. QED
    BY <2>1, <2>2, <2>3, <2>4
<1>9. ASSUME NEW i \in 1..(k + 1)
      PROVE  f[names[i]].index # 0 /\ \A q \in PathsTo(names[i]) : f[q].left <= FilelenLeft(names[i])
  <2>1. CASE names[i] = p
    <3>1. f[p].index = k + 1
      BY <1>1 DEF NodesWith, NodeWith
    <3>. QED
      BY <1>7, <2>1, <3>1
  <2>2. CASE names[i] # p
    <3>1. i \in 1..k /\ names[i] \in DOMAIN nds /\ names[i] \in Seq(Parts)
      BY <1>3, <1>6, <2>2 DEF Paths
    <3>2. nds[names[i]].index # 0 /\ \A q \in PathsTo(names[i]) : nds[q].left <= FilelenLeft(names[i])
      BY <3>1 DEF IsTree
    <3>3. f[names[i]].index = nds[names[i]].index
      <4>1. names[i] \in PathsTo(p) => f[names[i]].index = nds[names[i]].index
        BY <2>2, <3>1 DEF NodesWith, NodeWith
      <4>2. names[i] \notin PathsTo(p) => f[names[i]].index = nds[names[i]].index
        BY <3>1 DEF NodesWith
      <4>. QED
        BY <4>1, <4>2
    <3>4. FilelenLeft(names[i]) \in Int
      BY <3>1, FilelenLeftIsInt
    <3>5. ASSUME NEW q \in PathsTo(names[i]) PROVE f[q].left <= FilelenLeft(names[i])
      <4>1. q \in DOMAIN nds /\ nds[q].left \in Int /\ nds[q].left <= FilelenLeft(names[i])
        BY <1>4, <1>6, <3>1, <3>2
      <4>2. CASE q \in PathsTo(p)
        BY <1>7, <3>4, <4>1, <4>2
      <4>3. CASE q \notin PathsTo(p)
        BY <4>1, <4>3 DEF NodesWith
      <4>. QED
        BY <4>2, <4>3
    <3>. QED
      BY <3>2, <3>3, <3>5
  <2>. QED
    BY <2>1, <2>2
<1>. QED
  BY <1>5, <1>8, <1>9 DEF IsTree

LEMMA MarksWithRecord ==
  ASSUME NEW index \in Seq(Recs), NEW k \in Nat, k < Len(index), NEW t, NEW u, NEW p,
         p = index[k + 1].name, t.built,
         Shape(t, index), Built(t, index, k), NodesWith(u.nodes, t.nodes, p, k + 1),
         u.table = IF p \in DOMAIN t.nodes THEN Struck(t.table, t.nodes[p].index) ELSE t.table,
         ~(p \in DOMAIN t.nodes /\ t.nodes[p].index = 0)
  PROVE  TableOf(u.table, index) /\ MarkedAt(u, index, k + 1)
<1>1. PICK n \in Nat : n = Len(index)
  OBVIOUS
<1> DEFINE old == DOMAIN t.nodes
           j == t.nodes[p].index
<1>2. IsTree(t.nodes, k, NamesOf(index)) /\ MarkedAt(t, index, k)
  BY DEF Built
<1>3. t.table \in Seq(Rows) /\ Len(t.table) = n /\ \A i \in 1..n : RowOf(t.table[i], index[i])
  BY <1>1 DEF Shape, TableOf
<1>4. k + 1 \in 1..n /\ p \in Paths /\ p \in PathsTo(p)
  BY <1>1, NameIs, PathToSelf
<1>5. p \in old => j \in 1..k /\ index[j].name = p
  <2>. SUFFICES ASSUME p \in old PROVE j \in 1..k /\ index[j].name = p
    OBVIOUS
  <2>1. j \in 1..k
    BY <1>2 DEF IsTree, Nodes
  <2>2. NamesOf(index)[j] = p
    BY <1>2 DEF IsTree
  <2>. QED
    BY <1>1, <2>1, <2>2, NameIs
<1>6. ASSUME NEW i \in 1..n
      PROVE  /\ u.table[i].isInvalid <=> t.table[i].isInvalid \/ (p \in old /\ i = j)
             /\ u.table[i] \in Rows /\ RowOf(u.table[i], index[i])
  <2>1. t.table[i] \in Rows /\ RowOf(t.table[i], index[i]) /\ DOMAIN t.table = 1..n
    BY <1>3
  <2>2. CASE p \in old /\ i = j
    <3>1. u.table[i] = [t.table[i] EXCEPT !.isInvalid = TRUE]
      BY <1>3, <2>1, <2>2 DEF Struck
    <3>2. u.table[i] \in Rows /\ u.table[i].isInvalid
      BY <2>1, <3>1 DEF Rows
    <3>3. RowOf(u.table[i], index[i])
      BY <2>1, <3>1 DEF RowOf, Rows
    <3>. QED
      BY <2>2, <3>2, <3>3
  <2>3. CASE ~(p \in old /\ i = j)
    <3>1. u.table[i] = t.table[i]
      BY <1>3, <2>1, <2>3 DEF Struck
    <3>. QED
      BY <2>1, <2>3, <3>1
  <2>. QED
    BY <2>2, <2>3
<1>7. TableOf(u.table, index)
  <2>1. DOMAIN u.table = 1..n /\ u.table = [i \in 1..n |-> u.table[i]]
    <3>1. t.table = [i \in 1..n |-> t.table[i]] /\ DOMAIN t.table = 1..n
      BY <1>3
    <3>2. CASE p \in old
      BY <3>1, <3>2 DEF Struck
    <3>3. CASE p \notin old
      BY <3>1, <3>3
    <3>. QED
      BY <3>2, <3>3
  <2>2. u.table \in [1..n -> Rows]
    <3>1. \A i \in 1..n : u.table[i] \in Rows
      BY <1>6
    <3> DEFINE v == u.table
    <3>2. v = [i \in 1..n |-> v[i]] /\ \A i \in 1..n : v[i] \in Rows
      BY <2>1, <3>1
    <3>. HIDE DEF v
    <3>3. v \in [1..n -> Rows]
      BY <3>2
    <3>. QED
      BY <3>3 DEF v
  <2>3. u.table \in Seq(Rows) /\ Len(u.table) = n
    BY <2>2
  <2>. QED
    BY <1>1, <1>6, <2>3 DEF TableOf
<1>8. ASSUME NEW i \in 1..(k + 1)
      PROVE  u.table[i].isInvalid <=> u.nodes[index[i].name].index # i
  <2>1. i \in 1..n /\ (i \in 1..k \/ i = k + 1) /\ index[i].name \in Paths /\ NamesOf(index)[i] = index[i].name
    BY <1>1, NameIs
  <2>2. u.nodes[p].index = k + 1
    BY <1>4 DEF NodesWith, NodeWith
  <2>3. CASE i = k + 1
    <3>1. ~t.table[i].isInvalid
      BY <1>1, <1>2, <1>4, <2>3 DEF MarkedAt
    <3>2. ~(p \in old /\ i = j)
      BY <1>5, <2>3
    <3>. QED
      BY <1>6, <2>1, <2>2, <2>3, <3>1, <3>2
  <2>4. CASE i \in 1..k
    <3>1. t.table[i].isInvalid <=> t.nodes[index[i].name].index # i
      BY <1>2, <2>4 DEF MarkedAt
    <3>2. index[i].name \in old
      <4>1. index[i].name \in PathsTo(NamesOf(index)[i])
        BY <2>1, PathToSelf
      <4>. QED
        BY <1>2, <2>4, <4>1 DEF IsTree
    <3>3. CASE index[i].name = p
      <4>1. u.nodes[index[i].name].index # i
        BY <2>2, <2>4, <3>3
      <4>2. i = j \/ t.table[i].isInvalid
        BY <3>1, <3>3
      <4>. QED
        BY <1>6, <2>1, <3>2, <3>3, <4>1, <4>2
    <3>4. CASE index[i].name # p
      <4>1. u.nodes[index[i].name].index = t.nodes[index[i].name].index
        <5>1. index[i].name \in PathsTo(p) => u.nodes[index[i].name].index = t.nodes[index[i].name].index
          BY <3>2, <3>4 DEF NodesWith, NodeWith
        <5>2. index[i].name \notin PathsTo(p) => u.nodes[index[i].name].index = t.nodes[index[i].name].index
          BY <3>2 DEF NodesWith
        <5>. QED
          BY <5>1, <5>2
      <4>2. ~(p \in old /\ i = j)
        BY <1>5, <3>4
      <4>. QED
        BY <1>6, <2>1, <3>1, <4>1, <4>2
    <3>. QED
      BY <3>3, <3>4
  <2>. QED
    BY <2>1, <2>3, <2>4
<1>9. ASSUME NEW i \in (k + 2)..n PROVE ~u.table[i].isInvalid
  <2>1. i \in 1..n /\ i \in (k + 1)..n /\ ~(i \in 1..k)
    OBVIOUS
  <2>2. ~t.table[i].isInvalid
    BY <1>1, <1>2, <2>1 DEF MarkedAt
  <2>. QED
    BY <1>5, <1>6, <2>1, <2>2
<1>. QED
  <2>1. (k + 1) + 1 = k + 2
    OBVIOUS
  <2>. QED
    BY <1>1, <1>7, <1>8, <1>9, <2>1 DEF MarkedAt

TreeKept(t, index, k) == Shape(t, index) /\ Built(t, index, k) /\ (NoClash(index) => t.built)

LEMMA BlankIs ==
  ASSUME NEW index \in Seq(Recs)
  PROVE  TreeKept(Blank(index), index, 0)
<1>1. PICK n \in Nat : n = Len(index) /\ DOMAIN index = 1..n
  OBVIOUS
<1> DEFINE t == Blank(index)
           tab == [i \in DOMAIN index |->
                    [rec |-> index[i], name |-> index[i].name, at |-> index[i].at,
                     isInvalid |-> FALSE, isProtected |-> FALSE, isToDeDelete |-> FALSE]]
<1>2. t = [built |-> TRUE, nodes |-> <<>>, table |-> tab]
  BY DEF Blank
<1>3. ASSUME NEW i \in 1..n PROVE tab[i] \in Rows /\ RowOf(tab[i], index[i]) /\ ~tab[i].isInvalid
  <2>1. index[i] \in Recs
    BY <1>1
  <2>2. tab[i] = [rec |-> index[i], name |-> index[i].name, at |-> index[i].at,
                  isInvalid |-> FALSE, isProtected |-> FALSE, isToDeDelete |-> FALSE]
    BY <1>1
  <2>3. index[i].name \in Paths /\ index[i].at \in Nat
    BY <2>1 DEF Recs
  <2>. HIDE DEF tab
  <2>. QED
    BY <2>1, <2>2, <2>3 DEF Rows, RowOf
<1>4. tab \in Seq(Rows) /\ Len(tab) = n
  <2>1. tab = [i \in 1..n |-> tab[i]]
    BY <1>1
  <2>. HIDE DEF tab
  <2>. QED
    BY <1>3, <2>1
<1>. HIDE DEF tab, t
<1>5. TableOf(tab, index)
  BY <1>1, <1>3, <1>4 DEF TableOf
<1>6. Shape(t, index)
  <2>1. t = [built |-> t.built, nodes |-> t.nodes, table |-> t.table] /\ t.built = TRUE
        /\ t.nodes = <<>> /\ t.table = tab
    BY <1>2
  <2>2. DOMAIN t.nodes = {}
    BY <2>1
  <2>3. t.built \in BOOLEAN
    BY <2>1
  <2>. QED
    BY <1>5, <2>1, <2>2, <2>3 DEF Shape
<1>7. Built(t, index, 0)
  <2>1. t.nodes = <<>> /\ t.table = tab /\ DOMAIN <<>> = {}
    BY <1>2
  <2>2. IsTree(t.nodes, 0, NamesOf(index))
    BY <2>1, EmptyInterval DEF IsTree
  <2>3. MarkedAt(t, index, 0)
    BY <1>1, <1>3, <2>1, EmptyInterval DEF MarkedAt
  <2>. QED
    BY <2>2, <2>3 DEF Built
<1>8. t.built
  BY <1>2
<1>. QED
  BY <1>6, <1>7, <1>8 DEF TreeKept, t

LEMMA TreeStep ==
  ASSUME NEW index \in Seq(Recs), NEW k \in Nat, k < Len(index), NEW t, TreeKept(t, index, k)
  PROVE  TreeKept(AddFileToNode(t, k + 1), index, k + 1)
<1> DEFINE p == index[k + 1].name
           u == AddFileToNode(t, k + 1)
<1>1. PICK n \in Nat : n = Len(index) /\ k \in 0..(n - 1)
  OBVIOUS
<1>2. k + 1 \in 1..n
  BY <1>1
<1>3. Shape(t, index) /\ Built(t, index, k) /\ (NoClash(index) => t.built)
  BY DEF TreeKept
<1>4. p = t.table[k + 1].name
  BY <1>1, <1>2, <1>3 DEF Shape, TableOf, RowOf
<1>5. t = [built |-> t.built, nodes |-> t.nodes, table |-> t.table] /\ t.built \in BOOLEAN
  BY <1>3 DEF Shape
<1>6. CASE ~t.built \/ (p \in DOMAIN t.nodes /\ t.nodes[p].index = 0)
  <2>1. u = [t EXCEPT !.built = FALSE]
    BY <1>4, <1>6 DEF AddFileToNode
  <2>2. u = [built |-> FALSE, nodes |-> t.nodes, table |-> t.table]
    BY <1>5, <2>1
  <2>3. u.built = FALSE /\ u.nodes = t.nodes /\ u.table = t.table
        /\ u = [built |-> u.built, nodes |-> u.nodes, table |-> u.table]
    BY <2>2
  <2>4. u.built \in BOOLEAN
    BY <2>3
  <2>. HIDE DEF u
  <2>5. Shape(u, index)
    BY <1>3, <2>3, <2>4 DEF Shape
  <2>6. Built(u, index, k + 1)
    BY <2>3 DEF Built
  <2>7. ~NoClash(index)
    BY <1>3, <1>6, AddFails
  <2>8. TreeKept(u, index, k + 1)
    BY <2>5, <2>6, <2>7 DEF TreeKept
  <2>. QED
    BY <2>8 DEF u
<1>7. CASE ~(~t.built \/ (p \in DOMAIN t.nodes /\ t.nodes[p].index = 0))
  <2> DEFINE tab == IF p \in DOMAIN t.nodes THEN Struck(t.table, t.nodes[p].index) ELSE t.table
  <2>1. /\ u = [built |-> TRUE, nodes |-> u.nodes, table |-> tab]
        /\ NodesWith(u.nodes, t.nodes, p, k + 1)
    BY <1>4, <1>5, <1>7, AddWorks
  <2>. HIDE DEF u, tab
  <2>2. u.built = TRUE /\ u.table = tab /\ u = [built |-> u.built, nodes |-> u.nodes, table |-> u.table]
    BY <2>1
  <2>3. TableOf(u.table, index) /\ MarkedAt(u, index, k + 1)
    BY <1>3, <1>7, <2>1, <2>2, MarksWithRecord DEF tab
  <2>4. IsTree(u.nodes, k + 1, NamesOf(index))
    <3>1. NamesOf(index)[k + 1] = p
      BY <1>1, <1>2, NameIs
    <3>2. NamesOf(index) \in [1..n -> Paths]
      <4>1. \A i \in 1..n : index[i].name \in Paths
        BY <1>1, NameIs
      <4>. QED
        BY <1>1, <4>1 DEF NamesOf
    <3>3. IsTree(t.nodes, k, NamesOf(index))
      BY <1>3, <1>7 DEF Built
    <3> DEFINE names == NamesOf(index)
    <3>. HIDE DEF names, p
    <3>4. NodesWith(u.nodes, t.nodes, names[k + 1], k + 1)
      BY <2>1, <3>1 DEF names
    <3>5. ~(names[k + 1] \in DOMAIN t.nodes /\ t.nodes[names[k + 1]].index = 0)
      BY <1>7, <3>1 DEF names
    <3>6. IsTree(u.nodes, k + 1, names)
      BY <1>1, <3>2, <3>3, <3>4, <3>5, TreeWithRecord DEF names
    <3>. QED
      BY <3>6 DEF names
  <2>5. \A q \in DOMAIN u.nodes : u.nodes[q].index \in 0..Len(index) /\ u.nodes[q].folder \in BOOLEAN
    BY <1>1, <2>4 DEF IsTree, Nodes
  <2>6. Shape(u, index)
    <3>1. u.built \in BOOLEAN
      BY <2>2
    <3>. QED
      BY <2>2, <2>3, <2>5, <3>1 DEF Shape
  <2>7. Built(u, index, k + 1)
    BY <2>3, <2>4 DEF Built
  <2>8. TreeKept(u, index, k + 1)
    BY <2>2, <2>6, <2>7 DEF TreeKept
  <2>. QED
    BY <2>8 DEF u
<1>. QED
  BY <1>6, <1>7

\* The tree of any index; with two records of which one lies below the other there may be none.
LEMMA TreeIs ==
  ASSUME NEW index \in Seq(Recs)
  PROVE  TreeKept(BuildDirTree(index), index, Len(index))
<1>1. PICK n \in Nat : n = Len(index) /\ DOMAIN index = 1..n
  OBVIOUS
<1>2. PICK c : /\ c[0] = Blank(index)
               /\ \A k \in 1..n : c[k] = AddFileToNode(c[k - 1], [i \in DOMAIN index |-> i][k])
               /\ BuildDirTree(index) = c[n]
  BY <1>1, TreeChain
<1> DEFINE G == {k \in 0..n : TreeKept(c[k], index, k)}
<1>3. 0 \in G
  BY <1>2, BlankIs
<1>4. ASSUME NEW k \in 0..(n - 1), k \in G PROVE k + 1 \in G
  <2>1. k + 1 \in 1..n /\ (k + 1) - 1 = k /\ k + 1 \in 0..n /\ k \in Nat /\ k < n
    OBVIOUS
  <2>2. [i \in DOMAIN index |-> i][k + 1] = k + 1
    BY <1>1, <2>1
  <2>3. c[k + 1] = AddFileToNode(c[k], k + 1)
    BY <1>2, <2>1, <2>2
  <2>4. TreeKept(c[k], index, k)
    BY <1>4
  <2>5. TreeKept(c[k + 1], index, k + 1)
    BY <1>1, <2>1, <2>3, <2>4, TreeStep
  <2>. QED
    BY <2>1, <2>5
<1>5. \A k \in 0..n : k \in G
  <2>. HIDE DEF G
  <2>. QED
    BY <1>3, <1>4, UpwardInduction
<1>. QED
  BY <1>1, <1>2, <1>5
-----------------------------------------------------------------------------
(***************************************************************************)
(* The inductive invariant.                                                *)
(***************************************************************************)
\* A rebuild and an extraction.
CopyJobs ==
  [pc : {"copy", "done", "failed"}, kind : {"rebuild", "recompress", "strip"},
   script : Scripts \cup {<<>>}, edited : SUBSET Nat, stopped : BOOLEAN, out : Seq(Recs),
   data : Seq(Units), copied : SUBSET Nat, before : Seq(Rows)]
ExtractJobs ==
  [pc : {"extract", "extracted"}, base : Seq(Parts), chosen : SUBSET Paths,
   levels : Seq(SUBSET Paths), cwd : Seq(Parts \cup {".."}),
   written : SUBSET [at : Seq(Parts \cup {".."}), index : Nat],
   failed : BOOLEAN, lost : BOOLEAN, stopped : BOOLEAN]

DiskInv ==
  /\ disk.data \in Seq(Units) /\ IndexOK(disk.index, jobs) /\ Len(disk.index) <= MaxEntries
  /\ Inside(disk.index, disk.data)
  /\ jobs \in 0..MaxJobs
TableInv ==
  /\ table \in Seq(Rows) /\ Len(table) = Len(disk.index)
  /\ \A i \in 1..Len(table) : /\ table[i].rec = disk.index[i] /\ table[i].name = disk.index[i].name
                              /\ table[i].at <= disk.index[i].at
TreeInv ==
  /\ state \in {"open", "crashed", "torn"}
  /\ state = "open" => IsTree(nodes, Len(disk.index), NamesOf(disk.index))
  /\ state # "open" => job = NoJob
  /\ \A q \in DOMAIN nodes : nodes[q].index \in 0..Len(disk.index) /\ nodes[q].folder \in BOOLEAN

\* The marks of a filter are on rows it has noted, and leave what was marked before.
RowKept(b, r) ==
  /\ b.rec = r.rec /\ b.name = r.name /\ ~b.isProtected /\ ~b.isToDeDelete
  /\ r.isInvalid <=> b.isInvalid \/ r.isToDeDelete
  /\ r.isToDeDelete => ~b.isInvalid
Noted(r, noted) == r.isProtected \/ r.isToDeDelete => noted
MarksInv ==
  /\ job.pc # "copy" => \A i \in 1..Len(table) : ~table[i].isProtected /\ ~table[i].isToDeDelete
  /\ job.pc = "copy" =>
       \A i \in 1..Len(table) :
         /\ RowKept(job.before[i], table[i]) /\ Noted(table[i], i \in job.edited)
         /\ table[i].isToDeDelete => job.kind = "strip" /\ table[i].name \in Textures

\* Each record copied is one of the archive, and copied once.
SameEntry(r, s) == r.id = s.id /\ r.name = s.name
CopyInv ==
  job.pc \in {"copy", "done", "failed"} =>
    /\ job \in CopyJobs /\ Len(job.before) = Len(table) /\ Inside(job.out, job.data)
    /\ job.copied \subseteq 1..Len(table)
    /\ \A i \in job.copied :
         ~job.before[i].isInvalid /\ \E k \in 1..Len(job.out) : SameEntry(job.out[k], disk.index[i])
    /\ \A k \in 1..Len(job.out) : \E i \in job.copied : SameEntry(job.out[k], disk.index[i])
    /\ OnceEach(job.out) /\ IsFiniteSet(job.copied) /\ Len(job.out) = Cardinality(job.copied)
    /\ job.pc = "done" /\ ~job.stopped => \A i \in 1..Len(table) :
         job.before[i].isInvalid \/ i \in job.copied \/ Filtered(table[i].name)

\* What is extracted for q, and where the files of a level go.
Cover(q) == IF nodes[q].folder THEN Flagged(q) ELSE {nodes[q].index}
CoverAll(Q) == UNION {Cover(q) : q \in Q}
Indexes(W) == {w.index : w \in W}
ToDo(levels) == UNION {CoverAll(levels[l]) : l \in 1..Len(levels)}
LevelsOK(levels) ==
  /\ levels \in Seq(SUBSET Paths) /\ levels # <<>>
  /\ \A l \in 1..Len(levels) : levels[l] \subseteq DOMAIN nodes
InPlace(base, cwd, levels) ==
  /\ cwd \in Seq(Parts) /\ Len(cwd) = Len(levels) - 1
  /\ \A l \in 1..Len(levels) : \A r \in levels[l] : Front(r) = base \o SubSeq(cwd, 1, l - 1)
Placed(base, written) == \A w \in written : base \o w.at = table[w.index].name
ExtractOK(j) ==
  /\ j \in ExtractJobs /\ j.chosen \subseteq DOMAIN nodes /\ LevelsOK(j.levels)
  /\ \A w \in j.written : w.index \in 1..Len(table)
  /\ ~j.lost => Placed(j.base, j.written)
  /\ ~j.lost /\ j.pc = "extract" => InPlace(j.base, j.cwd, j.levels)
  /\ ~j.failed /\ ~j.stopped => CoverAll(j.chosen) = Indexes(j.written) \cup ToDo(j.levels)
  /\ ~j.failed /\ ~j.stopped /\ j.pc = "extracted" => ToDo(j.levels) = {}
ExtractInv == job.pc \in {"extract", "extracted"} => ExtractOK(job)

JobInv == job = NoJob \/ job.pc \in {"copy", "done", "failed", "extract", "extracted"}

IInv == DiskInv /\ TableInv /\ TreeInv /\ MarksInv /\ CopyInv /\ ExtractInv /\ JobInv

LEMMA NoJobIs == NoJob.pc = "none"
BY DEF NoJob

\* Mounting an index that is in order, after a change or a rebuild.
LEMMA SaveKeeps ==
  ASSUME NEW index, NEW data, Save(index, data), IndexOK(index, jobs'), Len(index) <= MaxEntries,
         data \in Seq(Units), Inside(index, data), jobs' \in 0..MaxJobs
  PROVE  IInv'
<1> DEFINE t == BuildDirTree(index)
<1>1. /\ disk' = [index |-> index, data |-> data] /\ table' = t.table /\ nodes' = t.nodes
      /\ state' = IF t.built THEN "open" ELSE "crashed"
      /\ job' = NoJob
  BY DEF Save
<1>2. disk'.index = index /\ disk'.data = data
  BY <1>1
<1>3. index \in Seq(Recs)
  BY DEF IndexOK
<1>. HIDE DEF t
<1>4. Shape(t, index) /\ Built(t, index, Len(index))
  BY <1>3, TreeIs DEF TreeKept, t
<1>5. DiskInv'
  BY <1>2 DEF DiskInv
<1>6. table' \in Seq(Rows) /\ Len(table') = Len(index) /\ \A i \in 1..Len(index) : RowOf(table'[i], index[i])
  BY <1>1, <1>4 DEF Shape, TableOf
<1>7. TableInv'
  <2>1. \A i \in 1..Len(index) : index[i].at \in Nat
    <3>1. \A i \in 1..Len(index) : index[i] \in Recs
      BY <1>3
    <3>. QED
      BY <3>1 DEF Recs
  <2>2. \A m \in Nat : m <= m
    OBVIOUS
  <2>. QED
    BY <1>2, <1>6, <2>1, <2>2 DEF TableInv, RowOf
<1>8. job'.pc = "none"
  BY <1>1, NoJobIs
<1>9. MarksInv'
  BY <1>6, <1>8 DEF MarksInv, RowOf
<1>10. TreeInv'
  <2>1. state' \in {"open", "crashed", "torn"} /\ (state' = "open" => t.built)
    BY <1>1
  <2>2. state' = "open" => IsTree(nodes', Len(disk'.index), NamesOf(disk'.index))
    BY <1>1, <1>2, <1>4, <2>1 DEF Built
  <2>3. \A q \in DOMAIN nodes' : nodes'[q].index \in 0..Len(disk'.index) /\ nodes'[q].folder \in BOOLEAN
    BY <1>1, <1>2, <1>4 DEF Shape
  <2>. QED
    BY <1>1, <2>1, <2>2, <2>3 DEF TreeInv
<1>11. CopyInv' /\ ExtractInv' /\ JobInv'
  BY <1>1, <1>8 DEF CopyInv, ExtractInv, JobInv
<1>. QED
  BY <1>5, <1>7, <1>9, <1>10, <1>11 DEF IInv

LEMMA InitIInv == Init => IInv
<1>. SUFFICES ASSUME Init PROVE IInv
  OBVIOUS
<1>1. /\ disk.index = <<>> /\ disk.data = <<>> /\ table = <<>> /\ nodes = <<>> /\ state = "open"
      /\ job = NoJob /\ jobs = 0 /\ job.pc = "none"
  BY NoJobIs DEF Init
<1>2. \A S : <<>> \in Seq(S)
  OBVIOUS
<1>3. Len(<<>>) = 0 /\ DOMAIN <<>> = {}
  OBVIOUS
<1>4. DiskInv
  BY <1>1, <1>2, <1>3, EmptyInterval, BoundsAssumption DEF DiskInv, IndexOK, OnceEach, Inside
<1>5. TableInv /\ MarksInv
  BY <1>1, <1>2, <1>3, EmptyInterval DEF TableInv, MarksInv
<1>6. TreeInv
  BY <1>1, <1>3, EmptyInterval DEF TreeInv, IsTree
<1>7. CopyInv /\ ExtractInv /\ JobInv
  BY <1>1 DEF CopyInv, ExtractInv, JobInv
<1>. QED
  BY <1>4, <1>5, <1>6, <1>7 DEF IInv
-----------------------------------------------------------------------------
(***************************************************************************)
(* Deleting and renaming.                                                  *)
(***************************************************************************)
\* A table of the same records.
SameRecords(t) ==
  /\ t \in Seq(Rows) /\ Len(t) = Len(table)
  /\ \A i \in 1..Len(table) : t[i].rec = table[i].rec /\ t[i].at = table[i].at
\* Only the mark of an invalid record is other than in the table.
Remarked(t) ==
  /\ t = [i \in DOMAIN table |-> t[i]]
  /\ \A i \in DOMAIN table :
       t[i] = [table[i] EXCEPT !.isInvalid = t[i].isInvalid] /\ t[i].isInvalid \in BOOLEAN

LEMMA RemarkedIs ==
  ASSUME TableInv, NEW t, Remarked(t)
  PROVE  /\ SameRecords(t)
         /\ \A i \in 1..Len(table) :
              /\ t[i].name = table[i].name /\ t[i].at = table[i].at
              /\ t[i].isProtected = table[i].isProtected /\ t[i].isToDeDelete = table[i].isToDeDelete
<1>1. PICK n \in Nat : n = Len(table) /\ DOMAIN table = 1..n
  BY DEF TableInv
<1>2. ASSUME NEW i \in 1..n
      PROVE  /\ t[i] \in Rows /\ t[i].rec = table[i].rec /\ t[i].name = table[i].name
             /\ t[i].at = table[i].at /\ t[i].isProtected = table[i].isProtected
             /\ t[i].isToDeDelete = table[i].isToDeDelete
  <2>1. table[i] \in Rows
    BY <1>1 DEF TableInv
  <2>2. t[i] = [table[i] EXCEPT !.isInvalid = t[i].isInvalid] /\ t[i].isInvalid \in BOOLEAN
    BY <1>1 DEF Remarked
  <2>. QED
    BY <2>1, <2>2 DEF Rows
<1>3. t = [i \in 1..n |-> t[i]]
  BY <1>1 DEF Remarked
<1>4. t \in Seq(Rows) /\ Len(t) = n
  BY <1>2, <1>3
<1>. QED
  BY <1>1, <1>2, <1>4 DEF SameRecords

LEMMA WrittenOK ==
  ASSUME DiskInv, TableInv, NEW t, SameRecords(t), \A i \in 1..Len(table) : InRecord(t[i].name)
  PROVE  /\ IndexOK(Written(t), jobs) /\ Len(Written(t)) <= Len(table)
         /\ Inside(Written(t), disk.data)
         /\ IsWritten(Written(t), t, Len(table))
<1> DEFINE w == Written(t)
<1>1. PICK n \in Nat : n = Len(table) /\ n = Len(t) /\ n = Len(disk.index)
  BY DEF SameRecords, TableInv
<1>2. \A i \in 1..n : t[i].rec = disk.index[i] /\ t[i] \in Rows
  BY <1>1 DEF SameRecords, TableInv
<1>3. RowsOnceEach(t)
  BY <1>1, <1>2 DEF RowsOnceEach, DiskInv, IndexOK, OnceEach
<1>4. IsWritten(w, t, n)
  BY <1>1, <1>3, WrittenIs DEF SameRecords
<1>. HIDE DEF w
<1>5. ASSUME NEW m \in 1..Len(w) PROVE InRecord(w[m].name) /\ w[m].id[1] < jobs
  <2>1. PICK i \in 1..n : w[m] = RowRecord(t[i])
    BY <1>4 DEF IsWritten
  <2>2. w[m].name = t[i].name /\ w[m].id = disk.index[i].id
    BY <1>2, <2>1, RowRecordIs
  <2>3. disk.index[i].id[1] < jobs
    BY <1>1 DEF DiskInv, IndexOK
  <2>. QED
    BY <1>1, <2>2, <2>3
<1>6. IndexOK(w, jobs) /\ Len(w) <= n
  BY <1>4, <1>5 DEF IsWritten, IndexOK
<1>7. ASSUME NEW m \in 1..Len(w) PROVE w[m].at + w[m].size <= Len(disk.data)
  <2>1. PICK i \in 1..n : w[m] = RowRecord(t[i])
    BY <1>4 DEF IsWritten
  <2>2. w[m].at = t[i].at /\ w[m].size = disk.index[i].size
    BY <1>2, <2>1, RowRecordIs
  <2>3. t[i].at \in Nat /\ t[i].at <= disk.index[i].at
    BY <1>1, <1>2 DEF SameRecords, TableInv, Rows
  <2>4. disk.index[i] \in Recs /\ disk.index[i].at + disk.index[i].size <= Len(disk.data)
    <3>1. i \in 1..Len(disk.index) /\ disk.index \in Seq(Recs)
      BY <1>1 DEF DiskInv, IndexOK
    <3>2. disk.index[i].at + disk.index[i].size <= Len(disk.data)
      BY <3>1 DEF DiskInv, Inside
    <3>. QED
      BY <3>1, <3>2
  <2>5. disk.index[i].at \in Nat /\ disk.index[i].size \in Nat /\ Len(disk.data) \in Nat
    <3>1. Len(disk.data) \in Nat
      BY DEF DiskInv
    <3>2. disk.index[i].at \in Nat /\ disk.index[i].size \in Nat
      BY <2>4, BoundsAssumption DEF Recs
    <3>. QED
      BY <3>1, <3>2
  <2>. QED
    BY <2>2, <2>3, <2>4, <2>5
<1>. QED
  BY <1>1, <1>4, <1>6, <1>7 DEF w, Inside

LEMMA LaterOK ==
  ASSUME NEW index, IndexOK(index, jobs), jobs \in Nat
  PROVE  IndexOK(index, jobs + 1)
<1>1. \A i \in 1..Len(index) : index[i].id[1] \in Nat
  <2>1. \A i \in 1..Len(index) : index[i] \in Recs
    BY DEF IndexOK
  <2>. QED
    BY <2>1 DEF Recs, Ids
<1>. QED
  BY <1>1 DEF IndexOK

LEMMA BeginIs ==
  ASSUME IInv, Begin
  PROVE  /\ state = "open" /\ job = NoJob /\ job.pc = "none" /\ jobs \in Nat /\ jobs' = jobs + 1
         /\ jobs' \in 0..MaxJobs /\ IsTree(nodes, Len(disk.index), NamesOf(disk.index))
BY NoJobIs, BoundsAssumption DEF Begin, IInv, DiskInv, TreeInv

\* The names of the open archive.
LEMMA NamesFitIn ==
  ASSUME DiskInv, TableInv, NEW i \in 1..Len(table)
  PROVE  /\ table[i] \in Rows /\ table[i].name \in Paths /\ InRecord(table[i].name)
         /\ i \in 1..Len(disk.index) /\ NamesOf(disk.index)[i] = table[i].name
<1>1. i \in 1..Len(disk.index) /\ table[i] \in Rows /\ table[i].name = disk.index[i].name
  BY DEF TableInv
<1>2. InRecord(disk.index[i].name) /\ disk.index \in Seq(Recs)
  BY <1>1 DEF DiskInv, IndexOK
<1>. QED
  BY <1>1, <1>2, NameIs

LEMMA WriteKeeps ==
  ASSUME IInv, Begin, NEW t, SameRecords(t), \A i \in 1..Len(table) : InRecord(t[i].name),
         Save(Written(t), disk.data)
  PROVE  IInv'
<1>1. DiskInv /\ TableInv
  BY DEF IInv
<1>2. IndexOK(Written(t), jobs) /\ Len(Written(t)) <= Len(table) /\ Inside(Written(t), disk.data)
  BY <1>1, WrittenOK
<1>3. jobs \in Nat /\ jobs' = jobs + 1 /\ jobs' \in 0..MaxJobs
  BY BeginIs
<1>4. IndexOK(Written(t), jobs')
  BY <1>2, <1>3, LaterOK
<1>5. Len(Written(t)) <= MaxEntries
  <2>1. Len(table) = Len(disk.index) /\ Len(disk.index) <= MaxEntries
    BY <1>1 DEF DiskInv, TableInv
  <2>2. Len(Written(t)) \in Nat /\ Len(table) \in Nat /\ MaxEntries \in Nat
    BY <1>1, <1>2, BoundsAssumption DEF IndexOK, TableInv
  <2>. QED
    BY <1>2, <2>1, <2>2
<1>. QED
  BY <1>1, <1>2, <1>3, <1>4, <1>5, SaveKeeps DEF DiskInv

\* The table Delete writes.
Gone(q) == IF nodes[q].folder THEN Leaves(q) ELSE {nodes[q].index}
Without(q) == [i \in DOMAIN table |-> [table[i] EXCEPT !.isInvalid = @ \/ i \in Gone(q)]]

LEMMA WithoutIs ==
  ASSUME IInv, NEW q
  PROVE  Remarked(Without(q))
<1>1. ASSUME NEW i \in DOMAIN table
      PROVE  /\ Without(q)[i] = [table[i] EXCEPT !.isInvalid = Without(q)[i].isInvalid]
             /\ Without(q)[i].isInvalid \in BOOLEAN
  <2>1. table[i] \in Rows
    BY DEF IInv, TableInv
  <2>2. Without(q)[i] = [table[i] EXCEPT !.isInvalid = table[i].isInvalid \/ i \in Gone(q)]
    BY DEF Without
  <2>. QED
    BY <2>1, <2>2 DEF Rows
<1>2. Without(q) = [i \in DOMAIN table |-> Without(q)[i]]
  BY DEF Without
<1>. QED
  BY <1>1, <1>2 DEF Remarked

LEMMA DeleteKeeps ==
  ASSUME IInv, NEW q \in DOMAIN nodes, Delete(q)
  PROVE  IInv'
<1>1. Begin /\ Save(Written(Without(q)), disk.data)
  BY DEF Delete, Without, Gone
<1>2. SameRecords(Without(q)) /\ \A i \in 1..Len(table) : Without(q)[i].name = table[i].name
  BY WithoutIs, RemarkedIs DEF IInv
<1>3. \A i \in 1..Len(table) : InRecord(Without(q)[i].name)
  BY <1>2, NamesFitIn DEF IInv
<1>. QED
  BY <1>1, <1>2, <1>3, WriteKeeps

LEMMA RenamedIs ==
  ASSUME DiskInv, TableInv, NEW I, NEW p,
         \A i \in 1..Len(table) : i \in I => p[i] \in Paths /\ InRecord(p[i])
  PROVE  /\ SameRecords(Renamed(I, p))
         /\ \A i \in 1..Len(table) : InRecord(Renamed(I, p)[i].name) /\ Renamed(I, p)[i].at = table[i].at
<1>1. PICK n \in Nat : n = Len(table) /\ DOMAIN table = 1..n
  BY DEF TableInv
<1> DEFINE t == Renamed(I, p)
<1>2. ASSUME NEW i \in 1..n
      PROVE  /\ t[i] \in Rows /\ t[i].rec = table[i].rec /\ t[i].at = table[i].at
             /\ InRecord(t[i].name)
  <2>1. table[i] \in Rows /\ InRecord(table[i].name)
    BY <1>1, NamesFitIn
  <2>2. CASE i \in I
    <3>1. t[i] = [table[i] EXCEPT !.name = p[i]]
      BY <1>1, <2>2 DEF Renamed
    <3>2. p[i] \in Paths /\ InRecord(p[i])
      BY <1>1, <2>2
    <3>3. t[i] \in Rows /\ t[i].rec = table[i].rec /\ t[i].at = table[i].at /\ t[i].name = p[i]
      BY <2>1, <3>1, <3>2 DEF Rows
    <3>. QED
      BY <3>2, <3>3
  <2>3. CASE i \notin I
    <3>1. t[i] = table[i]
      BY <1>1, <2>3 DEF Renamed
    <3>. QED
      BY <2>1, <3>1
  <2>. QED
    BY <2>2, <2>3
<1>3. t = [i \in 1..n |-> t[i]]
  BY <1>1 DEF Renamed
<1>. HIDE DEF t
<1>4. t \in Seq(Rows) /\ Len(t) = n
  BY <1>2, <1>3
<1>5. SameRecords(t) /\ \A i \in 1..Len(table) : InRecord(t[i].name) /\ t[i].at = table[i].at
  BY <1>1, <1>2, <1>4 DEF SameRecords
<1>. QED
  BY <1>5 DEF t

RenameIndexAs(i, p) == Renamed({i}, [j \in {i} |-> p])

LEMMA RenameIndexIs ==
  ASSUME IInv, NEW i, NEW p \in SearchNames, InRecord(p)
  PROVE  /\ SameRecords(RenameIndexAs(i, p))
         /\ \A j \in 1..Len(table) :
              InRecord(RenameIndexAs(i, p)[j].name) /\ RenameIndexAs(i, p)[j].at = table[j].at
<1>1. p \in Paths /\ InRecord(p)
  BY NamesAssumption DEF Paths
<1> DEFINE f == [j \in {i} |-> p]
<1>2. \A j \in 1..Len(table) : j \in {i} => f[j] \in Paths /\ InRecord(f[j])
  BY <1>1
<1>. HIDE DEF f
<1>3. SameRecords(Renamed({i}, f))
      /\ \A j \in 1..Len(table) : InRecord(Renamed({i}, f)[j].name) /\ Renamed({i}, f)[j].at = table[j].at
  BY <1>2, RenamedIs DEF IInv
<1>. QED
  BY <1>3 DEF f, RenameIndexAs

\* The records below a folder, and that of a file, have names through its node.
NewNames(q, part) == [i \in Gone(q) |-> [table[i].name EXCEPT ![Len(q)] = part]]
RenameNodeAs(q, part) == Renamed(Gone(q), NewNames(q, part))

LEMMA RenameNodeCases ==
  ASSUME NEW q, NEW part, RenameNode(q, part)
  PROVE  /\ RoomFor(q, part)
         /\ \/ Overruns(q, NewNames(q, part)) /\ Tear
            \/ ~Overruns(q, NewNames(q, part)) /\ Rename(RenameNodeAs(q, part))
BY DEF RenameNode, RenameNodeAs, NewNames, Gone

LEMMA GoneIs ==
  ASSUME IInv, state = "open", NEW q \in DOMAIN nodes, NEW i \in 1..Len(table), i \in Gone(q)
  PROVE  q \in PathsTo(table[i].name) /\ nodes[q].left <= FilelenLeft(table[i].name)
<1>1. IsTree(nodes, Len(disk.index), NamesOf(disk.index))
  BY DEF IInv, TreeInv
<1>2. /\ table[i].name \in Paths /\ i \in 1..Len(disk.index) /\ NamesOf(disk.index)[i] = table[i].name
      /\ table[i].name \in Seq(Parts)
  BY NamesFitIn DEF IInv, Paths
<1>3. PICK r \in DOMAIN nodes : nodes[r].index = i /\ (r = q \/ IsStrictPrefix(q, r))
  BY DEF Gone, Leaves, Under
<1>4. nodes[r].index # 0
  BY <1>3
<1>5. table[i].name = r
  BY <1>1, <1>2, <1>3, <1>4 DEF IsTree
<1>6. q \in Paths
  <2>1. PICK j \in 1..Len(disk.index) : q \in PathsTo(NamesOf(disk.index)[j])
    BY <1>1 DEF IsTree
  <2>2. NamesOf(disk.index)[j] \in Seq(Parts)
    BY <2>1, NameIs DEF IInv, DiskInv, IndexOK
  <2>. QED
    BY <2>1, <2>2, PathToIs
<1>7. q \in PathsTo(table[i].name)
  <2>1. CASE r = q
    BY <1>2, <1>5, <2>1, PathToSelf
  <2>2. CASE IsStrictPrefix(q, r)
    BY <1>2, <1>5, <1>6, <2>2, PrefixIsPath
  <2>. QED
    BY <1>3, <2>1, <2>2
<1>8. nodes[q].left <= FilelenLeft(NamesOf(disk.index)[i])
  BY <1>1, <1>2, <1>7 DEF IsTree
<1>. QED
  BY <1>2, <1>7, <1>8

LEMMA NodeIs ==
  ASSUME IInv, state = "open", NEW q \in DOMAIN nodes
  PROVE  /\ q \in Paths /\ q \in Seq(Parts)
         /\ \E i \in 1..Len(disk.index) : q \in PathsTo(disk.index[i].name)
         /\ PathsTo(q) \subseteq DOMAIN nodes
         /\ nodes[q].index \in Nat /\ nodes[q].folder \in BOOLEAN
         /\ (nodes[q].folder <=> nodes[q].index = 0)
         /\ ~nodes[q].folder => nodes[q].index \in 1..Len(disk.index)
                                /\ disk.index[nodes[q].index].name = q
<1>1. IsTree(nodes, Len(disk.index), NamesOf(disk.index)) /\ disk.index \in Seq(Recs)
  BY DEF IInv, TreeInv, DiskInv, IndexOK
<1>2. PICK i \in 1..Len(disk.index) : q \in PathsTo(NamesOf(disk.index)[i])
  BY <1>1 DEF IsTree
<1>3. NamesOf(disk.index)[i] = disk.index[i].name /\ disk.index[i].name \in Seq(Parts)
  BY <1>1, NameIs
<1>4. q \in Paths
  BY <1>2, <1>3, PathToIs
<1>5. q \in Seq(Parts)
  BY <1>4 DEF Paths
<1>6. ASSUME NEW r \in PathsTo(q) PROVE r \in DOMAIN nodes
  <2>1. r \in PathsTo(NamesOf(disk.index)[i])
    BY <1>2, <1>3, PathToPath
  <2>. QED
    BY <1>1, <2>1 DEF IsTree
<1>7. /\ nodes[q] \in Nodes /\ nodes[q].index <= Len(disk.index) /\ (nodes[q].folder <=> nodes[q].index = 0)
      /\ nodes[q].index # 0 => NamesOf(disk.index)[nodes[q].index] = q
  BY <1>1 DEF IsTree
<1>8. nodes[q].index \in Nat /\ nodes[q].folder \in BOOLEAN
  BY <1>7 DEF Nodes
<1>9. Len(disk.index) \in Nat
  BY <1>1
<1>10. ~nodes[q].folder => nodes[q].index \in 1..Len(disk.index) /\ disk.index[nodes[q].index].name = q
  <2>. SUFFICES ASSUME ~nodes[q].folder
                PROVE  nodes[q].index \in 1..Len(disk.index) /\ disk.index[nodes[q].index].name = q
    OBVIOUS
  <2>1. nodes[q].index \in 1..Len(disk.index)
    BY <1>7, <1>8, <1>9
  <2>2. NamesOf(disk.index)[nodes[q].index] = disk.index[nodes[q].index].name
    BY <1>1, <2>1, NameIs
  <2>. QED
    BY <1>7, <2>1, <2>2
<1>. QED
  BY <1>2, <1>3, <1>4, <1>5, <1>6, <1>7, <1>8, <1>10

LEMMA GoneInTable ==
  ASSUME IInv, state = "open", NEW q \in DOMAIN nodes, NEW i \in Gone(q)
  PROVE  i \in 1..Len(table)
<1>1. IsTree(nodes, Len(disk.index), NamesOf(disk.index)) /\ disk.index \in Seq(Recs)
      /\ Len(table) = Len(disk.index)
  BY DEF IInv, TreeInv, DiskInv, TableInv, IndexOK
<1>2. Len(disk.index) \in Nat
  BY <1>1
<1>3. PICK r \in DOMAIN nodes : nodes[r].index = i /\ (~nodes[r].folder \/ ~HasChild(r))
  BY DEF Gone, Leaves, Under
<1>4. nodes[r].index # 0
  <2>1. CASE ~nodes[r].folder
    BY <1>1, <2>1 DEF IsTree
  <2>2. CASE ~HasChild(r)
    <3>1. PICK j \in 1..Len(disk.index) : r \in PathsTo(NamesOf(disk.index)[j])
      BY <1>1 DEF IsTree
    <3>2. PICK p \in Paths : p = NamesOf(disk.index)[j] /\ p \in Seq(Parts)
      BY <1>1, NameIs
    <3>3. p \in DOMAIN nodes
      BY <1>1, <3>2, PathToSelf DEF IsTree
    <3>4. r \in Paths
      BY <3>1, <3>2, PathToIs
    <3>5. r = p
      BY <2>2, <3>1, <3>2, <3>3, <3>4, PrefixIsPath DEF HasChild
    <3>. QED
      BY <1>1, <3>2, <3>5 DEF IsTree
  <2>. QED
    BY <1>3, <2>1, <2>2
<1>5. nodes[r].index \in Nat /\ nodes[r].index <= Len(disk.index)
  BY <1>1 DEF IsTree, Nodes
<1>. QED
  BY <1>1, <1>2, <1>3, <1>4, <1>5

\* A name that fits stays one where the node has room for the part it gets.
LEMMA NewNameIs ==
  ASSUME IInv, state = "open", NEW q \in DOMAIN nodes, NEW part \in Parts,
         NEW i \in 1..Len(table), i \in Gone(q)
  PROVE  /\ NewNames(q, part)[i] \in Paths /\ NameSize(NewNames(q, part)[i]) \in Int
         /\ (RoomFor(q, part) /\ Fits(table[i].name)) => Fits(NewNames(q, part)[i])
<1> DEFINE p == table[i].name
<1>1. q \in PathsTo(p) /\ nodes[q].left <= FilelenLeft(p)
  BY GoneIs
<1>2. p \in Seq(Parts) /\ p \in Paths
  BY NamesFitIn DEF IInv, Paths
<1>3. NewNames(q, part)[i] = [p EXCEPT ![Len(q)] = part]
  BY DEF NewNames
<1>. HIDE DEF p
<1>4. q \in Paths /\ Len(q) \in 1..Len(p) /\ q[Len(q)] = p[Len(q)]
  <2>1. q \in Paths /\ Len(q) \in 1..Len(p) /\ \A k \in 1..Len(q) : q[k] = p[k]
    BY <1>1, <1>2, PathToIs
  <2>2. Len(q) \in 1..Len(q)
    BY <2>1
  <2>. QED
    BY <2>1, <2>2
<1>5. [p EXCEPT ![Len(q)] = part] \in Seq(Parts) /\ [p EXCEPT ![Len(q)] = part] \in Paths
  <2>1. [p EXCEPT ![Len(q)] = part] \in Seq(Parts) /\ Len([p EXCEPT ![Len(q)] = part]) = Len(p)
    BY <1>2, <1>4
  <2>2. Len(p) # 0
    BY <1>4
  <2>. QED
    BY <2>1, <2>2 DEF Paths
<1>6. NameSize([p EXCEPT ![Len(q)] = part]) \in Int
  BY <1>5, NameSizeIsInt
<1>7. ASSUME RoomFor(q, part), Fits(p) PROVE Fits([p EXCEPT ![Len(q)] = part])
  <2>1. Last(q) = p[Len(q)] /\ p[Len(q)] \in Parts
    BY <1>2, <1>4 DEF Last
  <2>2. NameSize([p EXCEPT ![Len(q)] = part]) = NameSize(p) - PartSize[p[Len(q)]] + PartSize[part]
    BY <1>2, <1>4, NameSizeOfChanged
  <2>3. PartSize[part] <= nodes[q].left + PartSize[p[Len(q)]]
    BY <1>7, <2>1 DEF RoomFor
  <2>4. NameSize(p) \in Int /\ PartSize[part] \in Int /\ PartSize[p[Len(q)]] \in Int
        /\ MAX_PATH_PCK_256 \in Int /\ nodes[q].left \in Int
    <3>1. nodes[q].left \in Int
      BY DEF IInv, TreeInv, IsTree, Nodes
    <3>. QED
      BY <1>2, <2>1, <3>1, NameSizeIsInt, NamesAssumption
  <2>5. NameSize(p) < MAX_PATH_PCK_256
    BY <1>7 DEF Fits
  <2>6. FilelenLeft(p) = MAX_PATH_PCK_256 - NameSize(p) - 1
    BY <2>4, <2>5 DEF FilelenLeft, Left
  <2>7. NameSize([p EXCEPT ![Len(q)] = part]) < MAX_PATH_PCK_256
    BY <1>1, <2>2, <2>3, <2>4, <2>6
  <2>. QED
    BY <2>7 DEF Fits
<1>. QED
  BY <1>3, <1>5, <1>6, <1>7 DEF p

LEMMA RenameNodeIs ==
  ASSUME IInv, state = "open", NEW q \in DOMAIN nodes, NEW part \in Parts,
         ~Overruns(q, NewNames(q, part))
  PROVE  /\ SameRecords(RenameNodeAs(q, part))
         /\ \A j \in 1..Len(table) :
              InRecord(RenameNodeAs(q, part)[j].name) /\ RenameNodeAs(q, part)[j].at = table[j].at
<1> DEFINE f == NewNames(q, part)
<1>1. ASSUME NEW i \in 1..Len(table), i \in Gone(q)
      PROVE  f[i] \in Paths /\ InRecord(f[i])
  <2>1. f[i] \in Paths /\ NameSize(f[i]) \in Int
    BY <1>1, NewNameIs
  <2>2. i \in DOMAIN f
    BY <1>1 DEF NewNames
  <2>3. ~(NameSize(f[i]) > MAX_PATH_PCK_256)
    BY <2>2 DEF Overruns
  <2>4. MAX_PATH_PCK_256 \in Int
    BY NamesAssumption
  <2>. HIDE DEF f
  <2>. QED
    BY <2>1, <2>3, <2>4 DEF InRecord
<1>. HIDE DEF f
<1>2. SameRecords(Renamed(Gone(q), f))
      /\ \A j \in 1..Len(table) :
           InRecord(Renamed(Gone(q), f)[j].name) /\ Renamed(Gone(q), f)[j].at = table[j].at
  BY <1>1, RenamedIs DEF IInv
<1>. QED
  BY <1>2 DEF f, RenameNodeAs

\* Where every name fits, each folder knows the room below it, and nothing is cut off.
LEMMA RenameNodeFits ==
  ASSUME IInv, state = "open", \A i \in 1..Len(table) : Fits(table[i].name),
         NEW q \in DOMAIN nodes, NEW part \in Parts, RoomFor(q, part)
  PROVE  /\ ~Overruns(q, NewNames(q, part))
         /\ \A j \in 1..Len(table) : Fits(RenameNodeAs(q, part)[j].name)
<1> DEFINE f == NewNames(q, part)
<1>1. ASSUME NEW i \in Gone(q) PROVE Fits(f[i]) /\ NameSize(f[i]) \in Int /\ i \in 1..Len(table)
  <2>1. i \in 1..Len(table)
    BY GoneInTable
  <2>. QED
    BY <2>1, NewNameIs
<1>2. DOMAIN f = Gone(q)
  BY DEF NewNames
<1>3. ~nodes[q].folder => Fits(q) /\ NameSize(q) \in Int
  <2>1. q \in Seq(Parts)
    BY NodeIs
  <2>2. ASSUME ~nodes[q].folder PROVE Fits(q)
    <3>1. nodes[q].index \in 1..Len(table) /\ disk.index[nodes[q].index].name = q
      BY <2>2, NodeIs DEF IInv, TableInv
    <3>2. table[nodes[q].index].name = q
      BY <3>1 DEF IInv, TableInv
    <3>. QED
      BY <3>1, <3>2
  <2>. QED
    BY <2>1, <2>2, NameSizeIsInt
<1>. HIDE DEF f
<1>4. ~Overruns(q, f)
  <2>1. MAX_PATH_PCK_256 \in Int
    BY NamesAssumption
  <2>2. ~\E i \in DOMAIN f : NameSize(f[i]) > MAX_PATH_PCK_256
    BY <1>1, <1>2, <2>1 DEF Fits
  <2>3. ~(~nodes[q].folder /\ NameSize(q) >= MAX_PATH_PCK_256)
    BY <1>3, <2>1 DEF Fits
  <2>. QED
    BY <2>2, <2>3 DEF Overruns
<1>5. ASSUME NEW j \in 1..Len(table) PROVE Fits(Renamed(Gone(q), f)[j].name)
  <2>1. table[j] \in Rows /\ DOMAIN table = 1..Len(table)
    BY DEF IInv, TableInv
  <2>2. CASE j \in Gone(q)
    <3>1. Renamed(Gone(q), f)[j] = [table[j] EXCEPT !.name = f[j]]
      BY <2>1, <2>2 DEF Renamed
    <3>2. Renamed(Gone(q), f)[j].name = f[j]
      BY <2>1, <3>1 DEF Rows
    <3>. QED
      BY <1>1, <2>2, <3>2
  <2>3. CASE j \notin Gone(q)
    BY <2>1, <2>3 DEF Renamed
  <2>. QED
    BY <2>2, <2>3
<1>. QED
  BY <1>4, <1>5 DEF f, RenameNodeAs

LEMMA RenameKeeps ==
  ASSUME IInv, NEW t, Rename(t), SameRecords(t), \A i \in 1..Len(table) : InRecord(t[i].name)
  PROVE  IInv'
BY WriteKeeps DEF Rename

LEMMA TearKeeps ==
  ASSUME IInv, Tear
  PROVE  IInv'
<1>1. /\ state' = "torn" /\ disk' = disk /\ table' = table /\ nodes' = nodes /\ job' = job
      /\ job = NoJob /\ job.pc = "none" /\ jobs \in Nat /\ jobs' = jobs + 1 /\ jobs' \in 0..MaxJobs
  BY BeginIs DEF Tear
<1>2. DiskInv'
  <2>1. IndexOK(disk.index, jobs')
    BY <1>1, LaterOK DEF IInv, DiskInv
  <2>. QED
    BY <1>1, <2>1 DEF IInv, DiskInv
<1>3. TableInv' /\ TreeInv'
  BY <1>1 DEF IInv, TableInv, TreeInv
<1>4. MarksInv' /\ CopyInv' /\ ExtractInv' /\ JobInv'
  BY <1>1 DEF IInv, MarksInv, CopyInv, ExtractInv, JobInv
<1>. QED
  BY <1>2, <1>3, <1>4 DEF IInv

LEMMA RenameNodeKeeps ==
  ASSUME IInv, NEW q \in DOMAIN nodes, NEW part \in Parts, RenameNode(q, part)
  PROVE  IInv'
<1>1. CASE Tear
  BY <1>1, TearKeeps
<1>2. CASE ~Overruns(q, NewNames(q, part)) /\ Rename(RenameNodeAs(q, part))
  <2>1. state = "open"
    BY <1>2 DEF Rename, Begin
  <2>. QED
    BY <1>2, <2>1, RenameNodeIs, RenameKeeps
<1>. QED
  BY <1>1, <1>2, RenameNodeCases

LEMMA RenameIndexKeeps ==
  ASSUME IInv, NEW i \in DOMAIN table, NEW p \in SearchNames, RenameIndex(i, p)
  PROVE  IInv'
<1>1. InRecord(p) /\ Rename(RenameIndexAs(i, p))
  BY DEF RenameIndex, RenameIndexAs, InRecord
<1>. QED
  BY <1>1, RenameIndexIs, RenameKeeps
-----------------------------------------------------------------------------
(***************************************************************************)
(* Adding files: stored one behind the other, in the order of a sequence.  *)
(***************************************************************************)
LEMMA SeqOfSet ==
  ASSUME NEW S, IsFiniteSet(S)
  PROVE  Cardinality(S) \in Nat /\ SetToSeq(S) \in [1..Cardinality(S) -> S]
<1>1. PICK n \in Nat : ExistsBijection(1..n, S)
  BY FS_NatBijection
<1>2. Cardinality(S) = n
  BY <1>1, FS_CountingElements
<1>3. \E f \in [1..n -> S] : IsInjective(f)
  BY <1>1 DEF ExistsBijection, Bijection, Injection
<1>. QED
  BY <1>2, <1>3 DEF SetToSeq

\* z with k of the files added.
StoredUpTo(a, z, k, base, names) ==
  /\ a = [index |-> a.index, data |-> a.data]
  /\ a.index \in Seq(Recs) /\ a.data \in Seq(Units) /\ Len(a.index) = Len(z.index) + k
  /\ \A i \in 1..Len(z.index) : a.index[i] = z.index[i]
  /\ \A i \in (Len(z.index) + 1)..(Len(z.index) + k) :
       a.index[i].id = <<jobs, i>> /\ \E p \in names : a.index[i].name = base \o p
  /\ Inside(z.index, z.data) => Inside(a.index, a.data)
  /\ Whole(z.index, z.data) => Whole(a.index, a.data)

\* Data stays where it is when more is written behind it.
LEMMA HasDataStill ==
  ASSUME NEW r \in Recs, NEW data \in Seq(Units), NEW more \in Seq(Units), HasData(r, data)
  PROVE  HasData(r, data \o more)
<1>1. PICK n \in Nat, m \in Nat : n = Len(data) /\ m = Len(more)
  OBVIOUS
<1>2. PICK at \in Nat, size \in Nat : at = r.at /\ size = r.size
  BY BoundsAssumption DEF Recs
<1>3. Len(data \o more) = n + m /\ \A k \in 1..n : (data \o more)[k] = data[k]
  BY <1>1
<1>4. at + size <= n /\ \A k \in 1..size : data[at + k] = <<r.id, k>>
  BY <1>1, <1>2 DEF HasData
<1>5. at + size <= n + m
  BY <1>1, <1>4
<1>6. ASSUME NEW k \in 1..size PROVE (data \o more)[at + k] = <<r.id, k>>
  <2>1. at + k \in 1..n
    BY <1>4
  <2>. QED
    BY <1>3, <1>4, <2>1
<1>. QED
  BY <1>2, <1>3, <1>5, <1>6 DEF HasData

\* Data that was written last.
LEMMA HasDataWritten ==
  ASSUME NEW data \in Seq(Units), NEW r \in Recs, r.at = Len(data), NEW more \in Seq(Units),
         Len(more) = r.size, \A k \in 1..r.size : more[k] = <<r.id, k>>
  PROVE  HasData(r, data \o more)
<1> DEFINE all == data \o more
<1>1. PICK n \in Nat, m \in Nat : n = Len(data) /\ m = Len(more)
  OBVIOUS
<1>2. Len(all) = n + m
  <2>1. Len(all) = Len(data) + Len(more)
    OBVIOUS
  <2>. QED
    BY <1>1, <2>1
<1>3. ASSUME NEW k \in 1..m PROVE all[n + k] = more[k]
  <2>1. n + k \in 1..(n + m) /\ ~(n + k <= n) /\ (n + k) - n = k
    OBVIOUS
  <2>. QED
    BY <1>1, <2>1
<1>. HIDE DEF all
<1>4. r.at = n /\ r.size = m /\ n + m <= n + m
  BY <1>1
<1>5. HasData(r, all)
  BY <1>2, <1>3, <1>4 DEF HasData
<1>. QED
  BY <1>5 DEF all

LEMMA DataUnitsIs ==
  ASSUME NEW id \in Ids, NEW n \in Nat
  PROVE  /\ DataUnits(id, n) \in Seq(Units) /\ Len(DataUnits(id, n)) = n
         /\ \A k \in 1..n : DataUnits(id, n)[k] = <<id, k>>
<1>1. DataUnits(id, n) \in [1..n -> Units]
  BY DEF DataUnits, Units
<1>. QED
  BY <1>1 DEF DataUnits

LEMMA WholeStill ==
  ASSUME NEW index \in Seq(Recs), NEW data \in Seq(Units), NEW more \in Seq(Units), Whole(index, data)
  PROVE  Whole(index, data \o more)
<1>. SUFFICES ASSUME NEW i \in 1..Len(index) PROVE HasData(index[i], data \o more)
  BY DEF Whole
<1>1. index[i] \in Recs /\ HasData(index[i], data)
  BY DEF Whole
<1>. QED
  BY <1>1, HasDataStill

LEMMA WholeAppend ==
  ASSUME NEW index \in Seq(Recs), NEW data, NEW r \in Recs, Whole(index, data), HasData(r, data)
  PROVE  Whole(Append(index, r), data)
<1>1. PICK n \in Nat : n = Len(index)
  OBVIOUS
<1>2. /\ Len(Append(index, r)) = n + 1 /\ Append(index, r)[n + 1] = r
      /\ \A i \in 1..n : Append(index, r)[i] = index[i]
  BY <1>1, AppendIs
<1>. SUFFICES ASSUME NEW i \in 1..(n + 1) PROVE HasData(Append(index, r)[i], data)
  BY <1>2 DEF Whole
<1>3. CASE i = n + 1
  BY <1>2, <1>3
<1>4. CASE i # n + 1
  <2>1. i \in 1..n
    BY <1>4
  <2>. QED
    BY <1>1, <1>2, <2>1 DEF Whole
<1>. QED
  BY <1>3, <1>4

LEMMA InsideAppend ==
  ASSUME NEW index \in Seq(Recs), NEW data \in Seq(Units), NEW r \in Recs, Inside(index, data),
         NEW more \in Seq(Units), r.at = Len(data), Len(more) = r.size
  PROVE  Inside(Append(index, r), data \o more)
<1> DEFINE all == data \o more
<1>1. PICK n \in Nat, m \in Nat, l \in Nat : n = Len(index) /\ m = Len(data) /\ l = Len(more)
  OBVIOUS
<1>2. Len(all) = m + l
  <2>1. Len(all) = Len(data) + Len(more)
    OBVIOUS
  <2>. QED
    BY <1>1, <2>1
<1>. HIDE DEF all
<1>3. /\ Len(Append(index, r)) = n + 1 /\ Append(index, r)[n + 1] = r
      /\ \A i \in 1..n : Append(index, r)[i] = index[i]
  BY <1>1, AppendIs
<1>4. ASSUME NEW i \in 1..n PROVE index[i].at + index[i].size <= m + l
  <2>1. index[i] \in Recs /\ index[i].at + index[i].size <= m
    BY <1>1 DEF Inside
  <2>2. index[i].at \in Nat /\ index[i].size \in Nat
    BY <2>1, BoundsAssumption DEF Recs
  <2>. QED
    BY <2>1, <2>2
<1>5. r.at + r.size <= m + l
  BY <1>1
<1>6. ASSUME NEW i \in 1..(n + 1)
      PROVE  Append(index, r)[i].at + Append(index, r)[i].size <= m + l
  <2>1. i \in 1..n \/ i = n + 1
    OBVIOUS
  <2>. QED
    BY <1>3, <1>4, <1>5, <2>1
<1>7. Inside(Append(index, r), all)
  BY <1>2, <1>3, <1>6 DEF Inside
<1>. QED
  BY <1>7 DEF all

LEMMA StoredStep ==
  ASSUME jobs \in Nat, NEW base \in Seq(Parts), NEW names \in SUBSET Paths, NEW p \in names,
         NEW n \in DataSizes, NEW z, z.index \in Seq(Recs), NEW k \in Nat, NEW a,
         StoredUpTo(a, z, k, base, names)
  PROVE  StoredUpTo(Stored(a, base \o p, n), z, k + 1, base, names)
<1>1. PICK m \in Nat : m = Len(z.index)
  OBVIOUS
<1>2. a.index \in Seq(Recs) /\ a.data \in Seq(Units) /\ Len(a.index) = m + k
  BY <1>1 DEF StoredUpTo
<1> DEFINE q == base \o p
           l == m + k
           id == <<jobs, l + 1>>
           r == [name |-> q, at |-> Len(a.data), size |-> n, id |-> id]
           u == DataUnits(id, n)
           b == Stored(a, q, n)
<1>3. q \in Paths
  <2>1. p \in Seq(Parts) /\ p # <<>>
    BY DEF Paths
  <2>2. q \in Seq(Parts) /\ Len(q) = Len(base) + Len(p) /\ Len(p) # 0
    BY <2>1
  <2>3. q # <<>>
    BY <2>1, <2>2
  <2>. QED
    BY <2>2, <2>3 DEF Paths
<1>4. l \in Nat /\ id \in Ids /\ n \in Nat
  BY BoundsAssumption DEF Ids
<1>5. r \in Recs
  BY <1>2, <1>3, <1>4 DEF Recs
<1>6. b = [index |-> Append(a.index, r), data |-> a.data \o u]
  BY <1>2 DEF Stored, Record
<1>7. u \in Seq(Units) /\ Len(u) = n /\ \A j \in 1..n : u[j] = <<id, j>>
  BY <1>4, DataUnitsIs
<1>8. r.name = q /\ r.id = id /\ r.at = Len(a.data) /\ r.size = n
  OBVIOUS
<1>9. Whole(z.index, z.data) => Whole(b.index, b.data)
  <2>. SUFFICES ASSUME Whole(z.index, z.data) PROVE Whole(b.index, b.data)
    OBVIOUS
  <2>1. Whole(a.index, a.data)
    BY DEF StoredUpTo
  <2>. HIDE DEF r, u
  <2>2. HasData(r, a.data \o u)
    BY <1>2, <1>5, <1>7, <1>8, HasDataWritten
  <2>3. Whole(a.index, a.data \o u)
    BY <1>2, <1>7, <2>1, WholeStill
  <2>4. Whole(Append(a.index, r), a.data \o u)
    BY <1>2, <1>5, <2>2, <2>3, WholeAppend
  <2>. QED
    BY <1>6, <2>4
<1>. HIDE DEF r, u, b, id
<1>16. Inside(z.index, z.data) => Inside(b.index, b.data)
  <2>. SUFFICES ASSUME Inside(z.index, z.data) PROVE Inside(b.index, b.data)
    OBVIOUS
  <2>1. Inside(a.index, a.data)
    BY DEF StoredUpTo
  <2>. HIDE DEF r, u
  <2>. QED
    BY <1>2, <1>5, <1>6, <1>7, <1>8, <2>1, InsideAppend
<1>10. /\ Append(a.index, r) \in Seq(Recs) /\ Len(Append(a.index, r)) = l + 1
       /\ Append(a.index, r)[l + 1] = r /\ \A i \in 1..l : Append(a.index, r)[i] = a.index[i]
  BY <1>2, <1>5, AppendIs
<1>11. /\ b = [index |-> b.index, data |-> b.data] /\ b.index = Append(a.index, r)
       /\ b.data = a.data \o u /\ b.data \in Seq(Units)
  BY <1>2, <1>6, <1>7
<1>12. \A i \in 1..m : b.index[i] = z.index[i]
  <2>1. \A i \in 1..m : a.index[i] = z.index[i] /\ i \in 1..l
    BY <1>1 DEF StoredUpTo
  <2>. QED
    BY <1>10, <1>11, <2>1
<1>13. ASSUME NEW i \in (m + 1)..(m + (k + 1))
       PROVE  b.index[i].id = <<jobs, i>> /\ \E f \in names : b.index[i].name = base \o f
  <2>1. CASE i = l + 1
    <3>1. b.index[i] = r
      BY <1>10, <1>11, <2>1
    <3>. QED
      BY <1>8, <2>1, <3>1 DEF id
  <2>2. CASE i # l + 1
    <3>1. i \in (m + 1)..(m + k) /\ i \in 1..l
      BY <2>2
    <3>2. a.index[i].id = <<jobs, i>> /\ \E f \in names : a.index[i].name = base \o f
      BY <1>1, <3>1 DEF StoredUpTo
    <3>. QED
      BY <1>10, <1>11, <3>1, <3>2
  <2>. QED
    BY <2>1, <2>2
<1>14. Len(b.index) = m + (k + 1)
  BY <1>10, <1>11
<1>15. StoredUpTo(b, z, k + 1, base, names)
  BY <1>1, <1>9, <1>10, <1>11, <1>12, <1>13, <1>14, <1>16 DEF StoredUpTo
<1>. QED
  BY <1>15 DEF b

LEMMA StoredAllIs ==
  ASSUME jobs \in Nat, NEW base \in Seq(Parts), NEW names \in SUBSET Paths,
         NEW sizes \in [names -> DataSizes], NEW n \in Nat,
         NEW s, DOMAIN s = 1..n, \A k \in 1..n : s[k] \in names, NEW index \in Seq(Recs), NEW data \in Seq(Units)
  PROVE  StoredUpTo(StoredAll([index |-> index, data |-> data], base, s, sizes),
                    [index |-> index, data |-> data], n, base, names)
<1> DEFINE z == [index |-> index, data |-> data]
<1>0. z.index = index /\ z.data = data /\ z = [index |-> z.index, data |-> z.data]
  OBVIOUS
<1>. HIDE DEF z
<1>1. PICK v : v = StoredAll(z, base, s, sizes)
  OBVIOUS
<1>2. PICK c : /\ c[0] = z
               /\ \A k \in 1..n : c[k] = StoredNext(c[k - 1], base, s[k], sizes)
               /\ v = c[n]
  BY <1>1, StoredChain
<1> DEFINE G == {k \in 0..n : StoredUpTo(c[k], z, k, base, names)}
<1>3. 0 \in G
  <2>1. PICK m \in Nat : m = Len(index)
    OBVIOUS
  <2>2. (m + 1)..(m + 0) = {} /\ m + 0 = m
    BY <2>1
  <2>3. StoredUpTo(z, z, 0, base, names)
    BY <1>0, <2>1, <2>2 DEF StoredUpTo
  <2>. QED
    BY <1>2, <2>3
<1>4. ASSUME NEW k \in 0..(n - 1), k \in G PROVE k + 1 \in G
  <2>1. k + 1 \in 1..n /\ (k + 1) - 1 = k /\ k + 1 \in 0..n /\ k \in Nat
    OBVIOUS
  <2>2. s[k + 1] \in names /\ sizes[s[k + 1]] \in DataSizes
    BY <2>1
  <2>3. c[k + 1] = Stored(c[k], base \o s[k + 1], sizes[s[k + 1]])
    BY <1>2, <2>1 DEF StoredNext
  <2>4. StoredUpTo(c[k], z, k, base, names)
    BY <1>4
  <2>5. StoredUpTo(c[k + 1], z, k + 1, base, names)
    BY <1>0, <2>1, <2>2, <2>3, <2>4, StoredStep
  <2>. QED
    BY <2>1, <2>5
<1>5. \A k \in 0..n : k \in G
  <2>. HIDE DEF G
  <2>. QED
    BY <1>3, <1>4, UpwardInduction
<1>6. StoredUpTo(StoredAll(z, base, s, sizes), z, n, base, names)
  BY <1>1, <1>2, <1>5
<1>. QED
  BY <1>6 DEF z

Found(base, names) == [p \in names |-> FindFileNode(base, p)]
Marking(base, names, P) ==
  [i \in DOMAIN table |->
    [table[i] EXCEPT !.isInvalid = @ \/ \E p \in P : Found(base, names)[p] = i]]
Added(base, names, sizes) ==
  StoredAll([index |-> Written(Marking(base, names, names)), data |-> disk.data],
            base, SetToSeq(names), sizes)

LEMMA AddIs ==
  ASSUME NEW base, NEW names, NEW sizes, Add(base, names, sizes)
  PROVE  /\ Begin /\ Len(table) + Cardinality(names) <= MaxEntries
         /\ \A p \in names : NameSize(base \o p) < MAX_PATH_PCK_256
         /\ \A p, q \in names : ~Clash(p, q)
         /\ \/ /\ \E P \in SUBSET names : table' = Marking(base, names, P)
               /\ UNCHANGED <<disk, nodes, state, job>>
            \/ /\ \A p \in names : Found(base, names)[p] # INVALID_NODE
               /\ Save(Added(base, names, sizes).index, Added(base, names, sizes).data)
<1>1. /\ Begin /\ Len(table) + Cardinality(names) <= MaxEntries
      /\ \A p \in names : NameSize(base \o p) < MAX_PATH_PCK_256
      /\ \A p, q \in names : ~Clash(p, q)
  BY DEF Add
<1>2. IF \E p \in names : Found(base, names)[p] = INVALID_NODE
      THEN /\ \E P \in SUBSET {p \in names : Found(base, names)[p] # INVALID_NODE} :
                table' = Marking(base, names, P)
           /\ UNCHANGED <<disk, nodes, state, job>>
      ELSE Save(Added(base, names, sizes).index, Added(base, names, sizes).data)
  BY DEF Add, Found, Marking, Added
<1>3. CASE \E p \in names : Found(base, names)[p] = INVALID_NODE
  <2>1. PICK P \in SUBSET {p \in names : Found(base, names)[p] # INVALID_NODE} :
          table' = Marking(base, names, P)
    BY <1>2, <1>3
  <2>2. P \in SUBSET names
    OBVIOUS
  <2>. QED
    BY <1>1, <1>2, <1>3, <2>1, <2>2
<1>4. CASE \A p \in names : Found(base, names)[p] # INVALID_NODE
  BY <1>1, <1>2, <1>4
<1>. QED
  BY <1>3, <1>4

LEMMA MarkingIs ==
  ASSUME IInv, NEW base, NEW names, NEW P
  PROVE  Remarked(Marking(base, names, P))
<1> DEFINE t == Marking(base, names, P)
           hit(i) == \E p \in P : Found(base, names)[p] = i
<1>1. ASSUME NEW i \in DOMAIN table
      PROVE  t[i] = [table[i] EXCEPT !.isInvalid = t[i].isInvalid] /\ t[i].isInvalid \in BOOLEAN
  <2>1. table[i] \in Rows
    BY DEF IInv, TableInv
  <2>2. t[i] = [table[i] EXCEPT !.isInvalid = table[i].isInvalid \/ hit(i)]
    BY DEF Marking
  <2>. HIDE DEF t, hit
  <2>. QED
    BY <2>1, <2>2 DEF Rows
<1>2. t = [i \in DOMAIN table |-> t[i]]
  BY DEF Marking
<1>. HIDE DEF t
<1>3. Remarked(t)
  BY <1>1, <1>2 DEF Remarked
<1>. QED
  BY <1>3 DEF t

LEMMA FolderIs ==
  ASSUME IInv, state = "open", NEW base \in Folders
  PROVE  base \in Seq(Parts)
<1>1. <<>> \in Seq(Parts)
  OBVIOUS
<1>. QED
  BY <1>1, NodeIs DEF Folders

LEMMA RoomBehind ==
  ASSUME IInv, state = "open", NEW base \in Folders, NEW names \in SUBSET AddedNames, NEW p \in names,
         NameSize(base \o p) < MAX_PATH_PCK_256
  PROVE  InRecord(base \o p)
<1>1. base \in Seq(Parts) /\ p \in Seq(Parts)
  BY FolderIs, NamesAssumption
<1>2. PICK q \in Seq(Parts) : q = base \o p
  <2>1. base \o p \in Seq(Parts)
    BY <1>1
  <2>. QED
    BY <2>1, Zenon
<1>3. NameSize(q) \in Int /\ MAX_PATH_PCK_256 \in Int
  BY NameSizeIsInt, NamesAssumption
<1>4. NameSize(q) < MAX_PATH_PCK_256
  BY <1>2, Zenon
<1>5. InRecord(q)
  BY <1>3, <1>4 DEF InRecord
<1>. QED
  BY <1>2, <1>5, Zenon

\* An index with added files behind what was written of the old one.
LEMMA AddedIs ==
  ASSUME IInv, NEW base \in Folders, NEW names \in SUBSET AddedNames, NEW sizes \in [names -> DataSizes],
         Add(base, names, sizes)
  PROVE  LET w == Written(Marking(base, names, names))
             a == Added(base, names, sizes)
         IN /\ IsWritten(w, Marking(base, names, names), Len(table)) /\ IndexOK(w, jobs)
            /\ Inside(w, disk.data)
            /\ StoredUpTo(a, [index |-> w, data |-> disk.data], Cardinality(names), base, names)
            /\ Len(w) + Cardinality(names) <= MaxEntries /\ Cardinality(names) \in Nat
<1> DEFINE t == Marking(base, names, names)
           w == Written(t)
           z == [index |-> w, data |-> disk.data]
<1>1. /\ Begin /\ Len(table) + Cardinality(names) <= MaxEntries
  BY AddIs
<1>2. state = "open" /\ jobs \in Nat
  BY <1>1, BeginIs
<1>3. SameRecords(t) /\ \A i \in 1..Len(table) : t[i].name = table[i].name
  BY MarkingIs, RemarkedIs DEF IInv
<1>4. \A i \in 1..Len(table) : InRecord(t[i].name)
  BY <1>3, NamesFitIn DEF IInv
<1>. HIDE DEF t
<1>5. IndexOK(w, jobs) /\ Len(w) <= Len(table) /\ IsWritten(w, t, Len(table)) /\ Inside(w, disk.data)
  BY <1>3, <1>4, WrittenOK DEF IInv
<1>6. Cardinality(names) \in Nat /\ SetToSeq(names) \in [1..Cardinality(names) -> names]
  <2>1. IsFiniteSet(names)
    BY FS_Subset, NamesAssumption
  <2>. QED
    BY <2>1, SeqOfSet
<1>7. base \in Seq(Parts) /\ names \in SUBSET Paths
  BY <1>2, FolderIs, NamesAssumption DEF Paths
<1>8. StoredUpTo(StoredAll(z, base, SetToSeq(names), sizes), z, Cardinality(names), base, names)
  <2> DEFINE s == SetToSeq(names)
             n == Cardinality(names)
  <2>1. DOMAIN s = 1..n /\ (\A k \in 1..n : s[k] \in names) /\ n \in Nat
    BY <1>6
  <2>2. w \in Seq(Recs) /\ disk.data \in Seq(Units)
    BY <1>5 DEF IndexOK, IInv, DiskInv
  <2>. HIDE DEF s, n, w
  <2>3. StoredUpTo(StoredAll(z, base, s, sizes), z, n, base, names)
    BY <1>2, <1>7, <2>1, <2>2, StoredAllIs
  <2>. QED
    BY <2>3 DEF s, n
<1>9. Len(w) + Cardinality(names) <= MaxEntries
  <2>1. Len(w) \in Nat /\ Len(table) \in Nat /\ MaxEntries \in Nat
    BY <1>5, BoundsAssumption DEF IndexOK, IInv, TableInv
  <2>. HIDE DEF w
  <2>. QED
    BY <1>1, <1>5, <1>6, <2>1
<1>. QED
  BY <1>5, <1>6, <1>8, <1>9 DEF t, Added

LEMMA AddedOK ==
  ASSUME NEW w, NEW a, NEW data, NEW n \in Nat, NEW base, NEW names, jobs \in Nat, IndexOK(w, jobs),
         StoredUpTo(a, [index |-> w, data |-> data], n, base, names), \A p \in names : InRecord(base \o p)
  PROVE  IndexOK(a.index, jobs + 1) /\ Len(a.index) = Len(w) + n
<1>1. PICK m \in Nat : m = Len(w)
  BY DEF IndexOK
<1>2. /\ a.index \in Seq(Recs) /\ Len(a.index) = m + n
      /\ \A i \in 1..m : a.index[i] = w[i]
      /\ \A i \in (m + 1)..(m + n) : a.index[i].id = <<jobs, i>> /\ \E p \in names : a.index[i].name = base \o p
  BY <1>1 DEF StoredUpTo
<1>3. \A i \in 1..(m + n) : i \in 1..m \/ i \in (m + 1)..(m + n)
  OBVIOUS
<1>4. ASSUME NEW i \in 1..m
      PROVE  InRecord(a.index[i].name) /\ a.index[i].id[1] < jobs /\ a.index[i].id[1] \in Nat
  <2>1. w[i] \in Recs /\ InRecord(w[i].name) /\ w[i].id[1] < jobs
    BY <1>1 DEF IndexOK
  <2>. QED
    BY <1>2, <2>1 DEF Recs, Ids
<1>5. ASSUME NEW i \in (m + 1)..(m + n)
      PROVE  InRecord(a.index[i].name) /\ a.index[i].id[1] = jobs /\ a.index[i].id[2] = i
  <2>1. PICK p \in names : a.index[i].name = base \o p
    BY <1>2
  <2>2. a.index[i].id = <<jobs, i>>
    BY <1>2
  <2>. QED
    BY <2>1, <2>2
<1>6. ASSUME NEW i \in 1..(m + n) PROVE InRecord(a.index[i].name) /\ a.index[i].id[1] < jobs + 1
  <2>1. CASE i \in 1..m
    BY <1>4, <2>1
  <2>2. CASE i \in (m + 1)..(m + n)
    BY <1>5, <2>2
  <2>. QED
    BY <1>3, <2>1, <2>2
<1>7. ASSUME NEW i \in 1..(m + n), NEW j \in 1..(m + n), a.index[i].id = a.index[j].id PROVE i = j
  <2>1. CASE i \in 1..m /\ j \in 1..m
    BY <1>1, <1>2, <1>7, <2>1 DEF IndexOK, OnceEach
  <2>2. CASE i \in 1..m /\ j \in (m + 1)..(m + n)
    BY <1>4, <1>5, <1>7, <2>2
  <2>3. CASE i \in (m + 1)..(m + n) /\ j \in 1..m
    BY <1>4, <1>5, <1>7, <2>3
  <2>4. CASE i \in (m + 1)..(m + n) /\ j \in (m + 1)..(m + n)
    BY <1>5, <1>7, <2>4
  <2>. QED
    BY <1>3, <2>1, <2>2, <2>3, <2>4
<1>8. OnceEach(a.index)
  BY <1>2, <1>7 DEF OnceEach
<1>. QED
  BY <1>1, <1>2, <1>6, <1>8 DEF IndexOK

\* Files that cannot be added leave marks.
LEMMA RemarkKeeps ==
  ASSUME IInv, Remarked(table'), UNCHANGED <<disk, nodes, state, job>>, job = NoJob, jobs' = jobs + 1,
         jobs' \in 0..MaxJobs
  PROVE  IInv'
<1>1. /\ SameRecords(table')
      /\ \A i \in 1..Len(table) :
           /\ table'[i].name = table[i].name /\ table'[i].at = table[i].at
           /\ table'[i].isProtected = table[i].isProtected
           /\ table'[i].isToDeDelete = table[i].isToDeDelete
  BY RemarkedIs DEF IInv
<1>2. disk'.index = disk.index /\ disk'.data = disk.data /\ job'.pc = "none"
  BY NoJobIs
<1>3. DiskInv'
  <2>1. jobs \in Nat
    BY DEF IInv, DiskInv
  <2>2. IndexOK(disk.index, jobs')
    BY <2>1, LaterOK DEF IInv, DiskInv
  <2>. QED
    BY <1>2, <2>2 DEF IInv, DiskInv
<1>4. TableInv'
  BY <1>1, <1>2 DEF IInv, TableInv, SameRecords
<1>5. TreeInv'
  BY <1>2 DEF IInv, TreeInv
<1>6. MarksInv'
  <2>1. \A i \in 1..Len(table) : ~table[i].isProtected /\ ~table[i].isToDeDelete
    BY NoJobIs DEF IInv, MarksInv
  <2>2. Len(table') = Len(table)
    BY <1>1 DEF SameRecords
  <2>. QED
    BY <1>1, <1>2, <2>1, <2>2 DEF MarksInv
<1>7. CopyInv' /\ ExtractInv' /\ JobInv'
  BY <1>2 DEF CopyInv, ExtractInv, JobInv
<1>. QED
  BY <1>3, <1>4, <1>5, <1>6, <1>7 DEF IInv

LEMMA AddKeeps ==
  ASSUME IInv, NEW base \in Folders, NEW names \in SUBSET AddedNames, NEW sizes \in [names -> DataSizes],
         Add(base, names, sizes)
  PROVE  IInv'
<1>1. Begin /\ \A p \in names : NameSize(base \o p) < MAX_PATH_PCK_256
  BY AddIs
<1>2. job = NoJob /\ jobs \in Nat /\ jobs' = jobs + 1 /\ jobs' \in 0..MaxJobs
  BY <1>1, BeginIs
<1>3. CASE (\E P \in SUBSET names : table' = Marking(base, names, P)) /\ UNCHANGED <<disk, nodes, state, job>>
  <2>1. Remarked(table')
    BY <1>3, MarkingIs
  <2>. QED
    BY <1>2, <1>3, <2>1, RemarkKeeps
<1>4. CASE Save(Added(base, names, sizes).index, Added(base, names, sizes).data)
  <2> DEFINE a == Added(base, names, sizes)
             w == Written(Marking(base, names, names))
             n == Cardinality(names)
  <2>1. /\ IndexOK(w, jobs) /\ StoredUpTo(a, [index |-> w, data |-> disk.data], n, base, names)
        /\ Len(w) + n <= MaxEntries /\ n \in Nat /\ Inside(w, disk.data)
    BY AddedIs
  <2>. HIDE DEF a, w, n
  <2>2. IndexOK(a.index, jobs + 1) /\ Len(a.index) = Len(w) + n
    <3>1. ASSUME NEW p \in names PROVE InRecord(base \o p)
      BY <1>1, RoomBehind, BeginIs
    <3>. QED
      BY <1>2, <2>1, <3>1, AddedOK
  <2>3. a.data \in Seq(Units) /\ Inside(a.index, a.data)
    BY <2>1 DEF StoredUpTo
  <2>4. Save(a.index, a.data)
    BY <1>4 DEF a
  <2>. QED
    BY <1>2, <2>1, <2>2, <2>3, <2>4, SaveKeeps
<1>. QED
  BY <1>3, <1>4, AddIs
-----------------------------------------------------------------------------
(***************************************************************************)
(* The filter.  Whatever lines a script has, the table of the filter       *)
(* differs from that of the archive in marks only, and undoing those gives *)
(* the table back.                                                         *)
(***************************************************************************)
Unmarked == \A i \in 1..Len(table) : ~table[i].isProtected /\ ~table[i].isToDeDelete
FilterRow(b, r) == r \in Rows /\ r.at = b.at /\ RowKept(b, r)
FilterOf(f) ==
  /\ f = [table |-> f.table, edited |-> f.edited, failed |-> f.failed] /\ f.edited \in SUBSET Nat
  /\ f.table = [i \in 1..Len(table) |-> f.table[i]]
  /\ \A i \in 1..Len(table) : FilterRow(table[i], f.table[i]) /\ Noted(f.table[i], i \in f.edited)

LEMMA UnfilteredIs ==
  ASSUME TableInv, Unmarked
  PROVE  FilterOf(Unfiltered)
<1>1. /\ Unfiltered.table = table /\ Unfiltered.edited = {}
      /\ Unfiltered = [table |-> Unfiltered.table, edited |-> Unfiltered.edited, failed |-> Unfiltered.failed]
  BY DEF Unfiltered
<1>2. table = [i \in 1..Len(table) |-> table[i]]
  BY DEF TableInv
<1>3. ASSUME NEW i \in 1..Len(table) PROVE FilterRow(table[i], table[i]) /\ Noted(table[i], i \in {})
  <2>1. table[i] \in Rows /\ ~table[i].isProtected /\ ~table[i].isToDeDelete
    BY DEF TableInv, Unmarked
  <2>. QED
    BY <2>1 DEF FilterRow, RowKept, Noted
<1>. QED
  BY <1>1, <1>2, <1>3 DEF FilterOf

LEMMA MarkKeeps ==
  ASSUME NEW b, NEW r, FilterRow(b, r), NEW op
  PROVE  FilterRow(b, MarkFilterFlagToFileIndex(r, op))
<1> DEFINE s == MarkFilterFlagToFileIndex(r, op)
<1>1. r \in Rows /\ r.at = b.at /\ RowKept(b, r)
  BY DEF FilterRow
<1>2. CASE op = "protect"
  <2>1. s = [r EXCEPT !.isProtected = TRUE]
    BY <1>2 DEF MarkFilterFlagToFileIndex
  <2>2. /\ s \in Rows /\ s.at = r.at /\ s.rec = r.rec /\ s.name = r.name
        /\ s.isInvalid = r.isInvalid /\ s.isToDeDelete = r.isToDeDelete
    BY <1>1, <2>1 DEF Rows
  <2>. HIDE DEF s
  <2>3. FilterRow(b, s)
    BY <1>1, <2>2 DEF FilterRow, RowKept
  <2>. QED
    BY <2>3 DEF s
<1>3. CASE op # "protect" /\ op \in {"delete", "rmdir"} /\ ~r.isInvalid /\ ~r.isProtected
  <2>1. s = [r EXCEPT !.isToDeDelete = TRUE, !.isInvalid = TRUE]
    BY <1>3 DEF MarkFilterFlagToFileIndex
  <2>2. /\ s \in Rows /\ s.at = r.at /\ s.rec = r.rec /\ s.name = r.name
        /\ s.isInvalid = TRUE /\ s.isToDeDelete = TRUE
    BY <1>1, <2>1 DEF Rows
  <2>. HIDE DEF s
  <2>3. FilterRow(b, s)
    BY <1>1, <1>3, <2>2 DEF FilterRow, RowKept
  <2>. QED
    BY <2>3 DEF s
<1>4. CASE op # "protect" /\ ~(op \in {"delete", "rmdir"} /\ ~r.isInvalid /\ ~r.isProtected)
  <2>1. s = r
    BY <1>4 DEF MarkFilterFlagToFileIndex
  <2>. QED
    BY <2>1
<1>. QED
  BY <1>2, <1>3, <1>4

LEMMA CoveredIs ==
  ASSUME IInv, state = "open", NEW q \in DOMAIN nodes
  PROVE  Covered(q) \in SUBSET Nat
<1>1. \A r \in DOMAIN nodes : nodes[r].index \in Nat
  BY NodeIs
<1>. QED
  BY <1>1 DEF Covered, Flagged, Under

LEMMA LineKeeps ==
  ASSUME IInv, state = "open", NEW f, FilterOf(f), NEW line
  PROVE  FilterOf(ApplyLine(f, line))
<1>1. /\ f = [table |-> f.table, edited |-> f.edited, failed |-> f.failed] /\ f.edited \in SUBSET Nat
      /\ f.table = [i \in 1..Len(table) |-> f.table[i]]
      /\ \A i \in 1..Len(table) : FilterRow(table[i], f.table[i]) /\ Noted(f.table[i], i \in f.edited)
  BY DEF FilterOf
<1>2. CASE line.op = "chkfile"
  BY <1>2 DEF ApplyLine
<1>3. CASE line.op # "chkfile" /\ line.name \notin DOMAIN nodes
  <2> DEFINE g == ApplyLine(f, line)
  <2>1. g = [f EXCEPT !.failed = TRUE]
    BY <1>3 DEF ApplyLine
  <2>2. g.table = f.table /\ g.edited = f.edited
        /\ g = [table |-> g.table, edited |-> g.edited, failed |-> g.failed]
    BY <1>1, <2>1
  <2>. HIDE DEF g
  <2>3. FilterOf(g)
    BY <1>1, <2>2 DEF FilterOf
  <2>. QED
    BY <2>3 DEF g
<1>4. CASE line.op # "chkfile" /\ line.name \in DOMAIN nodes
  <2> DEFINE g == ApplyLine(f, line)
             C == Covered(line.name)
             t == [i \in DOMAIN f.table |->
                    IF i \in C THEN MarkFilterFlagToFileIndex(f.table[i], line.op) ELSE f.table[i]]
  <2>1. g = [f EXCEPT !.edited = f.edited \cup C, !.table = t]
    BY <1>4 DEF ApplyLine
  <2>2. C \in SUBSET Nat
    BY <1>4, CoveredIs
  <2>3. DOMAIN f.table = 1..Len(table)
    BY <1>1
  <2>4. ASSUME NEW i \in 1..Len(table)
        PROVE  FilterRow(table[i], t[i]) /\ Noted(t[i], i \in f.edited \cup C)
    <3>1. FilterRow(table[i], f.table[i]) /\ Noted(f.table[i], i \in f.edited)
      BY <1>1
    <3>2. CASE i \in C
      <4>1. t[i] = MarkFilterFlagToFileIndex(f.table[i], line.op)
        BY <2>3, <3>2
      <4>2. FilterRow(table[i], t[i])
        BY <3>1, <4>1, MarkKeeps
      <4>. QED
        BY <3>2, <4>2 DEF Noted
    <3>3. CASE i \notin C
      <4>1. t[i] = f.table[i]
        BY <2>3, <3>3
      <4>. QED
        BY <3>1, <4>1 DEF Noted
    <3>. QED
      BY <3>2, <3>3
  <2>5. t = [i \in 1..Len(table) |-> t[i]]
    BY <2>3
  <2>. HIDE DEF g, C, t
  <2>6. g.table = t /\ g.edited = f.edited \cup C
        /\ g = [table |-> g.table, edited |-> g.edited, failed |-> g.failed]
    BY <1>1, <2>1
  <2>7. g.edited \in SUBSET Nat
    BY <1>1, <2>2, <2>6
  <2>8. FilterOf(g)
    BY <2>4, <2>5, <2>6, <2>7 DEF FilterOf
  <2>. QED
    BY <2>8 DEF g
<1>. QED
  BY <1>2, <1>3, <1>4

\* A script fails whatever its lines are, for the last line ParseScript leaves has no name.
LEMMA ScriptFails ==
  ASSUME IInv, state = "open", Unmarked, NEW script \in Scripts
  PROVE  FilterOf(ApplyLines(ParseScript(script))) /\ ApplyLines(ParseScript(script)).failed = TRUE
<1>1. script \in Seq([op : STRING, name : Seq(Parts)])
  BY ScriptsAssumption
<1> DEFINE s == ParseScript(script)
<1>2. PICK m \in Nat : m = Len(script)
  BY <1>1
<1> DEFINE n == m + 1
<1>3. DOMAIN s = 1..n /\ s[n] = [op |-> "unknown", name |-> <<>>] /\ n \in Nat
  <2>1. Len(s) = n /\ DOMAIN s = 1..Len(s) /\ s[n] = [op |-> "unknown", name |-> <<>>]
    BY <1>1, <1>2 DEF ParseScript
  <2>. QED
    BY <2>1
<1>. HIDE DEF s
<1>4. PICK c : /\ c[0] = Unfiltered
               /\ \A k \in 1..n : c[k] = ApplyLine(c[k - 1], s[k])
               /\ ApplyLines(s) = c[n]
  BY <1>3, ApplyChain
<1> DEFINE G == {k \in 0..n : FilterOf(c[k])}
<1>5. 0 \in G
  BY <1>3, <1>4, UnfilteredIs DEF IInv
<1>6. ASSUME NEW k \in 0..(n - 1), k \in G PROVE k + 1 \in G
  <2>1. k + 1 \in 1..n /\ (k + 1) - 1 = k /\ k + 1 \in 0..n
    OBVIOUS
  <2>2. c[k + 1] = ApplyLine(c[k], s[k + 1])
    BY <1>4, <2>1
  <2>. QED
    BY <1>6, <2>1, <2>2, LineKeeps
<1>7. \A k \in 0..n : k \in G
  <2>. HIDE DEF G, n
  <2>. QED
    BY <1>3, <1>5, <1>6, UpwardInduction
<1>8. FilterOf(c[n]) /\ FilterOf(c[m])
  BY <1>7
<1>9. c[n] = ApplyLine(c[m], s[n])
  <2>1. n \in 1..n /\ n - 1 = m
    OBVIOUS
  <2>. QED
    BY <1>4, <2>1
<1>10. <<>> \notin DOMAIN nodes
  BY NodeIs DEF Paths
<1>11. c[n] = [c[m] EXCEPT !.failed = TRUE]
  BY <1>3, <1>9, <1>10 DEF ApplyLine
<1>12. c[n].failed = TRUE
  <2>1. c[m] = [table |-> c[m].table, edited |-> c[m].edited, failed |-> c[m].failed]
    BY <1>8 DEF FilterOf
  <2>. QED
    BY <1>11, <2>1
<1>. QED
  BY <1>4, <1>8, <1>12 DEF s

\* Row r after the filter has gone, b before it came.
RowBack(b, r, s) ==
  /\ s \in Rows /\ s.rec = b.rec /\ s.name = b.name /\ s.at = r.at
  /\ (s.isInvalid <=> b.isInvalid) /\ ~s.isProtected /\ ~s.isToDeDelete

LEMMA ResetIs ==
  ASSUME NEW n \in Nat, NEW b, NEW t \in Seq(Rows), Len(t) = n, NEW edited,
         \A i \in 1..n : RowKept(b[i], t[i]) /\ Noted(t[i], i \in edited)
  PROVE  /\ ResetRebuildFilterInIndexList(t, edited) \in Seq(Rows)
         /\ Len(ResetRebuildFilterInIndexList(t, edited)) = n
         /\ \A i \in 1..n : RowBack(b[i], t[i], ResetRebuildFilterInIndexList(t, edited)[i])
<1> DEFINE u == ResetRebuildFilterInIndexList(t, edited)
<1>1. DOMAIN t = 1..n
  OBVIOUS
<1>2. ASSUME NEW i \in 1..n PROVE RowBack(b[i], t[i], u[i])
  <2> DEFINE r == t[i]
             s == u[i]
  <2>1. r \in Rows /\ RowKept(b[i], r) /\ Noted(r, i \in edited)
    BY <1>1
  <2>2. CASE i \in edited
    <3>1. s = [r EXCEPT !.isInvalid = r.isInvalid /\ ~r.isToDeDelete,
                        !.isProtected = FALSE, !.isToDeDelete = FALSE]
      BY <1>1, <2>2 DEF ResetRebuildFilterInIndexList
    <3>. HIDE DEF r, s
    <3>2. /\ s \in Rows /\ s.rec = r.rec /\ s.name = r.name /\ s.at = r.at
          /\ (s.isInvalid <=> r.isInvalid /\ ~r.isToDeDelete)
          /\ s.isProtected = FALSE /\ s.isToDeDelete = FALSE
      BY <2>1, <3>1 DEF Rows
    <3>3. RowBack(b[i], r, s)
      BY <2>1, <3>2 DEF RowBack, RowKept
    <3>. QED
      BY <3>3 DEF r, s
  <2>3. CASE i \notin edited
    <3>1. s = r
      BY <1>1, <2>3 DEF ResetRebuildFilterInIndexList
    <3>. HIDE DEF r, s
    <3>2. RowBack(b[i], r, s)
      BY <2>1, <2>3, <3>1 DEF RowBack, RowKept, Noted
    <3>. QED
      BY <3>2 DEF r, s
  <2>. QED
    BY <2>2, <2>3
<1>3. u = [i \in 1..n |-> u[i]]
  BY <1>1 DEF ResetRebuildFilterInIndexList
<1>. HIDE DEF u
<1>4. u \in Seq(Rows) /\ Len(u) = n
  <2>1. \A i \in 1..n : u[i] \in Rows
    BY <1>2 DEF RowBack
  <2>. QED
    BY <1>3, <2>1
<1>. QED
  BY <1>2, <1>4 DEF u

LEMMA SameRow ==
  ASSUME NEW b \in Rows, NEW r, NEW s, RowBack(b, r, s), r.at = b.at,
         ~b.isProtected, ~b.isToDeDelete
  PROVE  s = b
<1>1. /\ s \in Rows /\ s.rec = b.rec /\ s.name = b.name /\ s.at = b.at
      /\ (s.isInvalid <=> b.isInvalid) /\ ~s.isProtected /\ ~s.isToDeDelete
  BY DEF RowBack
<1>2. s.isInvalid = b.isInvalid /\ s.isProtected = b.isProtected /\ s.isToDeDelete = b.isToDeDelete
  BY <1>1 DEF Rows
<1>3. /\ s = [rec |-> s.rec, name |-> s.name, at |-> s.at, isInvalid |-> s.isInvalid,
              isProtected |-> s.isProtected, isToDeDelete |-> s.isToDeDelete]
      /\ b = [rec |-> b.rec, name |-> b.name, at |-> b.at, isInvalid |-> b.isInvalid,
              isProtected |-> b.isProtected, isToDeDelete |-> b.isToDeDelete]
  BY <1>1 DEF Rows
<1>. QED
  BY <1>1, <1>2, <1>3

\* A script leaves the table as it was, and notes some rows.
LEMMA ApplyScriptIs ==
  ASSUME IInv, state = "open", Unmarked, NEW script \in Scripts \cup {<<>>}
  PROVE  ApplyScript(script).table = table /\ ApplyScript(script).edited \in SUBSET Nat
<1>1. CASE script = <<>> \/ IsBad(script)
  <2>1. ApplyScript(script) = Unfiltered
    BY <1>1 DEF ApplyScript
  <2>. QED
    BY <2>1 DEF Unfiltered
<1>2. CASE ~(script = <<>> \/ IsBad(script))
  <2> DEFINE f == ApplyLines(ParseScript(script))
             u == ResetRebuildFilterInIndexList(f.table, f.edited)
  <2>1. FilterOf(f) /\ f.failed = TRUE
    BY <1>2, ScriptFails
  <2>2. ApplyScript(script) = [f EXCEPT !.table = u]
    BY <1>2, <2>1 DEF ApplyScript
  <2>. HIDE DEF f
  <2>3. /\ f = [table |-> f.table, edited |-> f.edited, failed |-> f.failed] /\ f.edited \in SUBSET Nat
        /\ f.table = [i \in 1..Len(table) |-> f.table[i]]
        /\ \A i \in 1..Len(table) : FilterRow(table[i], f.table[i]) /\ Noted(f.table[i], i \in f.edited)
    BY <2>1 DEF FilterOf
  <2>. HIDE DEF u
  <2>4. ApplyScript(script).table = u /\ ApplyScript(script).edited \in SUBSET Nat
    BY <2>2, <2>3
  <2>5. PICK n \in Nat : n = Len(table)
    BY DEF IInv, TableInv
  <2>6. f.table \in Seq(Rows) /\ Len(f.table) = n
    <3>1. \A i \in 1..n : f.table[i] \in Rows
      BY <2>3, <2>5 DEF FilterRow
    <3> DEFINE t == f.table
    <3>2. t = [i \in 1..n |-> t[i]] /\ \A i \in 1..n : t[i] \in Rows
      BY <2>3, <2>5, <3>1
    <3>. HIDE DEF t
    <3>3. t \in Seq(Rows) /\ Len(t) = n
      BY <3>2
    <3>. QED
      BY <3>3 DEF t
  <2>7. \A i \in 1..n : RowKept(table[i], f.table[i]) /\ Noted(f.table[i], i \in f.edited)
    BY <2>3, <2>5 DEF FilterRow
  <2>8. u \in Seq(Rows) /\ Len(u) = n /\ \A i \in 1..n : RowBack(table[i], f.table[i], u[i])
    BY <2>6, <2>7, ResetIs DEF u
  <2>9. ASSUME NEW i \in 1..n PROVE u[i] = table[i]
    <3>1. table[i] \in Rows /\ ~table[i].isProtected /\ ~table[i].isToDeDelete
      BY <2>5 DEF IInv, TableInv, Unmarked
    <3>2. f.table[i].at = table[i].at
      BY <2>3, <2>5 DEF FilterRow
    <3>. QED
      BY <2>8, <3>1, <3>2, SameRow
  <2>10. u = table
    <3>1. table \in Seq(Rows) /\ Len(table) = n
      BY <2>5 DEF IInv, TableInv
    <3>. QED
      BY <2>8, <2>9, <3>1
  <2>. QED
    BY <2>4, <2>10
<1>. QED
  BY <1>1, <1>2

LEMMA StripIs ==
  ASSUME IInv, Unmarked
  PROVE  /\ FilterOf(StripModelTexture)
         /\ \A i \in 1..Len(table) :
              StripModelTexture.table[i].isToDeDelete => StripModelTexture.table[i].name \in Textures
<1> DEFINE I == {i \in DOMAIN table : table[i].name \in Textures /\ ~table[i].isInvalid}
           t == [i \in DOMAIN table |-> IF i \in I
                  THEN [table[i] EXCEPT !.isToDeDelete = TRUE, !.isInvalid = TRUE] ELSE table[i]]
           f == StripModelTexture
<1>1. f = [table |-> t, edited |-> I, failed |-> FALSE]
  <2> DEFINE T == Unfiltered.table
  <2>1. T = table /\ Unfiltered = [table |-> table, edited |-> {}, failed |-> FALSE]
    BY DEF Unfiltered
  <2>2. f = [Unfiltered EXCEPT !.edited = I,
               !.table = [i \in DOMAIN T |-> IF i \in I
                  THEN [T[i] EXCEPT !.isToDeDelete = TRUE, !.isInvalid = TRUE] ELSE T[i]]]
    BY DEF StripModelTexture
  <2>. HIDE DEF T, f, I
  <2>3. f = [Unfiltered EXCEPT !.edited = I, !.table = t]
    BY <2>1, <2>2
  <2>. HIDE DEF t
  <2>. QED
    BY <2>1, <2>3
<1>2. PICK n \in Nat : n = Len(table) /\ DOMAIN table = 1..n
  BY DEF IInv, TableInv
<1>3. ASSUME NEW i \in 1..n
      PROVE  /\ FilterRow(table[i], t[i]) /\ Noted(t[i], i \in I)
             /\ t[i].isToDeDelete => t[i].name \in Textures
  <2>1. table[i] \in Rows /\ ~table[i].isProtected /\ ~table[i].isToDeDelete
    BY <1>2 DEF IInv, TableInv, Unmarked
  <2>2. CASE i \in I
    <3> DEFINE r == table[i]
               s == t[i]
    <3>1. s = [r EXCEPT !.isToDeDelete = TRUE, !.isInvalid = TRUE]
      BY <1>2, <2>2
    <3>2. r.name \in Textures /\ ~r.isInvalid
      BY <2>2
    <3>. HIDE DEF r, s
    <3>3. /\ s \in Rows /\ s.rec = r.rec /\ s.name = r.name /\ s.at = r.at
          /\ s.isInvalid = TRUE /\ s.isToDeDelete = TRUE
      BY <2>1, <3>1 DEF Rows, r
    <3>4. FilterRow(r, s) /\ (s.isToDeDelete => s.name \in Textures)
      BY <2>1, <3>2, <3>3 DEF FilterRow, RowKept, r
    <3>. QED
      BY <2>2, <3>4 DEF Noted, r, s
  <2>3. CASE i \notin I
    <3>1. t[i] = table[i]
      BY <1>2, <2>3
    <3>. HIDE DEF t
    <3>. QED
      BY <2>1, <3>1 DEF FilterRow, RowKept, Noted
  <2>. QED
    BY <2>2, <2>3
<1>4. t = [i \in 1..n |-> t[i]] /\ I \in SUBSET Nat
  BY <1>2
<1>. HIDE DEF t, I, f
<1>5. f.table = t /\ f.edited = I /\ f = [table |-> f.table, edited |-> f.edited, failed |-> f.failed]
  BY <1>1
<1>6. FilterOf(f) /\ \A i \in 1..Len(table) : f.table[i].isToDeDelete => f.table[i].name \in Textures
  BY <1>2, <1>3, <1>4, <1>5 DEF FilterOf
<1>. QED
  BY <1>6 DEF f

-----------------------------------------------------------------------------
(***************************************************************************)
(* The rebuild.                                                            *)
(***************************************************************************)
FilterFor(kind, script) == IF kind = "strip" THEN StripModelTexture ELSE ApplyScript(script)

LEMMA FilterForIs ==
  ASSUME IInv, state = "open", Unmarked, NEW kind, NEW script \in Scripts \cup {<<>>}
  PROVE  /\ FilterFor(kind, script).edited \in SUBSET Nat
         /\ FilterFor(kind, script).table \in Seq(Rows)
         /\ Len(FilterFor(kind, script).table) = Len(table)
         /\ \A i \in 1..Len(table) :
              LET r == FilterFor(kind, script).table[i]
              IN /\ FilterRow(table[i], r) /\ Noted(r, i \in FilterFor(kind, script).edited)
                 /\ r.isToDeDelete => kind = "strip" /\ r.name \in Textures
<1> DEFINE f == FilterFor(kind, script)
<1>1. PICK n \in Nat : n = Len(table) /\ table \in Seq(Rows)
  BY DEF IInv, TableInv
<1>2. CASE kind = "strip"
  <2>1. f = StripModelTexture
    BY <1>2 DEF FilterFor
  <2>. HIDE DEF f
  <2>2. FilterOf(f) /\ \A i \in 1..n : f.table[i].isToDeDelete => f.table[i].name \in Textures
    BY <1>1, <2>1, StripIs
  <2>3. /\ f.edited \in SUBSET Nat /\ f.table = [i \in 1..n |-> f.table[i]]
        /\ \A i \in 1..n : FilterRow(table[i], f.table[i]) /\ Noted(f.table[i], i \in f.edited)
    BY <1>1, <2>2 DEF FilterOf
  <2>4. f.table \in Seq(Rows) /\ Len(f.table) = n
    <3> DEFINE t == f.table
    <3>2. t = [i \in 1..n |-> t[i]] /\ \A i \in 1..n : t[i] \in Rows
      BY <2>3 DEF FilterRow
    <3>. HIDE DEF t
    <3>3. t \in Seq(Rows) /\ Len(t) = n
      BY <3>2
    <3>. QED
      BY <3>3 DEF t
  <2>. QED
    BY <1>1, <1>2, <2>2, <2>3, <2>4 DEF f
<1>3. CASE kind # "strip"
  <2>1. f.table = table /\ f.edited \in SUBSET Nat
    BY <1>3, ApplyScriptIs DEF FilterFor
  <2>. HIDE DEF f
  <2>2. ASSUME NEW i \in 1..n
        PROVE  FilterRow(table[i], table[i]) /\ Noted(table[i], i \in f.edited) /\ ~table[i].isToDeDelete
    <3>1. table[i] \in Rows /\ ~table[i].isProtected /\ ~table[i].isToDeDelete
      BY <1>1 DEF Unmarked
    <3>. QED
      BY <3>1 DEF FilterRow, RowKept, Noted
  <2>. QED
    BY <1>1, <2>1, <2>2 DEF f
<1>. QED
  BY <1>2, <1>3

LEMMA StartKeeps ==
  ASSUME IInv, NEW kind \in {"rebuild", "recompress", "strip"}, NEW script \in Scripts \cup {<<>>},
         Start(kind, script)
  PROVE  IInv'
<1> DEFINE f == FilterFor(kind, script)
<1>1. /\ Begin /\ table' = f.table /\ UNCHANGED <<disk, nodes, state>>
      /\ job' = [pc |-> "copy", kind |-> kind, script |-> script, edited |-> f.edited,
                 stopped |-> FALSE, out |-> <<>>, data |-> <<>>, copied |-> {}, before |-> table]
  BY DEF Start, FilterFor
<1>2. /\ state = "open" /\ job = NoJob /\ job.pc = "none" /\ jobs \in Nat /\ jobs' = jobs + 1
      /\ jobs' \in 0..MaxJobs
  BY <1>1, BeginIs
<1>3. Unmarked
  BY <1>2 DEF IInv, MarksInv, Unmarked
<1>4. /\ f.edited \in SUBSET Nat /\ f.table \in Seq(Rows) /\ Len(f.table) = Len(table)
      /\ \A i \in 1..Len(table) :
           /\ FilterRow(table[i], f.table[i]) /\ Noted(f.table[i], i \in f.edited)
           /\ f.table[i].isToDeDelete => kind = "strip" /\ f.table[i].name \in Textures
  BY <1>2, <1>3, FilterForIs
<1>. HIDE DEF f
<1>5. /\ job'.pc = "copy" /\ job'.kind = kind /\ job'.edited = f.edited /\ job'.stopped = FALSE
      /\ job'.out = <<>> /\ job'.copied = {} /\ job'.before = table
  BY <1>1
<1>6. disk'.index = disk.index /\ disk'.data = disk.data
  BY <1>1
<1>7. DiskInv'
  BY <1>2, <1>6, LaterOK DEF IInv, DiskInv
<1>8. TableInv'
  BY <1>1, <1>4, <1>6 DEF IInv, TableInv, FilterRow, RowKept
<1>9. TreeInv'
  BY <1>1, <1>2, <1>6 DEF IInv, TreeInv
<1>10. MarksInv'
  BY <1>1, <1>4, <1>5 DEF MarksInv, FilterRow
<1>11. CopyInv'
  <2>1. table \in Seq(Rows) /\ Len(table) = Len(table')
    BY <1>1, <1>4 DEF IInv, TableInv
  <2>2. job' \in CopyJobs
    <3>1. <<>> \in Seq(Recs) /\ <<>> \in Seq(Units) /\ {} \in SUBSET Nat
      OBVIOUS
    <3>. QED
      BY <1>1, <1>4, <2>1, <3>1 DEF CopyJobs
  <2>3. OnceEach(<<>>) /\ IsFiniteSet({}) /\ Cardinality({}) = 0 /\ Len(<<>>) = 0
    BY FS_EmptySet, EmptyInterval DEF OnceEach
  <2>4. Inside(<<>>, job'.data)
    BY <2>3, EmptyInterval DEF Inside
  <2>. QED
    BY <1>5, <2>1, <2>2, <2>3, <2>4, EmptyInterval DEF CopyInv
<1>12. ExtractInv' /\ JobInv'
  BY <1>5 DEF ExtractInv, JobInv
<1>. QED
  BY <1>7, <1>8, <1>9, <1>10, <1>11, <1>12 DEF IInv

LEMMA CopyJobIs ==
  ASSUME IInv, job.pc \in {"copy", "done", "failed"}
  PROVE  /\ job.kind \in {"rebuild", "recompress", "strip"} /\ job.script \in Scripts \cup {<<>>}
         /\ job.edited \in SUBSET Nat /\ job.stopped \in BOOLEAN /\ job.out \in Seq(Recs)
         /\ job.data \in Seq(Units) /\ job.copied \in SUBSET Nat /\ job.before \in Seq(Rows)
         /\ Inside(job.out, job.data) /\ OnceEach(job.out)
         /\ job.copied \subseteq 1..Len(table) /\ Len(job.before) = Len(table)
         /\ job.pc # "extract" /\ job.pc # "extracted" /\ job # NoJob /\ state = "open"
<1>1. job \in CopyJobs
  BY DEF IInv, CopyInv
<1>2. job.pc # "none" /\ job.pc # "extract" /\ job.pc # "extracted"
  OBVIOUS
<1>3. job # NoJob
  BY <1>2, NoJobIs
<1>4. state = "open"
  BY <1>3 DEF IInv, TreeInv
<1>. QED
  BY <1>1, <1>2, <1>3, <1>4 DEF CopyJobs, IInv, CopyInv

LEMMA RestIs ==
  ASSUME NEW a \in Nat
  PROVE  /\ (a % AddressModulus) \in Nat /\ (a % AddressModulus) <= a
         /\ a < AddressModulus => (a % AddressModulus) = a
<1>1. PICK m \in Nat : m = AddressModulus /\ m # 0
  BY BoundsAssumption
<1>2. (a % m) \in Nat /\ (a % m) < m
  BY <1>1
<1>3. CASE a < m
  <2>1. a % m = a
    BY <1>1, <1>3
  <2>. QED
    BY <1>1, <2>1
<1>4. CASE ~(a < m)
  BY <1>1, <1>2, <1>4
<1>. QED
  BY <1>3, <1>4

LEMMA PieceIs ==
  ASSUME NEW data \in Seq(Units), NEW at \in Nat, NEW n \in Nat, at + n <= Len(data)
  PROVE  /\ SubSeq(data, at + 1, at + n) \in Seq(Units) /\ Len(SubSeq(data, at + 1, at + n)) = n
         /\ \A k \in 1..n : SubSeq(data, at + 1, at + n)[k] = data[at + k]
<1>1. PICK l \in Nat : l = Len(data)
  OBVIOUS
<1> DEFINE s == SubSeq(data, at + 1, at + n)
<1>2. \A k \in (at + 1)..(at + n) : k \in 1..l
  BY <1>1
<1>3. s \in Seq(Units) /\ Len(s) = n
  BY <1>1, <1>2
<1>4. ASSUME NEW k \in 1..n PROVE s[k] = data[at + k]
  <2>1. k + (at + 1) - 1 = at + k
    OBVIOUS
  <2>. QED
    BY <1>1, <1>2, <2>1
<1>. HIDE DEF s
<1>5. s \in Seq(Units) /\ Len(s) = n /\ \A k \in 1..n : s[k] = data[at + k]
  BY <1>3, <1>4
<1>. QED
  BY <1>5 DEF s

\* What is copied for i: from where, the data, and the record for it.
CopyFrom(i) == SourceAddress(table[i].at)
CopyData(i) == DataAt(CopyFrom(i), table[i].rec.size)
CopyRecord(i) == FillIndexData(table[i], Len(job.data))

LEMMA CopyIs ==
  ASSUME IInv, NEW i \in DOMAIN table, Copy(i)
  PROVE  /\ job.pc = "copy" /\ i \in 1..Len(table) /\ ~table[i].isInvalid /\ i \notin job.copied
         /\ job' = [job EXCEPT !.copied = job.copied \cup {i},
                               !.out = Append(job.out, CopyRecord(i)),
                               !.data = job.data \o CopyData(i)]
         /\ table' = [table EXCEPT ![i].at = CopyFrom(i)]
         /\ UNCHANGED <<disk, nodes, state, jobs>>
<1>1. i \in 1..Len(table)
  BY DEF IInv, TableInv
<1>. QED
  BY <1>1 DEF Copy, InTurn, ToCopy, Restored, CopyFrom, CopyData, CopyRecord

LEMMA CopiedIs ==
  ASSUME IInv, job.pc = "copy", NEW i \in 1..Len(table)
  PROVE  /\ CopyFrom(i) \in Nat /\ CopyFrom(i) <= table[i].at
         /\ CopyData(i) \in Seq(Units) /\ Len(CopyData(i)) = table[i].rec.size
         /\ \A k \in 1..table[i].rec.size : CopyData(i)[k] = disk.data[CopyFrom(i) + k]
         /\ CopyRecord(i) \in Recs /\ CopyRecord(i).name = disk.index[i].name
         /\ CopyRecord(i).id = disk.index[i].id /\ CopyRecord(i).at = Len(job.data)
         /\ CopyRecord(i).size = table[i].rec.size
<1>1. /\ table[i] \in Rows /\ table[i].rec = disk.index[i] /\ table[i].name = disk.index[i].name
      /\ table[i].at <= disk.index[i].at /\ i \in 1..Len(disk.index)
  BY DEF IInv, TableInv
<1>2. PICK at \in Nat, n \in Nat : at = table[i].at /\ n = table[i].rec.size
  <2>1. table[i].at \in Nat /\ table[i].rec \in Recs
    BY <1>1 DEF Rows
  <2>. QED
    BY <2>1, BoundsAssumption DEF Recs
<1>3. CopyFrom(i) \in Nat /\ CopyFrom(i) <= at
  <2>1. CASE job.kind = "rebuild"
    <3> DEFINE rest == at % AddressModulus
    <3>1. CopyFrom(i) = rest
      BY <1>2, <2>1 DEF CopyFrom, SourceAddress
    <3>2. rest \in Nat /\ rest <= at
      BY RestIs, <1>2
    <3>. HIDE DEF rest
    <3>. QED
      BY <3>1, <3>2
  <2>2. CASE job.kind # "rebuild"
    <3>1. CopyFrom(i) = at
      BY <1>2, <2>2 DEF CopyFrom, SourceAddress
    <3>. QED
      BY <3>1
  <2>. QED
    BY <2>1, <2>2
<1>4. PICK from \in Nat : from = CopyFrom(i) /\ from <= at
  BY <1>3
<1>5. from + n <= Len(disk.data) /\ disk.data \in Seq(Units)
  <2>1. disk.data \in Seq(Units) /\ disk.index \in Seq(Recs)
    BY DEF IInv, DiskInv, IndexOK
  <2>2. disk.index[i].at + disk.index[i].size <= Len(disk.data)
    BY <1>1 DEF IInv, DiskInv, Inside
  <2>3. disk.index[i].size = n /\ at <= disk.index[i].at /\ disk.index[i].at \in Nat
    <3>1. disk.index[i] \in Recs
      BY <1>1, <2>1
    <3>. QED
      BY <1>1, <1>2, <3>1 DEF Recs
  <2>4. PICK l \in Nat : l = Len(disk.data)
    BY <2>1
  <2>5. PICK old \in Nat : old = disk.index[i].at
    BY <2>3
  <2>6. old + n <= l /\ from <= old
    BY <1>2, <1>4, <2>2, <2>3, <2>4, <2>5
  <2>7. from + n <= l
    BY <2>6
  <2>. QED
    BY <2>1, <2>4, <2>7
<1>6. CopyData(i) = SubSeq(disk.data, from + 1, from + n)
  BY <1>2, <1>4 DEF CopyData, DataAt
<1>7. /\ CopyData(i) \in Seq(Units) /\ Len(CopyData(i)) = n
      /\ \A k \in 1..n : CopyData(i)[k] = disk.data[from + k]
  BY <1>5, <1>6, PieceIs
<1>8. CopyRecord(i) = [name |-> table[i].name, at |-> Len(job.data), size |-> n, id |-> table[i].rec.id]
  BY <1>2 DEF CopyRecord, FillIndexData, Record
<1>9. table[i].name \in Paths /\ n \in DataSizes /\ table[i].rec.id \in Ids /\ Len(job.data) \in Nat
  <2>1. table[i].rec \in Recs /\ table[i].name \in Paths
    BY <1>1 DEF Rows
  <2>2. job.data \in Seq(Units)
    BY CopyJobIs
  <2>3. Len(job.data) \in Nat
    BY <2>2
  <2>. QED
    BY <1>2, <2>1, <2>3 DEF Recs
<1>10. CopyRecord(i) \in Recs
  BY <1>8, <1>9 DEF Recs
<1>11. /\ CopyRecord(i).name = disk.index[i].name /\ CopyRecord(i).id = disk.index[i].id
       /\ CopyRecord(i).at = Len(job.data) /\ CopyRecord(i).size = n
  BY <1>1, <1>8
<1>. QED
  BY <1>2, <1>4, <1>7, <1>10, <1>11

\* The job after a copy.
LEMMA CopyJobAfter ==
  ASSUME IInv, NEW i \in DOMAIN table, Copy(i)
  PROVE  /\ job' \in CopyJobs /\ job'.pc = "copy" /\ job'.kind = job.kind /\ job'.script = job.script
         /\ job'.edited = job.edited /\ job'.stopped = job.stopped /\ job'.before = job.before
         /\ job'.copied = job.copied \cup {i}
         /\ job'.out = Append(job.out, CopyRecord(i)) /\ job'.data = job.data \o CopyData(i)
<1>1. job.pc = "copy" /\ i \in 1..Len(table)
  BY CopyIs
<1> DEFINE C == job.copied \cup {i}
           O == Append(job.out, CopyRecord(i))
           D == job.data \o CopyData(i)
<1>2. C \in SUBSET Nat /\ O \in Seq(Recs) /\ D \in Seq(Units)
  <2>1. job.copied \in SUBSET Nat /\ job.out \in Seq(Recs) /\ job.data \in Seq(Units)
    BY <1>1, CopyJobIs
  <2>2. CopyRecord(i) \in Recs /\ CopyData(i) \in Seq(Units) /\ i \in Nat
    BY <1>1, CopiedIs
  <2>. QED
    BY <2>1, <2>2
<1>3. job' = [job EXCEPT !.copied = C, !.out = O, !.data = D]
  BY CopyIs
<1>4. job \in CopyJobs
  BY <1>1 DEF IInv, CopyInv
<1>. HIDE DEF C, O, D
<1>5. job' = [pc |-> job.pc, kind |-> job.kind, script |-> job.script, edited |-> job.edited,
              stopped |-> job.stopped, out |-> O, data |-> D, copied |-> C, before |-> job.before]
  BY <1>3, <1>4 DEF CopyJobs
<1>6. job' \in CopyJobs
  BY <1>2, <1>4, <1>5 DEF CopyJobs
<1>. QED
  BY <1>1, <1>5, <1>6 DEF C, O, D

LEMMA CopyTable ==
  ASSUME IInv, NEW i \in DOMAIN table, Copy(i)
  PROVE  /\ table' \in Seq(Rows) /\ Len(table') = Len(table)
         /\ \A j \in 1..Len(table) :
              /\ table'[j].rec = table[j].rec /\ table'[j].name = table[j].name
              /\ table'[j].at <= table[j].at /\ table'[j].isInvalid = table[j].isInvalid
              /\ table'[j].isProtected = table[j].isProtected
              /\ table'[j].isToDeDelete = table[j].isToDeDelete
<1>1. PICK n \in Nat : n = Len(table) /\ DOMAIN table = 1..n /\ table \in Seq(Rows)
  BY DEF IInv, TableInv
<1>2. i \in 1..n /\ table' = [table EXCEPT ![i].at = CopyFrom(i)] /\ CopyFrom(i) \in Nat
      /\ CopyFrom(i) <= table[i].at
  <2>1. job.pc = "copy" /\ i \in 1..Len(table) /\ table' = [table EXCEPT ![i].at = CopyFrom(i)]
    BY CopyIs
  <2>. QED
    BY <1>1, <2>1, CopiedIs
<1>3. ASSUME NEW j \in 1..n
      PROVE  /\ table'[j] \in Rows /\ table'[j].rec = table[j].rec /\ table'[j].name = table[j].name
             /\ table'[j].at <= table[j].at /\ table'[j].isInvalid = table[j].isInvalid
             /\ table'[j].isProtected = table[j].isProtected
             /\ table'[j].isToDeDelete = table[j].isToDeDelete
  <2>1. table[j] \in Rows
    BY <1>1
  <2>2. CASE j = i
    <3>1. table'[j] = [table[j] EXCEPT !.at = CopyFrom(i)]
      BY <1>1, <1>2, <2>2
    <3>. QED
      BY <1>2, <2>1, <2>2, <3>1 DEF Rows
  <2>3. CASE j # i
    <3>1. table'[j] = table[j]
      BY <1>1, <1>2, <2>3
    <3>2. table[j].at \in Nat
      BY <2>1 DEF Rows
    <3>3. table[j].at <= table[j].at
      BY <3>2
    <3>. QED
      BY <2>1, <3>1, <3>3
  <2>. QED
    BY <2>2, <2>3
<1>4. table' = [j \in 1..n |-> table'[j]]
  BY <1>1, <1>2
<1>5. table' \in Seq(Rows) /\ Len(table') = n
  BY <1>3, <1>4
<1>. QED
  BY <1>1, <1>3, <1>5

LEMMA CopyKeeps ==
  ASSUME IInv, NEW i \in DOMAIN table, Copy(i)
  PROVE  IInv'
<1>1. /\ job.pc = "copy" /\ i \in 1..Len(table) /\ ~table[i].isInvalid /\ i \notin job.copied
      /\ UNCHANGED <<disk, nodes, state, jobs>>
  BY CopyIs
<1>2. /\ job' \in CopyJobs /\ job'.pc = "copy" /\ job'.kind = job.kind /\ job'.edited = job.edited
      /\ job'.before = job.before /\ job'.copied = job.copied \cup {i}
      /\ job'.out = Append(job.out, CopyRecord(i)) /\ job'.data = job.data \o CopyData(i)
  BY CopyJobAfter
<1>3. /\ table' \in Seq(Rows) /\ Len(table') = Len(table)
      /\ \A j \in 1..Len(table) :
           /\ table'[j].rec = table[j].rec /\ table'[j].name = table[j].name
           /\ table'[j].at <= table[j].at /\ table'[j].isInvalid = table[j].isInvalid
           /\ table'[j].isProtected = table[j].isProtected
           /\ table'[j].isToDeDelete = table[j].isToDeDelete
  BY CopyTable
<1>4. disk' = disk /\ disk'.index = disk.index
  BY <1>1
<1>5. DiskInv' /\ TreeInv'
  <2>1. job' # NoJob /\ job # NoJob /\ state = "open"
    BY <1>1, <1>2, NoJobIs, CopyJobIs
  <2>. QED
    BY <1>1, <1>4, <2>1 DEF IInv, DiskInv, TreeInv
<1>6. TableInv'
  <2>1. ASSUME NEW j \in 1..Len(table) PROVE table'[j].at <= disk.index[j].at
    <3>1. table[j].at <= disk.index[j].at /\ table[j] \in Rows /\ table[j].rec = disk.index[j]
      BY DEF IInv, TableInv
    <3>2. table'[j] \in Rows /\ table'[j].at <= table[j].at
      <4>1. \A s \in Seq(Rows) : \A k \in 1..Len(s) : s[k] \in Rows
        OBVIOUS
      <4>. QED
        BY <1>3, <4>1
    <3>3. table[j].at \in Nat /\ table[j].rec \in Recs /\ table'[j].at \in Nat
      BY <3>1, <3>2 DEF Rows
    <3>4. disk.index[j].at \in Nat
      BY <3>1, <3>3 DEF Recs
    <3>5. \A a, b, c \in Nat : a <= b /\ b <= c => a <= c
      OBVIOUS
    <3>. QED
      BY <3>1, <3>2, <3>3, <3>4, <3>5
  <2>. QED
    BY <1>3, <1>4, <2>1 DEF IInv, TableInv
<1>7. MarksInv'
  <2>1. ASSUME NEW j \in 1..Len(table)
        PROVE  /\ RowKept(job.before[j], table'[j]) /\ Noted(table'[j], j \in job.edited)
               /\ table'[j].isToDeDelete => job.kind = "strip" /\ table'[j].name \in Textures
    <3>1. /\ RowKept(job.before[j], table[j]) /\ Noted(table[j], j \in job.edited)
          /\ table[j].isToDeDelete => job.kind = "strip" /\ table[j].name \in Textures
      BY <1>1 DEF IInv, MarksInv
    <3>. QED
      BY <1>3, <3>1 DEF RowKept, Noted
  <2>. QED
    BY <1>2, <1>3, <2>1 DEF MarksInv
<1>8. CopyInv'
  <2>1. /\ job.out \in Seq(Recs) /\ job.data \in Seq(Units) /\ Inside(job.out, job.data)
        /\ OnceEach(job.out) /\ job.copied \subseteq 1..Len(table) /\ Len(job.before) = Len(table)
    BY <1>1, CopyJobIs
  <2>2. PICK n \in Nat : n = Len(job.out)
    BY <2>1
  <2> DEFINE r == CopyRecord(i)
             out == Append(job.out, r)
             D == job.copied \cup {i}
  <2>3. /\ r \in Recs /\ r.name = disk.index[i].name /\ r.id = disk.index[i].id
        /\ r.at = Len(job.data) /\ r.size = table[i].rec.size
        /\ CopyData(i) \in Seq(Units) /\ Len(CopyData(i)) = table[i].rec.size
    BY <1>1, CopiedIs
  <2>. HIDE DEF r, out, D
  <2>4. /\ Len(out) = n + 1 /\ out[n + 1] = r /\ \A k \in 1..n : out[k] = job.out[k]
    BY <2>1, <2>2, <2>3, AppendIs DEF out
  <2>5. \A k \in 1..(n + 1) : k \in 1..n \/ k = n + 1
    OBVIOUS
  <2>6. Inside(out, job.data \o CopyData(i))
    BY <2>1, <2>3, InsideAppend DEF out
  <2>7. /\ \A j \in job.copied :
            ~job.before[j].isInvalid /\ \E k \in 1..n : SameEntry(job.out[k], disk.index[j])
        /\ \A k \in 1..n : \E j \in job.copied : SameEntry(job.out[k], disk.index[j])
        /\ IsFiniteSet(job.copied) /\ n = Cardinality(job.copied)
    BY <1>1, <2>2 DEF IInv, CopyInv
  <2>8. SameEntry(out[n + 1], disk.index[i])
    BY <2>3, <2>4 DEF SameEntry
  <2>9. ~job.before[i].isInvalid
    BY <1>1 DEF IInv, MarksInv, RowKept
  <2>10. ASSUME NEW j \in D
         PROVE  ~job.before[j].isInvalid /\ \E k \in 1..(n + 1) : SameEntry(out[k], disk.index[j])
    <3>1. CASE j = i
      BY <2>8, <2>9, <3>1
    <3>2. CASE j \in job.copied
      <4>1. PICK k \in 1..n : SameEntry(job.out[k], disk.index[j])
        BY <2>7, <3>2
      <4>2. k \in 1..(n + 1) /\ SameEntry(out[k], disk.index[j])
        BY <2>4, <4>1
      <4>. QED
        BY <2>7, <3>2, <4>2
    <3>. QED
      BY <3>1, <3>2 DEF D
  <2>11. ASSUME NEW k \in 1..(n + 1) PROVE \E j \in D : SameEntry(out[k], disk.index[j])
    <3>1. CASE k = n + 1
      BY <2>8, <3>1 DEF D
    <3>2. CASE k \in 1..n
      <4>1. PICK j \in job.copied : SameEntry(job.out[k], disk.index[j])
        BY <2>7, <3>2
      <4>. QED
        BY <2>4, <3>2, <4>1 DEF D
    <3>. QED
      BY <2>5, <3>1, <3>2
  <2>12. ASSUME NEW k \in 1..n PROVE job.out[k].id # r.id
    <3>1. PICK j \in job.copied : SameEntry(job.out[k], disk.index[j])
      BY <2>7
    <3>2. j # i /\ j \in 1..Len(disk.index) /\ i \in 1..Len(disk.index)
      BY <1>1, <2>1 DEF IInv, TableInv
    <3>. QED
      BY <2>3, <3>1, <3>2 DEF SameEntry, IInv, DiskInv, IndexOK, OnceEach
  <2>13. OnceEach(out)
    BY <2>1, <2>2, <2>4, <2>5, <2>12 DEF OnceEach
  <2>14. IsFiniteSet(D) /\ Cardinality(D) = n + 1
    BY <1>1, <2>7, FS_AddElement DEF D
  <2>15. D \subseteq 1..Len(table)
    BY <1>1, <2>1 DEF D
  <2>16. job'.out = out /\ job'.copied = D /\ Len(job'.out) = n + 1
    BY <1>2, <2>4 DEF out, D, r
  <2>. QED
    BY <1>2, <1>3, <1>4, <2>1, <2>6, <2>10, <2>11, <2>13, <2>14, <2>15, <2>16 DEF CopyInv
<1>9. ExtractInv' /\ JobInv'
  BY <1>2 DEF ExtractInv, JobInv
<1>. QED
  BY <1>5, <1>6, <1>7, <1>8, <1>9 DEF IInv

(***************************************************************************)
(* A rebuild ends, and what was rebuilt is opened.                         *)
(***************************************************************************)
LEMMA ReturnTable ==
  ASSUME IInv, job.pc = "copy", NEW pc, Return(pc)
  PROVE  /\ table' \in Seq(Rows) /\ Len(table') = Len(table)
         /\ \A i \in 1..Len(table) : RowBack(job.before[i], table[i], table'[i])
<1>1. table' = ResetRebuildFilterInIndexList(table, job.edited)
  BY DEF Return
<1>2. PICK n \in Nat : n = Len(table) /\ DOMAIN table = 1..n /\ table \in Seq(Rows)
  BY DEF IInv, TableInv
<1>3. \A i \in 1..n : /\ RowKept(job.before[i], table[i]) /\ Noted(table[i], i \in job.edited)
                      /\ table[i].isToDeDelete => job.kind = "strip" /\ table[i].name \in Textures
  BY <1>2 DEF IInv, MarksInv
<1>4. /\ table' \in Seq(Rows) /\ Len(table') = n
      /\ \A i \in 1..n : RowBack(job.before[i], table[i], table'[i])
  <2>1. \A i \in 1..n : RowKept(job.before[i], table[i]) /\ Noted(table[i], i \in job.edited)
    BY <1>3
  <2> DEFINE b == job.before
             edited == job.edited
  <2>2. \A i \in 1..n : RowKept(b[i], table[i]) /\ Noted(table[i], i \in edited)
    BY <2>1
  <2>. HIDE DEF b, edited
  <2>3. LET u == ResetRebuildFilterInIndexList(table, edited)
        IN u \in Seq(Rows) /\ Len(u) = n /\ \A i \in 1..n : RowBack(b[i], table[i], u[i])
    BY <1>2, <2>2, ResetIs
  <2>. QED
    BY <1>1, <2>3 DEF b, edited
<1>. QED
  BY <1>2, <1>4

LEMMA ReturnKeeps ==
  ASSUME IInv, job.pc = "copy", NEW pc \in {"done", "failed"}, Return(pc),
         pc = "done" => ToCopy = {} \/ job.stopped
  PROVE  IInv'
<1>1. /\ job' = [job EXCEPT !.pc = pc]
      /\ table' = ResetRebuildFilterInIndexList(table, job.edited)
      /\ UNCHANGED <<disk, nodes, state, jobs>>
  BY DEF Return
<1>2. /\ job \in CopyJobs /\ state = "open" /\ job # NoJob /\ Len(job.before) = Len(table)
      /\ Inside(job.out, job.data) /\ OnceEach(job.out) /\ job.copied \subseteq 1..Len(table)
  <2>1. job \in CopyJobs
    BY DEF IInv, CopyInv
  <2>. QED
    BY <2>1, CopyJobIs
<1>3. job' = [pc |-> pc, kind |-> job.kind, script |-> job.script, edited |-> job.edited,
              stopped |-> job.stopped, out |-> job.out, data |-> job.data, copied |-> job.copied,
              before |-> job.before]
  BY <1>1, <1>2 DEF CopyJobs
<1>4. job' \in CopyJobs
  BY <1>2, <1>3 DEF CopyJobs
<1>5. /\ job'.pc = pc /\ job'.kind = job.kind /\ job'.script = job.script
      /\ job'.stopped = job.stopped /\ job'.out = job.out /\ job'.data = job.data
      /\ job'.copied = job.copied /\ job'.before = job.before /\ job' # NoJob
  <2>1. job'.pc = pc
    BY <1>3
  <2>. QED
    BY <1>3, <2>1, NoJobIs
<1>6. PICK n \in Nat : n = Len(table) /\ DOMAIN table = 1..n /\ table \in Seq(Rows)
  BY DEF IInv, TableInv
<1>7. \A i \in 1..n : /\ RowKept(job.before[i], table[i]) /\ Noted(table[i], i \in job.edited)
                      /\ table[i].isToDeDelete => job.kind = "strip" /\ table[i].name \in Textures
  BY <1>6 DEF IInv, MarksInv
<1>8. /\ table' \in Seq(Rows) /\ Len(table') = n
      /\ \A i \in 1..n : RowBack(job.before[i], table[i], table'[i])
  BY <1>6, ReturnTable
<1>9. ASSUME NEW i \in 1..n
      PROVE  /\ table'[i].rec = table[i].rec /\ table'[i].name = table[i].name
             /\ table'[i].at = table[i].at
             /\ ~table'[i].isProtected /\ ~table'[i].isToDeDelete
  BY <1>7, <1>8 DEF RowBack, RowKept
<1>10. disk' = disk /\ disk'.index = disk.index
  BY <1>1
<1>11. DiskInv' /\ TreeInv'
  BY <1>1, <1>2, <1>5, <1>10 DEF IInv, DiskInv, TreeInv
<1>12. TableInv'
  BY <1>6, <1>8, <1>9, <1>10 DEF IInv, TableInv
<1>13. MarksInv'
  BY <1>5, <1>8, <1>9 DEF MarksInv
<1>14. ASSUME pc = "done", ~job.stopped, NEW i \in 1..n
       PROVE  job.before[i].isInvalid \/ i \in job.copied \/ (Filtered(table[i].name))'
  <2>1. i \notin ToCopy
    BY <1>14
  <2>2. CASE ~table[i].isInvalid
    BY <1>6, <2>1, <2>2 DEF ToCopy
  <2>3. CASE table[i].isInvalid /\ ~job.before[i].isInvalid
    <3>1. table[i].isToDeDelete
      BY <1>7, <2>3 DEF RowKept
    <3>2. job'.kind = "strip" /\ table'[i].name \in Textures
      BY <1>5, <1>7, <1>9, <3>1
    <3>. QED
      BY <3>2 DEF Filtered
  <2>. QED
    BY <2>2, <2>3
<1>15. CopyInv'
  <2>1. /\ \A i \in job.copied :
             ~job.before[i].isInvalid /\ \E k \in 1..Len(job.out) : SameEntry(job.out[k], disk.index[i])
        /\ \A k \in 1..Len(job.out) : \E i \in job.copied : SameEntry(job.out[k], disk.index[i])
        /\ IsFiniteSet(job.copied) /\ Len(job.out) = Cardinality(job.copied)
    BY DEF IInv, CopyInv
  <2>. QED
    BY <1>2, <1>4, <1>5, <1>6, <1>8, <1>10, <1>14, <2>1 DEF CopyInv
<1>16. ExtractInv' /\ JobInv'
  BY <1>5 DEF ExtractInv, JobInv
<1>. QED
  BY <1>11, <1>12, <1>13, <1>15, <1>16 DEF IInv

LEMMA EndKeeps ==
  ASSUME IInv, Finish \/ ViewFails
  PROVE  IInv'
<1>1. CASE Finish
  BY <1>1, ReturnKeeps DEF Finish
<1>2. CASE ViewFails
  BY <1>2, ReturnKeeps DEF ViewFails
<1>. QED
  BY <1>1, <1>2

LEMMA LeaveKeeps ==
  ASSUME IInv, Leave
  PROVE  IInv'
<1>1. job.pc # "copy" /\ job' = NoJob /\ job'.pc = "none" /\ UNCHANGED <<disk, table, nodes, state, jobs>>
  BY NoJobIs DEF Leave
<1>2. DiskInv' /\ TableInv' /\ TreeInv'
  BY <1>1 DEF IInv, DiskInv, TableInv, TreeInv
<1>3. MarksInv'
  BY <1>1 DEF IInv, MarksInv
<1>4. CopyInv' /\ ExtractInv' /\ JobInv'
  BY <1>1 DEF CopyInv, ExtractInv, JobInv
<1>. QED
  BY <1>2, <1>3, <1>4 DEF IInv

LEMMA OpenRebuiltKeeps ==
  ASSUME IInv, OpenRebuilt
  PROVE  IInv'
<1>1. job.pc = "done" /\ Save(job.out, job.data) /\ jobs' = jobs
  BY DEF OpenRebuilt
<1>2. /\ job.out \in Seq(Recs) /\ job.data \in Seq(Units) /\ Inside(job.out, job.data)
      /\ OnceEach(job.out) /\ job.copied \subseteq 1..Len(table)
  BY <1>1, CopyJobIs
<1>3. /\ \A k \in 1..Len(job.out) : \E i \in job.copied : SameEntry(job.out[k], disk.index[i])
      /\ IsFiniteSet(job.copied) /\ Len(job.out) = Cardinality(job.copied)
  BY <1>1 DEF IInv, CopyInv
<1>4. PICK n \in Nat : n = Len(table) /\ n = Len(disk.index) /\ n <= MaxEntries
  BY DEF IInv, DiskInv, TableInv
<1>5. Len(job.out) <= MaxEntries
  <2>1. IsFiniteSet(1..n) /\ Cardinality(1..n) = n
    <3>1. 1 \in Int /\ n \in Int /\ (IF 1 > n THEN 0 ELSE n - 1 + 1) = n
      OBVIOUS
    <3>. QED
      BY <3>1, FS_Interval
  <2>2. Cardinality(job.copied) <= n
    BY <1>2, <1>4, <2>1, FS_Subset
  <2>3. Cardinality(job.copied) \in Nat
    BY <1>3, FS_CardinalityType
  <2>. QED
    BY <1>3, <1>4, <2>2, <2>3, BoundsAssumption
<1>6. IndexOK(job.out, jobs)
  <2>1. ASSUME NEW k \in 1..Len(job.out) PROVE InRecord(job.out[k].name) /\ job.out[k].id[1] < jobs
    <3>1. PICK i \in job.copied : SameEntry(job.out[k], disk.index[i])
      BY <1>3
    <3>2. i \in 1..Len(disk.index)
      BY <1>2, <1>4
    <3>. QED
      BY <3>1, <3>2 DEF IInv, DiskInv, IndexOK, SameEntry
  <2>. QED
    BY <1>2, <2>1 DEF IndexOK
<1>7. jobs' \in 0..MaxJobs /\ IndexOK(job.out, jobs')
  BY <1>1, <1>6 DEF IInv, DiskInv
<1>. QED
  BY <1>1, <1>2, <1>5, <1>7, SaveKeeps

\* A step of an extraction changes the job only.
LEMMA ExtractStepKeeps ==
  ASSUME IInv, job.pc = "extract", UNCHANGED <<disk, table, nodes, state, jobs>>,
         job'.pc \in {"extract", "extracted"}, ExtractOK(job')
  PROVE  IInv'
<1>1. job # NoJob /\ job' # NoJob /\ job.pc # "copy" /\ job'.pc # "copy"
  BY NoJobIs
<1>2. DiskInv' /\ TableInv' /\ TreeInv'
  BY <1>1 DEF IInv, DiskInv, TableInv, TreeInv
<1>3. MarksInv'
  BY <1>1 DEF IInv, MarksInv
<1>4. CopyInv' /\ JobInv'
  BY DEF CopyInv, JobInv
<1>5. ExtractInv'
  <2>1. \A q : Cover(q)' = Cover(q)
    BY DEF Cover, Flagged, Under
  <2>2. \A Q : CoverAll(Q)' = CoverAll(Q)
    BY <2>1 DEF CoverAll
  <2>3. \A levels : ToDo(levels)' = ToDo(levels)
    BY <2>2 DEF ToDo
  <2>. QED
    BY <2>2, <2>3 DEF ExtractInv, ExtractOK, LevelsOK, Placed
<1>. QED
  BY <1>2, <1>3, <1>4, <1>5 DEF IInv

LEMMA CancelKeeps ==
  ASSUME IInv, Cancel
  PROVE  IInv'
<1>1. /\ job.pc \in {"copy", "extract"} /\ job' = [job EXCEPT !.stopped = TRUE]
      /\ UNCHANGED <<disk, table, nodes, state, jobs>>
  BY DEF Cancel
<1>2. job # NoJob
  BY <1>1, NoJobIs
<1>3. CASE job.pc = "copy"
  <2>1. job \in CopyJobs
    BY <1>3 DEF IInv, CopyInv
  <2>2. job' = [pc |-> job.pc, kind |-> job.kind, script |-> job.script, edited |-> job.edited,
                stopped |-> TRUE, out |-> job.out, data |-> job.data, copied |-> job.copied,
                before |-> job.before]
    BY <1>1, <2>1 DEF CopyJobs
  <2>3. job' \in CopyJobs
    BY <2>1, <2>2 DEF CopyJobs
  <2>4. /\ job'.pc = "copy" /\ job'.kind = job.kind /\ job'.edited = job.edited /\ job'.out = job.out
        /\ job'.data = job.data /\ job'.copied = job.copied /\ job'.before = job.before
    BY <1>3, <2>2
  <2>5. job' # NoJob
    BY <2>4, NoJobIs
  <2>6. DiskInv' /\ TableInv' /\ TreeInv'
    BY <1>1, <1>2, <2>5 DEF IInv, DiskInv, TableInv, TreeInv
  <2>7. MarksInv'
    BY <1>1, <1>3, <2>4 DEF IInv, MarksInv
  <2>8. CopyInv'
    BY <1>1, <1>3, <2>3, <2>4 DEF IInv, CopyInv
  <2>9. ExtractInv' /\ JobInv'
    BY <2>4 DEF ExtractInv, JobInv
  <2>. QED
    BY <2>6, <2>7, <2>8, <2>9 DEF IInv
<1>4. CASE job.pc = "extract"
  <2>1. ExtractOK(job) /\ job \in ExtractJobs
    BY <1>4 DEF IInv, ExtractInv, ExtractOK
  <2>2. job' = [pc |-> job.pc, base |-> job.base, chosen |-> job.chosen, levels |-> job.levels,
                cwd |-> job.cwd, written |-> job.written, failed |-> job.failed, lost |-> job.lost,
                stopped |-> TRUE]
    BY <1>1, <2>1 DEF ExtractJobs
  <2>3. job' \in ExtractJobs
    BY <2>1, <2>2 DEF ExtractJobs
  <2>4. /\ job'.pc = "extract" /\ job'.base = job.base /\ job'.chosen = job.chosen
        /\ job'.levels = job.levels /\ job'.cwd = job.cwd /\ job'.written = job.written
        /\ job'.lost = job.lost /\ job'.stopped = TRUE
    BY <1>4, <2>2
  <2>5. ExtractOK(job')
    BY <1>4, <2>1, <2>3, <2>4 DEF ExtractOK
  <2>. QED
    BY <1>1, <1>2, <1>4, <2>4, <2>5, ExtractStepKeeps
<1>. QED
  BY <1>1, <1>3, <1>4

(***************************************************************************)
(* Extraction.                                                             *)
(***************************************************************************)
LEMMA ChildIs ==
  ASSUME IInv, state = "open", NEW q \in Seq(Parts), NEW r \in Children(q)
  PROVE  /\ r \in DOMAIN nodes /\ r \in Paths /\ Len(r) = Len(q) + 1 /\ Front(r) = q
         /\ \A i \in 1..Len(q) : r[i] = q[i]
<1>1. r \in DOMAIN nodes /\ Len(r) = Len(q) + 1 /\ IsPrefix(q, r)
  BY DEF Children
<1>2. r \in Paths /\ r \in Seq(Parts)
  BY <1>1, NodeIs
<1>3. \A i \in 1..Len(q) : r[i] = q[i]
  <2>1. IsPrefix(q, r) <=> Len(q) <= Len(r) /\ \A i \in 1..Len(q) : q[i] = r[i]
    BY <1>2, PrefixMeans
  <2>. QED
    BY <1>1, <2>1
<1>4. Front(r) = q
  <2>1. PICK n \in Nat : n = Len(q)
    OBVIOUS
  <2>2. Front(r) = SubSeq(r, 1, n)
    BY <1>1, <2>1 DEF Front
  <2>3. SubSeq(r, 1, n) = q
    BY <1>1, <1>2, <1>3, <2>1
  <2>. QED
    BY <2>2, <2>3
<1>. QED
  BY <1>1, <1>2, <1>3, <1>4

LEMMA UnderIs ==
  ASSUME IInv, state = "open", NEW q \in DOMAIN nodes, NEW s
  PROVE  s \in Under(q) <=> s \in DOMAIN nodes /\ q \in PathsTo(s) /\ q # s
<1>1. q \in Paths
  BY NodeIs
<1>2. ASSUME s \in DOMAIN nodes PROVE IsStrictPrefix(q, s) <=> q \in PathsTo(s) /\ q # s
  <2>1. s \in Seq(Parts)
    BY <1>2, NodeIs
  <2>. QED
    BY <1>1, <2>1, PrefixIsPath
<1>. QED
  BY <1>2 DEF Under

\* What the walk below a folder finds: the files at the end of folders only.
Walked(q, s) ==
  /\ s \in DOMAIN nodes /\ q \in PathsTo(s) /\ q # s /\ ~nodes[s].folder
  /\ \A f \in PathsTo(s) : f # s /\ Len(f) > Len(q) => nodes[f].folder

LEMMA FlaggedIs ==
  ASSUME IInv, state = "open", NEW q \in DOMAIN nodes, NEW x
  PROVE  x \in Flagged(q) <=> \E s : Walked(q, s) /\ x = nodes[s].index
<1> DEFINE W == {s \in Under(q) : ~nodes[s].folder
                  /\ \A f \in PathsTo(s) \ {s} : Len(f) > Len(q) => nodes[f].folder}
<1>1. x \in Flagged(q) <=> \E s \in W : x = nodes[s].index
  BY DEF Flagged
<1>2. \A s : s \in W <=> Walked(q, s)
  BY UnderIs DEF Walked
<1>. QED
  BY <1>1, <1>2

\* A walk below a folder goes through its children.
LEMMA WalkThroughChild ==
  ASSUME IInv, state = "open", NEW q \in DOMAIN nodes, NEW s, Walked(q, s)
  PROVE  \E c \in Children(q) : (c = s /\ ~nodes[c].folder) \/ (nodes[c].folder /\ Walked(c, s))
<1>1. /\ s \in Paths /\ s \in Seq(Parts) /\ PathsTo(s) \subseteq DOMAIN nodes /\ q \in Paths
      /\ q \in Seq(Parts) /\ q \in PathsTo(s) /\ q # s
  BY NodeIs DEF Walked
<1>2. PICK n \in Nat, m \in Nat : n = Len(q) /\ m = Len(s) /\ n < m
  <2>1. Len(q) \in 1..Len(s) /\ q = SubSeq(s, 1, Len(q))
    BY <1>1, PathToIs
  <2>2. Len(q) # Len(s)
    <3>1. s \in PathsTo(s)
      BY <1>1, PathToSelf
    <3>. QED
      BY <1>1, <3>1, SameLength
  <2>3. PICK n \in Nat, m \in Nat : n = Len(q) /\ m = Len(s)
    BY <1>1
  <2>4. n \in 1..m /\ n # m
    BY <2>1, <2>2, <2>3
  <2>5. n < m
    BY <2>4
  <2>. QED
    BY <2>3, <2>5
<1>3. PICK c : c = SubSeq(s, 1, n + 1)
  OBVIOUS
<1>4. c \in PathsTo(s) /\ c \in DOMAIN nodes
  <2>1. n + 1 \in 1..Len(s)
    BY <1>2
  <2>. QED
    BY <1>1, <1>3, <2>1 DEF PathsTo
<1>5. c \in Paths /\ c \in Seq(Parts) /\ Len(c) = n + 1
  BY <1>1, <1>2, <1>3, <1>4, NodeIs
<1>6. q \in PathsTo(c)
  BY <1>1, <1>2, <1>4, <1>5, PathsToOne
<1>7. c \in Children(q)
  <2>1. q # c
    BY <1>2, <1>5
  <2>2. IsStrictPrefix(q, c)
    BY <1>1, <1>5, <1>6, <2>1, PrefixIsPath
  <2>. QED
    BY <1>2, <1>4, <1>5, <2>2 DEF Children, IsStrictPrefix
<1>8. CASE c = s
  BY <1>7, <1>8 DEF Walked
<1>9. CASE c # s
  <2>1. nodes[c].folder
    BY <1>2, <1>4, <1>5, <1>9 DEF Walked
  <2>2. \A f \in PathsTo(s) : f # s /\ Len(f) > Len(c) => nodes[f].folder
    <3>. SUFFICES ASSUME NEW f \in PathsTo(s), f # s, Len(f) > Len(c) PROVE nodes[f].folder
      OBVIOUS
    <3>1. Len(f) \in Nat
      BY <1>1, PathToIs
    <3>2. Len(f) > Len(q)
      BY <1>2, <1>5, <3>1
    <3>. QED
      BY <3>2 DEF Walked
  <2>3. Walked(c, s)
    BY <1>4, <1>9, <2>2 DEF Walked
  <2>. QED
    BY <1>7, <2>1, <2>3
<1>. QED
  BY <1>8, <1>9

LEMMA ChildIsWalked ==
  ASSUME IInv, state = "open", NEW q \in DOMAIN nodes, NEW c \in Children(q)
  PROVE  /\ ~nodes[c].folder => Walked(q, c)
         /\ nodes[c].folder => \A s : Walked(c, s) => Walked(q, s)
<1>1. /\ q \in Paths /\ q \in Seq(Parts) /\ c \in DOMAIN nodes /\ c \in Paths /\ c \in Seq(Parts)
      /\ Len(c) = Len(q) + 1
  BY NodeIs, ChildIs
<1>2. PICK n \in Nat : n = Len(q) /\ Len(c) = n + 1
  BY <1>1
<1>3. q \in PathsTo(c) /\ q # c
  <2>1. q # c
    BY <1>2
  <2>2. IsStrictPrefix(q, c)
    BY <2>1 DEF Children, IsStrictPrefix
  <2>. QED
    BY <1>1, <2>2, PrefixIsPath
<1>4. ASSUME ~nodes[c].folder PROVE Walked(q, c)
  <2>. SUFFICES ASSUME NEW f \in PathsTo(c), f # c, Len(f) > Len(q) PROVE nodes[f].folder
    BY <1>1, <1>3, <1>4 DEF Walked
  <2>1. Len(f) \in 1..(n + 1)
    BY <1>1, <1>2, PathToIs
  <2>2. Len(f) = Len(c)
    BY <1>2, <2>1
  <2>3. c \in PathsTo(c)
    BY <1>1, PathToSelf
  <2>. QED
    BY <1>1, <2>2, <2>3, SameLength
<1>5. ASSUME nodes[c].folder, NEW s, Walked(c, s) PROVE Walked(q, s)
  <2>1. s \in DOMAIN nodes /\ s \in Seq(Parts) /\ c \in PathsTo(s) /\ c # s /\ ~nodes[s].folder
    BY <1>5, NodeIs DEF Walked
  <2>2. q \in PathsTo(s)
    BY <1>3, <2>1, PathToPath
  <2>3. q # s
    <3>1. Len(c) \in 1..Len(s) /\ Len(s) \in Nat
      BY <2>1, PathToIs
    <3>. QED
      BY <1>2, <3>1
  <2>4. ASSUME NEW f \in PathsTo(s), f # s, Len(f) > Len(q) PROVE nodes[f].folder
    <3>1. Len(f) \in Nat
      BY <2>1, PathToIs
    <3>2. CASE Len(f) > Len(c)
      BY <1>5, <2>4, <3>2 DEF Walked
    <3>3. CASE Len(f) = Len(c)
      <4>1. f = c
        BY <2>1, <3>3, SameLength
      <4>. QED
        BY <1>5, <4>1
    <3>. QED
      BY <1>2, <2>4, <3>1, <3>2, <3>3
  <2>. QED
    BY <2>1, <2>2, <2>3, <2>4 DEF Walked
<1>. QED
  BY <1>4, <1>5

\* What is extracted for a folder is what is extracted for its children.
LEMMA FlaggedStep ==
  ASSUME IInv, state = "open", NEW q \in DOMAIN nodes
  PROVE  Flagged(q) = CoverAll(Children(q))
<1>1. ASSUME NEW x \in Flagged(q) PROVE x \in CoverAll(Children(q))
  <2>1. PICK s : Walked(q, s) /\ x = nodes[s].index
    BY <1>1, FlaggedIs
  <2>2. PICK c \in Children(q) : (c = s /\ ~nodes[c].folder) \/ (nodes[c].folder /\ Walked(c, s))
    BY <2>1, WalkThroughChild
  <2>3. x \in Cover(c)
    <3>1. CASE c = s /\ ~nodes[c].folder
      BY <2>1, <3>1 DEF Cover
    <3>2. CASE nodes[c].folder /\ Walked(c, s)
      <4>1. c \in DOMAIN nodes
        BY DEF Children
      <4>2. x \in Flagged(c)
        BY <2>1, <3>2, <4>1, FlaggedIs
      <4>. QED
        BY <3>2, <4>2 DEF Cover
    <3>. QED
      BY <2>2, <3>1, <3>2
  <2>. QED
    BY <2>3 DEF CoverAll
<1>2. ASSUME NEW x \in CoverAll(Children(q)) PROVE x \in Flagged(q)
  <2>1. PICK c \in Children(q) : x \in Cover(c)
    BY <1>2 DEF CoverAll
  <2>2. c \in DOMAIN nodes
    BY DEF Children
  <2>3. CASE nodes[c].folder
    <3>1. x \in Flagged(c)
      BY <2>1, <2>3 DEF Cover
    <3>2. PICK s : Walked(c, s) /\ x = nodes[s].index
      BY <2>2, <3>1, FlaggedIs
    <3>3. Walked(q, s)
      BY <2>3, <3>2, ChildIsWalked
    <3>. QED
      BY <3>2, <3>3, FlaggedIs
  <2>4. CASE ~nodes[c].folder
    <3>1. x = nodes[c].index /\ Walked(q, c)
      BY <2>1, <2>4, ChildIsWalked DEF Cover
    <3>. QED
      BY <3>1, FlaggedIs
  <2>. QED
    BY <2>3, <2>4
<1>. QED
  BY <1>1, <1>2

(***************************************************************************)
(* The levels of an extraction, n of them.                                 *)
(***************************************************************************)
LEMMA InToDo ==
  ASSUME NEW levels, NEW x
  PROVE  x \in ToDo(levels) <=> \E l \in 1..Len(levels) : \E q \in levels[l] : x \in Cover(q)
BY DEF ToDo, CoverAll

LEMMA LevelIs ==
  ASSUME NEW levels \in Seq(SUBSET Paths), NEW n \in Nat, n = Len(levels), n # 0, NEW S \in SUBSET Paths
  PROVE  LET u == [levels EXCEPT ![Len(levels)] = S]
         IN /\ u \in Seq(SUBSET Paths) /\ Len(u) = n /\ u[n] = S /\ \A l \in 1..(n - 1) : u[l] = levels[l]
<1> DEFINE u == [levels EXCEPT ![Len(levels)] = S]
<1>1. DOMAIN levels = 1..n /\ n \in 1..n
  OBVIOUS
<1>2. u = [levels EXCEPT ![n] = S]
  OBVIOUS
<1>. HIDE DEF u
<1>3. u = [l \in 1..n |-> IF l = n THEN S ELSE levels[l]]
  BY <1>1, <1>2
<1>4. \A l \in 1..n : levels[l] \in SUBSET Paths
  OBVIOUS
<1>5. u \in Seq(SUBSET Paths) /\ Len(u) = n
  BY <1>3, <1>4
<1>6. u[n] = S /\ \A l \in 1..(n - 1) : u[l] = levels[l]
  BY <1>1, <1>3
<1>. QED
  BY <1>5, <1>6 DEF u

LEMMA UpToLast ==
  ASSUME NEW n \in Nat, n # 0
  PROVE  /\ \A l \in 1..n : l \in 1..(n - 1) \/ l = n
         /\ \A l \in 1..(n - 1) : l \in 1..n
         /\ n \in 1..n
OBVIOUS

LEMMA EnterToDo ==
  ASSUME NEW n \in Nat, n # 0, NEW levels, Len(levels) = n, NEW r \in levels[n], NEW C,
         Cover(r) = CoverAll(C), NEW u, Len(u) = n + 1, u[n] = levels[n] \ {r}, u[n + 1] = C,
         \A l \in 1..(n - 1) : u[l] = levels[l]
  PROVE  ToDo(u) = ToDo(levels)
<1>1. /\ \A l \in 1..(n + 1) : l \in 1..(n - 1) \/ l = n \/ l = n + 1
      /\ n + 1 \in 1..(n + 1) /\ n \in 1..(n + 1) /\ n \in 1..n
      /\ \A l \in 1..(n - 1) : l \in 1..(n + 1) /\ l \in 1..n
      /\ \A l \in 1..n : l \in 1..(n - 1) \/ l = n
  OBVIOUS
<1>2. ASSUME NEW x \in ToDo(u) PROVE x \in ToDo(levels)
  <2>0. PICK l \in 1..(n + 1) : \E q \in u[l] : x \in Cover(q)
    BY <1>2, InToDo
  <2>1. PICK q \in u[l] : x \in Cover(q)
    BY <2>0
  <2>2. CASE l \in 1..(n - 1)
    BY <1>1, <2>1, <2>2, InToDo
  <2>3. CASE l = n
    BY <1>1, <2>1, <2>3, InToDo
  <2>4. CASE l = n + 1
    <3>1. x \in Cover(r)
      BY <2>1, <2>4 DEF CoverAll
    <3>. QED
      BY <1>1, <3>1, InToDo
  <2>. QED
    BY <1>1, <2>2, <2>3, <2>4
<1>3. ASSUME NEW x \in ToDo(levels) PROVE x \in ToDo(u)
  <2>0. PICK l \in 1..n : \E q \in levels[l] : x \in Cover(q)
    BY <1>3, InToDo
  <2>1. PICK q \in levels[l] : x \in Cover(q)
    BY <2>0
  <2>2. CASE l \in 1..(n - 1)
    BY <1>1, <2>1, <2>2, InToDo
  <2>3. CASE l = n /\ q # r
    BY <1>1, <2>1, <2>3, InToDo
  <2>4. CASE l = n /\ q = r
    <3>1. PICK c \in C : x \in Cover(c)
      BY <2>1, <2>4 DEF CoverAll
    <3>. QED
      BY <1>1, <3>1, InToDo
  <2>. QED
    BY <1>1, <2>2, <2>3, <2>4
<1>. QED
  BY <1>2, <1>3

LEMMA FileToDo ==
  ASSUME NEW n \in Nat, n # 0, NEW levels, Len(levels) = n, NEW r \in levels[n],
         NEW u, Len(u) = n, u[n] = levels[n] \ {r}, \A l \in 1..(n - 1) : u[l] = levels[l]
  PROVE  ToDo(levels) = ToDo(u) \cup Cover(r)
<1>1. ASSUME NEW x \in ToDo(u) \cup Cover(r) PROVE x \in ToDo(levels)
  <2>1. CASE x \in Cover(r)
    BY <2>1, UpToLast, InToDo
  <2>2. CASE x \in ToDo(u)
    <3>0. PICK l \in 1..n : \E q \in u[l] : x \in Cover(q)
      BY <2>2, InToDo
    <3>1. PICK q \in u[l] : x \in Cover(q)
      BY <3>0
    <3>2. q \in levels[l]
      BY <3>1, UpToLast
    <3>. QED
      BY <3>1, <3>2, InToDo
  <2>. QED
    BY <1>1, <2>1, <2>2
<1>2. ASSUME NEW x \in ToDo(levels) PROVE x \in ToDo(u) \cup Cover(r)
  <2>0. PICK l \in 1..n : \E q \in levels[l] : x \in Cover(q)
    BY <1>2, InToDo
  <2>1. PICK q \in levels[l] : x \in Cover(q)
    BY <2>0
  <2>2. CASE q = r
    BY <2>1, <2>2
  <2>3. CASE q # r
    <3>1. q \in u[l]
      BY <2>1, <2>3, UpToLast
    <3>. QED
      BY <2>1, <3>1, InToDo
  <2>. QED
    BY <2>2, <2>3
<1>. QED
  BY <1>1, <1>2

LEMMA LeaveToDo ==
  ASSUME NEW n \in Nat, n # 0, NEW levels, Len(levels) = n, levels[n] = {},
         NEW u, Len(u) = n - 1, \A l \in 1..(n - 1) : u[l] = levels[l]
  PROVE  ToDo(u) = ToDo(levels)
<1>1. ASSUME NEW x \in ToDo(u) PROVE x \in ToDo(levels)
  <2>0. PICK l \in 1..(n - 1) : \E q \in u[l] : x \in Cover(q)
    BY <1>1, InToDo
  <2>1. PICK q \in u[l] : x \in Cover(q)
    BY <2>0
  <2>. QED
    BY <2>1, UpToLast, InToDo
<1>2. ASSUME NEW x \in ToDo(levels) PROVE x \in ToDo(u)
  <2>0. PICK l \in 1..n : \E q \in levels[l] : x \in Cover(q)
    BY <1>2, InToDo
  <2>1. PICK q \in levels[l] : x \in Cover(q)
    BY <2>0
  <2>2. l \in 1..(n - 1)
    BY <2>1, UpToLast
  <2>. QED
    BY <2>1, <2>2, InToDo
<1>. QED
  BY <1>1, <1>2

\* Where the files of a folder go is where the folder went, and its name.
LEMMA LastIs ==
  ASSUME NEW q \in Paths
  PROVE  /\ Last(q) \in Parts /\ Front(q) \in Seq(Parts) /\ q = Append(Front(q), Last(q))
<1>1. PICK n \in Nat : n = Len(q) /\ n # 0 /\ q \in Seq(Parts)
  BY DEF Paths
<1>2. n \in 1..n /\ Last(q) = q[n] /\ Front(q) = SubSeq(q, 1, n - 1)
  BY <1>1 DEF Last, Front
<1>3. SubSeq(q, 1, n - 1) \in Seq(Parts) /\ q = Append(SubSeq(q, 1, n - 1), q[n])
  BY <1>1, <1>2
<1>. QED
  BY <1>1, <1>2, <1>3

LEMMA AppendBehind ==
  ASSUME NEW base \in Seq(Parts), NEW cwd \in Seq(Parts), NEW part \in Parts
  PROVE  base \o Append(cwd, part) = Append(base \o cwd, part)
OBVIOUS

LEMMA PlaceStill ==
  ASSUME NEW S, NEW cwd \in Seq(S), NEW part \in S, NEW l \in Nat, l <= Len(cwd)
  PROVE  SubSeq(Append(cwd, part), 1, l) = SubSeq(cwd, 1, l)
OBVIOUS

LEMMA PlaceAbove ==
  ASSUME NEW S, NEW cwd \in Seq(S), cwd # <<>>, NEW l \in Nat, l < Len(cwd)
  PROVE  SubSeq(Front(cwd), 1, l) = SubSeq(cwd, 1, l)
BY DEF Front

LEMMA WholePlace ==
  ASSUME NEW S, NEW cwd \in Seq(S)
  PROVE  SubSeq(cwd, 1, Len(cwd)) = cwd
OBVIOUS

(***************************************************************************)
(* The steps of an extraction.                                             *)
(***************************************************************************)
LEMMA ExtractFilesKeeps ==
  ASSUME IInv, NEW base, NEW Q, ExtractFiles(base, Q),
         state = "open" => base \in Seq(Parts) /\ Q \subseteq DOMAIN nodes /\ \A r \in Q : Front(r) = base
  PROVE  IInv'
<1>1. /\ Begin /\ UNCHANGED <<disk, table, nodes, state>>
      /\ job' = [pc |-> "extract", base |-> base, chosen |-> Q, levels |-> <<Q>>, cwd |-> <<>>,
                 written |-> {}, failed |-> FALSE, lost |-> FALSE, stopped |-> FALSE]
  BY DEF ExtractFiles
<1>2. /\ state = "open" /\ job = NoJob /\ job.pc = "none" /\ jobs \in Nat /\ jobs' = jobs + 1
      /\ jobs' \in 0..MaxJobs
  BY <1>1, BeginIs
<1>3. base \in Seq(Parts) /\ Q \subseteq DOMAIN nodes /\ Q \in SUBSET Paths /\ \A r \in Q : Front(r) = base
  BY <1>2, NodeIs
<1>4. /\ job'.pc = "extract" /\ job'.base = base /\ job'.chosen = Q /\ job'.levels = <<Q>>
      /\ job'.cwd = <<>> /\ job'.written = {}
  BY <1>1
<1>5. disk'.index = disk.index /\ disk'.data = disk.data
  BY <1>1
<1>6. DiskInv'
  BY <1>2, <1>5, LaterOK DEF IInv, DiskInv
<1>7. TableInv' /\ TreeInv'
  BY <1>1, <1>2, <1>5 DEF IInv, TableInv, TreeInv
<1>8. MarksInv'
  BY <1>1, <1>2, <1>4 DEF IInv, MarksInv
<1>9. CopyInv' /\ JobInv'
  BY <1>4 DEF CopyInv, JobInv
<1>10. ExtractInv'
  <2> DEFINE levels == <<Q>>
  <2>1. levels \in Seq(SUBSET Paths) /\ Len(levels) = 1 /\ levels[1] = Q /\ levels # <<>>
    BY <1>3
  <2>2. <<>> \in Seq(Parts) /\ <<>> \in Seq(Parts \cup {".."}) /\ Len(<<>>) = 0
    OBVIOUS
  <2>. HIDE DEF levels
  <2>3. \A l \in 1..Len(levels) : l = 1
    BY <2>1
  <2>4. base \o SubSeq(<<>>, 1, 1 - 1) = base
    <3>1. SubSeq(<<>>, 1, 1 - 1) = <<>>
      OBVIOUS
    <3>2. base \o <<>> = base
      BY <1>3
    <3>. QED
      BY <3>1, <3>2
  <2>5. LevelsOK(levels)'
    BY <1>1, <1>3, <2>1, <2>3 DEF LevelsOK
  <2>6. InPlace(base, <<>>, levels)
    <3>1. Len(<<>>) = Len(levels) - 1
      BY <2>1, <2>2
    <3>. QED
      BY <1>3, <2>1, <2>2, <2>3, <2>4, <3>1 DEF InPlace
  <2>7. CoverAll(Q)' = Indexes({}) \cup ToDo(levels)'
    <3>1. 1 \in 1..Len(levels) /\ Indexes({}) = {}
      BY <2>1 DEF Indexes
    <3>2. ToDo(levels)' = UNION {CoverAll(levels[l])' : l \in 1..Len(levels)}
      BY DEF ToDo
    <3>. QED
      BY <2>1, <2>3, <3>1, <3>2
  <2>8. job' \in ExtractJobs
    <3>1. base \in Seq(Parts) /\ Q \in SUBSET Paths /\ levels \in Seq(SUBSET Paths)
      BY <1>3, <2>1
    <3>2. job' = [pc |-> "extract", base |-> base, chosen |-> Q, levels |-> levels, cwd |-> <<>>,
                  written |-> {}, failed |-> FALSE, lost |-> FALSE, stopped |-> FALSE]
      BY <1>1 DEF levels
    <3>. QED
      BY <2>2, <3>1, <3>2 DEF ExtractJobs
  <2>9. job'.levels = levels
    BY <1>4 DEF levels
  <2>10. Placed(job.base, job.written)' /\ \A w \in job'.written : w.index \in 1..Len(table')
    BY <1>4 DEF Placed
  <2>11. InPlace(job.base, job.cwd, job.levels)'
    BY <1>4, <2>6, <2>9 DEF InPlace
  <2>12. LevelsOK(job.levels)'
    BY <2>5, <2>9 DEF LevelsOK
  <2>13. CoverAll(job.chosen)' = Indexes(job'.written) \cup ToDo(job.levels)'
    <3>1. ToDo(job.levels)' = ToDo(levels)'
      BY <2>9 DEF ToDo
    <3>2. CoverAll(job.chosen)' = CoverAll(Q)'
      BY <1>4 DEF CoverAll
    <3>. QED
      BY <1>4, <2>7, <3>1, <3>2
  <2>14. job'.chosen \subseteq DOMAIN nodes' /\ job'.pc # "extracted"
    BY <1>1, <1>3, <1>4
  <2>15. ExtractOK(job)'
    BY <2>8, <2>10, <2>11, <2>12, <2>13, <2>14 DEF ExtractOK
  <2>. QED
    BY <2>15 DEF ExtractInv
<1>. QED
  BY <1>6, <1>7, <1>8, <1>9, <1>10 DEF IInv

\* The job in a step of an extraction, with n levels, the last one Q.
ExtractAt(n, Q) ==
  /\ ExtractOK(job) /\ job \in ExtractJobs /\ state = "open"
  /\ n = Len(job.levels) /\ n # 0 /\ job.levels[n] = Q /\ Last(job.levels) = Q

LEMMA ExtractIs ==
  ASSUME IInv, job.pc = "extract"
  PROVE  \E n \in Nat : ExtractAt(n, Last(job.levels)) /\ Last(job.levels) \subseteq DOMAIN nodes
<1>1. ExtractOK(job) /\ job \in ExtractJobs /\ state = "open" /\ LevelsOK(job.levels)
  <2>1. job # NoJob
    BY NoJobIs
  <2>. QED
    BY <2>1 DEF IInv, ExtractInv, TreeInv, ExtractOK
<1>2. PICK levels : levels = job.levels
  OBVIOUS
<1>3. PICK n \in Nat : n = Len(levels) /\ n # 0 /\ levels \in Seq(SUBSET Paths)
  BY <1>1, <1>2 DEF LevelsOK
<1>4. Last(levels) = levels[n] /\ n \in 1..Len(levels)
  BY <1>3 DEF Last
<1>. QED
  BY <1>1, <1>2, <1>3, <1>4 DEF ExtractAt, LevelsOK

LEMMA EnterKeeps ==
  ASSUME IInv, NEW r \in DOMAIN nodes, EnterFolder(r)
  PROVE  IInv'
<1>1. job.pc = "extract" /\ r \in Last(job.levels) /\ nodes[r].folder
      /\ UNCHANGED <<disk, table, nodes, state, jobs>>
  BY DEF EnterFolder, ExtractNext
<1>2. PICK made \in BOOLEAN :
        job' = [job EXCEPT !.levels = Append(Rest(r), Children(r)),
                           !.cwd = IF made THEN Append(job.cwd, Last(r)) ELSE job.cwd,
                           !.lost = job.lost \/ ~made]
  BY DEF EnterFolder
<1>3. PICK Q : Q = Last(job.levels)
  OBVIOUS
<1>4. PICK n \in Nat : ExtractAt(n, Q) /\ Q \subseteq DOMAIN nodes
  BY <1>1, <1>3, ExtractIs
<1>5. /\ ExtractOK(job) /\ job \in ExtractJobs /\ state = "open"
      /\ n = Len(job.levels) /\ n # 0 /\ job.levels[n] = Q /\ r \in Q
  BY <1>1, <1>3, <1>4 DEF ExtractAt
<1>6. /\ r \in Paths /\ r \in Seq(Parts) /\ Last(r) \in Parts /\ Front(r) \in Seq(Parts)
      /\ r = Append(Front(r), Last(r))
  <2>1. r \in Paths /\ r \in Seq(Parts)
    BY <1>5, NodeIs
  <2>. QED
    BY <2>1, LastIs
<1>7. /\ job.levels \in Seq(SUBSET Paths) /\ job.cwd \in Seq(Parts \cup {".."}) /\ job.base \in Seq(Parts)
      /\ job.lost \in BOOLEAN
  BY <1>5 DEF ExtractJobs
<1> DEFINE rest == Rest(r)
           C == Children(r)
           levels == Append(rest, C)
           cwd == IF made THEN Append(job.cwd, Last(r)) ELSE job.cwd
           lost == job.lost \/ ~made
<1>8. /\ rest \in Seq(SUBSET Paths) /\ Len(rest) = n /\ rest[n] = Q \ {r}
      /\ \A l \in 1..(n - 1) : rest[l] = job.levels[l]
  <2>1. Q \ {r} \in SUBSET Paths
    BY <1>4, <1>5, NodeIs
  <2>2. rest = [job.levels EXCEPT ![Len(job.levels)] = Q \ {r}]
    BY <1>5 DEF Rest
  <2>. QED
    BY <1>5, <1>7, <2>1, <2>2, LevelIs
<1>9. C \in SUBSET Paths /\ C \subseteq DOMAIN nodes /\ \A c \in C : Front(c) = r
  BY <1>5, <1>6, ChildIs DEF Children
<1>10. Cover(r) = CoverAll(C)
  BY <1>1, <1>5, FlaggedStep DEF Cover
<1>. HIDE DEF rest, C
<1>11. /\ levels \in Seq(SUBSET Paths) /\ Len(levels) = n + 1 /\ levels[n + 1] = C /\ levels[n] = Q \ {r}
       /\ levels # <<>> /\ \A l \in 1..(n - 1) : levels[l] = job.levels[l]
  <2>1. /\ levels \in Seq(SUBSET Paths) /\ Len(levels) = n + 1 /\ levels[n + 1] = C
        /\ \A l \in 1..n : levels[l] = rest[l]
    BY <1>8, <1>9, AppendIs
  <2>. QED
    BY <1>5, <1>8, <2>1, UpToLast
<1>12. cwd \in Seq(Parts \cup {".."}) /\ lost \in BOOLEAN
  <2>1. Last(r) \in Parts \cup {".."}
    BY <1>6
  <2>2. Append(job.cwd, Last(r)) \in Seq(Parts \cup {".."})
    BY <1>7, <2>1
  <2>. QED
    BY <1>7, <2>2
<1>13. job' = [job EXCEPT !.levels = levels, !.cwd = cwd, !.lost = lost]
  BY <1>2 DEF rest, C
<1>14. \A l \in 1..(n + 1) : l \in 1..(n - 1) \/ l = n \/ l = n + 1
  OBVIOUS
<1>15. ~lost => InPlace(job.base, cwd, levels)
  <2>. SUFFICES ASSUME ~lost PROVE InPlace(job.base, cwd, levels)
    OBVIOUS
  <2>1. ~job.lost /\ made /\ InPlace(job.base, job.cwd, job.levels)
    BY <1>1, <1>5, <1>7 DEF ExtractOK
  <2>2. /\ job.cwd \in Seq(Parts) /\ Len(job.cwd) = n - 1
        /\ \A l \in 1..n : \A q \in job.levels[l] : Front(q) = job.base \o SubSeq(job.cwd, 1, l - 1)
    BY <1>5, <2>1 DEF InPlace
  <2>3. cwd = Append(job.cwd, Last(r))
    BY <2>1
  <2>. HIDE DEF levels, cwd, lost
  <2>4. cwd \in Seq(Parts) /\ Len(cwd) = n
    BY <1>6, <2>2, <2>3
  <2>5. \A l \in 1..n : l - 1 \in Nat /\ l - 1 <= n - 1
    OBVIOUS
  <2>6. \A l \in 1..n : SubSeq(cwd, 1, l - 1) = SubSeq(job.cwd, 1, l - 1)
    BY <1>6, <2>2, <2>3, <2>5, PlaceStill
  <2>7. ASSUME NEW l \in 1..n, NEW q \in levels[l] PROVE Front(q) = job.base \o SubSeq(cwd, 1, l - 1)
    <3>1. q \in job.levels[l]
      BY <1>5, <1>11, <2>7, UpToLast
    <3>. QED
      BY <2>2, <2>6, <3>1
  <2>8. r = job.base \o SubSeq(cwd, 1, (n + 1) - 1)
    <3>1. Front(r) = job.base \o SubSeq(job.cwd, 1, n - 1)
      BY <1>5, <2>2, UpToLast
    <3>2. SubSeq(job.cwd, 1, n - 1) = job.cwd
      BY <2>2, WholePlace
    <3>3. (n + 1) - 1 = n /\ SubSeq(cwd, 1, n) = cwd
      BY <2>4, WholePlace
    <3>4. r = Append(job.base \o job.cwd, Last(r))
      BY <1>6, <3>1, <3>2
    <3>5. job.base \o Append(job.cwd, Last(r)) = Append(job.base \o job.cwd, Last(r))
      BY <1>6, <1>7, <2>2, AppendBehind
    <3>. QED
      BY <2>3, <3>3, <3>4, <3>5
  <2>9. \A q \in levels[n + 1] : Front(q) = job.base \o SubSeq(cwd, 1, (n + 1) - 1)
    BY <1>9, <1>11, <2>8
  <2>10. \A l \in 1..Len(levels) : l \in 1..n \/ l = n + 1
    BY <1>11
  <2>11. Len(cwd) = Len(levels) - 1
    BY <1>11, <2>4
  <2>. QED
    BY <2>4, <2>7, <2>9, <2>10, <2>11 DEF InPlace
<1>16. LevelsOK(levels)
  <2>1. \A l \in 1..n : job.levels[l] \subseteq DOMAIN nodes
    BY <1>5 DEF ExtractOK, LevelsOK
  <2>. HIDE DEF levels
  <2>2. \A l \in 1..Len(levels) : l \in 1..(n - 1) \/ l = n \/ l = n + 1
    BY <1>11, <1>14
  <2>3. ASSUME NEW l \in 1..Len(levels) PROVE levels[l] \subseteq DOMAIN nodes
    <3>1. CASE l \in 1..(n - 1)
      BY <1>5, <1>11, <2>1, <3>1, UpToLast
    <3>2. CASE l = n
      BY <1>4, <1>11, <3>2
    <3>3. CASE l = n + 1
      BY <1>9, <1>11, <3>3
    <3>. QED
      BY <2>2, <3>1, <3>2, <3>3
  <2>. QED
    BY <1>11, <2>3 DEF LevelsOK
<1>17. ToDo(levels) = ToDo(job.levels)
  <2>. HIDE DEF levels
  <2>. QED
    BY <1>5, <1>10, <1>11, EnterToDo
<1>. HIDE DEF levels, cwd, lost
<1>18. job' = [pc |-> job.pc, base |-> job.base, chosen |-> job.chosen, levels |-> levels, cwd |-> cwd,
               written |-> job.written, failed |-> job.failed, lost |-> lost, stopped |-> job.stopped]
  BY <1>5, <1>13 DEF ExtractJobs
<1>19. job' \in ExtractJobs
  BY <1>5, <1>11, <1>12, <1>18 DEF ExtractJobs
<1>20. /\ job'.pc = "extract" /\ job'.base = job.base /\ job'.chosen = job.chosen /\ job'.levels = levels
       /\ job'.cwd = cwd /\ job'.written = job.written /\ job'.failed = job.failed
       /\ job'.lost = lost /\ job'.stopped = job.stopped
  BY <1>1, <1>18
<1>21. ExtractOK(job')
  <2>1. ~lost => ~job.lost
    BY <1>7 DEF lost
  <2>2. /\ job.chosen \subseteq DOMAIN nodes /\ \A w \in job.written : w.index \in 1..Len(table)
        /\ ~job.lost => Placed(job.base, job.written)
        /\ ~job.failed /\ ~job.stopped => CoverAll(job.chosen) = Indexes(job.written) \cup ToDo(job.levels)
    BY <1>5 DEF ExtractOK
  <2>. QED
    BY <1>15, <1>16, <1>17, <1>19, <1>20, <2>1, <2>2 DEF ExtractOK
<1>. QED
  BY <1>1, <1>20, <1>21, ExtractStepKeeps

LastLevel(levels, S) == [levels EXCEPT ![Len(levels)] = S]

\* A file is written, or fails and with it what is left of its level.
LEMMA DecompressKeeps ==
  ASSUME IInv, NEW r \in DOMAIN nodes, DecompressFile(r)
  PROVE  IInv'
<1>1. job.pc = "extract" /\ r \in Last(job.levels) /\ ~nodes[r].folder
      /\ UNCHANGED <<disk, table, nodes, state, jobs>>
  BY DEF DecompressFile, ExtractNext
<1>2. PICK Q : Q = Last(job.levels)
  OBVIOUS
<1>3. PICK n \in Nat : ExtractAt(n, Q) /\ Q \subseteq DOMAIN nodes
  BY <1>1, <1>2, ExtractIs
<1>4. /\ ExtractOK(job) /\ job \in ExtractJobs /\ state = "open"
      /\ n = Len(job.levels) /\ n # 0 /\ job.levels[n] = Q /\ r \in Q
  BY <1>1, <1>2, <1>3 DEF ExtractAt
<1>5. /\ job.levels \in Seq(SUBSET Paths) /\ job.cwd \in Seq(Parts \cup {".."}) /\ job.base \in Seq(Parts)
      /\ job.lost \in BOOLEAN
  BY <1>4 DEF ExtractJobs
<1>6. /\ job.chosen \subseteq DOMAIN nodes /\ \A w \in job.written : w.index \in 1..Len(table)
      /\ ~job.lost => Placed(job.base, job.written) /\ InPlace(job.base, job.cwd, job.levels)
      /\ ~job.failed /\ ~job.stopped => CoverAll(job.chosen) = Indexes(job.written) \cup ToDo(job.levels)
      /\ \A l \in 1..n : job.levels[l] \subseteq DOMAIN nodes
  BY <1>1, <1>4 DEF ExtractOK, LevelsOK
<1>7. ASSUME NEW S, S \subseteq Q, NEW u, u = LastLevel(job.levels, S)
      PROVE  /\ u \in Seq(SUBSET Paths) /\ Len(u) = n /\ u[n] = S /\ \A l \in 1..(n - 1) : u[l] = job.levels[l]
             /\ LevelsOK(u) /\ (~job.lost => InPlace(job.base, job.cwd, u))
  <2>1. S \in SUBSET Paths
    BY <1>3, <1>4, <1>7, NodeIs
  <2>2. /\ u \in Seq(SUBSET Paths) /\ Len(u) = n /\ u[n] = S /\ \A l \in 1..(n - 1) : u[l] = job.levels[l]
    BY <1>4, <1>5, <1>7, <2>1, LevelIs DEF LastLevel
  <2>3. \A l \in 1..n : u[l] \subseteq job.levels[l]
    BY <1>4, <1>7, <2>2, UpToLast
  <2>4. LevelsOK(u)
    <3>1. \A l \in 1..Len(u) : u[l] \subseteq DOMAIN nodes
      BY <1>6, <2>2, <2>3
    <3>2. u # <<>>
      BY <1>4, <2>2
    <3>. QED
      BY <2>2, <3>1, <3>2 DEF LevelsOK
  <2>5. ~job.lost => InPlace(job.base, job.cwd, u)
    BY <1>4, <1>6, <2>2, <2>3 DEF InPlace
  <2>. QED
    BY <2>2, <2>4, <2>5
<1>8. CASE job' = [job EXCEPT !.levels = Rest(r),
                 !.written = job.written \cup {[at |-> Append(job.cwd, Last(r)), index |-> nodes[r].index]}]
  <2>0. PICK u : u = Rest(r)
    OBVIOUS
  <2> DEFINE w == [at |-> Append(job.cwd, Last(r)), index |-> nodes[r].index]
             W == job.written \cup {w}
  <2>1. u = LastLevel(job.levels, Q \ {r})
    BY <1>4, <2>0 DEF Rest, LastLevel
  <2>2. /\ r \in Paths /\ r \in Seq(Parts) /\ nodes[r].index \in 1..Len(disk.index)
        /\ disk.index[nodes[r].index].name = r
    BY <1>1, <1>4, NodeIs
  <2>3. Last(r) \in Parts /\ Front(r) \in Seq(Parts) /\ r = Append(Front(r), Last(r))
    BY <2>2, LastIs
  <2>4. nodes[r].index \in 1..Len(table) /\ table[nodes[r].index].name = r
    BY <2>2 DEF IInv, TableInv
  <2>5. /\ u \in Seq(SUBSET Paths) /\ Len(u) = n /\ u[n] = Q \ {r}
        /\ \A l \in 1..(n - 1) : u[l] = job.levels[l]
        /\ LevelsOK(u) /\ (~job.lost => InPlace(job.base, job.cwd, u))
    <3>1. PICK S : S = Q \ {r}
      OBVIOUS
    <3>2. S \subseteq Q /\ u = LastLevel(job.levels, S)
      BY <2>1, <3>1
    <3>3. /\ u \in Seq(SUBSET Paths) /\ Len(u) = n /\ u[n] = S
          /\ \A l \in 1..(n - 1) : u[l] = job.levels[l]
          /\ LevelsOK(u) /\ (~job.lost => InPlace(job.base, job.cwd, u))
      BY <1>7, <3>2
    <3>. QED
      BY <3>1, <3>3
  <2>6. w.at = Append(job.cwd, Last(r)) /\ w.index = nodes[r].index
    OBVIOUS
  <2>7. w \in [at : Seq(Parts \cup {".."}), index : Nat]
    <3>1. Append(job.cwd, Last(r)) \in Seq(Parts \cup {".."})
      BY <1>5, <2>3
    <3>2. nodes[r].index \in Nat
      BY <2>4
    <3>. QED
      BY <3>1, <3>2
  <2>8. job' = [job EXCEPT !.levels = u, !.written = W]
    BY <1>8, <2>0
  <2>. HIDE DEF w
  <2>9. job.written \in SUBSET [at : Seq(Parts \cup {".."}), index : Nat]
    BY <1>4 DEF ExtractJobs
  <2>10. W \in SUBSET [at : Seq(Parts \cup {".."}), index : Nat]
    BY <2>7, <2>9
  <2>11. \A v \in W : v.index \in 1..Len(table)
    BY <1>6, <2>4, <2>6
  <2>12. ~job.lost => Placed(job.base, W)
    <3>. SUFFICES ASSUME ~job.lost PROVE Placed(job.base, W)
      OBVIOUS
    <3>1. job.cwd \in Seq(Parts) /\ Len(job.cwd) = n - 1 /\ Front(r) = job.base \o SubSeq(job.cwd, 1, n - 1)
      BY <1>4, <1>6, UpToLast DEF InPlace
    <3>2. SubSeq(job.cwd, 1, n - 1) = job.cwd
      BY <3>1, WholePlace
    <3>3. job.base \o Append(job.cwd, Last(r)) = Append(job.base \o job.cwd, Last(r))
      BY <1>5, <2>3, <3>1, AppendBehind
    <3>4. r = Append(job.base \o job.cwd, Last(r))
      BY <2>3, <3>1, <3>2
    <3>5. job.base \o w.at = table[w.index].name
      BY <2>4, <2>6, <3>3, <3>4
    <3>. QED
      BY <1>6, <3>5 DEF Placed
  <2>13. ~job.failed /\ ~job.stopped => CoverAll(job.chosen) = Indexes(W) \cup ToDo(u)
    <3>1. ToDo(job.levels) = ToDo(u) \cup Cover(r)
      BY <1>4, <2>5, FileToDo
    <3>2. Cover(r) = {w.index}
      BY <1>1, <2>6 DEF Cover
    <3>3. Indexes(W) = Indexes(job.written) \cup {w.index}
      BY DEF Indexes
    <3>. QED
      BY <1>6, <3>1, <3>2, <3>3
  <2>. HIDE DEF W
  <2>14. job' = [pc |-> job.pc, base |-> job.base, chosen |-> job.chosen, levels |-> u, cwd |-> job.cwd,
                 written |-> W, failed |-> job.failed, lost |-> job.lost, stopped |-> job.stopped]
    BY <1>4, <2>8 DEF ExtractJobs
  <2>15. job' \in ExtractJobs
    BY <1>4, <2>5, <2>10, <2>14 DEF ExtractJobs
  <2>16. /\ job'.pc = "extract" /\ job'.base = job.base /\ job'.chosen = job.chosen /\ job'.levels = u
         /\ job'.cwd = job.cwd /\ job'.written = W /\ job'.failed = job.failed
         /\ job'.lost = job.lost /\ job'.stopped = job.stopped
    BY <1>1, <2>14
  <2>17. ExtractOK(job')
    BY <1>6, <2>5, <2>11, <2>12, <2>13, <2>15, <2>16 DEF ExtractOK
  <2>. QED
    BY <1>1, <2>16, <2>17, ExtractStepKeeps
<1>9. CASE FailLevel
  <2> DEFINE u == LastLevel(job.levels, {})
  <2>1. job' = [job EXCEPT !.failed = TRUE, !.levels = u]
    BY <1>4, <1>9 DEF FailLevel, ExtractJobs, LastLevel
  <2>2. u \in Seq(SUBSET Paths) /\ LevelsOK(u) /\ (~job.lost => InPlace(job.base, job.cwd, u))
    BY <1>7
  <2>. HIDE DEF u
  <2>3. job' = [pc |-> job.pc, base |-> job.base, chosen |-> job.chosen, levels |-> u, cwd |-> job.cwd,
                written |-> job.written, failed |-> TRUE, lost |-> job.lost, stopped |-> job.stopped]
    BY <1>4, <2>1 DEF ExtractJobs
  <2>4. job' \in ExtractJobs
    BY <1>4, <2>2, <2>3 DEF ExtractJobs
  <2>5. /\ job'.pc = "extract" /\ job'.base = job.base /\ job'.chosen = job.chosen /\ job'.levels = u
        /\ job'.cwd = job.cwd /\ job'.written = job.written /\ job'.failed = TRUE
        /\ job'.lost = job.lost
    BY <1>1, <2>3
  <2>6. ExtractOK(job')
    BY <1>6, <2>2, <2>4, <2>5 DEF ExtractOK
  <2>. QED
    BY <1>1, <2>5, <2>6, ExtractStepKeeps
<1>. QED
  BY <1>8, <1>9 DEF DecompressFile

LEMMA UpIs ==
  ASSUME NEW cwd \in Seq(Parts \cup {".."})
  PROVE  /\ Up(cwd) \in Seq(Parts \cup {".."})
         /\ cwd \in Seq(Parts) /\ cwd # <<>> => Up(cwd) = Front(cwd)
<1>1. PICK n \in Nat : n = Len(cwd)
  OBVIOUS
<1>2. CASE cwd = <<>> \/ Last(cwd) = ".."
  <2>1. Up(cwd) = Append(cwd, "..") /\ Append(cwd, "..") \in Seq(Parts \cup {".."})
    BY <1>2 DEF Up
  <2>2. ~(cwd \in Seq(Parts) /\ cwd # <<>>)
    <3>. SUFFICES ASSUME cwd \in Seq(Parts), cwd # <<>> PROVE FALSE
      OBVIOUS
    <3>1. n \in 1..n /\ cwd[n] \in Parts
      BY <1>1
    <3>2. Last(cwd) = cwd[n]
      BY <1>1 DEF Last
    <3>. QED
      BY <1>2, <3>1, <3>2, NamesAssumption
  <2>. QED
    BY <2>1, <2>2
<1>3. CASE cwd # <<>> /\ Last(cwd) # ".."
  <2>1. Up(cwd) = Front(cwd)
    BY <1>3 DEF Up
  <2>2. Front(cwd) \in Seq(Parts \cup {".."})
    BY <1>3 DEF Front
  <2>. QED
    BY <2>1, <2>2
<1>. QED
  BY <1>2, <1>3

LEMMA FrontIs ==
  ASSUME NEW S, NEW s \in Seq(S), s # <<>>
  PROVE  /\ Front(s) \in Seq(S) /\ Len(Front(s)) = Len(s) - 1
         /\ \A l \in 1..(Len(s) - 1) : Front(s)[l] = s[l]
<1>1. PICK n \in Nat : n = Len(s) /\ n # 0
  OBVIOUS
<1>2. Front(s) = SubSeq(s, 1, n - 1)
  BY <1>1 DEF Front
<1>3. /\ SubSeq(s, 1, n - 1) \in Seq(S) /\ Len(SubSeq(s, 1, n - 1)) = n - 1
      /\ \A l \in 1..(n - 1) : SubSeq(s, 1, n - 1)[l] = s[l]
  BY <1>1
<1>. QED
  BY <1>1, <1>2, <1>3

\* A level that is done with, and the way back to the folder above.
LEMMA LeaveFolderKeeps ==
  ASSUME IInv, LeaveFolder
  PROVE  IInv'
<1>1. job.pc = "extract" /\ (job.stopped \/ Last(job.levels) = {})
      /\ UNCHANGED <<disk, table, nodes, state, jobs>>
  BY DEF LeaveFolder
<1>2. PICK Q : Q = Last(job.levels)
  OBVIOUS
<1>3. PICK n \in Nat : ExtractAt(n, Q) /\ Q \subseteq DOMAIN nodes
  BY <1>1, <1>2, ExtractIs
<1>4. /\ ExtractOK(job) /\ job \in ExtractJobs /\ state = "open"
      /\ n = Len(job.levels) /\ n # 0 /\ job.levels[n] = Q /\ (~job.stopped => Q = {})
  BY <1>1, <1>2, <1>3 DEF ExtractAt
<1>5. /\ job.levels \in Seq(SUBSET Paths) /\ job.levels # <<>> /\ job.cwd \in Seq(Parts \cup {".."})
      /\ job.base \in Seq(Parts)
  BY <1>4 DEF ExtractJobs
<1>6. /\ job.chosen \subseteq DOMAIN nodes /\ \A w \in job.written : w.index \in 1..Len(table)
      /\ ~job.lost => Placed(job.base, job.written) /\ InPlace(job.base, job.cwd, job.levels)
      /\ ~job.failed /\ ~job.stopped => CoverAll(job.chosen) = Indexes(job.written) \cup ToDo(job.levels)
      /\ LevelsOK(job.levels)
  BY <1>1, <1>4 DEF ExtractOK
<1>7. CASE n = 1
  <2>1. job' = [job EXCEPT !.pc = "extracted"]
    BY <1>4, <1>7 DEF LeaveFolder
  <2>2. job' = [pc |-> "extracted", base |-> job.base, chosen |-> job.chosen, levels |-> job.levels,
                cwd |-> job.cwd, written |-> job.written, failed |-> job.failed, lost |-> job.lost,
                stopped |-> job.stopped]
    BY <1>4, <2>1 DEF ExtractJobs
  <2>3. job' \in ExtractJobs
    BY <1>4, <2>2 DEF ExtractJobs
  <2>4. /\ job'.pc = "extracted" /\ job'.base = job.base /\ job'.chosen = job.chosen
        /\ job'.levels = job.levels /\ job'.cwd = job.cwd /\ job'.written = job.written
        /\ job'.failed = job.failed /\ job'.lost = job.lost /\ job'.stopped = job.stopped
    BY <2>2
  <2>5. ~job.stopped => ToDo(job.levels) = {}
    <3>1. \A l \in 1..Len(job.levels) : l = n
      BY <1>4, <1>7
    <3>. QED
      BY <1>4, <3>1, InToDo
  <2>6. ExtractOK(job')
    BY <1>6, <2>3, <2>4, <2>5 DEF ExtractOK
  <2>. QED
    BY <1>1, <2>4, <2>6, ExtractStepKeeps
<1>8. CASE n # 1
  <2> DEFINE u == Front(job.levels)
             cwd == Up(job.cwd)
  <2>1. job' = [job EXCEPT !.levels = u, !.cwd = cwd]
    BY <1>4, <1>8 DEF LeaveFolder, ExtractJobs
  <2>2. u \in Seq(SUBSET Paths) /\ Len(u) = n - 1 /\ \A l \in 1..(n - 1) : u[l] = job.levels[l]
    BY <1>4, <1>5, FrontIs
  <2>3. /\ cwd \in Seq(Parts \cup {".."})
        /\ job.cwd \in Seq(Parts) /\ job.cwd # <<>> => cwd = Front(job.cwd)
    BY <1>5, UpIs
  <2>. HIDE DEF u, cwd
  <2>4. LevelsOK(u)
    <3>1. \A l \in 1..n : job.levels[l] \subseteq DOMAIN nodes
      BY <1>4, <1>6 DEF LevelsOK
    <3>2. \A l \in 1..Len(u) : u[l] \subseteq DOMAIN nodes
      BY <1>4, <2>2, <3>1, UpToLast
    <3>3. u # <<>>
      <4>1. Len(<<>>) = 0 /\ n - 1 # 0
        BY <1>8
      <4>. QED
        BY <2>2, <4>1
    <3>. QED
      BY <2>2, <3>2, <3>3 DEF LevelsOK
  <2>5. ~job.lost => InPlace(job.base, cwd, u)
    <3>. SUFFICES ASSUME ~job.lost PROVE InPlace(job.base, cwd, u)
      OBVIOUS
    <3>1. /\ job.cwd \in Seq(Parts) /\ Len(job.cwd) = n - 1
          /\ \A l \in 1..n : \A q \in job.levels[l] : Front(q) = job.base \o SubSeq(job.cwd, 1, l - 1)
      BY <1>4, <1>6 DEF InPlace
    <3>2. job.cwd # <<>> /\ cwd = Front(job.cwd)
      <4>1. job.cwd # <<>>
        <5>1. Len(<<>>) = 0 /\ n - 1 # 0
          BY <1>8
        <5>. QED
          BY <3>1, <5>1
      <4>. QED
        BY <2>3, <3>1, <4>1
    <3>3. cwd \in Seq(Parts) /\ Len(cwd) = (n - 1) - 1
      BY <3>1, <3>2, FrontIs
    <3>4. \A l \in 1..(n - 1) : l - 1 \in Nat /\ l - 1 < n - 1
      OBVIOUS
    <3>5. \A l \in 1..(n - 1) : SubSeq(cwd, 1, l - 1) = SubSeq(job.cwd, 1, l - 1)
      BY <3>1, <3>2, <3>4, PlaceAbove
    <3>6. \A l \in 1..(n - 1) : \A q \in u[l] : Front(q) = job.base \o SubSeq(cwd, 1, l - 1)
      BY <1>4, <2>2, <3>1, <3>5, UpToLast
    <3>. QED
      BY <2>2, <3>3, <3>6 DEF InPlace
  <2>6. ~job.stopped => ToDo(u) = ToDo(job.levels)
    BY <1>4, <2>2, LeaveToDo
  <2>7. job' = [pc |-> job.pc, base |-> job.base, chosen |-> job.chosen, levels |-> u, cwd |-> cwd,
                written |-> job.written, failed |-> job.failed, lost |-> job.lost,
                stopped |-> job.stopped]
    BY <1>4, <2>1 DEF ExtractJobs
  <2>8. job' \in ExtractJobs
    BY <1>4, <2>2, <2>3, <2>7 DEF ExtractJobs
  <2>9. /\ job'.pc = "extract" /\ job'.base = job.base /\ job'.chosen = job.chosen
        /\ job'.levels = u /\ job'.cwd = cwd /\ job'.written = job.written
        /\ job'.failed = job.failed /\ job'.lost = job.lost /\ job'.stopped = job.stopped
    BY <1>1, <2>7
  <2>10. ExtractOK(job')
    BY <1>6, <2>4, <2>5, <2>6, <2>8, <2>9 DEF ExtractOK
  <2>. QED
    BY <1>1, <2>9, <2>10, ExtractStepKeeps
<1>. QED
  BY <1>7, <1>8

-----------------------------------------------------------------------------
(***************************************************************************)
(* Every step keeps the invariant.                                         *)
(***************************************************************************)
LEMMA EditKeeps ==
  ASSUME IInv, Edit
  PROVE  IInv'
<1>1. CASE \E base \in Folders, names \in SUBSET AddedNames \ {{}} :
             \E sizes \in [names -> DataSizes] : Add(base, names, sizes)
  BY <1>1, AddKeeps
<1>2. CASE \E q \in DOMAIN nodes : Delete(q) \/ \E part \in Parts : RenameNode(q, part)
  BY <1>2, DeleteKeeps, RenameNodeKeeps
<1>3. CASE \E i \in DOMAIN table, p \in SearchNames : RenameIndex(i, p)
  BY <1>3, RenameIndexKeeps
<1>. QED
  BY <1>1, <1>2, <1>3 DEF Edit

LEMMA ExtractKeeps ==
  ASSUME IInv,
         \/ \E base \in Folders : ExtractFiles(base, Children(base))
         \/ \E q \in DOMAIN nodes : ExtractFiles(Front(q), {q})
  PROVE  IInv'
<1>1. ASSUME NEW base \in Folders, ExtractFiles(base, Children(base)) PROVE IInv'
  <2>1. ASSUME state = "open" PROVE base \in Seq(Parts) /\ \A r \in Children(base) : Front(r) = base
    <3>1. base \in Seq(Parts)
      BY <2>1, FolderIs
    <3>. QED
      BY <2>1, <3>1, ChildIs
  <2>2. Children(base) \subseteq DOMAIN nodes
    BY DEF Children
  <2>. QED
    BY <1>1, <2>1, <2>2, ExtractFilesKeeps
<1>2. ASSUME NEW q \in DOMAIN nodes, ExtractFiles(Front(q), {q}) PROVE IInv'
  <2>1. state = "open" => Front(q) \in Seq(Parts)
    <3>1. state = "open" => q \in Paths
      BY NodeIs
    <3>. QED
      BY <3>1, LastIs
  <2>. QED
    BY <1>2, <2>1, ExtractFilesKeeps
<1>. QED
  BY <1>1, <1>2

LEMMA StutterKeeps ==
  ASSUME IInv, UNCHANGED vars
  PROVE  IInv'
<1>1. UNCHANGED <<disk, table, nodes, state, job, jobs>>
  BY DEF vars
<1>2. DiskInv' /\ TableInv' /\ TreeInv' /\ MarksInv' /\ JobInv'
  BY <1>1 DEF IInv, DiskInv, TableInv, TreeInv, MarksInv, JobInv
<1>3. CopyInv'
  BY <1>1 DEF IInv, CopyInv, Filtered
<1>4. ExtractInv'
  <2>1. \A q : Cover(q)' = Cover(q)
    BY <1>1 DEF Cover, Flagged, Under
  <2>2. \A Q : CoverAll(Q)' = CoverAll(Q)
    BY <2>1 DEF CoverAll
  <2>3. \A levels : ToDo(levels)' = ToDo(levels)
    BY <2>2 DEF ToDo
  <2>. QED
    BY <1>1, <2>2, <2>3 DEF IInv, ExtractInv, ExtractOK, LevelsOK, Placed
<1>. QED
  BY <1>2, <1>3, <1>4 DEF IInv

LEMMA NextKeeps == IInv /\ [Next]_vars => IInv'
<1>. SUFFICES ASSUME IInv, [Next]_vars PROVE IInv'
  OBVIOUS
<1>1. CASE Edit
  BY <1>1, EditKeeps
<1>2. ASSUME NEW script \in Scripts \cup {<<>>}, NEW kind \in {"rebuild", "recompress"}, Start(kind, script)
      PROVE  IInv'
  BY <1>2, StartKeeps
<1>3. CASE Start("strip", <<>>)
  <2>1. <<>> \in Scripts \cup {<<>>} /\ "strip" \in {"rebuild", "recompress", "strip"}
    OBVIOUS
  <2>. QED
    BY <1>3, <2>1, StartKeeps
<1>4. CASE \E i \in DOMAIN table : Copy(i)
  BY <1>4, CopyKeeps
<1>5. CASE \/ \E base \in Folders : ExtractFiles(base, Children(base))
           \/ \E q \in DOMAIN nodes : ExtractFiles(Front(q), {q})
  BY <1>5, ExtractKeeps
<1>6. CASE \E q \in DOMAIN nodes : EnterFolder(q) \/ DecompressFile(q)
  BY <1>6, EnterKeeps, DecompressKeeps
<1>7. CASE LeaveFolder \/ Cancel
  BY <1>7, LeaveFolderKeeps, CancelKeeps
<1>8. CASE Finish \/ ViewFails
  BY <1>8, EndKeeps
<1>9. CASE Leave \/ OpenRebuilt
  BY <1>9, LeaveKeeps, OpenRebuiltKeeps
<1>10. CASE UNCHANGED vars
  BY <1>10, StutterKeeps
<1>. QED
  BY <1>1, <1>2, <1>3, <1>4, <1>5, <1>6, <1>7, <1>8, <1>9, <1>10 DEF Next

\* The inductive invariant: what is on the disk is an index that can be opened, the
\* table and the tree belong to it, the marks of a filter are on rows it has noted, a
\* rebuild has copied entries of the archive once each, and an extraction knows where
\* it is and what is left.
THEOREM InductiveInvariant == Spec => []IInv
<1>1. Init => IInv
  BY InitIInv
<1>2. IInv /\ [Next]_vars => IInv'
  BY NextKeeps
<1>. QED
  BY <1>1, <1>2, PTL DEF Spec

\* Table, index and tree belong together, whatever is added, renamed, deleted, rebuilt
\* or extracted: OpenPckAndMountFileEntry and BuildDirTree make them, and no operation
\* in between leaves a node without its name or a row without its record.
THEOREM TypeCorrect == Spec => []TypeOK
<1>1. IInv => TypeOK
  <2>. SUFFICES ASSUME IInv PROVE TypeOK
    OBVIOUS
  <2>1. PICK n \in Nat : /\ n = Len(table) /\ n = Len(disk.index) /\ n <= MaxEntries
                         /\ table \in Seq(Rows) /\ disk.index \in Seq(Recs)
    <3>1. /\ table \in Seq(Rows) /\ disk.index \in Seq(Recs) /\ Len(table) = Len(disk.index)
          /\ Len(disk.index) <= MaxEntries
      BY DEF IInv, DiskInv, TableInv, IndexOK
    <3>2. Len(table) \in Nat
      BY <3>1
    <3>. QED
      BY <3>1, <3>2
  <2>2. DOMAIN table = 1..n /\ DOMAIN disk.index = 1..n
    <3>1. \A S : \A s \in Seq(S) : DOMAIN s = 1..Len(s)
      OBVIOUS
    <3>. QED
      BY <2>1, <3>1
  <2>3. state \in {"open", "crashed", "torn"} /\ jobs \in 0..MaxJobs
    BY DEF IInv, TreeInv, DiskInv
  <2>4. ASSUME NEW i \in 1..n
        PROVE  /\ disk.index[i] \in Records /\ table[i].at \in Nat
               /\ {table[i].isInvalid, table[i].isProtected, table[i].isToDeDelete} \subseteq BOOLEAN
    <3>1. disk.index[i] \in Recs /\ table[i] \in Rows /\ table[i].name = disk.index[i].name
      BY <2>1 DEF IInv, TableInv
    <3>2. table[i].name \in Names
      BY <2>2 DEF Names
    <3>3. disk.index[i] \in Records
      BY <3>1, <3>2 DEF Recs, Records, Ids
    <3>. QED
      BY <3>1, <3>3 DEF Rows
  <2>5. ASSUME state = "open" PROVE DOMAIN nodes = UNION {PathsTo(p) : p \in Names}
    <3>1. DOMAIN nodes = UNION {PathsTo(NamesOf(disk.index)[i]) : i \in 1..n}
      BY <2>1, <2>5 DEF IInv, TreeInv, IsTree
    <3>2. \A i \in 1..n : NamesOf(disk.index)[i] = table[i].name
      BY <2>1, NamesFitIn DEF IInv
    <3>. QED
      BY <2>2, <3>1, <3>2 DEF Names
  <2>6. \A q \in DOMAIN nodes : nodes[q].index \in 0..Len(table) /\ nodes[q].folder \in BOOLEAN
    BY <2>1 DEF IInv, TreeInv
  <2>7. job.pc \in {"none", "copy", "done", "failed", "extract", "extracted"}
    BY NoJobIs DEF IInv, JobInv
  <2>8. Len(table) <= MaxEntries
    BY <2>1
  <2>. QED
    BY <2>2, <2>3, <2>4, <2>5, <2>6, <2>7, <2>8 DEF TypeOK
<1>2. Spec => []IInv
  BY InductiveInvariant
<1>. QED
  BY <1>1, <1>2, PTL

\* StartExtract writes each file at its place and leaves none out, in every order of
\* the files and wherever it fails or is cancelled: entering a folder and coming back
\* move the directory and the levels together.
THEOREM ExtractionInPlace == Spec => []ExtractedInPlace
<1>1. IInv => ExtractedInPlace
  <2>. SUFFICES ASSUME IInv, job.pc \in {"extract", "extracted"}, ~job.lost
                PROVE  /\ \A w \in job.written : job.base \o w.at = table[w.index].name
                       /\ job.pc = "extracted" /\ ~job.failed /\ ~job.stopped =>
                            {w.index : w \in job.written}
                              = UNION {IF nodes[q].folder THEN Flagged(q) ELSE {nodes[q].index} : q \in job.chosen}
    BY DEF ExtractedInPlace
  <2>1. ExtractOK(job)
    BY DEF IInv, ExtractInv
  <2>2. Placed(job.base, job.written)
    BY <2>1 DEF ExtractOK
  <2>3. ASSUME job.pc = "extracted", ~job.failed, ~job.stopped PROVE Indexes(job.written) = CoverAll(job.chosen)
    BY <2>1, <2>3 DEF ExtractOK
  <2>. QED
    BY <2>2, <2>3 DEF Placed, Indexes, CoverAll, Cover
<1>2. Spec => []IInv
  BY InductiveInvariant
<1>. QED
  BY <1>1, <1>2, PTL

-----------------------------------------------------------------------------
(***************************************************************************)
(* The data.  As long as every address fits into 32 bits, each record of   *)
(* the archive and of what is being rebuilt has its own data, and the      *)
(* table has the addresses of the index.                                   *)
(***************************************************************************)
AddressesFit == \A i \in 1..Len(disk.index) : disk.index[i].at < AddressModulus
DataInv ==
  /\ Whole(disk.index, disk.data)
  /\ \A i \in 1..Len(table) : table[i].at = disk.index[i].at
  /\ job.pc = "copy" => \A i \in 1..Len(table) : job.before[i].at = disk.index[i].at
  /\ job.pc \in {"copy", "done", "failed"} => Whole(job.out, job.data)

LEMMA InitData == Init => DataInv
<1>. SUFFICES ASSUME Init PROVE DataInv
  OBVIOUS
<1>1. disk.index = <<>> /\ table = <<>> /\ job.pc = "none" /\ Len(<<>>) = 0
  BY NoJobIs DEF Init
<1>. QED
  BY <1>1, EmptyInterval DEF DataInv, Whole

LEMMA SaveData ==
  ASSUME NEW index \in Seq(Recs), NEW data, Save(index, data), Whole(index, data)
  PROVE  DataInv'
<1> DEFINE t == BuildDirTree(index)
<1>1. disk' = [index |-> index, data |-> data] /\ table' = t.table /\ job' = NoJob
  BY DEF Save
<1>2. Shape(t, index)
  BY TreeIs DEF TreeKept
<1>. HIDE DEF t
<1>3. disk'.index = index /\ disk'.data = data /\ job'.pc = "none"
  BY <1>1, NoJobIs
<1>4. Len(table') = Len(index) /\ \A i \in 1..Len(index) : table'[i].at = index[i].at
  BY <1>1, <1>2 DEF Shape, TableOf, RowOf
<1>. QED
  BY <1>3, <1>4 DEF DataInv

LEMMA QuietData ==
  ASSUME DataInv, disk' = disk, Len(table') = Len(table), \A i \in 1..Len(table) : table'[i].at = table[i].at,
         job'.pc \notin {"copy", "done", "failed"}
  PROVE  DataInv'
BY DEF DataInv

\* What WriteAllIndex takes over has the data it had.
LEMMA WrittenWhole ==
  ASSUME IInv, DataInv, NEW t, SameRecords(t), \A i \in 1..Len(table) : InRecord(t[i].name)
  PROVE  Written(t) \in Seq(Recs) /\ Whole(Written(t), disk.data)
<1> DEFINE w == Written(t)
<1>1. IsWritten(w, t, Len(table)) /\ IndexOK(w, jobs)
  BY WrittenOK DEF IInv
<1>. HIDE DEF w
<1>2. ASSUME NEW m \in 1..Len(w) PROVE HasData(w[m], disk.data)
  <2>1. PICK i \in 1..Len(table) : w[m] = RowRecord(t[i])
    BY <1>1 DEF IsWritten
  <2>2. /\ t[i] \in Rows /\ t[i].rec = disk.index[i] /\ t[i].at = disk.index[i].at
        /\ i \in 1..Len(disk.index)
    BY DEF SameRecords, IInv, TableInv, DataInv
  <2>3. w[m].at = disk.index[i].at /\ w[m].size = disk.index[i].size /\ w[m].id = disk.index[i].id
    BY <2>1, <2>2, RowRecordIs
  <2>4. HasData(disk.index[i], disk.data)
    BY <2>2 DEF DataInv, Whole
  <2>. QED
    BY <2>3, <2>4 DEF HasData
<1>. QED
  BY <1>1, <1>2 DEF w, IndexOK, Whole

LEMMA WriteData ==
  ASSUME IInv, DataInv, NEW t, SameRecords(t), \A i \in 1..Len(table) : InRecord(t[i].name),
         Save(Written(t), disk.data)
  PROVE  DataInv'
BY WrittenWhole, SaveData

LEMMA AddData ==
  ASSUME IInv, DataInv, NEW base \in Folders, NEW names \in SUBSET AddedNames,
         NEW sizes \in [names -> DataSizes], Add(base, names, sizes)
  PROVE  DataInv'
<1>1. CASE (\E P \in SUBSET names : table' = Marking(base, names, P)) /\ UNCHANGED <<disk, nodes, state, job>>
  <2>1. job'.pc = "none"
    BY <1>1, AddIs, BeginIs
  <2>2. SameRecords(table')
    BY <1>1, MarkingIs, RemarkedIs DEF IInv
  <2>. QED
    BY <1>1, <2>1, <2>2, QuietData DEF SameRecords
<1>2. CASE Save(Added(base, names, sizes).index, Added(base, names, sizes).data)
  <2> DEFINE t == Marking(base, names, names)
             a == Added(base, names, sizes)
             w == Written(t)
             n == Cardinality(names)
  <2>1. SameRecords(t) /\ \A i \in 1..Len(table) : t[i].name = table[i].name
    BY MarkingIs, RemarkedIs DEF IInv
  <2>2. \A i \in 1..Len(table) : InRecord(t[i].name)
    BY <2>1, NamesFitIn DEF IInv
  <2>3. StoredUpTo(a, [index |-> w, data |-> disk.data], n, base, names)
    BY AddedIs
  <2>4. Save(a.index, a.data)
    BY <1>2
  <2>. HIDE DEF t, a, n
  <2>5. Whole(w, disk.data)
    BY <2>1, <2>2, WrittenWhole
  <2>. HIDE DEF w
  <2>6. a.index \in Seq(Recs) /\ Whole(a.index, a.data)
    BY <2>3, <2>5 DEF StoredUpTo
  <2>. QED
    BY <2>4, <2>6, SaveData
<1>. QED
  BY <1>1, <1>2, AddIs

LEMMA EditData ==
  ASSUME IInv, DataInv, Edit
  PROVE  DataInv'
<1>1. ASSUME NEW q \in DOMAIN nodes, Delete(q) PROVE DataInv'
  <2>1. Save(Written(Without(q)), disk.data)
    BY <1>1 DEF Delete, Without, Gone
  <2>2. SameRecords(Without(q)) /\ \A i \in 1..Len(table) : Without(q)[i].name = table[i].name
    BY WithoutIs, RemarkedIs DEF IInv
  <2>3. \A i \in 1..Len(table) : InRecord(Without(q)[i].name)
    BY <2>2, NamesFitIn DEF IInv
  <2>. QED
    BY <2>1, <2>2, <2>3, WriteData
<1>2. ASSUME NEW q \in DOMAIN nodes, NEW part \in Parts, RenameNode(q, part) PROVE DataInv'
  <2>1. CASE Tear
    <3>1. disk' = disk /\ table' = table /\ job'.pc = "none"
      BY <2>1, BeginIs DEF Tear
    <3>. QED
      BY <3>1, QuietData
  <2>2. CASE ~Overruns(q, NewNames(q, part)) /\ Rename(RenameNodeAs(q, part))
    <3>1. state = "open" /\ Save(Written(RenameNodeAs(q, part)), disk.data)
      BY <2>2 DEF Rename, Begin
    <3>. QED
      BY <2>2, <3>1, RenameNodeIs, WriteData
  <2>. QED
    BY <1>2, <2>1, <2>2, RenameNodeCases
<1>3. ASSUME NEW i \in DOMAIN table, NEW p \in SearchNames, RenameIndex(i, p) PROVE DataInv'
  <2>1. InRecord(p) /\ Save(Written(RenameIndexAs(i, p)), disk.data)
    BY <1>3 DEF RenameIndex, RenameIndexAs, Rename, InRecord
  <2>. QED
    BY <2>1, RenameIndexIs, WriteData
<1>. QED
  BY <1>1, <1>2, <1>3, AddData DEF Edit

LEMMA StartData ==
  ASSUME IInv, DataInv, NEW kind \in {"rebuild", "recompress", "strip"}, NEW script \in Scripts \cup {<<>>},
         Start(kind, script)
  PROVE  DataInv'
<1> DEFINE f == FilterFor(kind, script)
<1>1. /\ Begin /\ table' = f.table /\ disk' = disk
      /\ job' = [pc |-> "copy", kind |-> kind, script |-> script, edited |-> f.edited,
                 stopped |-> FALSE, out |-> <<>>, data |-> <<>>, copied |-> {}, before |-> table]
  BY DEF Start, FilterFor
<1>2. state = "open" /\ job.pc = "none"
  BY <1>1, BeginIs
<1>3. Unmarked
  BY <1>2 DEF IInv, MarksInv, Unmarked
<1>4. Len(f.table) = Len(table) /\ \A i \in 1..Len(table) : f.table[i].at = table[i].at
  BY <1>2, <1>3, FilterForIs DEF FilterRow
<1>. HIDE DEF f
<1>5. job'.out = <<>> /\ job'.before = table /\ Len(<<>>) = 0
  BY <1>1
<1>. QED
  BY <1>1, <1>4, <1>5, EmptyInterval DEF DataInv, Whole

LEMMA CopyKeepsData ==
  ASSUME IInv, DataInv, AddressesFit, NEW i \in DOMAIN table, Copy(i)
  PROVE  DataInv'
<1>1. /\ job.pc = "copy" /\ i \in 1..Len(table) /\ table' = [table EXCEPT ![i].at = CopyFrom(i)]
      /\ disk' = disk /\ disk'.index = disk.index /\ disk'.data = disk.data
  BY CopyIs
<1>2. /\ job'.pc = "copy" /\ job'.before = job.before
      /\ job'.out = Append(job.out, CopyRecord(i)) /\ job'.data = job.data \o CopyData(i)
  BY CopyJobAfter
<1>3. table[i] \in Rows /\ i \in 1..Len(disk.index) /\ table[i].rec = disk.index[i]
      /\ table[i].at = disk.index[i].at
  BY <1>1 DEF IInv, TableInv, DataInv
<1>4. CopyFrom(i) = disk.index[i].at
  <2>1. PICK at \in Nat : at = table[i].at
    BY <1>3 DEF Rows
  <2>2. at < AddressModulus
    BY <1>3, <2>1 DEF AddressesFit
  <2> DEFINE rest == at % AddressModulus
  <2>3. rest = at
    BY <2>2, RestIs
  <2>4. CopyFrom(i) = rest \/ CopyFrom(i) = at
    BY <2>1 DEF CopyFrom, SourceAddress
  <2>. HIDE DEF rest
  <2>. QED
    BY <1>3, <2>1, <2>3, <2>4
<1>5. Len(table') = Len(table) /\ \A j \in 1..Len(table) : table'[j].at = table[j].at
  <2>1. DOMAIN table = 1..Len(table) /\ table \in Seq(Rows)
    BY DEF IInv, TableInv
  <2>2. Len(table') = Len(table)
    BY CopyTable
  <2>3. ASSUME NEW j \in 1..Len(table) PROVE table'[j].at = table[j].at
    <3>1. table[j] \in Rows
      BY <2>1
    <3>2. CASE j = i
      <4>1. table'[j] = [table[j] EXCEPT !.at = CopyFrom(i)]
        BY <1>1, <2>1, <3>2
      <4>. QED
        BY <1>3, <1>4, <3>1, <3>2, <4>1 DEF Rows
    <3>3. CASE j # i
      BY <1>1, <2>1, <3>3
    <3>. QED
      BY <3>2, <3>3
  <2>. QED
    BY <2>2, <2>3
<1>6. Whole(job'.out, job'.data)
  <2> DEFINE r == CopyRecord(i)
             more == CopyData(i)
  <2>1. /\ r \in Recs /\ r.id = disk.index[i].id /\ r.at = Len(job.data) /\ r.size = table[i].rec.size
        /\ more \in Seq(Units) /\ Len(more) = table[i].rec.size
        /\ \A k \in 1..table[i].rec.size : more[k] = disk.data[CopyFrom(i) + k]
    BY <1>1, CopiedIs
  <2>2. job.out \in Seq(Recs) /\ job.data \in Seq(Units) /\ Whole(job.out, job.data)
    BY <1>1, CopyJobIs DEF DataInv
  <2>3. HasData(disk.index[i], disk.data)
    BY <1>3 DEF DataInv, Whole
  <2>. HIDE DEF r, more
  <2>4. Len(more) = r.size /\ \A k \in 1..r.size : more[k] = <<r.id, k>>
    BY <1>3, <1>4, <2>1, <2>3 DEF HasData
  <2>5. HasData(r, job.data \o more)
    BY <2>1, <2>2, <2>4, HasDataWritten
  <2>6. Whole(job.out, job.data \o more)
    BY <2>1, <2>2, WholeStill
  <2>7. Whole(Append(job.out, r), job.data \o more)
    BY <2>1, <2>2, <2>5, <2>6, WholeAppend
  <2>. QED
    BY <1>2, <2>7 DEF r, more
<1>. QED
  BY <1>1, <1>2, <1>5, <1>6 DEF DataInv

LEMMA ReturnData ==
  ASSUME IInv, DataInv, job.pc = "copy", NEW pc \in {"done", "failed"}, Return(pc)
  PROVE  DataInv'
<1>1. job' = [job EXCEPT !.pc = pc] /\ disk' = disk
  BY DEF Return
<1>2. job \in CopyJobs
  BY DEF IInv, CopyInv
<1>3. job'.pc = pc /\ job'.out = job.out /\ job'.data = job.data
  BY <1>1, <1>2 DEF CopyJobs
<1>4. Len(table') = Len(table) /\ \A i \in 1..Len(table) : table'[i].at = table[i].at
  BY ReturnTable DEF RowBack
<1>. QED
  BY <1>1, <1>3, <1>4 DEF DataInv

LEMMA CancelData ==
  ASSUME IInv, DataInv, Cancel
  PROVE  DataInv'
<1>1. /\ job.pc \in {"copy", "extract"} /\ job' = [job EXCEPT !.stopped = TRUE]
      /\ disk' = disk /\ table' = table
  BY DEF Cancel
<1>2. CASE job.pc = "copy"
  <2>1. job \in CopyJobs
    BY <1>2 DEF IInv, CopyInv
  <2>2. job'.pc = "copy" /\ job'.out = job.out /\ job'.data = job.data /\ job'.before = job.before
    BY <1>1, <1>2, <2>1 DEF CopyJobs
  <2>. QED
    BY <1>1, <1>2, <2>2 DEF DataInv
<1>3. CASE job.pc = "extract"
  <2>1. job \in ExtractJobs
    BY <1>3 DEF IInv, ExtractInv, ExtractOK
  <2>2. job'.pc = "extract"
    BY <1>1, <1>3, <2>1 DEF ExtractJobs
  <2>. QED
    BY <1>1, <2>2, QuietData
<1>. QED
  BY <1>1, <1>2, <1>3

\* A step of an extraction, or one that ends a job, and nothing else.
Aside ==
  \/ \E base, Q : ExtractFiles(base, Q)
  \/ \E q \in DOMAIN nodes : EnterFolder(q) \/ DecompressFile(q)
  \/ LeaveFolder \/ Leave

LEMMA AsideIs ==
  ASSUME IInv, Aside
  PROVE  /\ UNCHANGED <<disk, table, nodes, state>> /\ job.pc # "copy"
         /\ job'.pc \in {"none", "extract", "extracted"}
<1>1. ASSUME NEW base, NEW Q, ExtractFiles(base, Q)
      PROVE  UNCHANGED <<disk, table, nodes, state>> /\ job.pc # "copy" /\ job'.pc = "extract"
  BY <1>1, BeginIs DEF ExtractFiles
<1>2. ASSUME NEW q \in DOMAIN nodes, EnterFolder(q) \/ DecompressFile(q)
      PROVE  UNCHANGED <<disk, table, nodes, state>> /\ job.pc = "extract" /\ job'.pc = "extract"
  <2>1. UNCHANGED <<disk, table, nodes, state>> /\ job.pc = "extract"
    BY <1>2 DEF EnterFolder, DecompressFile, ExtractNext
  <2>2. job \in ExtractJobs
    BY <2>1 DEF IInv, ExtractInv, ExtractOK
  <2>3. CASE EnterFolder(q)
    BY <2>1, <2>2, <2>3 DEF EnterFolder, ExtractJobs
  <2>4. CASE DecompressFile(q)
    BY <2>1, <2>2, <2>4 DEF DecompressFile, FailLevel, ExtractJobs
  <2>. QED
    BY <1>2, <2>1, <2>3, <2>4
<1>3. CASE LeaveFolder
  <2>1. UNCHANGED <<disk, table, nodes, state>> /\ job.pc = "extract"
    BY <1>3 DEF LeaveFolder
  <2>2. job \in ExtractJobs
    BY <2>1 DEF IInv, ExtractInv, ExtractOK
  <2>3. CASE Len(job.levels) = 1
    <3>1. job' = [job EXCEPT !.pc = "extracted"]
      BY <1>3, <2>3 DEF LeaveFolder
    <3>. QED
      BY <2>1, <2>2, <3>1 DEF ExtractJobs
  <2>4. CASE Len(job.levels) # 1
    <3>1. PICK u, cwd : job' = [job EXCEPT !.levels = u, !.cwd = cwd]
      BY <1>3, <2>4 DEF LeaveFolder
    <3>. QED
      BY <2>1, <2>2, <3>1 DEF ExtractJobs
  <2>. QED
    BY <2>3, <2>4
<1>4. CASE Leave
  BY <1>4, NoJobIs DEF Leave
<1>. QED
  BY <1>1, <1>2, <1>3, <1>4 DEF Aside

LEMMA NextCases ==
  ASSUME Next
  PROVE  \/ Edit
         \/ \E kind \in {"rebuild", "recompress", "strip"}, script \in Scripts \cup {<<>>} : Start(kind, script)
         \/ \E i \in DOMAIN table : Copy(i)
         \/ Aside \/ Cancel \/ Finish \/ ViewFails \/ OpenRebuilt
BY DEF Next, Aside

LEMMA OpenRebuiltData ==
  ASSUME IInv, DataInv, OpenRebuilt
  PROVE  DataInv'
<1>1. job.pc = "done" /\ Save(job.out, job.data)
  BY DEF OpenRebuilt
<1>2. job.out \in Seq(Recs) /\ Whole(job.out, job.data)
  BY <1>1, CopyJobIs DEF DataInv
<1>. QED
  BY <1>1, <1>2, SaveData

LEMMA NextData == IInv /\ DataInv /\ AddressesFit /\ [Next]_vars => DataInv'
<1>. SUFFICES ASSUME IInv, DataInv, AddressesFit, [Next]_vars PROVE DataInv'
  OBVIOUS
<1>1. CASE Edit
  BY <1>1, EditData
<1>2. CASE \E kind \in {"rebuild", "recompress", "strip"}, script \in Scripts \cup {<<>>} : Start(kind, script)
  BY <1>2, StartData
<1>3. CASE \E i \in DOMAIN table : Copy(i)
  BY <1>3, CopyKeepsData
<1>4. CASE Aside
  BY <1>4, AsideIs, QuietData
<1>5. CASE Cancel
  BY <1>5, CancelData
<1>6. CASE Finish \/ ViewFails
  BY <1>6, ReturnData DEF Finish, ViewFails
<1>7. CASE OpenRebuilt
  BY <1>7, OpenRebuiltData
<1>8. CASE UNCHANGED vars
  <2>1. UNCHANGED <<disk, table, job>>
    BY <1>8 DEF vars
  <2>. QED
    BY <2>1 DEF DataInv
<1>. QED
  BY <1>1, <1>2, <1>3, <1>4, <1>5, <1>6, <1>7, <1>8, NextCases

\* Addresses that fit stay with their data: what each record of the archive, and of an
\* archive being rebuilt, points to is its own data.
LEMMA DataKept == Spec /\ []AddressesFit => []DataInv
<1>1. Init => DataInv
  BY InitData
<1>2. IInv /\ DataInv /\ AddressesFit /\ [Next]_vars => DataInv'
  BY NextData
<1>3. Spec => []IInv
  BY InductiveInvariant
<1>. QED
  BY <1>1, <1>2, <1>3, PTL DEF Spec

\* The end of a rebuild gives the table back, whatever the filter marked.
LEMMA TableBack ==
  ASSUME IInv, DataInv, job.pc = "copy", NEW pc, Return(pc)
  PROVE  table' = job.before
<1>1. /\ job.before \in Seq(Rows) /\ Len(job.before) = Len(table)
  BY CopyJobIs
<1>2. PICK n \in Nat : n = Len(job.before)
  BY <1>1
<1>3. /\ table' \in Seq(Rows) /\ Len(table') = n
      /\ \A i \in 1..n : RowBack(job.before[i], table[i], table'[i])
  BY <1>1, <1>2, ReturnTable
<1>4. ASSUME NEW i \in 1..n PROVE table'[i] = job.before[i]
  <2>1. job.before[i] \in Rows
    BY <1>1, <1>2
  <2>2. ~job.before[i].isProtected /\ ~job.before[i].isToDeDelete
    BY <1>1, <1>2 DEF IInv, MarksInv, RowKept
  <2>3. table[i].at = job.before[i].at
    BY <1>1, <1>2 DEF DataInv
  <2>. QED
    BY <1>3, <2>1, <2>2, <2>3, SameRow
<1> DEFINE b == job.before
<1>5. b \in Seq(Rows) /\ Len(b) = n /\ \A i \in 1..n : table'[i] = b[i]
  BY <1>1, <1>2, <1>4
<1>. HIDE DEF b
<1>6. table' = b
  BY <1>3, <1>5
<1>. QED
  BY <1>6 DEF b

LEMMA HandleStep ==
  ASSUME IInv, DataInv, [Next]_vars, job.pc = "copy", job'.pc # "copy"
  PROVE  table' = job.before
<1>1. job # NoJob
  BY NoJobIs
<1>2. ~Begin /\ ~OpenRebuilt
  BY <1>1 DEF Begin, OpenRebuilt
<1>3. ~Edit
  BY <1>2 DEF Edit, Add, Delete, RenameNode, RenameIndex, Rename, Tear
<1>4. ~Aside
  BY AsideIs
<1>5. ~\E kind, script : Start(kind, script)
  BY <1>2 DEF Start
<1>6. ~\E i \in DOMAIN table : Copy(i)
  BY CopyJobAfter
<1>7. ~Cancel
  <2>1. job \in CopyJobs
    BY DEF IInv, CopyInv
  <2>. QED
    BY <2>1 DEF Cancel, CopyJobs
<1>8. ~UNCHANGED vars
  BY DEF vars
<1>9. Finish \/ ViewFails
  BY <1>2, <1>3, <1>4, <1>5, <1>6, <1>7, <1>8, NextCases
<1>. QED
  BY <1>9, TableBack DEF Finish, ViewFails

\* A rebuild leaves the table of the open archive as it found it: the filter takes back
\* the marks it has noted, and RebuildPckFile the addresses it wrote over, as long as an
\* address fits into the 32 bits it goes through.
THEOREM HandleKept == Spec /\ []AddressesFit => HandleUnchanged
<1>1. IInv /\ DataInv /\ [Next]_vars => [job.pc = "copy" /\ job'.pc # "copy" => table' = job.before]_vars
  BY HandleStep
<1>2. Spec => []IInv
  BY InductiveInvariant
<1>3. Spec /\ []AddressesFit => []DataInv
  BY DataKept
<1>. QED
  BY <1>1, <1>2, <1>3, PTL DEF Spec, HandleUnchanged

LEMMA DataInPlace ==
  ASSUME NEW data \in Seq(Units), NEW r \in Recs, HasData(r, data)
  PROVE  r.at + r.size <= Len(data) /\ SubSeq(data, r.at + 1, r.at + r.size) = DataUnits(r.id, r.size)
<1>1. PICK at \in Nat, n \in Nat : at = r.at /\ n = r.size
  BY BoundsAssumption DEF Recs
<1>2. at + n <= Len(data) /\ \A k \in 1..n : data[at + k] = <<r.id, k>>
  BY <1>1 DEF HasData
<1>3. r.id \in Ids
  BY DEF Recs
<1> DEFINE s == SubSeq(data, at + 1, at + n)
           u == DataUnits(r.id, n)
<1>4. s \in Seq(Units) /\ Len(s) = n /\ \A k \in 1..n : s[k] = data[at + k]
  BY <1>2, PieceIs
<1>5. u \in Seq(Units) /\ Len(u) = n /\ \A k \in 1..n : u[k] = <<r.id, k>>
  BY <1>3, DataUnitsIs
<1>. HIDE DEF s, u
<1>6. s = u
  <2>1. \A k \in 1..n : s[k] = u[k]
    BY <1>2, <1>4, <1>5
  <2>2. s \in Seq(Units) /\ u \in Seq(Units) /\ Len(s) = n /\ Len(u) = n
    BY <1>4, <1>5
  <2>. QED
    BY <2>1, <2>2
<1>. QED
  BY <1>1, <1>2, <1>6 DEF s, u

LEMMA CountOnce ==
  ASSUME NEW index \in Seq(Recs), OnceEach(index)
  PROVE  Cardinality({index[k].id : k \in DOMAIN index}) = Len(index)
<1>1. PICK n \in Nat : n = Len(index) /\ DOMAIN index = 1..n
  OBVIOUS
<1> DEFINE S == {index[k].id : k \in 1..n}
           f == [k \in 1..n |-> index[k].id]
<1>2. f \in [1..n -> S] /\ (\A j, k \in 1..n : f[j] = f[k] => j = k) /\ \A x \in S : \E k \in 1..n : f[k] = x
  BY <1>1 DEF OnceEach
<1>. HIDE DEF f, S
<1>3. ExistsBijection(1..n, S)
  <2>1. f \in Injection(1..n, S)
    BY <1>2 DEF Injection, IsInjective
  <2>2. f \in Surjection(1..n, S)
    BY <1>2 DEF Surjection
  <2>. QED
    BY <2>1, <2>2 DEF ExistsBijection, Bijection
<1>4. Cardinality(S) = n
  BY <1>3, FS_CountingElements
<1>. QED
  BY <1>1, <1>4 DEF S

\* A new archive holds valid entries of the old one, each once and with its data, and
\* all of them but those the filter names, unless it was cancelled: in any order of the
\* threads, and also from an archive that was rebuilt before.
THEOREM RebuildKeepsData == Spec /\ []AddressesFit => []RebuiltWhole
<1>1. IInv /\ DataInv => RebuiltWhole
  <2>. SUFFICES ASSUME IInv, DataInv, job.pc = "done" PROVE RebuiltWhole
    BY DEF RebuiltWhole
  <2> DEFINE valid == {i \in DOMAIN table : ~job.before[i].isInvalid}
             ids == {job.out[k].id : k \in DOMAIN job.out}
  <2>1. /\ job.out \in Seq(Recs) /\ OnceEach(job.out) /\ job.data \in Seq(Units)
        /\ job.copied \subseteq 1..Len(table)
    BY CopyJobIs
  <2>2. DOMAIN job.out = 1..Len(job.out) /\ DOMAIN table = 1..Len(table)
    BY <2>1 DEF IInv, TableInv
  <2>3. Cardinality(ids) = Len(job.out)
    BY <2>1, CountOnce
  <2>4. /\ \A i \in job.copied : /\ ~job.before[i].isInvalid
                                 /\ \E k \in 1..Len(job.out) : SameEntry(job.out[k], disk.index[i])
        /\ \A k \in 1..Len(job.out) : \E i \in job.copied : SameEntry(job.out[k], disk.index[i])
        /\ ~job.stopped => \A i \in 1..Len(table) :
             job.before[i].isInvalid \/ i \in job.copied \/ Filtered(table[i].name)
    BY DEF IInv, CopyInv
  <2>5. ids \subseteq {disk.index[i].id : i \in valid}
    <3>. SUFFICES ASSUME NEW k \in 1..Len(job.out)
                  PROVE  \E i \in valid : job.out[k].id = disk.index[i].id
      BY <2>2
    <3>1. PICK i \in job.copied : SameEntry(job.out[k], disk.index[i])
      BY <2>4
    <3>2. i \in valid
      BY <2>1, <2>2, <2>4
    <3>. QED
      BY <3>1, <3>2 DEF SameEntry
  <2>6. ASSUME NEW k \in DOMAIN job.out
        PROVE  LET r == job.out[k]
               IN /\ r.at + r.size <= Len(job.data)
                  /\ SubSeq(job.data, r.at + 1, r.at + r.size) = DataUnits(r.id, r.size)
    <3>1. job.out[k] \in Recs /\ HasData(job.out[k], job.data)
      BY <2>1, <2>2 DEF DataInv, Whole
    <3>. QED
      BY <2>1, <3>1, DataInPlace
  <2>7. ASSUME ~job.stopped, NEW i \in valid PROVE disk.index[i].id \in ids \/ Filtered(table[i].name)
    <3>1. CASE i \in job.copied
      <4>1. PICK k \in 1..Len(job.out) : SameEntry(job.out[k], disk.index[i])
        BY <2>4, <3>1
      <4>. QED
        BY <2>2, <4>1 DEF SameEntry
    <3>2. CASE i \notin job.copied
      BY <2>2, <2>4, <2>7, <3>2
    <3>. QED
      BY <3>1, <3>2
  <2>. QED
    BY <2>3, <2>5, <2>6, <2>7 DEF RebuiltWhole
<1>2. Spec => []IInv
  BY InductiveInvariant
<1>3. Spec /\ []AddressesFit => []DataInv
  BY DataKept
<1>. QED
  BY <1>1, <1>2, <1>3, PTL

-----------------------------------------------------------------------------
(***************************************************************************)
(* Mounting.  Where no rename gives a file the name of a folder, or the    *)
(* reverse, no operation does, and every index can be mounted again.       *)
(***************************************************************************)
ClashInv == state # "crashed" /\ NoClash(disk.index)

LEMMA InitClash == Init => ClashInv
<1>. SUFFICES ASSUME Init PROVE ClashInv
  OBVIOUS
<1>1. state = "open" /\ disk.index = <<>> /\ Len(<<>>) = 0
  BY DEF Init
<1>. QED
  BY <1>1, EmptyInterval DEF ClashInv, NoClash

LEMMA SaveClash ==
  ASSUME NEW index \in Seq(Recs), NEW data, Save(index, data), NoClash(index)
  PROVE  ClashInv'
<1> DEFINE t == BuildDirTree(index)
<1>1. disk' = [index |-> index, data |-> data] /\ state' = IF t.built THEN "open" ELSE "crashed"
  BY DEF Save
<1>2. t.built
  BY TreeIs DEF TreeKept
<1>. HIDE DEF t
<1>. QED
  BY <1>1, <1>2 DEF ClashInv

\* Names taken over from an index without clashes have none.
LEMMA TakenOver ==
  ASSUME NEW index, NoClash(index), NEW w,
         \A m \in 1..Len(w) : \E i \in 1..Len(index) : w[m].name = index[i].name
  PROVE  NoClash(w)
BY DEF NoClash

LEMMA WrittenNames ==
  ASSUME IInv, NEW t, SameRecords(t), \A i \in 1..Len(table) : t[i].name = table[i].name
  PROVE  /\ Written(t) \in Seq(Recs)
         /\ \A m \in 1..Len(Written(t)) : \E i \in 1..Len(disk.index) : Written(t)[m].name = disk.index[i].name
<1> DEFINE w == Written(t)
<1>1. \A i \in 1..Len(table) : InRecord(t[i].name)
  BY NamesFitIn DEF IInv
<1>2. IsWritten(w, t, Len(table)) /\ IndexOK(w, jobs)
  BY <1>1, WrittenOK DEF IInv
<1>. HIDE DEF w
<1>3. ASSUME NEW m \in 1..Len(w) PROVE \E i \in 1..Len(disk.index) : w[m].name = disk.index[i].name
  <2>1. PICK i \in 1..Len(table) : w[m] = RowRecord(t[i])
    BY <1>2 DEF IsWritten
  <2>2. t[i] \in Rows /\ i \in 1..Len(disk.index) /\ table[i].name = disk.index[i].name
    BY DEF SameRecords, IInv, TableInv
  <2>. QED
    BY <2>1, <2>2, RowRecordIs
<1>. QED
  BY <1>2, <1>3 DEF w, IndexOK

LEMMA BehindBase ==
  ASSUME NEW base \in Seq(Parts), NEW p \in Seq(Parts), NEW q \in Seq(Parts),
         IsStrictPrefix(base \o p, base \o q)
  PROVE  IsStrictPrefix(p, q)
<1>1. PICK b \in Nat, m \in Nat, n \in Nat : b = Len(base) /\ m = Len(p) /\ n = Len(q)
  OBVIOUS
<1>2. PICK P \in Seq(Parts), Q \in Seq(Parts) : P = base \o p /\ Q = base \o q
  <2>1. base \o p \in Seq(Parts)
    OBVIOUS
  <2>2. base \o q \in Seq(Parts)
    OBVIOUS
  <2>. QED
    BY <2>1, <2>2, Zenon
<1>3. /\ Len(P) = b + m /\ \A i \in 1..m : P[b + i] = p[i]
      /\ Len(Q) = b + n /\ \A i \in 1..n : Q[b + i] = q[i]
  BY <1>1, <1>2
<1>4. Len(P) <= Len(Q) /\ \A i \in 1..Len(P) : P[i] = Q[i]
  BY <1>2, PrefixMeans DEF IsStrictPrefix
<1>5. m <= n
  BY <1>3, <1>4
<1>6. ASSUME NEW i \in 1..m PROVE p[i] = q[i]
  <2>1. b + i \in 1..(b + m) /\ i \in 1..n
    BY <1>5
  <2>. QED
    BY <1>3, <1>4, <2>1
<1>7. IsPrefix(p, q)
  BY <1>1, <1>5, <1>6, PrefixMeans
<1>8. p # q
  BY <1>2 DEF IsStrictPrefix
<1>. QED
  BY <1>7, <1>8 DEF IsStrictPrefix

\* FindFileNode refuses a name on the way to a file or behind one.
LEMMA FoundIs ==
  ASSUME IInv, ClashInv, state = "open", NEW base \in Folders, NEW p \in Paths,
         FindFileNode(base, p) # INVALID_NODE,
         NEW i \in 1..Len(disk.index)
  PROVE  ~Clash(disk.index[i].name, base \o p)
<1> DEFINE e == disk.index[i].name
           q == base \o p
           onTheWay == {r \in PathsTo(q) \ {q} : Len(r) > Len(base) /\ r \in DOMAIN nodes}
<1>1. /\ disk.index \in Seq(Recs) /\ IsTree(nodes, Len(disk.index), NamesOf(disk.index))
      /\ NoClash(disk.index)
  BY DEF IInv, DiskInv, IndexOK, TreeInv, ClashInv
<1>2. /\ \A r \in onTheWay : HasChild(r)
      /\ q \in DOMAIN nodes => ~HasChild(q)
  BY DEF FindFileNode
<1>3. e \in Paths /\ e \in Seq(Parts) /\ NamesOf(disk.index)[i] = e
  BY <1>1, NameIs
<1>4. base \in Seq(Parts) /\ p \in Seq(Parts) /\ q \in Seq(Parts) /\ q \in Paths
      /\ Len(q) = Len(base) + Len(p) /\ \A k \in 1..Len(base) : q[k] = base[k]
  <2>1. base \in Seq(Parts) /\ p \in Seq(Parts) /\ p # <<>>
    BY <1>1, FolderIs DEF Paths
  <2>2. PICK b \in Nat, m \in Nat : b = Len(base) /\ m = Len(p) /\ m # 0
    BY <2>1
  <2>3. q \in Seq(Parts) /\ Len(q) = b + m /\ \A k \in 1..b : q[k] = base[k]
    BY <2>1, <2>2
  <2>4. q # <<>>
    BY <2>2, <2>3
  <2>. QED
    BY <2>1, <2>2, <2>3, <2>4 DEF Paths
<1>5. PathsTo(e) \subseteq DOMAIN nodes /\ e \in DOMAIN nodes /\ nodes[e].index # 0
  BY <1>1, <1>3, PathToSelf DEF IsTree
<1>6. ASSUME HasChild(e) PROVE FALSE
  <2>1. PICK r \in DOMAIN nodes : IsStrictPrefix(e, r)
    BY <1>6 DEF HasChild
  <2>2. PICK j \in 1..Len(disk.index) : r \in PathsTo(disk.index[j].name)
    BY <1>1, NodeIs
  <2>3. r \in Seq(Parts) /\ disk.index[j].name \in Seq(Parts)
    BY <1>1, <2>1, NodeIs, NameIs
  <2>4. e \in PathsTo(r) /\ e # r
    BY <1>3, <2>1, <2>3, PrefixIsPath
  <2>5. e \in PathsTo(disk.index[j].name)
    BY <2>2, <2>3, <2>4, PathToPath
  <2>6. e # disk.index[j].name
    <3>. SUFFICES ASSUME e = disk.index[j].name PROVE FALSE
      OBVIOUS
    <3>1. Len(r) \in 1..Len(e) /\ Len(e) \in 1..Len(r)
      BY <1>3, <2>2, <2>3, <2>4, PathToIs
    <3>2. Len(r) = Len(e) /\ e \in PathsTo(e)
      BY <1>3, <3>1, PathToSelf
    <3>. QED
      BY <1>3, <2>2, <2>4, <3>2, SameLength
  <2>7. IsStrictPrefix(e, disk.index[j].name)
    BY <1>3, <2>3, <2>5, <2>6, PrefixIsPath
  <2>. QED
    BY <1>1, <2>7 DEF NoClash, Clash
<1>. HIDE DEF e, q, onTheWay
<1>7. ~IsStrictPrefix(e, q)
  <2>. SUFFICES ASSUME IsStrictPrefix(e, q) PROVE FALSE
    OBVIOUS
  <2>1. e \in PathsTo(q) /\ e # q
    BY <1>3, <1>4, PrefixIsPath
  <2>2. PICK l \in Nat, b \in Nat : l = Len(e) /\ b = Len(base)
    BY <1>3, <1>4
  <2>3. CASE l > b
    <3>1. e \in onTheWay
      BY <1>5, <2>1, <2>2, <2>3 DEF onTheWay
    <3>. QED
      BY <1>2, <1>6, <3>1
  <2>4. CASE l <= b
    <3>1. e \in PathsTo(base)
      <4>1. Len(e) <= Len(base)
        BY <2>2, <2>4
      <4>2. Len(e) \in 1..Len(q) /\ \A k \in 1..Len(e) : e[k] = q[k]
        BY <1>4, <2>1, PathToIs
      <4>3. \A k \in 1..l : k \in 1..b
        BY <2>4
      <4>4. \A k \in 1..Len(e) : e[k] = base[k]
        BY <1>4, <2>2, <4>2, <4>3
      <4>. QED
        BY <1>3, <1>4, <4>1, <4>4, IsPathTo
    <3>2. base \in DOMAIN nodes /\ nodes[base].folder
      <4>1. base # <<>>
        <5>1. l # 0
          BY <1>3, <2>2 DEF Paths
        <5>2. b # 0
          BY <2>4, <5>1
        <5>. QED
          BY <2>2, <5>2
      <4>. QED
        BY <4>1 DEF Folders
    <3>3. e # base
      <4>1. nodes[base].index = 0
        BY <1>1, <3>2, NodeIs
      <4>. QED
        BY <1>5, <4>1
    <3>4. IsStrictPrefix(e, base)
      BY <1>3, <1>4, <3>1, <3>3, PrefixIsPath
    <3>. QED
      BY <1>6, <3>2, <3>4 DEF HasChild
  <2>. QED
    BY <2>2, <2>3, <2>4
<1>8. ~IsStrictPrefix(q, e)
  <2>. SUFFICES ASSUME IsStrictPrefix(q, e) PROVE FALSE
    OBVIOUS
  <2>1. q \in PathsTo(e)
    BY <1>3, <1>4, PrefixIsPath
  <2>2. q \in DOMAIN nodes /\ HasChild(q)
    BY <1>5, <2>1 DEF HasChild
  <2>. QED
    BY <1>2, <2>2
<1>. QED
  BY <1>7, <1>8 DEF Clash, e, q

LEMMA AddClash ==
  ASSUME IInv, ClashInv, NEW base \in Folders, NEW names \in SUBSET AddedNames,
         NEW sizes \in [names -> DataSizes], Add(base, names, sizes)
  PROVE  ClashInv'
<1>1. CASE (\E P \in SUBSET names : table' = Marking(base, names, P)) /\ UNCHANGED <<disk, nodes, state, job>>
  BY <1>1 DEF ClashInv
<1>2. CASE /\ \A p \in names : Found(base, names)[p] # INVALID_NODE
           /\ Save(Added(base, names, sizes).index, Added(base, names, sizes).data)
  <2> DEFINE t == Marking(base, names, names)
             a == Added(base, names, sizes)
             w == Written(t)
             n == Cardinality(names)
  <2>1. SameRecords(t) /\ \A i \in 1..Len(table) : t[i].name = table[i].name
    BY MarkingIs, RemarkedIs DEF IInv
  <2>2. /\ w \in Seq(Recs)
        /\ \A m \in 1..Len(w) : \E i \in 1..Len(disk.index) : w[m].name = disk.index[i].name
    BY <2>1, WrittenNames
  <2>3. StoredUpTo(a, [index |-> w, data |-> disk.data], n, base, names) /\ n \in Nat
    BY AddedIs
  <2>4. Save(a.index, a.data)
    BY <1>2
  <2>5. state = "open" /\ base \in Seq(Parts) /\ names \subseteq Paths
    <3>1. state = "open"
      BY AddIs DEF Begin
    <3>. QED
      BY <3>1, FolderIs, NamesAssumption DEF Paths
  <2>6. ASSUME NEW p \in names, NEW i \in 1..Len(disk.index) PROVE ~Clash(disk.index[i].name, base \o p)
    <3>1. FindFileNode(base, p) # INVALID_NODE
      BY <1>2 DEF Found
    <3>. QED
      BY <2>5, <3>1, FoundIs
  <2>7. ASSUME NEW p \in names, NEW q \in names PROVE ~Clash(base \o p, base \o q)
    <3>1. ~Clash(p, q)
      BY AddIs
    <3>2. p \in Seq(Parts) /\ q \in Seq(Parts)
      BY <2>5 DEF Paths
    <3>. QED
      BY <2>5, <3>1, <3>2, BehindBase DEF Clash
  <2>. HIDE DEF t, a, w, n
  <2>8. PICK m \in Nat : m = Len(w)
    BY <2>2
  <2>9. /\ a.index \in Seq(Recs) /\ Len(a.index) = m + n
        /\ \A i \in 1..m : a.index[i] = w[i]
        /\ \A i \in (m + 1)..(m + n) : \E p \in names : a.index[i].name = base \o p
    BY <2>3, <2>8 DEF StoredUpTo
  <2>10. \A i \in 1..(m + n) : i \in 1..m \/ i \in (m + 1)..(m + n)
    BY <2>3, <2>8
  <2>11. ASSUME NEW i \in 1..Len(a.index)
         PROVE  \/ \E j \in 1..Len(disk.index) : a.index[i].name = disk.index[j].name
                \/ \E p \in names : a.index[i].name = base \o p
    <3>1. CASE i \in 1..m
      BY <2>2, <2>8, <2>9, <3>1
    <3>2. CASE i \in (m + 1)..(m + n)
      BY <2>9, <3>2
    <3>. QED
      BY <2>9, <2>10, <3>1, <3>2
  <2>12. \A i, j \in 1..Len(disk.index) : ~Clash(disk.index[i].name, disk.index[j].name)
    BY DEF ClashInv, NoClash
  <2>13. \A x, y : Clash(x, y) <=> Clash(y, x)
    BY DEF Clash
  <2>14. NoClash(a.index)
    <3>. SUFFICES ASSUME NEW i \in 1..Len(a.index), NEW j \in 1..Len(a.index)
                  PROVE  ~Clash(a.index[i].name, a.index[j].name)
      BY DEF NoClash
    <3>1. CASE \E k \in 1..Len(disk.index) : a.index[i].name = disk.index[k].name
      BY <2>6, <2>11, <2>12, <3>1
    <3>2. CASE \E p \in names : a.index[i].name = base \o p
      BY <2>6, <2>7, <2>11, <2>13, <3>2
    <3>. QED
      BY <2>11, <3>1, <3>2
  <2>. QED
    BY <2>4, <2>9, <2>14, SaveClash
<1>. QED
  BY <1>1, <1>2, AddIs

LEMMA RenameClash ==
  ASSUME IInv, ~RenamesMayClash, NEW t, Rename(t), SameRecords(t), \A i \in 1..Len(table) : InRecord(t[i].name)
  PROVE  ClashInv'
<1> DEFINE w == Written(t)
<1>1. (\A i, j \in DOMAIN w : ~Clash(w[i].name, w[j].name)) /\ Save(w, disk.data)
  BY DEF Rename
<1>2. w \in Seq(Recs)
  BY WrittenOK DEF IInv, IndexOK
<1>. HIDE DEF w
<1>3. NoClash(w)
  <2>1. DOMAIN w = 1..Len(w)
    BY <1>2
  <2>. QED
    BY <1>1, <2>1 DEF NoClash
<1>. QED
  BY <1>1, <1>2, <1>3, SaveClash

LEMMA EditClash ==
  ASSUME IInv, ClashInv, ~RenamesMayClash, Edit
  PROVE  ClashInv'
<1>1. ASSUME NEW q \in DOMAIN nodes, Delete(q) PROVE ClashInv'
  <2>1. Save(Written(Without(q)), disk.data)
    BY <1>1 DEF Delete, Without, Gone
  <2>2. SameRecords(Without(q)) /\ \A i \in 1..Len(table) : Without(q)[i].name = table[i].name
    BY WithoutIs, RemarkedIs DEF IInv
  <2>3. /\ Written(Without(q)) \in Seq(Recs)
        /\ \A m \in 1..Len(Written(Without(q))) : \E i \in 1..Len(disk.index) :
             Written(Without(q))[m].name = disk.index[i].name
    BY <2>2, WrittenNames
  <2>4. NoClash(disk.index)
    BY DEF ClashInv
  <2>5. NoClash(Written(Without(q)))
    BY <2>3, <2>4, TakenOver
  <2>. QED
    BY <2>1, <2>3, <2>5, SaveClash
<1>2. ASSUME NEW q \in DOMAIN nodes, NEW part \in Parts, RenameNode(q, part) PROVE ClashInv'
  <2>1. CASE Tear
    BY <2>1 DEF Tear, ClashInv
  <2>2. CASE ~Overruns(q, NewNames(q, part)) /\ Rename(RenameNodeAs(q, part))
    <3>1. state = "open"
      BY <2>2 DEF Rename, Begin
    <3>. QED
      BY <2>2, <3>1, RenameNodeIs, RenameClash
  <2>. QED
    BY <1>2, <2>1, <2>2, RenameNodeCases
<1>3. ASSUME NEW i \in DOMAIN table, NEW p \in SearchNames, RenameIndex(i, p) PROVE ClashInv'
  <2>1. InRecord(p) /\ Rename(RenameIndexAs(i, p))
    BY <1>3 DEF RenameIndex, RenameIndexAs, InRecord
  <2>. QED
    BY <2>1, RenameIndexIs, RenameClash
<1>. QED
  BY <1>1, <1>2, <1>3, AddClash DEF Edit

LEMMA OpenRebuiltClash ==
  ASSUME IInv, ClashInv, OpenRebuilt
  PROVE  ClashInv'
<1>1. job.pc = "done" /\ Save(job.out, job.data)
  BY DEF OpenRebuilt
<1>2. job.out \in Seq(Recs) /\ job.copied \subseteq 1..Len(table)
  BY <1>1, CopyJobIs
<1>3. \A k \in 1..Len(job.out) : \E i \in job.copied : SameEntry(job.out[k], disk.index[i])
  BY <1>1 DEF IInv, CopyInv
<1>4. Len(table) = Len(disk.index)
  BY DEF IInv, TableInv
<1>5. NoClash(job.out)
  <2>1. PICK w, index : w = job.out /\ index = disk.index
    OBVIOUS
  <2>2. job.copied \subseteq 1..Len(index)
    BY <1>2, <1>4, <2>1
  <2>3. \A m \in 1..Len(w) : \E i \in 1..Len(index) : w[m].name = index[i].name
    BY <1>3, <2>1, <2>2 DEF SameEntry
  <2>. QED
    BY <2>1, <2>3, TakenOver DEF ClashInv
<1>. QED
  BY <1>1, <1>2, <1>5, SaveClash

LEMMA NextClash == IInv /\ ClashInv /\ ~RenamesMayClash /\ [Next]_vars => ClashInv'
<1>. SUFFICES ASSUME IInv, ClashInv, ~RenamesMayClash, [Next]_vars PROVE ClashInv'
  OBVIOUS
<1>1. CASE Edit
  BY <1>1, EditClash
<1>2. CASE UNCHANGED <<disk, state>>
  BY <1>2 DEF ClashInv
<1>3. CASE OpenRebuilt
  BY <1>3, OpenRebuiltClash
<1>4. CASE \E kind \in {"rebuild", "recompress", "strip"}, script \in Scripts \cup {<<>>} : Start(kind, script)
  BY <1>2, <1>4 DEF Start
<1>5. CASE \E i \in DOMAIN table : Copy(i)
  BY <1>2, <1>5 DEF Copy
<1>6. CASE Aside
  BY <1>2, <1>6, AsideIs
<1>7. CASE Cancel \/ Finish \/ ViewFails
  BY <1>2, <1>7 DEF Cancel, Finish, ViewFails, Return
<1>8. CASE UNCHANGED vars
  BY <1>2, <1>8 DEF vars
<1>. QED
  BY <1>1, <1>3, <1>4, <1>5, <1>6, <1>7, <1>8, NextCases

LEMMA NamesApart == ~RenamesMayClash => (Spec => []ClashInv)
<1>1. Init => ClashInv
  BY InitClash
<1>2. IInv /\ ClashInv /\ ~RenamesMayClash /\ [Next]_vars => ClashInv'
  BY NextClash
<1>3. Spec => []IInv
  BY InductiveInvariant
<1>4. ~RenamesMayClash => []~RenamesMayClash
  OBVIOUS
<1>. QED
  BY <1>1, <1>2, <1>3, <1>4, PTL DEF Spec

\* What the program writes it can open again: as long as no rename gives a file the name
\* of a folder, AddFileToNode never comes to mark a record that is not there.
THEOREM AlwaysMountsAgain == ~RenamesMayClash => (Spec => []MountsAgain)
<1>1. ClashInv => MountsAgain
  BY DEF ClashInv, MountsAgain
<1>2. ~RenamesMayClash => (Spec => []ClashInv)
  BY NamesApart
<1>. QED
  BY <1>1, <1>2, PTL

\* Every valid record of a mounted archive is found at its name and once, by the walk
\* over folders the filter and extraction use: none is hidden below a file.
THEOREM AllShown == ~RenamesMayClash => (Spec => []TreeShowsAll)
<1>1. IInv /\ ClashInv => TreeShowsAll
  <2>. SUFFICES ASSUME IInv, ClashInv PROVE TreeShowsAll
    OBVIOUS
  <2> DEFINE t == BuildDirTree(disk.index)
             shown == {q \in DOMAIN t.nodes :
                         ~t.nodes[q].folder /\ \A f \in PathsTo(q) \ {q} : t.nodes[f].folder}
  <2>1. disk.index \in Seq(Recs) /\ NoClash(disk.index)
    BY DEF IInv, DiskInv, IndexOK, ClashInv
  <2>2. PICK n \in Nat : n = Len(disk.index)
    BY <2>1
  <2>3. Shape(t, disk.index) /\ IsTree(t.nodes, n, NamesOf(disk.index)) /\ MarkedAt(t, disk.index, n)
    BY <2>1, <2>2, TreeIs DEF TreeKept, Built
  <2>. HIDE DEF t
  <2>4. DOMAIN t.table = 1..n /\ \A i \in 1..n : t.table[i].name = disk.index[i].name
    BY <2>2, <2>3 DEF Shape, TableOf, RowOf
  <2>5. \A i \in 1..n : /\ NamesOf(disk.index)[i] = disk.index[i].name
                        /\ disk.index[i].name \in Paths /\ disk.index[i].name \in Seq(Parts)
    BY <2>1, <2>2, NameIs
  <2>6. ASSUME NEW q \in DOMAIN t.nodes, ~t.nodes[q].folder
        PROVE  t.nodes[q].index \in 1..n /\ disk.index[t.nodes[q].index].name = q
    <3>1. t.nodes[q].index # 0 /\ NamesOf(disk.index)[t.nodes[q].index] = q
      BY <2>3, <2>6 DEF IsTree
    <3>2. t.nodes[q].index \in 1..n
      BY <2>2, <2>3, <3>1 DEF Shape
    <3>. QED
      BY <2>5, <3>1, <3>2
  <2>7. ASSUME NEW i \in 1..n PROVE t.table[i].isInvalid <=> t.nodes[disk.index[i].name].index # i
    BY <2>3 DEF MarkedAt
  <2>8. ASSUME NEW q \in shown
        PROVE  /\ t.nodes[q].index \in DOMAIN t.table /\ ~t.table[t.nodes[q].index].isInvalid
               /\ t.table[t.nodes[q].index].name = q
    <3>1. t.nodes[q].index \in 1..n /\ disk.index[t.nodes[q].index].name = q
      BY <2>6
    <3>. QED
      BY <2>4, <2>7, <3>1
  <2>9. ASSUME NEW i \in DOMAIN t.table, ~t.table[i].isInvalid
        PROVE  \E q \in shown : t.nodes[q].index = i
    <3> DEFINE q == disk.index[i].name
    <3>1. i \in 1..n /\ q \in Paths /\ q \in Seq(Parts) /\ NamesOf(disk.index)[i] = q
      BY <2>4, <2>5
    <3>2. t.nodes[q].index = i
      BY <2>7, <2>9, <3>1
    <3>. HIDE DEF q
    <3>3. PathsTo(q) \subseteq DOMAIN t.nodes
      BY <2>3, <3>1 DEF IsTree
    <3>4. q \in DOMAIN t.nodes /\ ~t.nodes[q].folder
      <4>1. q \in DOMAIN t.nodes
        BY <3>1, <3>3, PathToSelf
      <4>2. t.nodes[q].folder <=> t.nodes[q].index = 0
        BY <2>3, <4>1 DEF IsTree
      <4>3. i # 0
        BY <3>1
      <4>. QED
        BY <3>2, <4>1, <4>2, <4>3
    <3>5. ASSUME NEW f \in PathsTo(q) \ {q} PROVE t.nodes[f].folder
      <4>. SUFFICES ASSUME ~t.nodes[f].folder PROVE FALSE
        OBVIOUS
      <4>1. t.nodes[f].index \in 1..n /\ disk.index[t.nodes[f].index].name = f
        BY <2>6, <3>3
      <4>2. f \in Paths
        BY <3>1, PathToIs
      <4>3. IsStrictPrefix(f, q)
        BY <3>1, <4>2, PrefixIsPath
      <4>. QED
        BY <2>1, <2>2, <3>1, <4>1, <4>3 DEF NoClash, Clash, q
    <3>. QED
      BY <3>2, <3>4, <3>5
  <2>10. {t.nodes[q].index : q \in shown} = {i \in DOMAIN t.table : ~t.table[i].isInvalid}
    BY <2>8, <2>9
  <2>11. \A q \in shown : t.table[t.nodes[q].index].name = q
    BY <2>8
  <2>. QED
    BY <2>10, <2>11 DEF TreeShowsAll, t
<1>2. Spec => []IInv
  BY InductiveInvariant
<1>3. ~RenamesMayClash => (Spec => []ClashInv)
  BY NamesApart
<1>. QED
  BY <1>1, <1>2, <1>3, PTL
-----------------------------------------------------------------------------
(***************************************************************************)
(* Names.  A step that keeps the index keeps the names, and one that       *)
(* writes it puts in names that were there, or have been measured.         *)
(***************************************************************************)
IndexFits(index) == \A k \in 1..Len(index) : Fits(index[k].name)

LEMMA IndexNames ==
  ASSUME IInv
  PROVE  /\ AllFit <=> state # "torn" /\ IndexFits(disk.index)
         /\ DOMAIN table = 1..Len(disk.index)
         /\ \A i \in DOMAIN table : table[i].name = disk.index[i].name
BY DEF IInv, TableInv, AllFit, IndexFits

LEMMA NextIndexNames ==
  ASSUME IInv'
  PROVE  /\ state' # "torn" /\ IndexFits(disk'.index) => AllFit'
         /\ DOMAIN table' = 1..Len(disk'.index)
         /\ \A i \in DOMAIN table' : table'[i].name = disk'.index[i].name
BY DEF IInv, TableInv, AllFit, IndexFits

LEMMA SaveIs ==
  ASSUME NEW index, NEW data, Save(index, data)
  PROVE  disk'.index = index /\ state' # "torn"
<1>1. disk' = [index |-> index, data |-> data] /\ (state' = "open" \/ state' = "crashed")
  BY DEF Save
<1>. QED
  BY <1>1

\* What is written has the names of the table it is taken from.
LEMMA WrittenFrom ==
  ASSUME IInv, NEW t, SameRecords(t), \A i \in 1..Len(table) : InRecord(t[i].name),
         NEW m \in 1..Len(Written(t))
  PROVE  \E i \in 1..Len(table) : Written(t)[m].name = t[i].name
<1>1. IsWritten(Written(t), t, Len(table))
  BY WrittenOK DEF IInv
<1>2. PICK i \in 1..Len(table) : Written(t)[m] = RowRecord(t[i])
  BY <1>1 DEF IsWritten
<1>3. t[i] \in Rows
  BY DEF SameRecords
<1>. QED
  BY <1>2, <1>3, RowRecordIs

LEMMA WriteFits ==
  ASSUME IInv, IInv', NEW t, SameRecords(t), \A i \in 1..Len(table) : InRecord(t[i].name),
         \A i \in 1..Len(table) : Fits(t[i].name), Save(Written(t), disk.data)
  PROVE  AllFit'
<1>1. IndexFits(Written(t))
  BY WrittenFrom DEF IndexFits
<1>. QED
  BY <1>1, SaveIs, NextIndexNames

LEMMA AddFits ==
  ASSUME IInv, IInv', AllFit, NEW base \in Folders, NEW names \in SUBSET AddedNames,
         NEW sizes \in [names -> DataSizes], Add(base, names, sizes)
  PROVE  AllFit'
<1>1. state # "torn" /\ IndexFits(disk.index)
  BY IndexNames
<1>2. CASE UNCHANGED <<disk, nodes, state, job>>
  BY <1>1, <1>2, NextIndexNames
<1>3. CASE Save(Added(base, names, sizes).index, Added(base, names, sizes).data)
  <2> DEFINE t == Marking(base, names, names)
             a == Added(base, names, sizes)
             w == Written(t)
             n == Cardinality(names)
  <2>1. SameRecords(t) /\ \A i \in 1..Len(table) : t[i].name = table[i].name
    BY MarkingIs, RemarkedIs DEF IInv
  <2>2. /\ w \in Seq(Recs)
        /\ \A m \in 1..Len(w) : \E i \in 1..Len(disk.index) : w[m].name = disk.index[i].name
    BY <2>1, WrittenNames
  <2>3. StoredUpTo(a, [index |-> w, data |-> disk.data], n, base, names) /\ n \in Nat
    BY AddedIs
  <2>4. Save(a.index, a.data)
    BY <1>3
  <2>5. \A p \in names : Fits(base \o p)
    BY AddIs DEF Fits
  <2>. HIDE DEF t, a, w, n
  <2>6. PICK m \in Nat : m = Len(w)
    BY <2>2
  <2>7. /\ a.index \in Seq(Recs) /\ Len(a.index) = m + n
        /\ \A i \in 1..m : a.index[i] = w[i]
        /\ \A i \in (m + 1)..(m + n) : \E p \in names : a.index[i].name = base \o p
    BY <2>3, <2>6 DEF StoredUpTo
  <2>8. \A i \in 1..(m + n) : i \in 1..m \/ i \in (m + 1)..(m + n)
    BY <2>3, <2>6
  <2>9. ASSUME NEW i \in 1..(m + n) PROVE Fits(a.index[i].name)
    <3>1. CASE i \in 1..m
      BY <1>1, <2>2, <2>6, <2>7, <3>1 DEF IndexFits
    <3>2. CASE i \in (m + 1)..(m + n)
      <4>1. PICK p \in names : a.index[i].name = base \o p
        BY <2>7, <3>2
      <4>. QED
        BY <2>5, <4>1, Zenon
    <3>. QED
      BY <2>8, <3>1, <3>2
  <2>10. IndexFits(a.index)
    BY <2>7, <2>9 DEF IndexFits
  <2>. QED
    BY <2>4, <2>10, SaveIs, NextIndexNames
<1>. QED
  BY <1>2, <1>3, AddIs

\* A name from the list of a search fits, or fills its record to the last byte.
LEMMA RenameIndexFits ==
  ASSUME IInv, IInv', AllFit, NEW i \in DOMAIN table, NEW p \in SearchNames, RenameIndex(i, p)
  PROVE  AllFit' \/ FilledBySearch'
<1> DEFINE t == RenameIndexAs(i, p)
<1>1. InRecord(p) /\ Save(Written(t), disk.data)
  BY DEF RenameIndex, RenameIndexAs, Rename, InRecord
<1>2. SameRecords(t) /\ \A j \in 1..Len(table) : InRecord(t[j].name)
  BY <1>1, RenameIndexIs
<1>3. ASSUME NEW j \in 1..Len(table) PROVE Fits(t[j].name) \/ t[j].name = p
  <2>1. table[j] \in Rows /\ DOMAIN table = 1..Len(table) /\ Fits(table[j].name)
    BY DEF IInv, TableInv, AllFit
  <2>2. CASE j = i
    <3>1. t[j] = [table[j] EXCEPT !.name = p]
      BY <2>1, <2>2 DEF RenameIndexAs, Renamed
    <3>. QED
      BY <2>1, <3>1 DEF Rows
  <2>3. CASE j # i
    BY <2>1, <2>3 DEF RenameIndexAs, Renamed
  <2>. QED
    BY <2>2, <2>3
<1>. HIDE DEF t
<1>4. CASE Fits(p)
  BY <1>1, <1>2, <1>3, <1>4, WriteFits
<1>5. CASE ~Fits(p)
  <2>1. NameSize(p) = MAX_PATH_PCK_256
    <3>1. NameSize(p) \in Int /\ MAX_PATH_PCK_256 \in Int
      BY NameSizeIsInt, NamesAssumption
    <3>. QED
      BY <1>1, <1>5, <3>1 DEF InRecord, Fits
  <2>2. disk'.index = Written(t) /\ state' # "torn"
    BY <1>1, SaveIs
  <2>3. ASSUME NEW m \in DOMAIN table' PROVE Fits(table'[m].name) \/ table'[m].name = p
    <3>1. m \in 1..Len(Written(t)) /\ table'[m].name = Written(t)[m].name
      BY <2>2, NextIndexNames
    <3>2. PICK j \in 1..Len(table) : Written(t)[m].name = t[j].name
      BY <1>2, <3>1, WrittenFrom
    <3>. QED
      BY <1>3, <3>1, <3>2
  <2>. QED
    BY <2>1, <2>2, <2>3 DEF FilledBySearch, Fits
<1>. QED
  BY <1>4, <1>5

LEMMA EditFits ==
  ASSUME IInv, IInv', AllFit, Edit
  PROVE  AllFit' \/ FilledBySearch'
<1>1. \A i \in 1..Len(table) : Fits(table[i].name)
  BY DEF AllFit, IInv, TableInv
<1>2. ASSUME NEW q \in DOMAIN nodes, Delete(q) PROVE AllFit'
  <2>1. Save(Written(Without(q)), disk.data)
    BY <1>2 DEF Delete, Without, Gone
  <2>2. SameRecords(Without(q)) /\ \A i \in 1..Len(table) : Without(q)[i].name = table[i].name
    BY WithoutIs, RemarkedIs DEF IInv
  <2>3. \A i \in 1..Len(table) : InRecord(Without(q)[i].name)
    BY <2>2, NamesFitIn DEF IInv
  <2>. QED
    BY <1>1, <2>1, <2>2, <2>3, WriteFits
<1>3. ASSUME NEW q \in DOMAIN nodes, NEW part \in Parts, RenameNode(q, part) PROVE AllFit'
  <2>1. RoomFor(q, part) /\ state = "open"
    BY <1>3, RenameNodeCases DEF Tear, Rename, Begin
  <2>2. /\ ~Overruns(q, NewNames(q, part))
        /\ \A j \in 1..Len(table) : Fits(RenameNodeAs(q, part)[j].name)
    BY <1>1, <2>1, RenameNodeFits
  <2>3. Save(Written(RenameNodeAs(q, part)), disk.data)
    BY <1>3, <2>2, RenameNodeCases DEF Rename
  <2>. QED
    BY <2>1, <2>2, <2>3, RenameNodeIs, WriteFits
<1>. QED
  BY <1>2, <1>3, AddFits, RenameIndexFits DEF Edit

LEMMA OpenRebuiltFits ==
  ASSUME IInv, IInv', AllFit, OpenRebuilt
  PROVE  AllFit'
<1>1. job.pc = "done" /\ Save(job.out, job.data)
  BY DEF OpenRebuilt
<1>2. job.copied \subseteq 1..Len(disk.index)
  BY <1>1, CopyJobIs DEF IInv, TableInv
<1>3. \A k \in 1..Len(job.out) : \E i \in job.copied : SameEntry(job.out[k], disk.index[i])
  BY <1>1 DEF IInv, CopyInv
<1>4. IndexFits(disk.index)
  BY IndexNames
<1>5. IndexFits(job.out)
  BY <1>2, <1>3, <1>4 DEF IndexFits, SameEntry
<1>. QED
  BY <1>1, <1>5, SaveIs, NextIndexNames

LEMMA NextFits == IInv /\ IInv' /\ [Next]_vars => (AllFit => AllFit' \/ FilledBySearch')
<1>. SUFFICES ASSUME IInv, IInv', [Next]_vars, AllFit PROVE AllFit' \/ FilledBySearch'
  OBVIOUS
<1>1. CASE Edit
  BY <1>1, EditFits
<1>2. CASE UNCHANGED <<disk, state>>
  <2>1. state # "torn" /\ IndexFits(disk.index)
    BY IndexNames
  <2>. QED
    BY <1>2, <2>1, NextIndexNames
<1>3. CASE OpenRebuilt
  BY <1>3, OpenRebuiltFits
<1>4. CASE \E kind \in {"rebuild", "recompress", "strip"}, script \in Scripts \cup {<<>>} : Start(kind, script)
  BY <1>2, <1>4 DEF Start
<1>5. CASE \E i \in DOMAIN table : Copy(i)
  BY <1>2, <1>5 DEF Copy
<1>6. CASE Aside
  BY <1>2, <1>6, AsideIs
<1>7. CASE Cancel \/ Finish \/ ViewFails
  BY <1>2, <1>7 DEF Cancel, Finish, ViewFails, Return
<1>8. CASE UNCHANGED vars
  BY <1>2, <1>8 DEF vars
<1>. QED
  BY <1>1, <1>3, <1>4, <1>5, <1>6, <1>7, <1>8, NextCases

\* From an archive whose names all fit, no operation makes one that does not, also not
\* the longest below a folder that is renamed, nor does any cut one off: RenameNode asks
\* for the room the node has left, and AddFileToNode keeps in it the least of all names
\* below.  The one exception is the list of a search, where RenameIndex accepts, for names
\* of any size, one that fills the record; what it leaves is that name alone.
THEOREM NamesAlwaysFit == Spec => NamesFit
<1>1. IInv /\ IInv' /\ [Next]_vars => [AllFit => AllFit' \/ FilledBySearch']_vars
  BY NextFits
<1>2. Spec => []IInv
  BY InductiveInvariant
<1>. QED
  BY <1>1, <1>2, PTL DEF Spec, NamesFit
=============================================================================
