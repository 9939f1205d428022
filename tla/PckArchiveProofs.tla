-------------------------- MODULE PckArchiveProofs --------------------------
(***************************************************************************)
(* What PckArchive keeps, for any number of files and names, with proofs:  *)
(* types and the operation lock first; then where things lie in the files, *)
(* and what the open handle knows of it - the records of a readable file   *)
(* name places below its index, an operation writes only behind what the   *)
(* file or the handle lists, and adding files never makes an archive       *)
(* unreadable.                                                             *)
(***************************************************************************)
EXTENDS PckArchive, FiniteSetTheorems, SequenceTheorems, TLAPS

(***************************************************************************)
(* Files and the operations on them.                                       *)
(***************************************************************************)
\* A file of n units.
LEMMA FileOf ==
  ASSUME NEW n \in Nat, NEW d \in [0..(n - 1) -> Units]
  PROVE  IsFile(d) /\ Size(d) = n
<1>1. Cardinality(0..(n - 1)) = n
  BY FS_Interval
<1>. QED
  BY <1>1 DEF IsFile, Size

LEMMA EmptyFile == IsFile(<<>>) /\ Size(<<>>) = 0
<1>1. <<>> \in [0..(0 - 1) -> Units]
  OBVIOUS
<1>. QED
  BY <1>1, FileOf

LEMMA UnitTypes ==
  /\ \A n : HeadUnit(n) \in Units <=> n \in Nat \ {0}
  /\ \A n \in Names, j \in 1..MaxJobs : DataUnit(n, j) \in Units
  /\ \A n \in Names, a \in Nat : IndexUnit(n, a) \in IndexUnits
  /\ \A e \in Nat \ {0}, c \in Nat : TailUnit(e, c) \in Units
  /\ Blank \in Units
  /\ IndexUnits \subseteq Units
BY DEF HeadUnit, DataUnit, IndexUnit, TailUnit, Blank, Units, IndexUnits, Addresses

\* The kind of a unit tells its fields.
LEMMA UnitKinds ==
  ASSUME NEW u \in Units
  PROVE  /\ u.kind \in {"head", "data", "index", "tail", "blank"}
         /\ u.kind = "head" => u.size \in Nat \ {0}
         /\ u.kind = "data" => u.name \in Names /\ u.job \in 1..MaxJobs
         /\ u.kind = "index" => u \in IndexUnits /\ u.name \in Names /\ u.at \in Nat
         /\ u.kind = "tail" => u.entry \in Nat \ {0} /\ u.count \in Nat
BY DEF Units, IndexUnits, Blank, Addresses

LEMMA Write2File ==
  ASSUME NEW d, IsFile(d), NEW at \in Nat, NEW u \in Units
  PROVE  /\ IsFile(Write2(d, at, u))
         /\ Size(Write2(d, at, u)) = Larger(Size(d), at + 1)
         /\ Write2(d, at, u)[at] = u
         /\ \A a \in 0..(Size(d) - 1) : a # at => Write2(d, at, u)[a] = d[a]
         /\ \A a \in 0..(at - 1) : a >= Size(d) => Write2(d, at, u)[a] = Blank
<1>. DEFINE n == Larger(Size(d), at + 1)
            e == Write2(d, at, u)
<1>1. n \in Nat /\ Size(d) \in Nat /\ n - 1 = Larger(Size(d) - 1, at)
  BY DEF IsFile, Larger
<1>2. e = [a \in 0..(n - 1) |-> IF a = at THEN u ELSE IF a < Size(d) THEN d[a] ELSE Blank]
  BY <1>1 DEF Write2
<1>3. \A a \in 0..(n - 1) : a < Size(d) => d[a] \in Units
  BY <1>1 DEF IsFile
<1>4. e \in [0..(n - 1) -> Units]
  <2>. HIDE DEF n
  <2>. QED  BY <1>1, <1>2, <1>3, UnitTypes
<1>5. IsFile(e) /\ Size(e) = n
  <2>. HIDE DEF n, e
  <2>. QED  BY <1>1, <1>4, FileOf
<1>6. \A a \in Nat : a < Size(d) \/ a <= at => a \in 0..(n - 1)
  BY <1>1 DEF Larger
<1>7. /\ e[at] = u
      /\ \A a \in 0..(Size(d) - 1) : a # at => e[a] = d[a]
      /\ \A a \in 0..(at - 1) : a >= Size(d) => e[a] = Blank
  <2>. HIDE DEF n, e
  <2>. QED  BY <1>1, <1>2, <1>6
<1>. QED
  BY <1>5, <1>7

LEMMA CutLemma ==
  ASSUME NEW d, IsFile(d), NEW n \in Nat
  PROVE  /\ IsFile(SetEndOfFile(d, n))
         /\ Size(SetEndOfFile(d, n)) = n
         /\ \A a \in 0..(n - 1) :
              SetEndOfFile(d, n)[a] = IF a < Size(d) THEN d[a] ELSE Blank
<1>. DEFINE e == SetEndOfFile(d, n)
<1>1. e = [a \in 0..(n - 1) |-> IF a < Size(d) THEN d[a] ELSE Blank]
  BY DEF SetEndOfFile
<1>2. \A a \in 0..(n - 1) : a < Size(d) => d[a] \in Units
  BY DEF IsFile
<1>. HIDE DEF e
<1>3. e \in [0..(n - 1) -> Units]
  BY <1>1, <1>2, UnitTypes
<1>4. IsFile(e) /\ Size(e) = n
  BY <1>3, FileOf
<1>5. \A a \in 0..(n - 1) : e[a] = IF a < Size(d) THEN d[a] ELSE Blank
  BY <1>1
<1>. QED
  BY <1>4, <1>5 DEF e

\* What mapping a file adds is blank.
Grown(d, e) ==
  /\ IsFile(e) /\ Size(e) >= Size(d)
  /\ \A a \in 0..(Size(d) - 1) : e[a] = d[a]
  /\ \A a \in Size(d)..(Size(e) - 1) : e[a] = Blank

LEMMA MappingLemma ==
  ASSUME NEW d, IsFile(d)
  PROVE  Grown(d, Mapping(d))
<1>. DEFINE n == Larger(Size(d), 1) + 1
<1>1. Size(d) \in Nat /\ n \in Nat /\ n > Size(d)
  BY DEF IsFile, Larger
<1>2. /\ IsFile(SetEndOfFile(d, n))
      /\ Size(SetEndOfFile(d, n)) = n
      /\ \A a \in 0..(n - 1) :
           SetEndOfFile(d, n)[a] = IF a < Size(d) THEN d[a] ELSE Blank
  <2>. HIDE DEF n
  <2>. QED  BY <1>1, CutLemma
<1>3. Mapping(d) = SetEndOfFile(d, n)
  BY DEF Mapping
<1>. HIDE DEF n
<1>. QED
  BY <1>1, <1>2, <1>3 DEF Grown

(***************************************************************************)
(* The records that stay, in their order.                                  *)
(***************************************************************************)
Rank(I, i) == Cardinality({j \in I : j <= i})

LEMMA RankLemma ==
  ASSUME NEW n \in Nat, NEW I \in SUBSET (1..n)
  PROVE  /\ IsFiniteSet(I) /\ Cardinality(I) \in 0..n
         /\ \A i \in I : Rank(I, i) \in 1..Cardinality(I)
         /\ \A i, j \in I : Rank(I, i) = Rank(I, j) => i = j
         /\ \A i, j \in I : i < j => Rank(I, i) < Rank(I, j)
         /\ \A k \in 1..Cardinality(I) : \E i \in I : Rank(I, i) = k
<1>. DEFINE Upto(i) == {j \in I : j <= i}
<1>1. IsFiniteSet(I) /\ Cardinality(I) \in Nat /\ Cardinality(I) <= n
  <2>1. IsFiniteSet(1..n) /\ Cardinality(1..n) = n
    BY FS_Interval
  <2>2. IsFiniteSet(I) /\ Cardinality(I) <= n
    BY <2>1, FS_Subset
  <2>. QED  BY <2>2, FS_CardinalityType
<1>2. \A i \in I : IsFiniteSet(Upto(i)) /\ Cardinality(Upto(i)) \in 1..Cardinality(I)
  <2>. SUFFICES ASSUME NEW i \in I
                PROVE  IsFiniteSet(Upto(i)) /\ Cardinality(Upto(i)) \in 1..Cardinality(I)
    OBVIOUS
  <2>1. Upto(i) \in SUBSET I /\ i \in Upto(i)
    OBVIOUS
  <2>. HIDE DEF Upto
  <2>2. IsFiniteSet(Upto(i)) /\ Cardinality(Upto(i)) <= Cardinality(I)
    BY <1>1, <2>1, FS_Subset
  <2>3. Cardinality(Upto(i)) # 0
    BY <2>1, <2>2, FS_EmptySet
  <2>4. Cardinality(Upto(i)) \in Nat
    BY <2>2, FS_CardinalityType
  <2>. QED  BY <1>1, <2>2, <2>3, <2>4
<1>3. ASSUME NEW i \in I, NEW j \in I, i < j
      PROVE  Cardinality(Upto(i)) < Cardinality(Upto(j))
  <2>0. \A m \in I : m \in Int
    OBVIOUS
  <2>1. Upto(i) \in SUBSET Upto(j) /\ j \in Upto(j) /\ j \notin Upto(i)
    <3>1. \A m \in I : m <= i => m <= j
      BY <1>3, <2>0
    <3>2. ~(j <= i) /\ j <= j
      BY <1>3, <2>0
    <3>. QED  BY <3>1, <3>2
  <2>. HIDE DEF Upto
  <2>2. IsFiniteSet(Upto(j)) /\ Cardinality(Upto(j)) \in Nat /\ Cardinality(Upto(i)) \in Nat
    BY <1>1, <1>2
  <2>3. /\ Cardinality(Upto(i)) <= Cardinality(Upto(j))
        /\ Cardinality(Upto(j)) = Cardinality(Upto(i)) => Upto(j) = Upto(i)
    BY <2>1, <2>2, FS_Subset
  <2>. QED  BY <2>1, <2>2, <2>3
<1>. DEFINE r == [i \in I |-> Cardinality(Upto(i))]
            K == 1..Cardinality(I)
<1>4. \A i, j \in I : Cardinality(Upto(i)) = Cardinality(Upto(j)) => i = j
  <2>. SUFFICES ASSUME NEW i \in I, NEW j \in I, i # j
                PROVE  Cardinality(Upto(i)) # Cardinality(Upto(j))
    OBVIOUS
  <2>1. i \in Nat /\ j \in Nat /\ Cardinality(Upto(i)) \in Nat /\ Cardinality(Upto(j)) \in Nat
    BY <1>2
  <2>2. CASE i < j
    BY <1>3, <2>1, <2>2
  <2>3. CASE j < i
    BY <1>3, <2>1, <2>3
  <2>. QED  BY <2>1, <2>2, <2>3
<1>5. r \in Injection(I, K)
  <2>1. r \in [I -> K]
    BY <1>2
  <2>2. \A i, j \in I : r[i] = r[j] => i = j
    <3>. HIDE DEF Upto
    <3>. QED  BY <1>4
  <2>. HIDE DEF r, K
  <2>. QED  BY <2>1, <2>2 DEF Injection, IsInjective
<1>6. r \in Surjection(I, K)
  <2>1. IsFiniteSet(K) /\ Cardinality(K) = Cardinality(I)
    BY <1>1, FS_Interval
  <2>. HIDE DEF r, K
  <2>. QED  BY <1>5, <2>1, FS_Injection
<1>7. \A k \in K : \E i \in I : r[i] = k
  <2>. HIDE DEF r, K
  <2>. QED  BY <1>6 DEF Surjection
<1>8. \A i \in I : Rank(I, i) = Cardinality(Upto(i))
  BY DEF Rank
<1>9. \A k \in 1..Cardinality(I) : \E i \in I : Rank(I, i) = k
  BY <1>7, <1>8
<1>. HIDE DEF Upto, r, K
<1>10. \A i, j \in I : Rank(I, i) = Rank(I, j) => i = j
  BY <1>4, <1>8
<1>11. \A i, j \in I : i < j => Rank(I, i) < Rank(I, j)
  BY <1>3, <1>8
<1>. QED
  BY <1>1, <1>2, <1>8, <1>9, <1>10, <1>11

LEMMA NthLemma ==
  ASSUME NEW n \in Nat, NEW I \in SUBSET (1..n)
  PROVE  /\ \A k \in 1..Cardinality(I) : NthOf(I, k) \in I /\ Rank(I, NthOf(I, k)) = k
         /\ \A i \in I : NthOf(I, Rank(I, i)) = i
<1>1. ASSUME NEW k \in 1..Cardinality(I)
      PROVE  NthOf(I, k) \in I /\ Rank(I, NthOf(I, k)) = k
  <2>1. \E i \in I : Rank(I, i) = k
    BY RankLemma
  <2>2. NthOf(I, k) = CHOOSE i \in I : Rank(I, i) = k
    BY DEF NthOf, Rank
  <2>. QED  BY <2>1, <2>2
<1>2. ASSUME NEW i \in I
      PROVE  NthOf(I, Rank(I, i)) = i
  <2>1. Rank(I, i) \in 1..Cardinality(I)
    BY RankLemma
  <2>2. NthOf(I, Rank(I, i)) \in I /\ Rank(I, NthOf(I, Rank(I, i))) = Rank(I, i)
    BY <1>1, <2>1
  <2>. QED  BY <2>2, RankLemma
<1>. QED
  BY <1>1, <1>2

\* A readable file has its index and its tail below the size in its head.
LEMMA ReadableLemma ==
  ASSUME NEW d, IsFile(d), Readable(d)
  PROVE  /\ Size(d) \in Nat /\ d[0].size \in Nat \ {0} /\ d[0].size <= Size(d)
         /\ d[0].kind = "head"
         /\ TailOf(d) \in Units /\ TailOf(d).kind = "tail"
         /\ TailOf(d).entry \in Nat \ {0} /\ TailOf(d).count \in Nat
         /\ Records(d) \in Seq(IndexUnits) /\ Len(Records(d)) = TailOf(d).count
         /\ \A i \in 1..TailOf(d).count :
              /\ TailOf(d).entry + i - 1 < Size(d)
              /\ Records(d)[i] = d[TailOf(d).entry + i - 1]
<1>1. Size(d) \in Nat /\ d \in [0..(Size(d) - 1) -> Units]
  BY DEF IsFile
<1>2. 0 \in 0..(Size(d) - 1) /\ d[0].kind = "head" /\ d[0].size <= Size(d)
  BY <1>1 DEF Readable, Detected
<1>3. d[0].size \in Nat \ {0}
  BY <1>1, <1>2, UnitKinds
<1>4. TailOf(d) \in Units /\ TailOf(d).kind = "tail"
  BY <1>1, <1>2, <1>3 DEF Readable, Detected, TailOf
<1>5. TailOf(d).entry \in Nat \ {0} /\ TailOf(d).count \in Nat
  BY <1>4, UnitKinds
<1>. DEFINE e == TailOf(d).entry
            n == TailOf(d).count
<1>6. \A a \in e..(e + n - 1) : a < Size(d) /\ d[a].kind = "index"
  BY DEF Readable
<1>7. \A a \in e..(e + n - 1) : d[a] \in IndexUnits
  <2>. HIDE DEF e, n
  <2>1. e \in Nat /\ n \in Nat
    BY <1>5 DEF e, n
  <2>2. \A a \in e..(e + n - 1) : d[a] \in Units
    BY <1>1, <1>6, <2>1
  <2>. QED  BY <1>6, <2>2, UnitKinds
<1>8. /\ Records(d) = [i \in 1..n |-> d[e + i - 1]]
      /\ e \in Nat /\ n \in Nat
  BY <1>5 DEF Records
<1>. HIDE DEF e, n
<1>9. \A i \in 1..n : e + i - 1 \in e..(e + n - 1)
  BY <1>8
<1>10. Records(d) \in Seq(IndexUnits) /\ Len(Records(d)) = n
  BY <1>7, <1>8, <1>9
<1>11. \A i \in 1..n : e + i - 1 < Size(d) /\ Records(d)[i] = d[e + i - 1]
  BY <1>6, <1>8, <1>9
<1>. QED
  BY <1>1, <1>2, <1>3, <1>4, <1>5, <1>10, <1>11 DEF e, n

LEMMA IndexTableLemma ==
  ASSUME NEW d, IsFile(d), Readable(d)
  PROVE  /\ IndexTable(d) \in Seq(TableRecords)
         /\ Len(IndexTable(d)) = TailOf(d).count
         /\ \A i \in 1..TailOf(d).count :
              /\ IndexTable(d)[i].name = Records(d)[i].name
              /\ IndexTable(d)[i].at = Records(d)[i].at
              /\ IndexTable(d)[i].isInvalid = Shadowed(Records(d), i)
<1>. DEFINE s == Records(d)
            n == TailOf(d).count
            rec(i) == [name |-> s[i].name, at |-> s[i].at, isInvalid |-> Shadowed(s, i)]
<1>1. n \in Nat /\ s \in Seq(IndexUnits) /\ Len(s) = n
  BY ReadableLemma
<1>2. IndexTable(d) = [i \in 1..n |-> rec(i)]
  BY <1>1 DEF IndexTable
<1>3. \A i : Shadowed(s, i) \in BOOLEAN
  BY DEF Shadowed
<1>4. \A i \in 1..n : rec(i) \in TableRecords
  <2>. SUFFICES ASSUME NEW i \in 1..n  PROVE  rec(i) \in TableRecords
    OBVIOUS
  <2>1. s[i] \in IndexUnits
    BY <1>1
  <2>. QED  BY <2>1, <1>3 DEF IndexUnits, TableRecords
<1>5. \A i \in 1..n : /\ rec(i).name = s[i].name
                       /\ rec(i).at = s[i].at
                       /\ rec(i).isInvalid = Shadowed(s, i)
  OBVIOUS
<1>. HIDE DEF n, s, rec
<1>6. IndexTable(d) \in Seq(TableRecords) /\ Len(IndexTable(d)) = n
  BY <1>1, <1>2, <1>4
<1>7. \A i \in 1..n : IndexTable(d)[i] = rec(i)
  BY <1>2
<1>. QED
  BY <1>5, <1>6, <1>7 DEF n, s

(***************************************************************************)
(* The table of the handle.                                                *)
(***************************************************************************)
Table == info.lpPckIndexTable

LEMMA RecordFields ==
  ASSUME Table \in Seq(TableRecords), NEW i \in DOMAIN Table
  PROVE  /\ Table[i] \in TableRecords
         /\ Table[i].name \in Names /\ Table[i].at \in Nat /\ Table[i].isInvalid \in BOOLEAN
<1>1. Table[i] \in TableRecords
  OBVIOUS
<1>. QED
  BY <1>1 DEF TableRecords, Addresses

LEMMA InvalidatedLemma ==
  ASSUME Table \in Seq(TableRecords), NEW I
  PROVE  /\ Invalidated(I) \in Seq(TableRecords)
         /\ DOMAIN Invalidated(I) = DOMAIN Table /\ Len(Invalidated(I)) = Len(Table)
         /\ \A i \in DOMAIN Table :
              /\ Invalidated(I)[i].name = Table[i].name
              /\ Invalidated(I)[i].at = Table[i].at
              /\ Invalidated(I)[i].isInvalid = (Table[i].isInvalid \/ i \in I)
<1>. DEFINE n == Len(Table)
            rec(i) == [Table[i] EXCEPT !.isInvalid = @ \/ i \in I]
<1>1. n \in Nat /\ DOMAIN Table = 1..n
  OBVIOUS
<1>2. Invalidated(I) = [i \in 1..n |-> rec(i)]
  BY <1>1 DEF Invalidated, Table
<1>3. ASSUME NEW i \in 1..n
      PROVE  /\ rec(i) \in TableRecords
             /\ rec(i).name = Table[i].name /\ rec(i).at = Table[i].at
             /\ rec(i).isInvalid = (Table[i].isInvalid \/ i \in I)
  <2>1. Table[i] \in TableRecords
    BY <1>1
  <2>. QED  BY <2>1 DEF TableRecords
<1>. HIDE DEF n, rec
<1>4. Invalidated(I) \in Seq(TableRecords) /\ DOMAIN Invalidated(I) = 1..n
  BY <1>1, <1>2, <1>3
<1>5. \A i \in 1..n : Invalidated(I)[i] = rec(i)
  BY <1>2
<1>6. Len(Invalidated(I)) = n
  BY <1>1, <1>4
<1>. QED
  BY <1>1, <1>3, <1>4, <1>5, <1>6 DEF n

LEMMA NodesLemma ==
  ASSUME Table \in Seq(TableRecords), NEW N
  PROVE  /\ NodesOf(N) \subseteq DOMAIN Table
         /\ DuplicateFileCount(N) \in 0..Len(Table)
<1>1. NodesOf(N) \in SUBSET (1..Len(Table))
  BY DEF NodesOf, NodeOf, Table
<1>2. Cardinality(NodesOf(N)) \in 0..Len(Table)
  BY <1>1, RankLemma
<1>. QED
  BY <1>1, <1>2 DEF DuplicateFileCount

\* The index that is written again: the valid records, each once, in their order.
LEMMA OldIndexLemma ==
  ASSUME Table \in Seq(TableRecords)
  PROVE  /\ ValidPlaces \in SUBSET (1..Len(Table))
         /\ OldIndex \in Seq(IndexUnits)
         /\ Len(OldIndex) = Cardinality(ValidPlaces) /\ Len(OldIndex) \in Nat
         /\ \A k \in 1..Len(OldIndex) :
              /\ NthOf(ValidPlaces, k) \in ValidPlaces
              /\ OldIndex[k].name = Table[NthOf(ValidPlaces, k)].name
              /\ OldIndex[k].at = Table[NthOf(ValidPlaces, k)].at
<1>. DEFINE n == Cardinality(ValidPlaces)
            r(k) == Table[NthOf(ValidPlaces, k)]
<1>0. DOMAIN Table = 1..Len(Table) /\ Len(Table) \in Nat
  OBVIOUS
<1>1. ValidPlaces \in SUBSET (1..Len(Table))
  BY <1>0 DEF ValidPlaces, Table
<1>2. n \in Nat /\ \A k \in 1..n : NthOf(ValidPlaces, k) \in ValidPlaces
  <2>1. Cardinality(ValidPlaces) \in 0..Len(Table)
    BY <1>0, <1>1, RankLemma
  <2>2. \A k \in 1..Cardinality(ValidPlaces) : NthOf(ValidPlaces, k) \in ValidPlaces
    BY <1>0, <1>1, NthLemma
  <2>. QED  BY <1>0, <2>1, <2>2
<1>3. OldIndex = [k \in 1..n |-> IndexUnit(r(k).name, r(k).at)]
  BY Zenon DEF OldIndex, Table
<1>4. \A k \in 1..n : r(k).name \in Names /\ r(k).at \in Nat
  BY <1>0, <1>1, <1>2, RecordFields
<1>. HIDE DEF n, r
<1>5. \A k \in 1..n : IndexUnit(r(k).name, r(k).at) \in IndexUnits
  BY <1>4, UnitTypes
<1>6. OldIndex \in Seq(IndexUnits) /\ Len(OldIndex) = n
  BY <1>2, <1>3, <1>5
<1>7. \A k \in 1..n : OldIndex[k].name = r(k).name /\ OldIndex[k].at = r(k).at
  BY <1>3 DEF IndexUnit
<1>. QED
  BY <1>1, <1>2, <1>6, <1>7 DEF n, r

-----------------------------------------------------------------------------
(***************************************************************************)
(* Types.                                                                  *)
(***************************************************************************)
DiskOK == disk = [f \in Files |-> disk[f]] /\ \A f \in Files : IsFile(disk[f])
InfoOK ==
  /\ info \in Handles
  /\ info.isPckFileLoaded => info.szFilename \in Files /\ info.qwPckSize # 0
OpOK ==
  /\ op \in OperationStates
  /\ op.pc # "idle" => op.file \in Files /\ op.at # 0 /\ jobs # 0
  /\ jobs \in 0..MaxJobs

LEMMA TypeParts == TypeOK <=> DiskOK /\ InfoOK /\ OpOK
BY DEF TypeOK, DiskOK, InfoOK, OpOK

LEMMA DiskStep ==
  ASSUME DiskOK, NEW f \in Files, NEW e, IsFile(e), disk' = [disk EXCEPT ![f] = e]
  PROVE  /\ DiskOK'
         /\ disk'[f] = e
         /\ \A g \in Files \ {f} : disk'[g] = disk[g]
BY DEF DiskOK

LEMMA ClosedOK == Closed \in Handles /\ ~Closed.isPckFileLoaded
BY DEF Closed, Handles, Addresses, PCK_DATA_START_AT

LEMMA IdleOK == Idle \in OperationStates /\ Idle.pc = "idle"
BY DEF Idle, OperationStates, Addresses

LEMMA MountType ==
  ASSUME DiskOK, NEW f \in Files, MountPckFile(f)
  PROVE  DiskOK' /\ InfoOK'
<1>. DEFINE d == disk[f]
<1>1. IsFile(d)
  BY DEF DiskOK
<1>2. DiskOK'
  <2>1. CASE Detected(d)
    <3>1. d[0].size \in Nat
      BY <1>1, <2>1, UnitKinds DEF Detected, IsFile
    <3>2. IsFile(CutToSize(d))
      BY <1>1, <3>1, CutLemma DEF CutToSize
    <3>3. disk' = [disk EXCEPT ![f] = CutToSize(d)]
      BY <2>1 DEF MountPckFile
    <3>. QED  BY <3>2, <3>3, DiskStep
  <2>2. CASE ~Detected(d)
    BY <2>2 DEF MountPckFile, DiskOK
  <2>. QED  BY <2>1, <2>2
<1>3. InfoOK'
  <2>1. CASE Readable(d)
    <3>1. info' = Mounted(f, d)
      BY <2>1 DEF MountPckFile
    <3>2. IndexTable(d) \in Seq(TableRecords)
      BY <1>1, <2>1, IndexTableLemma
    <3>3. /\ d[0].size \in Nat \ {0}
          /\ TailOf(d).entry \in Nat \ {0} /\ TailOf(d).count \in Nat
      BY <1>1, <2>1, ReadableLemma
    <3>. HIDE DEF d
    <3>4. /\ Mounted(f, d) \in Handles
          /\ Mounted(f, d).szFilename = f /\ Mounted(f, d).qwPckSize = d[0].size
      BY <3>2, <3>3 DEF Mounted, Closed, Handles, Addresses
    <3>. QED  BY <3>1, <3>3, <3>4 DEF InfoOK
  <2>2. CASE ~Readable(d)
    BY <2>2, ClosedOK DEF MountPckFile, InfoOK
  <2>. QED  BY <2>1, <2>2
<1>. QED
  BY <1>2, <1>3

LEMMA BeginType ==
  ASSUME OpOK, NEW o, Begin(o)
  PROVE  op.pc = "idle" /\ jobs \in Nat /\ jobs' = jobs + 1 /\ jobs' \in 1..MaxJobs
BY ConstantsAssumption DEF OpOK, Begin

\* What stays typed when only jobs has changed, upwards.
LEMMA OpStays ==
  ASSUME OpOK, op' = op, jobs' \in 1..MaxJobs
  PROVE  OpOK'
BY DEF OpOK

LEMMA TableType ==
  ASSUME InfoOK
  PROVE  Table \in Seq(TableRecords)
BY DEF InfoOK, Handles, Table

LEMMA NamesFinite ==
  ASSUME NEW N \in SUBSET Names
  PROVE  Cardinality(N) \in Nat
BY ConstantsAssumption, FS_Subset, FS_CardinalityType

LEMMA CountsType ==
  ASSUME InfoOK, NEW table \in Seq(TableRecords), NEW n \in Nat,
         info' = [info EXCEPT !.lpPckIndexTable = table, !.dwFileCountToAdd = n]
  PROVE  InfoOK'
BY DEF InfoOK, Handles

LEMMA UpdateType ==
  ASSUME DiskOK, InfoOK, OpOK
  PROVE  /\ \A N \in NameSets : UpdateClashes(N) \/ UpdateCannotOpen(N) => DiskOK' /\ InfoOK' /\ OpOK'
         /\ \A o \in {"update", "new"}, f \in Files, N \in NameSets :
              UpdateStart(o, f, N) => DiskOK' /\ InfoOK' /\ OpOK'
<1>1. ASSUME NEW N \in NameSets, UpdateClashes(N) \/ UpdateCannotOpen(N)
      PROVE  DiskOK' /\ InfoOK' /\ OpOK'
  <2>1. Cardinality(N) \in Nat
    BY NamesFinite DEF NameSets
  <2>2. PICK I : info' = [info EXCEPT !.lpPckIndexTable = Invalidated(I),
                                      !.dwFileCountToAdd = Cardinality(N)]
    BY <1>1 DEF UpdateClashes, UpdateCannotOpen
  <2>3. Invalidated(I) \in Seq(TableRecords)
    BY TableType, InvalidatedLemma
  <2>4. InfoOK'
    BY <2>1, <2>2, <2>3, CountsType
  <2>5. UNCHANGED <<disk, op>> /\ Begin("update")
    BY <1>1 DEF UpdateClashes, UpdateCannotOpen
  <2>. QED  BY <2>4, <2>5, BeginType, OpStays DEF DiskOK
<1>2. ASSUME NEW o \in {"update", "new"}, NEW f \in Files, NEW N \in NameSets,
             UpdateStart(o, f, N)
      PROVE  DiskOK' /\ InfoOK' /\ OpOK'
  <2>1. DiskOK'
    <3>1. IsFile(Mapping(disk[f])) /\ disk' = [disk EXCEPT ![f] = Mapping(disk[f])]
      BY <1>2, MappingLemma DEF UpdateStart, DiskOK, Grown
    <3>. QED  BY <3>1, DiskStep
  <2>2. InfoOK'
    <3>1. PICK table, n, c :
            /\ table = Invalidated(FindDuplicateNodes(N))
            /\ n = Cardinality(N)
            /\ c = Len(info.lpPckIndexTable) - DuplicateFileCount(N)
            /\ info' = [info EXCEPT !.lpPckIndexTable = table, !.dwFileCount = c,
                                    !.dwFileCountToAdd = n]
      BY <1>2 DEF UpdateStart
    <3>2. table \in Seq(TableRecords) /\ n \in Nat
      BY <3>1, TableType, InvalidatedLemma, NamesFinite DEF NameSets
    <3>3. c \in Nat
      BY <3>1, TableType, NodesLemma DEF Table
    <3>. QED  BY <3>1, <3>2, <3>3 DEF InfoOK, Handles
  <2>3. AppendAddress \in Nat \ {0}
    BY DEF AppendAddress, PCK_DATA_START_AT, InfoOK, Handles
  <2>4. OpOK'
    <3>1. op' = [Idle EXCEPT !.pc = "store", !.kind = o, !.file = f, !.files = N,
                             !.at = AppendAddress]
      BY <1>2 DEF UpdateStart
    <3>2. op' \in OperationStates /\ op'.file = f /\ op'.at = AppendAddress
      <4>1. N \in SUBSET Names
        BY DEF NameSets
      <4>. QED  BY <2>3, <3>1, <4>1, IdleOK DEF OperationStates, Addresses
    <3>3. jobs' \in 1..MaxJobs
      BY <1>2, BeginType DEF UpdateStart
    <3>. QED  BY <2>3, <3>2, <3>3 DEF OpOK
  <2>. QED  BY <2>1, <2>2, <2>4
<1>. QED
  BY <1>1, <1>2

LEMMA Write2Type ==
  ASSUME DiskOK, OpOK, op.pc # "idle", NEW at \in Nat, NEW u \in Units,
         disk' = [disk EXCEPT ![op.file] = Write2(@, at, u)]
  PROVE  DiskOK'
<1>1. op.file \in Files /\ IsFile(disk[op.file])
  BY DEF OpOK, DiskOK
<1>2. IsFile(Write2(disk[op.file], at, u))
  BY <1>1, Write2File
<1>. QED
  BY <1>1, <1>2, DiskStep

LEMMA StoreType ==
  ASSUME DiskOK, InfoOK, OpOK
  PROVE  /\ \A n \in Names : Store(n) => DiskOK' /\ InfoOK' /\ OpOK'
         /\ Stop \/ ThreadsJoined => DiskOK' /\ InfoOK' /\ OpOK'
<1>1. ASSUME NEW n \in Names, Store(n)
      PROVE  DiskOK' /\ InfoOK' /\ OpOK'
  <2>1. op \in OperationStates /\ op.pc = "store" /\ op.at \in Nat \ {0} /\ jobs \in 1..MaxJobs
    BY <1>1 DEF Store, OpOK, OperationStates, Addresses
  <2>2. DataUnit(n, jobs) \in Units /\ IndexUnit(n, op.at) \in IndexUnits
    BY <2>1, UnitTypes
  <2>3. DiskOK'
    BY <1>1, <2>1, <2>2, Write2Type DEF Store
  <2>4. op.index \in Seq(IndexUnits)
    BY <2>1 DEF OperationStates
  <2>5. Append(op.index, IndexUnit(n, op.at)) \in Seq(IndexUnits)
    BY <2>2, <2>4, AppendProperties
  <2>6. op' \in OperationStates /\ op'.pc = op.pc /\ op'.file = op.file /\ op'.at = op.at + 1
    <3>1. PICK i, a : /\ i = Append(op.index, IndexUnit(n, op.at)) /\ a = op.at + 1
                      /\ op' = [op EXCEPT !.index = i, !.at = a]
      BY <1>1 DEF Store
    <3>2. i \in Seq(IndexUnits) /\ a \in Nat
      BY <2>1, <2>5, <3>1
    <3>. QED  BY <2>1, <3>1, <3>2 DEF OperationStates, Addresses
  <2>. QED  BY <1>1, <2>1, <2>3, <2>6 DEF Store, OpOK, InfoOK
<1>2. ASSUME Stop
      PROVE  DiskOK' /\ InfoOK' /\ OpOK'
  BY <1>2 DEF Stop, DiskOK, InfoOK, OpOK, OperationStates
<1>3. ASSUME ThreadsJoined
      PROVE  DiskOK' /\ InfoOK' /\ OpOK'
  <2>1. op \in OperationStates /\ op.at \in Nat \ {0} /\ Len(op.index) \in Nat
    BY <1>3 DEF ThreadsJoined, OpOK, OperationStates, Addresses
  <2>2. InfoOK'
    BY <1>3, <2>1 DEF ThreadsJoined, InfoOK, Handles, Addresses
  <2>3. OpOK'
    BY <1>3 DEF ThreadsJoined, OpOK, OperationStates
  <2>. QED  BY <1>3, <2>2, <2>3 DEF ThreadsJoined, DiskOK
<1>. QED
  BY <1>1, <1>2, <1>3

LEMMA RenameType ==
  ASSUME DiskOK, InfoOK, OpOK, NEW o \in {"delete", "rename"},
         NEW table \in Seq(TableRecords), RenameFilename(o, table)
  PROVE  DiskOK' /\ InfoOK' /\ OpOK'
<1>1. /\ info.szFilename \in Files /\ info.dwAddressOfFileEntry \in Nat \ {0}
      /\ jobs' \in 1..MaxJobs
  BY BeginType DEF RenameFilename, InfoOK, Handles, Addresses
<1>2. CASE /\ info' = [info EXCEPT !.lpPckIndexTable = table]
           /\ disk' = [disk EXCEPT ![info.szFilename] = Mapping(@)]
           /\ op' = [Idle EXCEPT !.pc = "index", !.kind = o, !.file = info.szFilename,
                                 !.at = info.dwAddressOfFileEntry]
  <2>1. IsFile(Mapping(disk[info.szFilename]))
    BY <1>1, MappingLemma DEF DiskOK, Grown
  <2>2. DiskOK'
    BY <1>1, <1>2, <2>1, DiskStep
  <2>3. InfoOK'
    BY <1>2 DEF InfoOK, Handles
  <2>4. op' \in OperationStates /\ op'.file \in Files /\ op'.at # 0
    BY <1>1, <1>2, IdleOK DEF OperationStates, Addresses
  <2>. QED  BY <1>1, <2>2, <2>3, <2>4 DEF OpOK
<1>3. CASE /\ info' = IF o = "rename" THEN Closed
                       ELSE [info EXCEPT !.lpPckIndexTable = table]
           /\ UNCHANGED <<disk, op>>
  <2>1. InfoOK'
    BY <1>3, ClosedOK DEF InfoOK, Handles
  <2>. QED  BY <1>1, <1>3, <2>1, OpStays DEF DiskOK
<1>. QED
  BY <1>2, <1>3 DEF RenameFilename

\* The last unit written again, if there is one.
LEMMA LastUnit ==
  ASSUME NEW d, IsFile(d), NEW u \in Units
  PROVE  IsFile(Write2(d, Size(d) - 1, u))
<1>1. CASE Size(d) = 0
  <2>1. Write2(d, Size(d) - 1, u) = <<>>
    BY <1>1 DEF Write2, Larger
  <2>. QED  BY <2>1, EmptyFile
<1>2. CASE Size(d) # 0
  BY <1>2, Write2File DEF IsFile
<1>. QED
  BY <1>1, <1>2

LEMMA EditType ==
  ASSUME DiskOK, InfoOK, OpOK, Edit
  PROVE  DiskOK' /\ InfoOK' /\ OpOK'
<1>1. ASSUME NEW N \in NameSets, Delete(N)
      PROVE  DiskOK' /\ InfoOK' /\ OpOK'
  BY <1>1, TableType, InvalidatedLemma, RenameType DEF Delete
<1>2. ASSUME NEW n \in Names, NEW new \in Names, Rename(n, new)
      PROVE  DiskOK' /\ InfoOK' /\ OpOK'
  <2>1. PICK i \in NodeOf(n) :
          RenameFilename("rename", [info.lpPckIndexTable EXCEPT ![i].name = new])
    BY <1>2 DEF Rename
  <2>. DEFINE table == [Table EXCEPT ![i].name = new]
  <2>2. Table \in Seq(TableRecords) /\ i \in 1..Len(Table)
    BY TableType DEF NodeOf, Table
  <2>3. [Table[i] EXCEPT !.name = new] \in TableRecords
    <3>1. Table[i] \in TableRecords
      BY <2>2
    <3>. QED  BY <3>1 DEF TableRecords
  <2>4. table \in Seq(TableRecords)
    BY <2>2, <2>3
  <2>5. RenameFilename("rename", table)
    BY <2>1 DEF Table
  <2>. HIDE DEF table
  <2>. QED  BY <2>4, <2>5, RenameType
<1>3. ASSUME SetAdditionalInfo
      PROVE  DiskOK' /\ InfoOK' /\ OpOK'
  <2>. DEFINE f == info.szFilename
              u == TailUnit(info.dwAddressOfFileEntry, info.dwFinalFileCount)
  <2>1. f \in Files /\ u \in Units
    BY <1>3, UnitTypes DEF SetAdditionalInfo, InfoOK, Handles, Addresses
  <2>2. disk' = [disk EXCEPT ![f] = Write2(disk[f], Size(disk[f]) - 1, u)]
    BY <1>3 DEF SetAdditionalInfo
  <2>3. IsFile(Write2(disk[f], Size(disk[f]) - 1, u))
    BY <2>1, LastUnit DEF DiskOK
  <2>. HIDE DEF f, u
  <2>4. DiskOK'
    BY <2>1, <2>2, <2>3, DiskStep
  <2>. QED  BY <1>3, <2>4, BeginType, OpStays DEF SetAdditionalInfo, InfoOK
<1>. QED
  BY <1>1, <1>2, <1>3 DEF Edit

\* An operation that goes on: its place and what is left to write.
LEMMA OpGoesOn ==
  ASSUME OpOK, op.pc # "idle", jobs' = jobs,
         NEW p \in {"indexUnits", "head", "end", "return"},
         NEW l \in Seq(IndexUnits \cup {Blank}), NEW a \in Nat \ {0}, NEW lost \in BOOLEAN,
         op' = [op EXCEPT !.pc = p, !.left = l, !.at = a, !.indexLost = lost]
  PROVE  OpOK'
BY DEF OpOK, OperationStates, Addresses

LEMMA WriteIndexType ==
  ASSUME DiskOK, InfoOK, OpOK, WriteIndex
  PROVE  DiskOK' /\ InfoOK' /\ OpOK'
<1>. DEFINE Goal == DiskOK' /\ InfoOK' /\ OpOK'
<1>1. /\ op \in OperationStates /\ op.index \in Seq(IndexUnits) /\ op.indexLost \in BOOLEAN
      /\ op.left \in Seq(IndexUnits \cup {Blank}) /\ op.at \in Nat
  BY DEF OpOK, OperationStates, Addresses
<1>2. op.pc # "idle" => op.at \in Nat \ {0}
  BY <1>1 DEF OpOK
<1>3. ASSUME WriteAllIndex
      PROVE  Goal
  <2>1. PICK new :
          /\ new = IF IsVectorRead THEN [i \in 1..info.dwFileCountToAdd |-> Blank] ELSE op.index
          /\ info' = [info EXCEPT !.dwFileCount = Len(OldIndex),
                                  !.dwFinalFileCount = Len(OldIndex) + Len(new)]
          /\ op' = [op EXCEPT !.pc = "indexUnits", !.left = OldIndex \o new]
    BY <1>3 DEF WriteAllIndex
  <2>2. new \in Seq(IndexUnits \cup {Blank})
    <3>1. info.dwFileCountToAdd \in Nat
      BY DEF InfoOK, Handles
    <3>2. [i \in 1..info.dwFileCountToAdd |-> Blank] \in Seq(IndexUnits \cup {Blank})
      BY <3>1
    <3>3. op.index \in Seq(IndexUnits \cup {Blank})
      BY <1>1, SeqMonotonic
    <3>. QED  BY <2>1, <3>2, <3>3
  <2>3. OldIndex \in Seq(IndexUnits \cup {Blank}) /\ Len(OldIndex) \in Nat
    BY TableType, OldIndexLemma
  <2>4. OldIndex \o new \in Seq(IndexUnits \cup {Blank}) /\ Len(new) \in Nat
    BY <2>2, <2>3, ConcatProperties
  <2>. HIDE DEF Goal
  <2>5. InfoOK'
    <3>1. PICK n, m : /\ n = Len(OldIndex) /\ m = Len(OldIndex) + Len(new)
                      /\ info' = [info EXCEPT !.dwFileCount = n, !.dwFinalFileCount = m]
      BY <2>1
    <3>2. n \in Nat /\ m \in Nat
      BY <2>3, <2>4, <3>1
    <3>. QED  BY <3>1, <3>2 DEF InfoOK, Handles
  <2>6. OpOK'
    BY <1>3, <1>1, <2>1, <2>4 DEF OpOK, OperationStates, WriteAllIndex
  <2>. QED  BY <1>3, <2>5, <2>6 DEF Goal, WriteAllIndex, DiskOK
<1>4. ASSUME ReadGoneVector
      PROVE  Goal
  BY <1>4, ClosedOK, IdleOK DEF ReadGoneVector, DiskOK, InfoOK, OpOK
<1>5. ASSUME WriteIndexUnit
      PROVE  Goal
  <2>1. Head(op.left) \in Units /\ Tail(op.left) \in Seq(IndexUnits \cup {Blank})
    BY <1>1, <1>5, UnitTypes, HeadTailProperties DEF WriteIndexUnit
  <2>2. DiskOK'
    BY <1>1, <1>5, <2>1, Write2Type DEF WriteIndexUnit
  <2>3. OpOK'
    <3>1. PICK l, a : /\ l = Tail(op.left) /\ a = op.at + 1
                      /\ op' = [op EXCEPT !.left = l, !.at = a]
      BY <1>5 DEF WriteIndexUnit
    <3>2. l \in Seq(IndexUnits \cup {Blank}) /\ a \in Nat \ {0}
      BY <1>1, <2>1, <3>1
    <3>. QED  BY <1>5, <3>1, <3>2 DEF OpOK, OperationStates, Addresses, WriteIndexUnit
  <2>. QED  BY <1>5, <2>2, <2>3 DEF WriteIndexUnit, InfoOK
<1>6. ASSUME IndexNotWritten
      PROVE  Goal
  <2>1. PICK a : /\ a = op.at + Len(op.left)
                 /\ op' = [op EXCEPT !.left = <<>>, !.at = a, !.indexLost = TRUE]
    BY <1>6 DEF IndexNotWritten
  <2>2. a \in Nat \ {0} /\ <<>> \in Seq(IndexUnits \cup {Blank})
    BY <1>1, <1>2, <1>6, <2>1 DEF IndexNotWritten
  <2>3. OpOK'
    BY <1>6, <2>1, <2>2 DEF OpOK, OperationStates, Addresses, IndexNotWritten
  <2>. QED  BY <1>6, <2>3 DEF IndexNotWritten, DiskOK, InfoOK
<1>7. ASSUME WriteTail
      PROVE  Goal
  <2>1. TailUnit(info.dwAddressOfFileEntry, info.dwFinalFileCount) \in Units
    BY UnitTypes DEF InfoOK, Handles, Addresses
  <2>2. DiskOK'
    BY <1>1, <1>7, <2>1, Write2Type DEF WriteTail
  <2>3. OpOK'
    <3>1. PICK a : a = op.at + 1 /\ op' = [op EXCEPT !.pc = "head", !.at = a]
      BY <1>7 DEF WriteTail
    <3>2. a \in Nat \ {0}
      BY <1>1, <3>1
    <3>. QED  BY <1>7, <3>1, <3>2 DEF WriteTail, OpOK, OperationStates, Addresses
  <2>. QED  BY <1>7, <2>2, <2>3 DEF WriteTail, InfoOK
<1>8. ASSUME WriteHead
      PROVE  Goal
  <2>1. op.at \in Nat \ {0} /\ HeadUnit(op.at) \in Units
    BY <1>2, <1>8, UnitTypes DEF WriteHead
  <2>2. DiskOK'
    BY <1>8, <2>1, Write2Type DEF WriteHead
  <2>3. InfoOK'
    BY <1>8, <2>1 DEF WriteHead, InfoOK, Handles
  <2>4. OpOK'
    BY <1>8 DEF WriteHead, OpOK, OperationStates
  <2>. QED  BY <2>2, <2>3, <2>4
<1>9. ASSUME HeadOrTailNotWritten
      PROVE  Goal
  <2>1. info' = info \/ (op.pc = "head" /\ info' = [info EXCEPT !.qwPckSize = op.at])
    BY <1>9 DEF HeadOrTailNotWritten
  <2>2. InfoOK'
    BY <1>2, <2>1 DEF InfoOK, Handles
  <2>. QED  BY <1>9, <2>2 DEF HeadOrTailNotWritten, DiskOK, OpOK, OperationStates
<1>10. ASSUME CutFile
       PROVE  Goal
  <2>1. op.file \in Files /\ IsFile(SetEndOfFile(disk[op.file], op.at))
    BY <1>1, <1>10, CutLemma DEF CutFile, DiskOK, OpOK
  <2>2. DiskOK'
    BY <1>10, <2>1, DiskStep DEF CutFile
  <2>. QED  BY <1>10, <2>2 DEF CutFile, InfoOK, OpOK, OperationStates
<1>11. ASSUME Return
       PROVE  Goal
  <2>1. DiskOK' /\ InfoOK'
    <3>1. CASE op.kind # "new"
      BY <1>11, <3>1, MountType DEF Return, Reopen, OpOK
    <3>2. CASE op.kind = "new"
      <4>1. DiskOK'
        BY <1>11, <3>2 DEF Return, DiskOK
      <4>2. info' = IF info.isPckFileLoaded
                    THEN [info EXCEPT !.lpPckIndexTableToAdd = "dangling"] ELSE Closed
        BY <1>11, <3>2 DEF Return
      <4>3. info \in Handles /\ (info.isPckFileLoaded => info.szFilename \in Files /\ info.qwPckSize # 0)
        BY DEF InfoOK
      <4>4. CASE info.isPckFileLoaded
        <5>. DEFINE next == [info EXCEPT !.lpPckIndexTableToAdd = "dangling"]
        <5>1. next \in Handles
          BY <4>3 DEF Handles
        <5>2. next.szFilename = info.szFilename /\ next.qwPckSize = info.qwPckSize
          BY <4>3 DEF Handles
        <5>. QED
          BY <4>1, <4>2, <4>3, <4>4, <5>1, <5>2 DEF InfoOK
      <4>5. CASE ~info.isPckFileLoaded
        <5>1. info' = Closed
          BY <4>2, <4>5
        <5>. QED
          BY <4>1, <5>1, ClosedOK DEF InfoOK
      <4>. QED
        BY <4>1, <4>4, <4>5
    <3>. QED  BY <3>1, <3>2
  <2>2. OpOK'
    BY <1>11, IdleOK DEF Return, OpOK
  <2>. QED  BY <2>1, <2>2
<1>. QED
  BY <1>3, <1>4, <1>5, <1>6, <1>7, <1>8, <1>9, <1>10, <1>11 DEF WriteIndex

LEMMA TypeStep == TypeOK /\ [Next]_vars => TypeOK'
<1>. SUFFICES ASSUME DiskOK, InfoOK, OpOK, [Next]_vars
              PROVE  DiskOK' /\ InfoOK' /\ OpOK'
  BY DEF TypeOK, DiskOK, InfoOK, OpOK
<1>1. ASSUME NEW f \in Files, Open(f)
      PROVE  DiskOK' /\ InfoOK' /\ OpOK'
  BY <1>1, MountType DEF Open, OpOK
<1>2. CASE Close \/ Crash
  BY <1>2, ClosedOK, IdleOK DEF Close, Crash, DiskOK, InfoOK, OpOK
<1>3. CASE Update
  BY <1>3, UpdateType, StoreType DEF Update
<1>4. CASE Edit
  BY <1>4, EditType
<1>5. CASE WriteIndex
  BY <1>5, WriteIndexType
<1>6. CASE UNCHANGED vars
  BY <1>6 DEF vars, DiskOK, InfoOK, OpOK
<1>. QED
  BY <1>1, <1>2, <1>3, <1>4, <1>5, <1>6 DEF Next

LEMMA TypeInit == Init => TypeOK
BY ConstantsAssumption, ClosedOK, IdleOK, EmptyFile
   DEF Init, TypeOK, DiskOK, InfoOK, OpOK

\* Every variable keeps its type: files have no gaps and only units that some step
\* writes, no count of the handle goes below zero (dwFileCount less the duplicates),
\* an open handle has a file that is not empty.
THEOREM TypeCorrect == Spec => []TypeOK
BY TypeInit, TypeStep, PTL DEF Spec
-----------------------------------------------------------------------------
\* "new" while an archive is open writes the addresses of the new archive into the
\* handle of the open one, and a comment that is saved then goes to the wrong place.
\* The theorems leave that case out: there is no other file for "new".
NewAlone == "new" \in Operations => \A f, g \in Files : f = g

(***************************************************************************)
(* Files.                                                                  *)
(***************************************************************************)
Fresh(d) == 0 \in DOMAIN d => d[0].kind # "head"
ListBelow(d, a) == \A i \in 1..TailOf(d).count : Records(d)[i].at < a

\* A tail stands where its index ends.  What interrupted additions left in a file
\* without a head are records of data that began at the start.  The records of a
\* readable file name places below the index.
TailsAtEnd(d) == \A a \in DOMAIN d : d[a].kind = "tail" => d[a].entry + d[a].count = a
LeftRecords(d) == \A a \in DOMAIN d : d[a].kind = "index" => 2 * d[a].at <= a
FileInv(d) ==
  /\ TailsAtEnd(d)
  /\ Fresh(d) => LeftRecords(d)
  /\ Readable(d) => ListBelow(d, TailOf(d).entry)

\* d and e have the same first n units.
SameUpTo(d, e, n) ==
  n <= Size(d) /\ n <= Size(e) /\ \A a \in 0..(n - 1) : e[a] = d[a]

\* The same archive, for whoever reads it.
SameArchive(d, e) ==
  e[0] = d[0] /\ TailOf(e) = TailOf(d) /\ Records(e) = Records(d)

LEMMA FileDomain ==
  ASSUME NEW d, IsFile(d)
  PROVE  /\ Size(d) \in Nat /\ DOMAIN d = 0..(Size(d) - 1)
         /\ \A a \in Nat : a < Size(d) => a \in DOMAIN d /\ d[a] \in Units
BY DEF IsFile

\* e is d after unit u has been written at address at.
AfterUnit(d, e, at, u) ==
  /\ IsFile(e) /\ Size(d) \in Nat /\ Size(e) \in Nat
  /\ Size(e) >= Size(d) /\ Size(e) > at /\ e[at] = u
  /\ at < Size(d) => Size(e) = Size(d)
  /\ \A a \in DOMAIN d : a # at => e[a] = d[a]
  /\ \A a \in DOMAIN e : (a = at /\ e[a] = u) \/ (e[a] = Blank) \/ (a \in DOMAIN d /\ e[a] = d[a])

LEMMA Written ==
  ASSUME NEW d, IsFile(d), NEW at \in Nat, NEW u \in Units
  PROVE  AfterUnit(d, Write2(d, at, u), at, u)
<1>. DEFINE e == Write2(d, at, u)
<1>1. /\ IsFile(e)
      /\ Size(e) = Larger(Size(d), at + 1)
      /\ e[at] = u
      /\ \A a \in 0..(Size(d) - 1) : a # at => e[a] = d[a]
      /\ \A a \in 0..(at - 1) : a >= Size(d) => e[a] = Blank
  BY Write2File
<1>. HIDE DEF e
<1>2. Size(d) \in Nat /\ DOMAIN d = 0..(Size(d) - 1)
  BY FileDomain
<1>3. Size(e) \in Nat /\ DOMAIN e = 0..(Size(e) - 1)
  BY <1>1, FileDomain
<1>4. /\ Size(e) >= Size(d) /\ Size(e) > at
      /\ at < Size(d) => Size(e) = Size(d)
      /\ \A a \in DOMAIN e : a = at \/ a \in DOMAIN d \/ (a \in 0..(at - 1) /\ a >= Size(d))
  BY <1>1, <1>2, <1>3 DEF Larger
<1>5. \A a \in DOMAIN d : a # at => e[a] = d[a]
  BY <1>1, <1>2
<1>6. \A a \in DOMAIN e : (a = at /\ e[a] = u) \/ (e[a] = Blank) \/ (a \in DOMAIN d /\ e[a] = d[a])
  BY <1>1, <1>4, <1>5
<1>. QED
  BY <1>1, <1>2, <1>3, <1>4, <1>5, <1>6 DEF e, AfterUnit

LEMMA ReadableSame ==
  ASSUME NEW d, NEW e, IsFile(d), IsFile(e), TailsAtEnd(d), Readable(d),
         SameUpTo(d, e, d[0].size)
  PROVE  Readable(e) /\ SameArchive(d, e)
<1>. DEFINE n == d[0].size
            t == TailOf(d)
<1>1. /\ n \in Nat \ {0} /\ n <= Size(d) /\ d[0].kind = "head"
      /\ t.kind = "tail" /\ t.entry \in Nat \ {0} /\ t.count \in Nat
      /\ \A i \in 1..t.count : d[t.entry + i - 1].kind = "index"
  <2>1. \A i \in 1..t.count : Records(d)[i] \in IndexUnits
    BY ReadableLemma
  <2>2. \A i \in 1..t.count : d[t.entry + i - 1].kind = "index"
    BY <2>1, ReadableLemma DEF IndexUnits
  <2>. QED  BY <2>2, ReadableLemma
<1>2. t.entry + t.count = n - 1
  <2>1. n - 1 \in DOMAIN d /\ d[n - 1] = t
    BY <1>1, FileDomain DEF TailOf
  <2>. QED  BY <1>1, <2>1 DEF TailsAtEnd
<1>. HIDE DEF n
<1>3. e[0] = d[0] /\ e[n - 1] = d[n - 1] /\ n <= Size(e)
  BY <1>1 DEF SameUpTo, n
<1>4. TailOf(e) = t
  BY <1>3 DEF TailOf, n
<1>. HIDE DEF t
<1>5. \A i \in 1..t.count : /\ t.entry + i - 1 \in 0..(n - 1)
                            /\ e[t.entry + i - 1] = d[t.entry + i - 1]
                            /\ t.entry + i - 1 < Size(e)
  <2>1. \A i \in 1..t.count : t.entry + i - 1 \in 0..(n - 1)
    BY <1>1, <1>2
  <2>2. \A a \in 0..(n - 1) : e[a] = d[a] /\ a < Size(e)
    BY <1>1, <1>3, FileDomain DEF SameUpTo, n
  <2>. QED  BY <2>1, <2>2
<1>6. Records(e) = Records(d)
  BY <1>4, <1>5 DEF Records, t
<1>7. \A a \in t.entry..(t.entry + t.count - 1) : a < Size(e) /\ e[a].kind = "index"
  <2>. SUFFICES ASSUME NEW a \in t.entry..(t.entry + t.count - 1)
                PROVE  a < Size(e) /\ e[a].kind = "index"
    OBVIOUS
  <2>1. a - t.entry + 1 \in 1..t.count /\ t.entry + (a - t.entry + 1) - 1 = a
    BY <1>1
  <2>. QED  BY <1>1, <1>5, <2>1
<1>8. Detected(e)
  <2>1. 0 \in DOMAIN e
    BY <1>1, <1>3, FileDomain
  <2>2. e[0].kind = "head" /\ e[0].size = n /\ n <= Size(e) /\ TailOf(e).kind = "tail"
    BY <1>1, <1>3, <1>4 DEF n
  <2>. QED  BY <2>1, <2>2 DEF Detected
<1>. QED
  BY <1>3, <1>4, <1>6, <1>7, <1>8 DEF Readable, SameArchive, t

\* Where the index of a readable file ends, and that it has no place in a fresh one.
LEMMA ReadableEnds ==
  ASSUME NEW d, IsFile(d), TailsAtEnd(d), Readable(d)
  PROVE  /\ TailOf(d).entry + TailOf(d).count = d[0].size - 1
         /\ ~Fresh(d)
         /\ \A i \in 1..TailOf(d).count : Records(d)[i].at \in Nat
<1>1. d[0].size - 1 \in DOMAIN d /\ d[d[0].size - 1] = TailOf(d) /\ 0 \in DOMAIN d
  BY ReadableLemma, FileDomain DEF TailOf
<1>2. TailOf(d).entry + TailOf(d).count = d[0].size - 1
  BY <1>1, ReadableLemma DEF TailsAtEnd
<1>3. \A i \in 1..TailOf(d).count : Records(d)[i] \in IndexUnits
  BY ReadableLemma
<1>. QED
  BY <1>1, <1>2, <1>3, ReadableLemma DEF Fresh, IndexUnits, Addresses

\* A file that reads as an archive that is sound.
LEMMA ListBelowSame ==
  ASSUME NEW d, NEW e, SameArchive(d, e), ListBelow(d, TailOf(d).entry)
  PROVE  ListBelow(e, TailOf(e).entry)
BY DEF SameArchive, ListBelow

\* Making room in a file changes nothing for a reader.
LEMMA GrownFile ==
  ASSUME NEW d, NEW e, IsFile(d), FileInv(d), Grown(d, e)
  PROVE  /\ FileInv(e)
         /\ Fresh(d) <=> Fresh(e)
         /\ Readable(d) => Readable(e) /\ SameArchive(d, e)
         /\ \A a \in DOMAIN e : e[a] = Blank \/ (a \in DOMAIN d /\ e[a] = d[a])
<1>1. IsFile(e) /\ Size(e) >= Size(d) /\ \A a \in 0..(Size(d) - 1) : e[a] = d[a]
  BY DEF Grown
<1>2. \A a \in DOMAIN e : e[a] = Blank \/ (a \in DOMAIN d /\ e[a] = d[a])
  <2>1. Size(d) \in Nat /\ DOMAIN d = 0..(Size(d) - 1)
    BY FileDomain
  <2>2. Size(e) \in Nat /\ DOMAIN e = 0..(Size(e) - 1)
    BY <1>1, FileDomain
  <2>. QED  BY <1>1, <2>1, <2>2 DEF Grown
<1>3. Fresh(d) <=> Fresh(e)
  <2>1. CASE 0 \in DOMAIN d
    <3>1. 0 \in DOMAIN e /\ e[0] = d[0]
      BY <1>1, <2>1, FileDomain
    <3>. QED  BY <2>1, <3>1 DEF Fresh
  <2>2. CASE 0 \notin DOMAIN d
    BY <1>2, <2>2 DEF Fresh, Blank
  <2>. QED  BY <2>1, <2>2
<1>4. TailsAtEnd(e)
  BY <1>2 DEF TailsAtEnd, FileInv, Blank
<1>5. Fresh(e) => LeftRecords(e)
  BY <1>2, <1>3 DEF LeftRecords, FileInv, Blank
<1>6. Readable(d) => Readable(e) /\ SameArchive(d, e)
  <2>. SUFFICES ASSUME Readable(d)  PROVE  Readable(e) /\ SameArchive(d, e)
    OBVIOUS
  <2>1. d[0].size \in Nat /\ d[0].size <= Size(d)
    BY ReadableLemma
  <2>2. SameUpTo(d, e, d[0].size)
    BY <1>1, <2>1, FileDomain DEF SameUpTo
  <2>. QED  BY <1>1, <2>2, ReadableSame DEF FileInv
<1>7. Readable(e) => ListBelow(e, TailOf(e).entry)
  <2>. SUFFICES ASSUME Readable(e)  PROVE  ListBelow(e, TailOf(e).entry)
    OBVIOUS
  <2>. DEFINE n == e[0].size
  <2>1. n \in Nat \ {0} /\ n <= Size(e) /\ e[n - 1].kind = "tail"
    BY <1>1, ReadableLemma DEF TailOf
  <2>2. n - 1 \in DOMAIN d
    BY <1>1, <1>2, <2>1, FileDomain DEF Blank
  <2>3. SameUpTo(e, d, n)
    BY <1>1, <2>1, <2>2, FileDomain DEF SameUpTo
  <2>4. Readable(d) /\ SameArchive(e, d)
    BY <1>1, <1>4, <2>3, ReadableSame
  <2>5. SameArchive(d, e)
    BY <2>4 DEF SameArchive
  <2>. QED  BY <2>4, <2>5, ListBelowSame DEF FileInv
<1>. QED
  BY <1>2, <1>3, <1>4, <1>5, <1>6, <1>7 DEF FileInv

\* Cutting off what is behind the size in the head changes nothing for a reader.
LEMMA ShortFile ==
  ASSUME NEW d, IsFile(d), FileInv(d), 0 \in DOMAIN d, d[0].kind = "head",
         d[0].size <= Size(d)
  PROVE  LET e == SetEndOfFile(d, d[0].size)
         IN  /\ FileInv(e)
             /\ ~Fresh(e) /\ e[0] = d[0] /\ Size(e) = d[0].size
             /\ Readable(e) <=> Readable(d)
             /\ Readable(d) => SameArchive(d, e)
             /\ \A a \in DOMAIN e : a \in DOMAIN d /\ e[a] = d[a]
<1>. DEFINE n == d[0].size
            e == SetEndOfFile(d, n)
<1>1. n \in Nat \ {0}
  BY UnitKinds, FileDomain
<1>2. /\ IsFile(e) /\ Size(e) = n
      /\ \A a \in 0..(n - 1) : e[a] = IF a < Size(d) THEN d[a] ELSE Blank
  <2>. HIDE DEF n
  <2>. QED  BY <1>1, CutLemma
<1>. HIDE DEF e
<1>3. \A a \in DOMAIN e : a \in DOMAIN d /\ e[a] = d[a]
  <2>1. Size(d) \in Nat /\ DOMAIN d = 0..(Size(d) - 1)
    BY FileDomain
  <2>2. DOMAIN e = 0..(n - 1)
    BY <1>2, FileDomain
  <2>. HIDE DEF n
  <2>. QED  BY <1>1, <1>2, <2>1, <2>2 DEF n
<1>4. e[0] = d[0] /\ 0 \in DOMAIN e
  BY <1>1, <1>2, <1>3, FileDomain
<1>5. TailsAtEnd(e)
  BY <1>3 DEF TailsAtEnd, FileInv
<1>6. ~Fresh(e)
  BY <1>4 DEF Fresh
<1>7. SameUpTo(d, e, n) /\ SameUpTo(e, d, n)
  BY <1>1, <1>2, <1>3, FileDomain DEF SameUpTo
<1>8. Readable(d) => Readable(e) /\ SameArchive(d, e)
  BY <1>2, <1>7, ReadableSame DEF FileInv
<1>9. Readable(e) => Readable(d)
  BY <1>2, <1>4, <1>5, <1>7, ReadableSame
<1>10. Readable(e) => ListBelow(e, TailOf(e).entry)
  BY <1>8, <1>9, ListBelowSame DEF FileInv
<1>11. FileInv(e)
  BY <1>5, <1>6, <1>10 DEF FileInv
<1>. QED
  BY <1>2, <1>3, <1>4, <1>6, <1>8, <1>9, <1>11 DEF e

\* One unit is written behind the end of a readable archive.
LEMMA UnitBehind ==
  ASSUME NEW d, IsFile(d), FileInv(d), Readable(d),
         NEW at \in Nat, d[0].size <= at,
         NEW u \in Units, u.kind = "tail" => u.entry + u.count = at
  PROVE  LET e == Write2(d, at, u)
         IN  FileInv(e) /\ Readable(e) /\ SameArchive(d, e)
<1>. DEFINE e == Write2(d, at, u)
<1>0. AfterUnit(d, e, at, u)
  BY Written
<1>. HIDE DEF e
<1>1. /\ IsFile(e) /\ Size(d) \in Nat /\ Size(e) \in Nat
      /\ Size(e) >= Size(d) /\ Size(e) > at /\ e[at] = u
      /\ \A a \in DOMAIN d : a # at => e[a] = d[a]
  BY <1>0 DEF AfterUnit
<1>2. \A a \in DOMAIN e : (a = at /\ e[a] = u) \/ (e[a] = Blank) \/ (a \in DOMAIN d /\ e[a] = d[a])
  BY <1>0 DEF AfterUnit
<1>3. TailsAtEnd(e)
  BY <1>2 DEF TailsAtEnd, FileInv, Blank
<1>4. SameUpTo(d, e, d[0].size)
  BY <1>1, ReadableLemma, FileDomain DEF SameUpTo
<1>5. Readable(e) /\ SameArchive(d, e)
  BY <1>1, <1>4, ReadableSame DEF FileInv
<1>6. ListBelow(e, TailOf(e).entry) /\ ~Fresh(e)
  BY <1>1, <1>3, <1>5, ListBelowSame, ReadableEnds DEF FileInv
<1>. QED
  BY <1>3, <1>5, <1>6 DEF FileInv, e

\* One unit is written into a file that is not yet an archive.
LEMMA UnitFresh ==
  ASSUME NEW d, IsFile(d), FileInv(d), Fresh(d),
         NEW at \in Nat \ {0},
         NEW u \in Units, u.kind = "tail" => u.entry + u.count = at,
         u.kind = "index" => 2 * u.at <= at
  PROVE  LET e == Write2(d, at, u)
         IN  FileInv(e) /\ Fresh(e)
<1>. DEFINE e == Write2(d, at, u)
<1>0. AfterUnit(d, e, at, u)
  BY Written
<1>. HIDE DEF e
<1>1. /\ IsFile(e) /\ Size(d) \in Nat /\ Size(e) \in Nat
      /\ Size(e) >= Size(d) /\ Size(e) > at /\ e[at] = u
      /\ \A a \in DOMAIN d : a # at => e[a] = d[a]
  BY <1>0 DEF AfterUnit
<1>2. \A a \in DOMAIN e : (a = at /\ e[a] = u) \/ (e[a] = Blank) \/ (a \in DOMAIN d /\ e[a] = d[a])
  BY <1>0 DEF AfterUnit
<1>3. TailsAtEnd(e)
  BY <1>2 DEF TailsAtEnd, FileInv, Blank
<1>4. Fresh(e)
  BY <1>2 DEF Fresh, Blank
<1>5. LeftRecords(e)
  BY <1>2 DEF LeftRecords, FileInv, Blank
<1>6. ~Readable(e)
  BY <1>1, <1>4, FileDomain DEF Fresh, Readable, Detected
<1>. QED
  BY <1>3, <1>4, <1>5, <1>6 DEF FileInv, e

(***************************************************************************)
(* A file whose index at address E is being written again: what lies from  *)
(* there on is that index and what is left of others at the same place.    *)
(***************************************************************************)
IndexRegion(d, E) ==
  /\ 0 \in DOMAIN d /\ d[0].kind = "head" /\ d[0].size > E
  /\ \A a \in DOMAIN d : a >= E =>
       /\ d[a].kind # "data"
       /\ d[a].kind = "index" => d[a].at < E
       /\ d[a].kind = "tail" => d[a].entry = E

LEMMA RegionList ==
  ASSUME NEW d, IsFile(d), NEW E \in Nat, IndexRegion(d, E), TailsAtEnd(d)
  PROVE  ~Fresh(d) /\ (Readable(d) => TailOf(d).entry = E /\ ListBelow(d, TailOf(d).entry))
<1>1. ~Fresh(d)
  BY DEF IndexRegion, Fresh
<1>2. ASSUME Readable(d)
      PROVE  TailOf(d).entry = E /\ ListBelow(d, TailOf(d).entry)
  <2>. DEFINE n == d[0].size
              t == TailOf(d)
  <2>1. n \in Nat /\ n > E /\ n - 1 \in DOMAIN d /\ d[n - 1] = t /\ t.kind = "tail"
    BY <1>2, ReadableLemma, FileDomain DEF IndexRegion, TailOf
  <2>2. t.entry = E
    BY <2>1 DEF IndexRegion
  <2>3. t.count \in Nat
    BY <1>2, ReadableLemma
  <2>4. ASSUME NEW i \in 1..t.count
        PROVE  Records(d)[i].at < t.entry
    <3>1. Records(d) \in Seq(IndexUnits) /\ Len(Records(d)) = t.count
      BY <1>2, ReadableLemma
    <3>2. Records(d)[i] = d[t.entry + i - 1] /\ t.entry + i - 1 < Size(d)
      BY <1>2, ReadableLemma
    <3>. HIDE DEF n, t
    <3>3. Records(d)[i].kind = "index"
      <4>1. Records(d)[i] \in IndexUnits
        BY <3>1
      <4>. QED  BY <4>1 DEF IndexUnits
    <3>4. t.entry + i - 1 \in DOMAIN d /\ t.entry + i - 1 >= E
      BY <2>2, <2>3, <3>2, FileDomain
    <3>. QED  BY <2>2, <3>2, <3>3, <3>4 DEF IndexRegion
  <2>. QED  BY <2>2, <2>4 DEF ListBelow
<1>. QED
  BY <1>1, <1>2

LEMMA UnitInRegion ==
  ASSUME NEW d, IsFile(d), FileInv(d), NEW E \in Nat \ {0}, IndexRegion(d, E),
         NEW at \in Nat, at >= E, NEW u \in Units, u.kind # "data",
         u.kind = "index" => u.at < E,
         u.kind = "tail" => u.entry = E /\ u.entry + u.count = at
  PROVE  FileInv(Write2(d, at, u)) /\ IndexRegion(Write2(d, at, u), E)
<1>. DEFINE e == Write2(d, at, u)
<1>0. AfterUnit(d, e, at, u)
  BY Written
<1>. HIDE DEF e
<1>1. /\ IsFile(e) /\ Size(d) \in Nat /\ Size(e) \in Nat
      /\ Size(e) >= Size(d) /\ Size(e) > at /\ e[at] = u
      /\ \A a \in DOMAIN d : a # at => e[a] = d[a]
  BY <1>0 DEF AfterUnit
<1>2. \A a \in DOMAIN e : (a = at /\ e[a] = u) \/ (e[a] = Blank) \/ (a \in DOMAIN d /\ e[a] = d[a])
  BY <1>0 DEF AfterUnit
<1>3. TailsAtEnd(e)
  BY <1>2 DEF TailsAtEnd, FileInv, Blank
<1>4. 0 \in DOMAIN e /\ e[0] = d[0]
  BY <1>1, FileDomain DEF IndexRegion
<1>5. IndexRegion(e, E)
  BY <1>2, <1>4 DEF IndexRegion, Blank
<1>6. FileInv(e)
  BY <1>1, <1>3, <1>5, RegionList DEF FileInv
<1>. QED
  BY <1>5, <1>6 DEF e

\* The region of a readable file that ends where its head says.
LEMMA ReadableRegion ==
  ASSUME NEW d, IsFile(d), FileInv(d), Readable(d), Size(d) = d[0].size
  PROVE  IndexRegion(d, TailOf(d).entry)
<1>. DEFINE t == TailOf(d)
            E == t.entry
            n == d[0].size
<1>1. /\ E \in Nat \ {0} /\ t.count \in Nat /\ n \in Nat \ {0} /\ E + t.count = n - 1
      /\ d[n - 1] = t /\ t.kind = "tail" /\ d[0].kind = "head"
  BY ReadableLemma, ReadableEnds DEF FileInv, TailOf
<1>2. DOMAIN d = 0..(n - 1)
  BY FileDomain
<1>3. \A i \in 1..t.count : /\ Records(d)[i] = d[E + i - 1]
                            /\ Records(d)[i].kind = "index" /\ Records(d)[i].at < E
  <2>1. \A i \in 1..t.count : Records(d)[i] = d[E + i - 1] /\ Records(d)[i] \in IndexUnits
    BY ReadableLemma
  <2>. QED  BY <2>1 DEF IndexUnits, FileInv, ListBelow
<1>. HIDE DEF n, E, t
<1>4. ASSUME NEW a \in DOMAIN d, a >= E
      PROVE  /\ d[a].kind # "data"
             /\ d[a].kind = "index" => d[a].at < E
             /\ d[a].kind = "tail" => d[a].entry = E
  <2>1. CASE a = n - 1
    BY <1>1, <2>1 DEF E
  <2>2. CASE a # n - 1
    <3>1. a - E + 1 \in 1..t.count /\ E + (a - E + 1) - 1 = a
      BY <1>1, <1>2, <1>4, <2>2
    <3>2. d[a].kind = "index" /\ d[a].at < E
      BY <1>3, <3>1
    <3>. QED  BY <3>2
  <2>. QED  BY <2>1, <2>2
<1>5. 0 \in DOMAIN d /\ d[0].size > E
  BY <1>1, <1>2 DEF n
<1>. QED
  BY <1>1, <1>4, <1>5 DEF IndexRegion, E, t

-----------------------------------------------------------------------------
(***************************************************************************)
(* The inductive invariant.                                                *)
(***************************************************************************)
Loaded == info.isPckFileLoaded
Base == AppendAddress
Entry == info.dwAddressOfFileEntry
Count == info.dwFinalFileCount
Mine == disk[info.szFilename]
Target == disk[op.file]
TableBelow(a) == \A i \in DOMAIN Table : Table[i].at < a

Writing == {"index", "indexUnits", "head"}
Appending == op.kind \in {"update", "new"} /\ op.pc \in Writing \cup {"store"}
Editing == op.kind \in {"delete", "rename"} /\ op.pc \in Writing

FilesInv == \A f \in Files : FileInv(disk[f])

\* The open handle knows the file: while nothing writes to it, and while an addition
\* writes behind its end.
Knows(d) == Readable(d) /\ info.qwPckSize = d[0].size /\ TableBelow(TailOf(d).entry)
HandleInv ==
  /\ ~Loaded => info.szFilename = "none" /\ Table = <<>>
  /\ info.lpPckIndexTableToAdd # "dangling"
  /\ Loaded /\ (op.pc = "idle" \/ Appending) => Knows(Mine)
  /\ Loaded /\ op.pc = "idle" =>
       /\ Size(Mine) = Mine[0].size
       /\ Entry = TailOf(Mine).entry /\ Count = TailOf(Mine).count

OpInv ==
  op.pc # "idle" =>
    /\ Loaded => op.file = info.szFilename /\ op.kind \in {"update", "delete", "rename"}
    /\ ~Loaded => op.kind \in {"update", "new"}
    /\ op.pc = "store" => Appending

\* An addition: the new records say where the writer has put the data; an archive
\* that is not there yet has no head; behind an archive that is there nothing looks
\* like its index before that is written.
Unindexed ==
  \/ op.pc \in {"store", "index"}
  \/ op.pc = "indexUnits" /\ op.at = Entry
  \/ op.indexLost
AppendInv ==
  Appending =>
    /\ ~Loaded => Fresh(Target)
    /\ \A i \in DOMAIN op.index : op.index[i].at = Base + i - 1
    /\ op.pc = "store" => op.at = Base + Len(op.index)
    /\ op.pc # "store" => Entry = Base + Len(op.index)
    /\ op.pc = "index" => info.lpPckIndexTableToAdd = "runner"
    /\ Loaded /\ Unindexed =>
         \A a \in DOMAIN Target : a >= Base => Target[a].kind # "index"

EditInv ==
  Editing => op.index = <<>> /\ IndexRegion(Target, Entry) /\ TableBelow(Entry)

\* The index that is being written, and how far it has come.
Full == OldIndex \o op.index
Done == op.at - Entry
RecordsWritten(n) ==
  \A k \in 1..n : Entry + k - 1 < Size(Target) /\ Target[Entry + k - 1] = Full[k]
WriteInv ==
  /\ op.pc \in {"store", "index"} => ~op.indexLost
  /\ op.pc = "index" => op.at = Entry
  /\ op.pc = "indexUnits" =>
       /\ Count = Len(Full) /\ op.at >= Entry /\ op.at + Len(op.left) = Entry + Count
       /\ op.indexLost => op.left = <<>>
       /\ ~op.indexLost =>
            /\ \A k \in 1..Len(op.left) : op.left[k] = Full[Done + k]
            /\ RecordsWritten(Done)
  /\ op.pc = "head" =>
       /\ Count = Len(Full) /\ op.at = Entry + Count + 1
       /\ op.at <= Size(Target) /\ Target[Entry + Count] = TailUnit(Entry, Count)
       /\ ~op.indexLost => RecordsWritten(Count)

EndInv ==
  /\ op.pc = "end" =>
       /\ Target[0] = HeadUnit(op.at) /\ op.at <= Size(Target) /\ TableBelow(op.at)
  /\ op.pc = "return" /\ Loaded =>
       /\ 0 \in DOMAIN Target /\ Target[0].kind = "head" /\ TableBelow(Target[0].size)

OperationInv == OpInv /\ AppendInv /\ EditInv /\ WriteInv /\ EndInv
IInv == TypeOK /\ FilesInv /\ HandleInv /\ OperationInv

(***************************************************************************)
(* What a state of the invariant says.                                     *)
(***************************************************************************)
LEMMA Typed ==
  ASSUME TypeOK
  PROVE  /\ Table \in Seq(TableRecords) /\ Loaded \in BOOLEAN
         /\ Entry \in Nat \ {0} /\ Count \in Nat /\ Base \in Nat \ {0}
         /\ op.at \in Nat /\ op.indexLost \in BOOLEAN
         /\ op.index \in Seq(IndexUnits) /\ op.left \in Seq(IndexUnits \cup {Blank})
         /\ op.pc # "idle" => op.file \in Files /\ IsFile(Target) /\ op.at # 0
         /\ Loaded => info.szFilename \in Files /\ IsFile(Mine)
         /\ DOMAIN disk = Files /\ disk = [f \in Files |-> disk[f]]
         /\ \A f \in Files : IsFile(disk[f])
<1>1. DiskOK /\ InfoOK /\ OpOK
  BY TypeParts
<1>2. Base \in Nat \ {0} /\ Loaded \in BOOLEAN
  BY <1>1 DEF Base, AppendAddress, PCK_DATA_START_AT, InfoOK, Handles, Loaded
<1>3. Table \in Seq(TableRecords)
  BY <1>1, TableType
<1>4. Entry \in Nat \ {0} /\ Count \in Nat
  BY <1>1 DEF Entry, Count, InfoOK, Handles, Addresses
<1>5. /\ op.at \in Nat /\ op.indexLost \in BOOLEAN
      /\ op.index \in Seq(IndexUnits) /\ op.left \in Seq(IndexUnits \cup {Blank})
  BY <1>1 DEF OpOK, OperationStates, Addresses
<1>. QED
  BY <1>1, <1>2, <1>3, <1>4, <1>5 DEF DiskOK, InfoOK, OpOK, Target, Mine, Loaded

\* The records of the index to write name places below it.
LEMMA FullLemma ==
  ASSUME IInv, Appending \/ Editing, op.pc # "store"
  PROVE  /\ Full \in Seq(IndexUnits) /\ Len(Full) \in Nat
         /\ \A k \in 1..Len(Full) : Full[k] \in IndexUnits /\ Full[k].at < Entry
         /\ ~Loaded => Entry = 1 + Len(Full) /\ \A k \in 1..Len(Full) : Full[k].at = k
<1>1. TypeOK /\ HandleInv /\ OpInv /\ AppendInv /\ EditInv
  BY DEF IInv, OperationInv
<1>2. /\ OldIndex \in Seq(IndexUnits) /\ Len(OldIndex) \in Nat
      /\ ValidPlaces \in SUBSET (1..Len(Table)) /\ Len(OldIndex) = Cardinality(ValidPlaces)
      /\ \A k \in 1..Len(OldIndex) :
           \E i \in DOMAIN Table : OldIndex[k].at = Table[i].at
  <2>1. Table \in Seq(TableRecords)
    BY <1>1, Typed
  <2>2. DOMAIN Table = 1..Len(Table)
    BY <2>1
  <2>. QED  BY <2>1, <2>2, OldIndexLemma
<1>3. op.index \in Seq(IndexUnits) /\ Len(op.index) \in Nat /\ DOMAIN op.index = 1..Len(op.index)
  BY <1>1, Typed
<1>4. /\ Full \in Seq(IndexUnits) /\ Len(Full) = Len(OldIndex) + Len(op.index)
      /\ \A k \in 1..Len(Full) :
           Full[k] = IF k <= Len(OldIndex) THEN OldIndex[k] ELSE op.index[k - Len(OldIndex)]
  BY <1>2, <1>3, ConcatProperties DEF Full
<1>5. Len(Full) \in Nat /\ \A k \in 1..Len(Full) : Full[k] \in IndexUnits
  BY <1>2, <1>3, <1>4
<1>6. Entry \in Nat /\ Base \in Nat /\ \A i \in DOMAIN Table : Table[i].at \in Nat
  BY <1>1, Typed, RecordFields
<1>7. CASE Appending
  <2>1. Entry = Base + Len(op.index) /\ \A i \in 1..Len(op.index) : op.index[i].at = Base + i - 1
    BY <1>1, <1>3, <1>7 DEF AppendInv
  <2>2. CASE Loaded
    <3>1. Readable(Mine) /\ Base = Mine[0].size /\ TableBelow(TailOf(Mine).entry)
      BY <1>1, <1>7, <2>2 DEF HandleInv, Knows, Base, AppendAddress, Loaded
    <3>2. IsFile(Mine) /\ TailsAtEnd(Mine)
      BY <1>1, <2>2, Typed DEF IInv, FilesInv, FileInv, Mine
    <3>3. TailOf(Mine).entry < Base /\ TailOf(Mine).entry \in Nat
      BY <3>1, <3>2, ReadableEnds, ReadableLemma
    <3>4. \A i \in DOMAIN Table : Table[i].at < Base
      BY <1>6, <3>1, <3>3 DEF TableBelow
    <3>5. \A k \in 1..Len(OldIndex) : OldIndex[k].at < Entry
      BY <1>2, <1>3, <1>6, <2>1, <3>4
    <3>6. ASSUME NEW k \in 1..Len(Full), k > Len(OldIndex)
          PROVE  Full[k].at < Entry
      <4>1. k - Len(OldIndex) \in 1..Len(op.index)
        BY <1>2, <1>3, <1>4, <3>6
      <4>2. Full[k] = op.index[k - Len(OldIndex)]
        BY <1>2, <1>4, <3>6
      <4>. QED  BY <1>3, <1>6, <2>1, <4>1, <4>2
    <3>7. \A k \in 1..Len(Full) : Full[k].at < Entry
      BY <1>2, <1>4, <3>5, <3>6
    <3>. QED  BY <1>4, <1>5, <2>2, <3>7
  <2>3. CASE ~Loaded
    <3>1. Table = <<>> /\ Base = 1
      BY <1>1, <2>3 DEF HandleInv, Base, AppendAddress, PCK_DATA_START_AT, Loaded
    <3>2. ValidPlaces = {}
      BY <1>2, <3>1
    <3>3. Len(OldIndex) = 0
      BY <1>2, <3>2, FS_EmptySet
    <3>. QED  BY <1>3, <1>4, <1>5, <2>1, <3>1, <3>3
  <2>. QED  BY <2>2, <2>3
<1>8. CASE Editing
  <2>1. op.index = <<>> /\ TableBelow(Entry) /\ Loaded
    BY <1>1, <1>8 DEF EditInv, OpInv, Editing, Writing
  <2>2. \A k \in 1..Len(OldIndex) : OldIndex[k].at < Entry
    BY <1>2, <2>1 DEF TableBelow
  <2>3. Len(op.index) = 0
    BY <2>1
  <2>. QED  BY <1>2, <1>4, <1>5, <2>1, <2>2, <2>3
<1>. QED
  BY <1>7, <1>8

\* What a write of one unit at op.at leaves sound.
LEMMA UnitLemma ==
  ASSUME IInv, Appending \/ Editing, Appending => op.at >= Base, Editing => op.at >= Entry,
         NEW u \in Units,
         u.kind = "tail" => u.entry = Entry /\ u.entry + u.count = op.at,
         u.kind = "index" => u.at < Entry /\ (~Loaded => 2 * u.at <= op.at),
         Editing => u.kind # "data",
         disk' = [disk EXCEPT ![op.file] = Write2(@, op.at, u)]
  PROVE  /\ FilesInv'
         /\ op.file \in Files /\ AfterUnit(Target, disk'[op.file], op.at, u)
         /\ \A f \in Files \ {op.file} : disk'[f] = disk[f]
         /\ Appending /\ Loaded =>
              Readable(disk'[op.file]) /\ SameArchive(Target, disk'[op.file])
         /\ Appending /\ ~Loaded => Fresh(disk'[op.file])
         /\ Editing => IndexRegion(disk'[op.file], Entry)
<1>1. TypeOK /\ FilesInv /\ HandleInv /\ OpInv /\ AppendInv /\ EditInv
  BY DEF IInv, OperationInv
<1>2. op.pc # "idle"
  BY DEF Appending, Editing, Writing
<1>3. /\ op.file \in Files /\ IsFile(Target) /\ FileInv(Target)
      /\ op.at \in Nat \ {0} /\ Entry \in Nat \ {0} /\ DOMAIN disk = Files
  BY <1>1, <1>2, Typed DEF FilesInv, Target
<1>. DEFINE e == Write2(Target, op.at, u)
<1>4. disk'[op.file] = e /\ \A f \in Files \ {op.file} : disk'[f] = disk[f]
  BY <1>3 DEF Target
<1>5. AfterUnit(Target, e, op.at, u)
  BY <1>3, Written
<1>6. CASE Appending /\ Loaded
  <2>1. Target = Mine
    BY <1>1, <1>2, <1>6 DEF OpInv, Target, Mine
  <2>2. Readable(Target) /\ Base = Target[0].size
    BY <1>1, <1>6, <2>1 DEF HandleInv, Knows, Base, AppendAddress, Loaded
  <2>3. FileInv(e) /\ Readable(e) /\ SameArchive(Target, e)
    BY <1>3, <1>6, <2>2, UnitBehind
  <2>4. ~Editing
    BY <1>6 DEF Appending, Editing
  <2>. HIDE DEF e
  <2>. QED  BY <1>1, <1>3, <1>4, <1>5, <1>6, <2>3, <2>4 DEF FilesInv
<1>7. CASE Appending /\ ~Loaded
  <2>1. Fresh(Target)
    BY <1>1, <1>7 DEF AppendInv
  <2>2. FileInv(e) /\ Fresh(e)
    BY <1>3, <1>7, <2>1, UnitFresh
  <2>3. ~Editing
    BY <1>7 DEF Appending, Editing
  <2>. HIDE DEF e
  <2>. QED  BY <1>1, <1>3, <1>4, <1>5, <1>7, <2>2, <2>3 DEF FilesInv
<1>8. CASE Editing
  <2>1. IndexRegion(Target, Entry)
    BY <1>1, <1>8 DEF EditInv
  <2>2. FileInv(e) /\ IndexRegion(e, Entry)
    BY <1>3, <1>8, <2>1, UnitInRegion
  <2>3. ~Appending
    BY <1>8 DEF Appending, Editing
  <2>. HIDE DEF e
  <2>. QED  BY <1>1, <1>3, <1>4, <1>5, <1>8, <2>2, <2>3 DEF FilesInv
<1>. QED
  BY <1>6, <1>7, <1>8

-----------------------------------------------------------------------------
(***************************************************************************)
(* Steps that leave no operation under way.                                *)
(***************************************************************************)
LEMMA IdleAfter ==
  ASSUME op'.pc = "idle"
  PROVE  OperationInv'
BY DEF OperationInv, OpInv, AppendInv, EditInv, WriteInv, EndInv, Appending, Editing, Writing

LEMMA ClosedAfter ==
  ASSUME info' = Closed, op'.pc = "idle"
  PROVE  HandleInv'
BY DEF HandleInv, Closed, Loaded, Table

LEMMA MountInv ==
  ASSUME TypeOK, FilesInv, NEW f \in Files, MountPckFile(f), op'.pc = "idle"
  PROVE  FilesInv' /\ HandleInv'
<1>. DEFINE d == disk[f]
            e == disk'[f]
<1>1. IsFile(d) /\ FileInv(d) /\ DOMAIN disk = Files
  BY Typed DEF FilesInv
<1>2. CASE Detected(d)
  <2>1. 0 \in DOMAIN d /\ d[0].kind = "head" /\ d[0].size <= Size(d)
    BY <1>1, <1>2, FileDomain DEF Detected
  <2>2. disk' = [disk EXCEPT ![f] = SetEndOfFile(d, d[0].size)]
    BY <1>2 DEF MountPckFile, CutToSize
  <2>3. e = SetEndOfFile(d, d[0].size) /\ \A g \in Files \ {f} : disk'[g] = disk[g]
    BY <1>1, <2>2
  <2>. HIDE DEF d, e
  <2>4. /\ FileInv(e) /\ e[0] = d[0] /\ Size(e) = d[0].size
        /\ Readable(e) <=> Readable(d)
        /\ Readable(d) => SameArchive(d, e)
    BY <1>1, <2>1, <2>3, ShortFile
  <2>5. FilesInv'
    BY <2>3, <2>4 DEF FilesInv, d, e
  <2>6. CASE Readable(d)
    <3>1. info' = Mounted(f, d)
      BY <2>6 DEF MountPckFile, d
    <3>2. /\ Loaded' /\ info'.szFilename = f /\ Table' = IndexTable(d)
          /\ info'.lpPckIndexTableToAdd = "null" /\ info'.qwPckSize = d[0].size
          /\ Entry' = TailOf(d).entry /\ Count' = TailOf(d).count
      BY <3>1 DEF Mounted, Closed, Loaded, Table, Entry, Count
    <3>3. TailOf(e) = TailOf(d) /\ Readable(e)
      BY <2>4, <2>6 DEF SameArchive
    <3>4. \A i \in DOMAIN Table' : Table'[i].at < TailOf(e).entry
      <4>1. ListBelow(d, TailOf(d).entry)
        BY <1>1, <2>6 DEF FileInv
      <4>2. DOMAIN IndexTable(d) = 1..TailOf(d).count
        BY <1>1, <2>6, IndexTableLemma
      <4>3. \A i \in DOMAIN IndexTable(d) : IndexTable(d)[i].at < TailOf(d).entry
        BY <1>1, <2>6, <4>1, <4>2, IndexTableLemma DEF ListBelow
      <4>. QED  BY <3>2, <3>3, <4>3
    <3>5. Mine' = e
      BY <3>2 DEF Mine, e
    <3>6. Knows(Mine)'
      BY <2>4, <3>2, <3>3, <3>4, <3>5 DEF Knows, TableBelow
    <3>7. HandleInv'
      BY <2>4, <3>2, <3>3, <3>5, <3>6 DEF HandleInv
    <3>. QED  BY <2>5, <3>7
  <2>7. CASE ~Readable(d)
    <3>1. info' = Closed
      BY <2>7 DEF MountPckFile, d
    <3>. QED  BY <2>5, <3>1, ClosedAfter
  <2>. QED  BY <2>6, <2>7
<1>3. CASE ~Detected(d)
  <2>1. info' = Closed /\ disk' = disk
    BY <1>3 DEF MountPckFile, Readable
  <2>. QED  BY <2>1, ClosedAfter DEF FilesInv
<1>. QED
  BY <1>2, <1>3


\* What most steps leave of the handle: at most names, marks and counts change.
HandleKept ==
  /\ Loaded' = Loaded /\ info'.szFilename = info.szFilename
  /\ info'.qwPckSize = info.qwPckSize
  /\ info'.lpPckIndexTableToAdd = info.lpPckIndexTableToAdd
  /\ Entry' = Entry /\ Count' = Count
  /\ DOMAIN Table' = DOMAIN Table /\ (Table = <<>> => Table' = <<>>)
  /\ \A i \in DOMAIN Table : Table'[i].at = Table[i].at

LEMMA EmptyDomain ==
  ASSUME NEW S, NEW s \in Seq(S), NEW t \in Seq(S), DOMAIN s = DOMAIN t, s = <<>>
  PROVE  t = <<>>
<1>1. DOMAIN s = {} /\ DOMAIN t = 1..Len(t) /\ Len(t) \in Nat
  OBVIOUS
<1>2. 1 \notin 1..Len(t)
  BY <1>1
<1>3. Len(t) = 0
  BY <1>1, <1>2
<1>. QED
  BY <1>3, EmptySeq

LEMMA InfoFields ==
  ASSUME TypeOK, NEW table \in Seq(TableRecords), DOMAIN table = DOMAIN Table,
         \A i \in DOMAIN Table : table[i].at = Table[i].at,
         \/ info' = [info EXCEPT !.lpPckIndexTable = table]
         \/ \E n : info' = [info EXCEPT !.lpPckIndexTable = table, !.dwFileCountToAdd = n]
         \/ \E n, c : info' = [info EXCEPT !.lpPckIndexTable = table, !.dwFileCount = c,
                                           !.dwFileCountToAdd = n]
  PROVE  HandleKept
<1>1. info \in Handles
  BY DEF TypeOK
<1>2. /\ Loaded' = Loaded /\ info'.szFilename = info.szFilename
      /\ info'.qwPckSize = info.qwPckSize
      /\ info'.lpPckIndexTableToAdd = info.lpPckIndexTableToAdd
      /\ Entry' = Entry /\ Count' = Count /\ Table' = table
  BY <1>1 DEF Handles, Loaded, Entry, Count, Table
<1>3. ASSUME Table = <<>>  PROVE table = <<>>
  <2>1. Table \in Seq(TableRecords)
    BY Typed
  <2>. QED  BY <1>3, <2>1, EmptyDomain
<1>. QED
  BY <1>2, <1>3 DEF HandleKept

LEMMA IdleHandle ==
  ASSUME TypeOK, FilesInv, HandleInv, op.pc = "idle", UNCHANGED disk, HandleKept, op'.pc = "idle"
  PROVE  FilesInv' /\ HandleInv' /\ OperationInv'
<1>1. Mine' = Mine
  BY DEF HandleKept, Mine
<1>2. ASSUME Loaded
      PROVE  Knows(Mine)'
  <2>1. Knows(Mine)
    BY <1>2 DEF HandleInv
  <2>. QED  BY <1>1, <2>1 DEF Knows, TableBelow, HandleKept
<1>3. HandleInv'
  BY <1>1, <1>2 DEF HandleInv, HandleKept
<1>. QED
  BY <1>3, IdleAfter DEF FilesInv

\* A comment that is saved writes the tail that is there.
LEMMA InfoInv ==
  ASSUME IInv, SetAdditionalInfo
  PROVE  FilesInv' /\ HandleInv' /\ OperationInv' /\ UNCHANGED disk
<1>1. /\ TypeOK /\ FilesInv /\ HandleInv /\ op.pc = "idle" /\ Loaded
      /\ UNCHANGED <<info, op>>
  BY DEF IInv, SetAdditionalInfo, Begin, Loaded
<1>. DEFINE d == Mine
            n == Size(d)
            u == TailUnit(Entry, Count)
            e == Write2(d, n - 1, u)
<1>2. info.szFilename \in Files /\ IsFile(d) /\ FileInv(d) /\ DOMAIN disk = Files
  BY <1>1, Typed DEF FilesInv, Mine
<1>3. Readable(d) /\ n = d[0].size /\ Entry = TailOf(d).entry /\ Count = TailOf(d).count
  BY <1>1 DEF HandleInv, Knows
<1>4. n \in Nat \ {0} /\ TailOf(d) = d[n - 1] /\ TailOf(d).kind = "tail" /\ TailOf(d) \in Units
  BY <1>2, <1>3, ReadableLemma DEF TailOf
<1>5. d[n - 1] = u
  BY <1>3, <1>4 DEF TailUnit, Units, Blank, IndexUnits
<1>6. e = d
  <2>1. e = [a \in 0..Larger(n - 1, n - 1) |->
               IF a = n - 1 THEN u ELSE IF a < n THEN d[a] ELSE Blank]
    BY DEF Write2
  <2>2. DOMAIN d = 0..(n - 1) /\ Larger(n - 1, n - 1) = n - 1
    BY <1>2, FileDomain DEF Larger
  <2>3. d = [a \in 0..(n - 1) |-> d[a]]
    BY <1>2, <2>2 DEF IsFile
  <2>. HIDE DEF n, u, e, d
  <2>4. \A a \in 0..(n - 1) : a < n
    BY <1>4
  <2>. QED  BY <1>5, <2>1, <2>2, <2>3, <2>4
<1>7. disk' = [disk EXCEPT ![info.szFilename] = e]
  <2>1. disk' = [disk EXCEPT ![info.szFilename] =
                   Write2(disk[info.szFilename], Size(disk[info.szFilename]) - 1,
                          TailUnit(info.dwAddressOfFileEntry, info.dwFinalFileCount))]
    BY DEF SetAdditionalInfo
  <2>. QED  BY <2>1 DEF Mine, Entry, Count
<1>8. UNCHANGED disk
  <2>1. disk = [f \in Files |-> disk[f]]
    BY <1>1, Typed
  <2>. HIDE DEF e
  <2>. QED  BY <1>2, <1>6, <1>7, <2>1 DEF Mine
<1>9. HandleKept
  BY <1>1 DEF HandleKept, Loaded, Entry, Count, Table
<1>. QED
  BY <1>1, <1>8, <1>9, IdleHandle

-----------------------------------------------------------------------------
(***************************************************************************)
(* Steps that begin an operation.                                          *)
(***************************************************************************)
LEMMA EditBegins ==
  ASSUME IInv, op.pc = "idle", Loaded, HandleKept,
         NEW o \in {"delete", "rename"},
         disk' = [disk EXCEPT ![info.szFilename] = Mapping(@)],
         op' = [Idle EXCEPT !.pc = "index", !.kind = o, !.file = info.szFilename,
                            !.at = info.dwAddressOfFileEntry]
  PROVE  FilesInv' /\ HandleInv' /\ OperationInv'
<1>. DEFINE d == Mine
            e == Mapping(d)
<1>1. TypeOK /\ FilesInv /\ HandleInv
  BY DEF IInv
<1>2. info.szFilename \in Files /\ IsFile(d) /\ FileInv(d) /\ DOMAIN disk = Files
  BY <1>1, Typed DEF FilesInv, Mine
<1>3. /\ Readable(d) /\ TableBelow(TailOf(d).entry)
      /\ Size(d) = d[0].size /\ Entry = TailOf(d).entry
  BY <1>1 DEF HandleInv, Knows
<1>4. /\ op'.pc = "index" /\ op'.kind = o /\ op'.file = info.szFilename /\ op'.at = Entry
      /\ op'.index = <<>> /\ op'.indexLost = FALSE
  BY DEF Idle, Entry
<1>5. /\ FileInv(e) /\ Grown(d, e) /\ Readable(e) /\ SameArchive(d, e)
      /\ \A a \in DOMAIN e : (e[a] = Blank) \/ (a \in DOMAIN d /\ e[a] = d[a])
  BY <1>2, <1>3, MappingLemma, GrownFile
<1>6. disk'[info.szFilename] = e /\ \A f \in Files \ {info.szFilename} : disk'[f] = disk[f]
  BY <1>2 DEF Mine
<1>7. FilesInv'
  <2>. HIDE DEF e
  <2>. QED  BY <1>1, <1>5, <1>6 DEF FilesInv
<1>8. IndexRegion(e, Entry)
  <2>1. IndexRegion(d, Entry)
    BY <1>2, <1>3, ReadableRegion
  <2>. HIDE DEF e, d
  <2>2. 0 \in DOMAIN e
    BY <1>5, FileDomain DEF Readable, Detected, Grown
  <2>3. e[0] = d[0]
    BY <1>5 DEF SameArchive
  <2>. QED  BY <1>5, <2>1, <2>2, <2>3 DEF IndexRegion, Blank
<1>9. Target' = e
  BY <1>4, <1>6 DEF Target
<1>. HIDE DEF e
<1>10. Editing' /\ ~Appending' /\ Loaded' /\ op'.pc # "idle"
  BY <1>4 DEF Editing, Appending, Writing, HandleKept
<1>11. (TableBelow(Entry))'
  BY <1>3 DEF TableBelow, HandleKept
<1>12. HandleInv'
  BY <1>1, <1>4, <1>10 DEF HandleInv, HandleKept
<1>13. OpInv' /\ AppendInv'
  BY <1>4, <1>10 DEF OpInv, AppendInv, HandleKept
<1>14. EditInv'
  BY <1>4, <1>8, <1>9, <1>11 DEF EditInv, HandleKept
<1>15. WriteInv' /\ EndInv'
  BY <1>4 DEF WriteInv, EndInv, HandleKept
<1>. QED
  BY <1>7, <1>12, <1>13, <1>14, <1>15 DEF OperationInv

LEMMA UpdateBegins ==
  ASSUME IInv, NewAlone, NEW o \in {"update", "new"}, NEW f \in Files, NEW N \in NameSets,
         UpdateStart(o, f, N)
  PROVE  /\ FilesInv' /\ HandleInv' /\ OperationInv'
         /\ Loaded => f = info.szFilename /\ o = "update"
         /\ ~Loaded => Fresh(disk[f])
<1>. DEFINE d == disk[f]
            e == Mapping(d)
<1>1. TypeOK /\ FilesInv /\ HandleInv /\ op.pc = "idle"
  BY DEF IInv, UpdateStart, Begin
<1>2. IsFile(d) /\ FileInv(d) /\ DOMAIN disk = Files
  BY <1>1, Typed DEF FilesInv
<1>3. HandleKept
  <2>1. Table \in Seq(TableRecords)
    BY <1>1, Typed
  <2>2. /\ Invalidated(FindDuplicateNodes(N)) \in Seq(TableRecords)
        /\ DOMAIN Invalidated(FindDuplicateNodes(N)) = DOMAIN Table
        /\ \A i \in DOMAIN Table : Invalidated(FindDuplicateNodes(N))[i].at = Table[i].at
    BY <2>1, InvalidatedLemma
  <2>3. \E n, c : info' = [info EXCEPT
                       !.lpPckIndexTable = Invalidated(FindDuplicateNodes(N)),
                       !.dwFileCount = c, !.dwFileCountToAdd = n]
    BY DEF UpdateStart
  <2>. QED  BY <1>1, <2>2, <2>3, InfoFields
<1>4. /\ op'.pc = "store" /\ op'.kind = o /\ op'.file = f /\ op'.at = Base
      /\ op'.index = <<>> /\ op'.indexLost = FALSE
  BY DEF UpdateStart, Idle, Base
<1>5. /\ FileInv(e) /\ Grown(d, e) /\ (Fresh(d) <=> Fresh(e))
      /\ Readable(d) => Readable(e) /\ SameArchive(d, e)
      /\ \A a \in DOMAIN e : (e[a] = Blank) \/ (a \in DOMAIN d /\ e[a] = d[a])
  BY <1>2, MappingLemma, GrownFile
<1>6. disk'[f] = e /\ \A g \in Files \ {f} : disk'[g] = disk[g]
  BY <1>2 DEF UpdateStart
<1>7. FilesInv'
  <2>. HIDE DEF e
  <2>. QED  BY <1>1, <1>5, <1>6 DEF FilesInv
<1>8. Target' = e
  BY <1>4, <1>6 DEF Target
<1>9. Loaded => f = info.szFilename /\ o = "update"
  <2>. SUFFICES ASSUME Loaded  PROVE  f = info.szFilename /\ o = "update"
    OBVIOUS
  <2>1. (f = info.szFilename) = (o = "update")
    BY DEF UpdateStart, Loaded
  <2>2. info.szFilename \in Files
    BY <1>1, Typed
  <2>3. o = "new" => f = info.szFilename
    BY <2>2 DEF NewAlone, UpdateStart, Begin
  <2>. QED  BY <2>1, <2>3
<1>10. ~Loaded => Fresh(d)
  <2>. SUFFICES ASSUME ~Loaded  PROVE  Fresh(d)
    OBVIOUS
  <2>1. f # info.szFilename
    BY <1>1, ConstantsAssumption DEF HandleInv
  <2>. QED  BY <2>1 DEF UpdateStart, Fresh
<1>11. Appending' /\ ~Editing' /\ op'.pc # "idle"
  BY <1>4 DEF Appending, Editing, Writing
<1>12. Base' = Base
  BY <1>3 DEF HandleKept, Base, AppendAddress, Loaded
<1>13. Loaded => /\ d = Mine /\ Knows(d) /\ Size(d) = Base /\ Mine' = e
  <2>. SUFFICES ASSUME Loaded
                PROVE  d = Mine /\ Knows(d) /\ Size(d) = Base /\ Mine' = e
    OBVIOUS
  <2>1. d = Mine /\ Mine' = e
    BY <1>3, <1>6, <1>9 DEF Mine, HandleKept
  <2>2. Knows(d) /\ Size(d) = d[0].size
    BY <1>1, <2>1 DEF HandleInv
  <2>3. Base = d[0].size
    BY <2>2 DEF Knows, Base, AppendAddress, Loaded
  <2>. QED  BY <2>1, <2>2, <2>3
<1>. HIDE DEF e, d
<1>14. Loaded => Knows(Mine)'
  <2>. SUFFICES ASSUME Loaded  PROVE  Knows(Mine)'
    OBVIOUS
  <2>1. Readable(e) /\ TailOf(e) = TailOf(d) /\ e[0] = d[0]
    BY <1>5, <1>13 DEF Knows, SameArchive
  <2>. QED  BY <1>3, <1>13, <2>1 DEF Knows, TableBelow, HandleKept
<1>15. HandleInv'
  BY <1>1, <1>3, <1>11, <1>14 DEF HandleInv, HandleKept
<1>16. OpInv' /\ EditInv'
  BY <1>3, <1>4, <1>9, <1>11 DEF OpInv, EditInv, HandleKept
<1>17. AppendInv'
  <2>1. ~Loaded => Fresh(e)
    BY <1>5, <1>10 DEF d
  <2>2. ASSUME Loaded, NEW a \in DOMAIN e, a >= Base
        PROVE  e[a].kind # "index"
    <3>1. a \notin DOMAIN d
      BY <1>2, <1>13, <2>2, FileDomain DEF d
    <3>. QED  BY <1>5, <2>2, <3>1 DEF Blank
  <2>3. Len(op'.index) = 0 /\ DOMAIN op'.index = {}
    BY <1>4
  <2>4. Base \in Nat
    BY <1>1, Typed
  <2>. QED
    BY <1>3, <1>4, <1>8, <1>12, <2>1, <2>2, <2>3, <2>4 DEF AppendInv, HandleKept
<1>18. WriteInv' /\ EndInv'
  BY <1>4 DEF WriteInv, EndInv
<1>. QED
  BY <1>7, <1>9, <1>10, <1>15, <1>16, <1>17, <1>18 DEF OperationInv, d

-----------------------------------------------------------------------------
(***************************************************************************)
(* Steps of an addition up to its index.                                   *)
(***************************************************************************)
\* A step of an operation that leaves the handle alone, and the archive for whoever
\* reads it.
LEMMA HandleGoesOn ==
  ASSUME IInv, op.pc # "idle", op'.pc # "idle", Appending' => Appending, UNCHANGED info,
         Loaded /\ Appending =>
           Readable(disk'[op.file]) /\ SameArchive(Target, disk'[op.file])
  PROVE  HandleInv'
<1>1. HandleInv /\ OpInv
  BY DEF IInv, OperationInv
<1>2. /\ Loaded' = Loaded /\ Table' = Table /\ info'.szFilename = info.szFilename
      /\ info'.lpPckIndexTableToAdd = info.lpPckIndexTableToAdd
      /\ info'.qwPckSize = info.qwPckSize
  BY DEF Loaded, Table
<1>3. ASSUME Loaded, Appending
      PROVE  Knows(Mine)'
  <2>1. op.file = info.szFilename
    BY <1>1, <1>3 DEF OpInv
  <2>2. Knows(Mine) /\ Target = Mine /\ Mine' = disk'[op.file]
    BY <1>1, <1>2, <1>3, <2>1 DEF HandleInv, Target, Mine
  <2>. DEFINE e == disk'[op.file]
  <2>3. Readable(e) /\ e[0] = Mine[0] /\ TailOf(e) = TailOf(Mine)
    BY <1>3, <2>2 DEF SameArchive
  <2>. HIDE DEF e
  <2>4. Mine' = e
    BY <2>2 DEF e
  <2>. QED  BY <1>2, <2>2, <2>3, <2>4 DEF Knows, TableBelow
<1>. QED
  BY <1>1, <1>2, <1>3 DEF HandleInv

LEMMA StoreInv ==
  ASSUME IInv, NEW n \in Names, Store(n)
  PROVE  FilesInv' /\ HandleInv' /\ OperationInv'
<1>1. TypeOK /\ HandleInv /\ OpInv /\ AppendInv /\ WriteInv /\ op.pc = "store"
  BY DEF IInv, OperationInv, Store
<1>2. /\ Appending /\ ~Editing
      /\ op.at = Base + Len(op.index) /\ op.index \in Seq(IndexUnits) /\ Base \in Nat \ {0}
      /\ op.at \in Nat
  BY <1>1, Typed DEF OpInv, AppendInv, Editing, Writing
<1>. DEFINE u == DataUnit(n, jobs)
            r == IndexUnit(n, op.at)
            e == disk'[op.file]
<1>3. u \in Units /\ u.kind = "data" /\ r \in IndexUnits /\ r.at = op.at
  <2>1. jobs \in 1..MaxJobs
    BY <1>1 DEF TypeOK
  <2>. QED  BY <1>2, <2>1, UnitTypes DEF DataUnit, IndexUnit
<1>4. /\ disk' = [disk EXCEPT ![op.file] = Write2(@, op.at, u)]
      /\ op' = [op EXCEPT !.index = Append(@, r), !.at = @ + 1]
      /\ UNCHANGED info
  BY DEF Store
<1>. HIDE DEF u, r
<1>5. /\ FilesInv' /\ AfterUnit(Target, e, op.at, u)
      /\ Loaded => Readable(e) /\ SameArchive(Target, e)
      /\ ~Loaded => Fresh(e)
  <2>1. op.at >= Base
    BY <1>2
  <2>2. u.kind # "tail" /\ u.kind # "index"
    BY <1>3
  <2>3. /\ FilesInv' /\ AfterUnit(Target, disk'[op.file], op.at, u)
        /\ Appending /\ Loaded =>
             Readable(disk'[op.file]) /\ SameArchive(Target, disk'[op.file])
        /\ Appending /\ ~Loaded => Fresh(disk'[op.file])
    BY <1>2, <1>3, <1>4, <2>1, <2>2, UnitLemma
  <2>. QED  BY <1>2, <2>3
<1>6. /\ op'.pc = "store" /\ op'.kind = op.kind /\ op'.file = op.file /\ op'.at = op.at + 1
      /\ op'.index = Append(op.index, r) /\ op'.indexLost = op.indexLost
  BY <1>1, <1>4 DEF TypeOK, OperationStates
<1>7. Appending' /\ ~Editing' /\ op'.pc # "idle" /\ op.pc # "idle"
  BY <1>1, <1>2, <1>6 DEF Appending, Editing, Writing
<1>8. Target' = e
  BY <1>6 DEF Target
<1>9. HandleInv'
  <2>1. Loaded /\ Appending =>
          Readable(disk'[op.file]) /\ SameArchive(Target, disk'[op.file])
    BY <1>5
  <2>. QED  BY <1>2, <1>4, <1>7, <2>1, HandleGoesOn
<1>. HIDE DEF e
<1>10. Base' = Base /\ Loaded' = Loaded
  BY <1>4 DEF Base, AppendAddress, Loaded
<1>11. OpInv' /\ EditInv'
  BY <1>1, <1>4, <1>6, <1>7, <1>10 DEF OpInv, EditInv
<1>12. AppendInv'
  <2>1. /\ Len(Append(op.index, r)) = Len(op.index) + 1 /\ Len(op.index) \in Nat
        /\ DOMAIN Append(op.index, r) = 1..(Len(op.index) + 1)
        /\ DOMAIN op.index = 1..Len(op.index)
    BY <1>2, <1>3
  <2>2. \A i \in 1..Len(op.index) : Append(op.index, r)[i] = op.index[i]
    BY <1>2, <1>3, AppendProperties
  <2>3. Append(op.index, r)[Len(op.index) + 1] = r
    BY <1>2, <1>3, AppendProperties
  <2>4. \A i \in DOMAIN op'.index : op'.index[i].at = Base + i - 1
    BY <1>1, <1>2, <1>3, <1>6, <2>1, <2>2, <2>3 DEF AppendInv
  <2>5. op'.at = Base + Len(op'.index)
    BY <1>2, <1>6, <2>1
  <2>6. ASSUME Loaded, NEW a \in DOMAIN e, a >= Base
        PROVE  e[a].kind # "index"
    <3>1. \A b \in DOMAIN Target : b >= Base => Target[b].kind # "index"
      BY <1>1, <1>2, <2>6 DEF AppendInv, Unindexed
    <3>. QED  BY <1>3, <1>5, <2>6, <3>1 DEF AfterUnit, Blank
  <2>. QED
    BY <1>5, <1>6, <1>8, <1>10, <2>4, <2>5, <2>6 DEF AppendInv
<1>13. WriteInv' /\ EndInv'
  BY <1>1, <1>6 DEF WriteInv, EndInv
<1>. QED
  BY <1>5, <1>9, <1>11, <1>12, <1>13 DEF OperationInv

LEMMA StopInv ==
  ASSUME IInv, Stop
  PROVE  FilesInv' /\ HandleInv' /\ OperationInv'
<1>1. /\ op' = [op EXCEPT !.stopped = TRUE] /\ UNCHANGED <<disk, info>> /\ op.pc = "store"
      /\ op \in OperationStates
  BY DEF Stop, IInv, TypeOK
<1>2. /\ op'.pc = op.pc /\ op'.kind = op.kind /\ op'.file = op.file /\ op'.at = op.at
      /\ op'.index = op.index /\ op'.left = op.left /\ op'.indexLost = op.indexLost
  BY <1>1 DEF OperationStates
<1>3. /\ Loaded' = Loaded /\ Base' = Base /\ Table' = Table /\ Mine' = Mine
      /\ Target' = Target /\ Entry' = Entry
      /\ Appending' = Appending /\ Editing' = Editing
  BY <1>1, <1>2 DEF Loaded, Base, AppendAddress, Table, Mine, Target, Entry, Appending, Editing
<1>4. FilesInv' /\ HandleInv'
  BY <1>1, <1>2, <1>3 DEF IInv, FilesInv, HandleInv, Knows, TableBelow
<1>5. OpInv' /\ EditInv' /\ WriteInv' /\ EndInv'
  BY <1>1, <1>2, <1>3
     DEF IInv, OperationInv, OpInv, EditInv, WriteInv, EndInv, Editing, Writing, TableBelow
<1>6. AppendInv'
  BY <1>1, <1>2, <1>3 DEF IInv, OperationInv, AppendInv, Unindexed
<1>. QED
  BY <1>4, <1>5, <1>6 DEF OperationInv

LEMMA JoinedInv ==
  ASSUME IInv, ThreadsJoined
  PROVE  FilesInv' /\ HandleInv' /\ OperationInv'
<1>1. /\ TypeOK /\ FilesInv /\ HandleInv /\ OpInv /\ AppendInv /\ WriteInv
      /\ op.pc = "store" /\ UNCHANGED disk
  BY DEF IInv, OperationInv, ThreadsJoined
<1>2. Appending /\ ~Editing /\ op.at = Base + Len(op.index)
  BY <1>1 DEF OpInv, AppendInv, Editing, Writing
<1>3. /\ Loaded' = Loaded /\ info'.szFilename = info.szFilename /\ Table' = Table
      /\ info'.lpPckIndexTableToAdd = "runner" /\ info'.qwPckSize = info.qwPckSize
      /\ Entry' = op.at
  BY <1>1 DEF ThreadsJoined, TypeOK, Handles, Loaded, Table, Entry
<1>4. /\ op'.pc = "index" /\ op'.kind = op.kind /\ op'.file = op.file /\ op'.at = op.at
      /\ op'.index = op.index /\ op'.indexLost = op.indexLost
  BY <1>1 DEF ThreadsJoined, TypeOK, OperationStates
<1>5. Appending' /\ ~Editing' /\ op'.pc # "idle"
  BY <1>2, <1>4 DEF Appending, Editing, Writing
<1>6. Base' = Base /\ Mine' = Mine /\ Target' = Target
  BY <1>1, <1>3, <1>4 DEF Base, AppendAddress, Mine, Target, Loaded
<1>7. FilesInv' /\ HandleInv'
  BY <1>1, <1>2, <1>3, <1>5, <1>6 DEF FilesInv, HandleInv, Knows, TableBelow
<1>8. OpInv' /\ EditInv' /\ WriteInv' /\ EndInv'
  BY <1>1, <1>3, <1>4, <1>5 DEF OpInv, EditInv, WriteInv, EndInv
<1>9. AppendInv'
  BY <1>1, <1>2, <1>3, <1>4, <1>5, <1>6 DEF AppendInv, Unindexed
<1>. QED
  BY <1>7, <1>8, <1>9 DEF OperationInv

-----------------------------------------------------------------------------
(***************************************************************************)
(* Steps that write the index, the tail and the head.                      *)
(***************************************************************************)
LEMMA WritersLemma ==
  ASSUME IInv, op.pc \in Writing
  PROVE  /\ Appending \/ Editing
         /\ ~(Appending /\ Editing)
         /\ Editing => Loaded
         /\ Appending => Entry >= Base
<1>1. OpInv /\ AppendInv /\ TypeOK
  BY DEF IInv, OperationInv
<1>2. op.pc # "idle" /\ op.pc # "store"
  BY DEF Writing
<1>3. Appending => Entry >= Base
  <2>1. Base \in Nat /\ Len(op.index) \in Nat
    BY <1>1, Typed
  <2>. QED  BY <1>1, <1>2, <2>1 DEF AppendInv
<1>. QED
  BY <1>1, <1>2, <1>3, Typed DEF OpInv, Appending, Editing

LEMMA FullStays ==
  ASSUME Table' = Table, op'.index = op.index
  PROVE  Full' = Full /\ OldIndex' = OldIndex
<1>1. ValidPlaces' = ValidPlaces
  BY DEF ValidPlaces, Table
<1>2. OldIndex' = OldIndex
  BY <1>1 DEF OldIndex, Table
<1>. QED
  BY <1>2 DEF Full

LEMMA AllIndexInv ==
  ASSUME IInv, WriteAllIndex
  PROVE  FilesInv' /\ HandleInv' /\ OperationInv'
<1>1. /\ TypeOK /\ FilesInv /\ HandleInv /\ OpInv /\ AppendInv /\ EditInv /\ WriteInv
      /\ op.pc = "index" /\ UNCHANGED disk
  BY DEF IInv, OperationInv, WriteAllIndex
<1>2. ~IsVectorRead
  <2>1. info.lpPckIndexTableToAdd \in {"null", "runner", "dangling"}
    BY <1>1 DEF TypeOK, Handles
  <2>. QED  BY <1>1, <2>1 DEF HandleInv, WriteAllIndex, IsVectorRead
<1>3. /\ info' = [info EXCEPT !.dwFileCount = Len(OldIndex),
                              !.dwFinalFileCount = Len(OldIndex) + Len(op.index)]
      /\ op' = [op EXCEPT !.pc = "indexUnits", !.left = OldIndex \o op.index]
  BY <1>2 DEF WriteAllIndex
<1>4. /\ Loaded' = Loaded /\ info'.szFilename = info.szFilename /\ Table' = Table
      /\ info'.lpPckIndexTableToAdd = info.lpPckIndexTableToAdd
      /\ info'.qwPckSize = info.qwPckSize
      /\ Entry' = Entry /\ Count' = Len(OldIndex) + Len(op.index)
  BY <1>1, <1>3 DEF TypeOK, Handles, Loaded, Table, Entry, Count
<1>5. /\ op'.pc = "indexUnits" /\ op'.kind = op.kind /\ op'.file = op.file /\ op'.at = op.at
      /\ op'.index = op.index /\ op'.left = Full /\ op'.indexLost = op.indexLost
  BY <1>1, <1>3 DEF TypeOK, OperationStates, Full
<1>6. /\ Appending' = Appending /\ Editing' = Editing /\ op'.pc # "idle"
      /\ Appending \/ Editing
  BY <1>1, <1>5, WritersLemma DEF Appending, Editing, Writing
<1>7. Base' = Base /\ Mine' = Mine /\ Target' = Target
  BY <1>1, <1>4, <1>5 DEF Base, AppendAddress, Mine, Target, Loaded
<1>8. Full' = Full
  BY <1>4, <1>5, FullStays
<1>9. FilesInv' /\ HandleInv'
  BY <1>1, <1>4, <1>5, <1>6, <1>7 DEF FilesInv, HandleInv, Knows, TableBelow
<1>10. OpInv' /\ EditInv' /\ EndInv'
  BY <1>1, <1>4, <1>5, <1>6, <1>7 DEF OpInv, EditInv, EndInv, TableBelow
<1>11. AppendInv'
  BY <1>1, <1>4, <1>5, <1>6, <1>7 DEF AppendInv, Unindexed
<1>12. WriteInv'
  <2>1. op.at = Entry /\ Entry \in Nat /\ ~op.indexLost
    BY <1>1, Typed DEF WriteInv
  <2>2. Len(Full) \in Nat /\ Len(Full) = Len(OldIndex) + Len(op.index)
    <3>1. OldIndex \in Seq(IndexUnits) /\ op.index \in Seq(IndexUnits)
      BY <1>1, Typed, OldIndexLemma
    <3>. QED  BY <3>1 DEF Full
  <2>3. Done' = 0 /\ op'.at = Entry'
    BY <1>4, <1>5, <2>1 DEF Done
  <2>4. RecordsWritten(0)'
    BY DEF RecordsWritten
  <2>5. RecordsWritten(Done)'
    BY <2>3 DEF RecordsWritten
  <2>6. \A k \in 1..Len(op'.left) : op'.left[k] = Full'[Done' + k]
    BY <1>5, <1>8, <2>2, <2>3
  <2>. QED
    BY <1>4, <1>5, <1>8, <2>1, <2>2, <2>3, <2>5, <2>6 DEF WriteInv
<1>. QED
  BY <1>9, <1>10, <1>11, <1>12 DEF OperationInv

\* The next record of the index goes where it belongs.
LEMMA NextRecord ==
  ASSUME IInv, WriteIndexUnit
  PROVE  /\ op.pc = "indexUnits" /\ ~op.indexLost /\ (Appending \/ Editing)
         /\ Done \in Nat /\ op.at = Entry + Done /\ Done < Len(Full)
         /\ Head(op.left) = Full[Done + 1]
         /\ Head(op.left) \in IndexUnits /\ Head(op.left).at < Entry
         /\ ~Loaded => 2 * Head(op.left).at <= op.at
         /\ Len(Tail(op.left)) = Len(op.left) - 1
         /\ \A k \in 1..Len(Tail(op.left)) : Tail(op.left)[k] = op.left[k + 1]
<1>1. TypeOK /\ WriteInv /\ op.pc = "indexUnits" /\ op.left # <<>>
  BY DEF IInv, OperationInv, WriteIndexUnit
<1>2. Appending \/ Editing
  BY <1>1, WritersLemma DEF Writing
<1>3. /\ Count = Len(Full) /\ op.at >= Entry /\ op.at + Len(op.left) = Entry + Count
      /\ ~op.indexLost /\ \A k \in 1..Len(op.left) : op.left[k] = Full[Done + k]
  BY <1>1 DEF WriteInv
<1>4. /\ Entry \in Nat /\ op.at \in Nat /\ op.left \in Seq(IndexUnits \cup {Blank})
  BY <1>1, Typed
<1>5. /\ Len(op.left) \in Nat \ {0} /\ Head(op.left) = op.left[1]
      /\ Len(Tail(op.left)) = Len(op.left) - 1
      /\ \A k \in 1..Len(Tail(op.left)) : Tail(op.left)[k] = op.left[k + 1]
  BY <1>1, <1>4, EmptySeq, HeadTailProperties
<1>6. Done \in Nat /\ op.at = Entry + Done /\ Done + Len(op.left) = Len(Full)
  <2>1. Done \in Nat /\ op.at = Entry + Done
    BY <1>3, <1>4 DEF Done
  <2>2. Len(op.left) \in Nat /\ Count \in Nat /\ Done \in Nat
    BY <1>1, <1>5, <2>1, Typed
  <2>3. Done + Len(op.left) = Count
    <3>1. PICK n \in Nat : n = Len(op.left)
      BY <2>2
    <3>2. op.at + n = Entry + Count
      BY <1>3, <3>1
    <3>3. Done + n = Count
      BY <1>4, <2>1, <2>2, <3>2
    <3>. QED  BY <3>1, <3>3
  <2>4. Count = Len(Full)
    BY <1>3
  <2>. QED  BY <2>1, <2>3, <2>4
<1>7. Head(op.left) = Full[Done + 1] /\ Done + 1 \in 1..Len(Full)
  BY <1>3, <1>5, <1>6
<1>8. /\ \A k \in 1..Len(Full) : Full[k] \in IndexUnits /\ Full[k].at < Entry
      /\ ~Loaded => Entry = 1 + Len(Full) /\ \A k \in 1..Len(Full) : Full[k].at = k
  BY <1>1, <1>2, FullLemma
<1>9. ~Loaded => 2 * Full[Done + 1].at <= op.at
  BY <1>6, <1>7, <1>8
<1>. QED
  BY <1>1, <1>2, <1>3, <1>5, <1>6, <1>7, <1>8, <1>9

LEMMA IndexUnitInv ==
  ASSUME IInv, WriteIndexUnit
  PROVE  FilesInv' /\ HandleInv' /\ OperationInv'
<1>. DEFINE u == Head(op.left)
            e == disk'[op.file]
<1>1. /\ TypeOK /\ HandleInv /\ OpInv /\ AppendInv /\ EditInv /\ WriteInv
      /\ op.pc = "indexUnits" /\ UNCHANGED info
  BY DEF IInv, OperationInv, WriteIndexUnit
<1>2. /\ ~op.indexLost /\ (Appending \/ Editing)
      /\ Done \in Nat /\ op.at = Entry + Done /\ Done < Len(Full)
      /\ u = Full[Done + 1] /\ u \in IndexUnits /\ u.at < Entry
      /\ ~Loaded => 2 * u.at <= op.at
      /\ Len(Tail(op.left)) = Len(op.left) - 1
      /\ \A k \in 1..Len(Tail(op.left)) : Tail(op.left)[k] = op.left[k + 1]
  BY NextRecord
<1>. HIDE DEF u
<1>3. u \in Units /\ u.kind = "index" /\ Entry \in Nat \ {0}
  BY <1>1, <1>2, UnitTypes, Typed DEF IndexUnits
<1>4. /\ disk' = [disk EXCEPT ![op.file] = Write2(@, op.at, u)]
      /\ op' = [op EXCEPT !.left = Tail(@), !.at = @ + 1]
  BY DEF WriteIndexUnit, u
<1>5. /\ FilesInv' /\ AfterUnit(Target, e, op.at, u)
      /\ Appending /\ Loaded => Readable(e) /\ SameArchive(Target, e)
      /\ Appending /\ ~Loaded => Fresh(e)
      /\ Editing => IndexRegion(e, Entry)
  <2>1. op.at >= Entry /\ (Appending => op.at >= Base)
    <3>1. Base \in Nat /\ (Appending => Entry >= Base)
      BY <1>1, Typed, WritersLemma DEF Writing
    <3>. QED  BY <1>2, <1>3, <3>1
  <2>2. u.kind # "tail" /\ u.kind # "data"
    BY <1>3
  <2>. QED  BY <1>2, <1>3, <1>4, <2>1, <2>2, UnitLemma
<1>6. /\ op'.pc = "indexUnits" /\ op'.kind = op.kind /\ op'.file = op.file
      /\ op'.at = op.at + 1 /\ op'.index = op.index /\ op'.left = Tail(op.left)
      /\ op'.indexLost = op.indexLost
  BY <1>1, <1>4 DEF TypeOK, OperationStates
<1>7. /\ Appending' = Appending /\ Editing' = Editing /\ op'.pc # "idle" /\ op.pc # "idle"
  BY <1>1, <1>6 DEF Appending, Editing, Writing
<1>8. Target' = e
  BY <1>6 DEF Target
<1>9. HandleInv'
  BY <1>1, <1>5, <1>7, HandleGoesOn
<1>. HIDE DEF e
<1>10. Base' = Base /\ Loaded' = Loaded /\ Entry' = Entry /\ Count' = Count /\ Table' = Table
  BY <1>1 DEF Base, AppendAddress, Loaded, Entry, Count, Table
<1>11. Full' = Full
  BY <1>6, <1>10, FullStays
<1>12. OpInv' /\ EditInv' /\ EndInv'
  BY <1>1, <1>5, <1>6, <1>7, <1>8, <1>10 DEF OpInv, EditInv, EndInv, TableBelow
<1>13. AppendInv'
  <2>1. ~Unindexed'
    BY <1>2, <1>3, <1>6, <1>10 DEF Unindexed
  <2>. QED  BY <1>1, <1>5, <1>6, <1>7, <1>8, <1>10, <2>1 DEF AppendInv
<1>14. WriteInv'
  <2>1. /\ Count = Len(Full) /\ op.at + Len(op.left) = Entry + Count
        /\ \A k \in 1..Len(op.left) : op.left[k] = Full[Done + k]
        /\ RecordsWritten(Done)
    BY <1>1, <1>2 DEF WriteInv
  <2>2. Len(op.left) \in Nat /\ Count \in Nat
    BY <1>1, Typed
  <2>3. Done' = Done + 1
    BY <1>2, <1>3, <1>6, <1>10 DEF Done
  <2>4. \A k \in 1..Len(op'.left) : op'.left[k] = Full[Done + 1 + k]
    <3>. SUFFICES ASSUME NEW k \in 1..Len(op'.left)
                  PROVE  op'.left[k] = Full[Done + 1 + k]
      OBVIOUS
    <3>1. k + 1 \in 1..Len(op.left) /\ op'.left[k] = op.left[k + 1]
      BY <1>2, <1>6, <2>2
    <3>2. op.left[k + 1] = Full[Done + (k + 1)]
      BY <2>1, <3>1
    <3>. QED  BY <1>2, <3>1, <3>2
  <2>5. \A k \in 1..(Done + 1) : Entry + k - 1 < Size(e) /\ e[Entry + k - 1] = Full[k]
    <3>. SUFFICES ASSUME NEW k \in 1..(Done + 1)
                  PROVE  Entry + k - 1 < Size(e) /\ e[Entry + k - 1] = Full[k]
      OBVIOUS
    <3>1. CASE k = Done + 1
      BY <1>2, <1>3, <1>5, <3>1 DEF AfterUnit
    <3>2. CASE k # Done + 1
      <4>1. /\ k \in 1..Done /\ Entry + k - 1 \in Nat /\ Entry + k - 1 # op.at
        BY <1>2, <1>3, <3>2
      <4>2. Entry + k - 1 < Size(Target) /\ Target[Entry + k - 1] = Full[k]
        BY <2>1, <4>1 DEF RecordsWritten
      <4>3. IsFile(Target)
        BY <1>1, Typed
      <4>4. Entry + k - 1 \in DOMAIN Target
        BY <4>1, <4>2, <4>3, FileDomain
      <4>. QED  BY <1>5, <4>1, <4>2, <4>4 DEF AfterUnit
    <3>. QED  BY <3>1, <3>2
  <2>6. RecordsWritten(Done)'
    <3>1. (\A k \in 1..Done : Entry + k - 1 < Size(Target) /\ Target[Entry + k - 1] = Full[k])'
      BY <1>8, <1>10, <1>11, <2>3, <2>5
    <3>. QED  BY <3>1 DEF RecordsWritten
  <2>7. op'.at >= Entry' /\ op'.at + Len(op'.left) = Entry' + Count'
    <3>1. PICK n \in Nat : n = Len(op.left)
      BY <2>2
    <3>2. op.at + n = Entry + Count
      BY <2>1, <3>1
    <3>3. op'.at = op.at + 1 /\ Len(op'.left) = n - 1
      BY <1>2, <1>6, <3>1
    <3>4. op'.at + (n - 1) = Entry + Count /\ op'.at >= Entry
      BY <1>2, <1>3, <2>2, <3>2, <3>3
    <3>. QED  BY <1>10, <3>3, <3>4
  <2>. QED
    BY <1>2, <1>6, <1>10, <1>11, <2>1, <2>3, <2>4, <2>6, <2>7 DEF WriteInv
<1>. QED
  BY <1>5, <1>9, <1>12, <1>13, <1>14 DEF OperationInv

\* The index is not written: its place is left as it was.
LEMMA IndexLostInv ==
  ASSUME IInv, IndexNotWritten
  PROVE  FilesInv' /\ HandleInv' /\ OperationInv'
<1>1. /\ TypeOK /\ FilesInv /\ HandleInv /\ OpInv /\ AppendInv /\ EditInv /\ WriteInv
      /\ op.pc = "indexUnits" /\ UNCHANGED <<disk, info>> /\ Len(op.left) = Count
  BY DEF IInv, OperationInv, IndexNotWritten, Count
<1>2. PICK n \in Nat : n = Len(op.left)
  BY <1>1, Typed
<1>3. op.at \in Nat /\ Entry \in Nat
  BY <1>1, Typed
<1>4. op.at = Entry /\ Count = n /\ Count = Len(Full)
  <2>1. op.at + n = Entry + n
    BY <1>1, <1>2 DEF WriteInv
  <2>. QED  BY <1>1, <1>2, <1>3, <2>1 DEF WriteInv
<1>5. /\ op'.pc = "indexUnits" /\ op'.kind = op.kind /\ op'.file = op.file
      /\ op'.at = Entry + n /\ op'.index = op.index /\ op'.left = <<>>
      /\ op'.indexLost = TRUE
  BY <1>1, <1>2, <1>4 DEF IndexNotWritten, TypeOK, OperationStates
<1>6. /\ Loaded' = Loaded /\ Base' = Base /\ Table' = Table /\ Mine' = Mine
      /\ Target' = Target /\ Entry' = Entry /\ Count' = Count
      /\ Appending' = Appending /\ Editing' = Editing
  BY <1>1, <1>5
     DEF Loaded, Base, AppendAddress, Table, Mine, Target, Entry, Count, Appending, Editing
<1>7. Full' = Full
  BY <1>5, <1>6, FullStays
<1>8. FilesInv' /\ HandleInv'
  BY <1>1, <1>5, <1>6 DEF FilesInv, HandleInv, Knows, TableBelow
<1>9. OpInv' /\ EditInv' /\ EndInv'
  BY <1>1, <1>5, <1>6 DEF OpInv, EditInv, EndInv, TableBelow
<1>10. AppendInv'
  BY <1>1, <1>4, <1>5, <1>6 DEF AppendInv, Unindexed
<1>11. WriteInv'
  <2>1. Len(op'.left) = 0 /\ op'.at >= Entry' /\ op'.at + Len(op'.left) = Entry' + Count'
    <3>1. Len(op'.left) = 0
      BY <1>5
    <3>2. op'.at = Entry + n /\ Entry' = Entry /\ Count' = n
      BY <1>4, <1>5, <1>6
    <3>. QED  BY <1>3, <3>1, <3>2
  <2>. QED  BY <1>4, <1>5, <1>6, <1>7, <2>1 DEF WriteInv
<1>. QED
  BY <1>8, <1>9, <1>10, <1>11 DEF OperationInv

\* The tail goes behind the index.
LEMMA AtTail ==
  ASSUME IInv, op.pc = "indexUnits", op.left = <<>>
  PROVE  /\ op.at = Entry + Count /\ Count = Len(Full) /\ Done = Count
         /\ ~op.indexLost => RecordsWritten(Count)
         /\ TailUnit(Entry, Count) \in Units
<1>1. TypeOK /\ WriteInv
  BY DEF IInv, OperationInv
<1>2. Entry \in Nat \ {0} /\ Count \in Nat /\ op.at \in Nat /\ Len(op.left) = 0
  BY <1>1, Typed
<1>3. op.at = Entry + Count /\ Count = Len(Full)
  <2>1. op.at + Len(op.left) = Entry + Count
    BY <1>1 DEF WriteInv
  <2>. QED  BY <1>1, <1>2, <2>1 DEF WriteInv
<1>4. Done = Count
  BY <1>2, <1>3 DEF Done
<1>. QED
  BY <1>1, <1>2, <1>3, <1>4, UnitTypes DEF WriteInv

LEMMA TailInv ==
  ASSUME IInv, WriteTail
  PROVE  FilesInv' /\ HandleInv' /\ OperationInv'
<1>. DEFINE u == TailUnit(Entry, Count)
            e == disk'[op.file]
<1>1. /\ TypeOK /\ HandleInv /\ OpInv /\ AppendInv /\ EditInv /\ WriteInv
      /\ op.pc = "indexUnits" /\ op.left = <<>> /\ UNCHANGED info
  BY DEF IInv, OperationInv, WriteTail
<1>2. /\ op.at = Entry + Count /\ Count = Len(Full) /\ Done = Count
      /\ ~op.indexLost => RecordsWritten(Count)
      /\ u \in Units
  BY <1>1, AtTail
<1>3. /\ u.kind = "tail" /\ u.entry = Entry /\ u.count = Count
      /\ Entry \in Nat \ {0} /\ Count \in Nat
  BY <1>1, Typed DEF TailUnit
<1>4. /\ disk' = [disk EXCEPT ![op.file] = Write2(@, op.at, u)]
      /\ op' = [op EXCEPT !.pc = "head", !.at = @ + 1]
  BY DEF WriteTail, Entry, Count
<1>5. (Appending \/ Editing) /\ (Appending => op.at >= Base) /\ op.at >= Entry
  <2>1. Base \in Nat /\ (Appending => Entry >= Base) /\ (Appending \/ Editing)
    BY <1>1, Typed, WritersLemma DEF Writing
  <2>. QED  BY <1>2, <1>3, <2>1
<1>. HIDE DEF u
<1>6. /\ FilesInv' /\ AfterUnit(Target, e, op.at, u)
      /\ Appending /\ Loaded => Readable(e) /\ SameArchive(Target, e)
      /\ Appending /\ ~Loaded => Fresh(e)
      /\ Editing => IndexRegion(e, Entry)
  <2>1. u.kind # "index" /\ u.kind # "data" /\ u.entry + u.count = op.at
    BY <1>2, <1>3
  <2>. QED  BY <1>2, <1>3, <1>4, <1>5, <2>1, UnitLemma
<1>7. /\ op'.pc = "head" /\ op'.kind = op.kind /\ op'.file = op.file
      /\ op'.at = op.at + 1 /\ op'.index = op.index /\ op'.indexLost = op.indexLost
  BY <1>1, <1>4 DEF TypeOK, OperationStates
<1>8. /\ Appending' = Appending /\ Editing' = Editing /\ op'.pc # "idle" /\ op.pc # "idle"
  BY <1>1, <1>7 DEF Appending, Editing, Writing
<1>9. Target' = e
  BY <1>7 DEF Target
<1>10. HandleInv'
  BY <1>1, <1>6, <1>8, HandleGoesOn
<1>. HIDE DEF e
<1>11. Base' = Base /\ Loaded' = Loaded /\ Entry' = Entry /\ Count' = Count /\ Table' = Table
  BY <1>1 DEF Base, AppendAddress, Loaded, Entry, Count, Table
<1>12. Full' = Full
  BY <1>7, <1>11, FullStays
<1>13. OpInv' /\ EditInv' /\ EndInv'
  BY <1>1, <1>6, <1>7, <1>8, <1>9, <1>11 DEF OpInv, EditInv, EndInv, TableBelow
<1>14. AppendInv'
  <2>1. ASSUME Unindexed', Appending, Loaded, NEW a \in DOMAIN e, a >= Base
        PROVE  e[a].kind # "index"
    <3>1. op.indexLost
      BY <1>7, <2>1 DEF Unindexed
    <3>2. \A b \in DOMAIN Target : b >= Base => Target[b].kind # "index"
      BY <1>1, <2>1, <3>1 DEF AppendInv, Unindexed
    <3>. QED  BY <1>3, <1>6, <2>1, <3>2 DEF AfterUnit, Blank
  <2>. QED  BY <1>1, <1>6, <1>7, <1>8, <1>9, <1>11, <2>1 DEF AppendInv
<1>15. WriteInv'
  <2>1. op.at < Size(e) /\ e[op.at] = u /\ Size(e) \in Nat
    BY <1>6 DEF AfterUnit
  <2>2. op'.at <= Size(e) /\ op'.at = Entry + Count + 1
    BY <1>2, <1>3, <1>7, <2>1
  <2>3. ASSUME ~op.indexLost, NEW k \in 1..Count
        PROVE  Entry + k - 1 < Size(e) /\ e[Entry + k - 1] = Full[k]
    <3>1. Entry + k - 1 \in Nat /\ Entry + k - 1 # op.at
      BY <1>2, <1>3
    <3>2. Entry + k - 1 < Size(Target) /\ Target[Entry + k - 1] = Full[k]
      BY <1>2, <2>3 DEF RecordsWritten
    <3>3. IsFile(Target)
      BY <1>1, Typed
    <3>4. Entry + k - 1 \in DOMAIN Target /\ Size(Target) \in Nat
      BY <3>1, <3>2, <3>3, FileDomain
    <3>. QED  BY <1>6, <3>1, <3>2, <3>4 DEF AfterUnit
  <2>4. (~op.indexLost => RecordsWritten(Count))'
    <3>1. (~op.indexLost => \A k \in 1..Count : Entry + k - 1 < Size(Target)
                                  /\ Target[Entry + k - 1] = Full[k])'
      BY <1>7, <1>9, <1>11, <1>12, <2>3
    <3>. QED  BY <3>1 DEF RecordsWritten
  <2>5. (op.at <= Size(Target) /\ Target[Entry + Count] = TailUnit(Entry, Count))'
    BY <1>2, <1>9, <1>11, <2>1, <2>2 DEF u
  <2>. QED  BY <1>2, <1>7, <1>11, <1>12, <2>2, <2>4, <2>5 DEF WriteInv
<1>. QED
  BY <1>6, <1>10, <1>13, <1>14, <1>15 DEF OperationInv

-----------------------------------------------------------------------------
(***************************************************************************)
(* Steps that make the new index count, and the end.                       *)
(***************************************************************************)
LEMMA TableIsBelow ==
  ASSUME IInv, op.pc \in Writing
  PROVE  TableBelow(Entry) /\ (Appending /\ Loaded => TableBelow(Target[0].size))
<1>1. TypeOK /\ FilesInv /\ HandleInv /\ OpInv /\ EditInv
  BY DEF IInv, OperationInv
<1>2. Entry \in Nat /\ Base \in Nat /\ \A i \in DOMAIN Table : Table[i].at \in Nat
  BY <1>1, Typed, RecordFields
<1>3. CASE Editing
  BY <1>1, <1>3, WritersLemma DEF EditInv
<1>4. CASE Appending /\ Loaded
  <2>1. Readable(Mine) /\ Base = Mine[0].size /\ TableBelow(TailOf(Mine).entry)
    BY <1>1, <1>4 DEF HandleInv, Knows, Base, AppendAddress, Loaded
  <2>2. IsFile(Mine) /\ TailsAtEnd(Mine)
    BY <1>1, <1>4, Typed DEF FilesInv, FileInv, Mine
  <2>3. TailOf(Mine).entry < Base /\ TailOf(Mine).entry \in Nat
    BY <2>1, <2>2, ReadableEnds, ReadableLemma
  <2>4. Entry >= Base /\ Target = Mine
    BY <1>1, <1>4, WritersLemma DEF OpInv, Writing, Target, Mine
  <2>. QED  BY <1>2, <2>1, <2>3, <2>4 DEF TableBelow
<1>5. CASE Appending /\ ~Loaded
  <2>1. DOMAIN Table = {}
    BY <1>1, <1>5 DEF HandleInv
  <2>. QED  BY <1>5, <2>1 DEF TableBelow
<1>. QED
  BY <1>3, <1>4, <1>5, WritersLemma

\* What the writer finds in the file when it writes the head, as far as a reader who
\* goes by that head will look.
LEMMA RecordsBelow ==
  ASSUME IInv, op.pc = "head", NEW i \in 1..Count, Target[Entry + i - 1].kind = "index",
         Entry + i - 1 \in DOMAIN Target
  PROVE  Target[Entry + i - 1].at < Entry
<1>1. TypeOK /\ FilesInv /\ AppendInv /\ EditInv /\ WriteInv
  BY DEF IInv, OperationInv
<1>2. /\ Appending \/ Editing
      /\ Editing => Loaded
      /\ Appending => Entry >= Base
  BY WritersLemma DEF Writing
<1>3. Entry \in Nat /\ Base \in Nat /\ Count \in Nat /\ Count = Len(Full)
  BY <1>1, Typed DEF WriteInv
<1>4. CASE ~op.indexLost
  <2>1. Target[Entry + i - 1] = Full[i]
    BY <1>1, <1>4 DEF WriteInv, RecordsWritten
  <2>2. Full[i].at < Entry
    BY <1>2, <1>3, FullLemma
  <2>. QED  BY <2>1, <2>2
<1>5. CASE op.indexLost /\ Editing
  BY <1>1, <1>3, <1>5 DEF EditInv, IndexRegion
<1>6. CASE op.indexLost /\ Appending /\ Loaded
  BY <1>1, <1>2, <1>3, <1>6 DEF AppendInv, Unindexed
<1>7. CASE op.indexLost /\ Appending /\ ~Loaded
  <2>1. Fresh(Target) /\ op.pc # "idle"
    BY <1>1, <1>7 DEF AppendInv
  <2>2. LeftRecords(Target) /\ IsFile(Target)
    BY <1>1, <2>1, Typed DEF FilesInv, FileInv, Target
  <2>3. 2 * Target[Entry + i - 1].at <= Entry + i - 1
    BY <2>2 DEF LeftRecords
  <2>4. Entry = 1 + Count
    BY <1>3, <1>7, FullLemma
  <2>5. Target[Entry + i - 1].at \in Nat
    <3>1. Target[Entry + i - 1] \in Units
      BY <2>2 DEF IsFile
    <3>. QED  BY <3>1, UnitKinds DEF Addresses
  <2>. QED  BY <1>3, <2>3, <2>4, <2>5
<1>. QED
  BY <1>2, <1>4, <1>5, <1>6, <1>7

\* The head makes the new index the one that counts.
LEMMA HeadFile ==
  ASSUME IInv, op.pc = "head",
         NEW e, e = Write2(Target, 0, HeadUnit(op.at))
  PROVE  /\ IsFile(e) /\ FileInv(e) /\ ~Fresh(e)
         /\ e[0] = HeadUnit(op.at) /\ Size(e) = Size(Target) /\ op.at <= Size(e)
         /\ \A a \in DOMAIN Target : a # 0 => e[a] = Target[a]
         /\ TailOf(e) = TailUnit(Entry, Count)
<1>. DEFINE d == Target
            u == HeadUnit(op.at)
<1>1. TypeOK /\ FilesInv /\ WriteInv /\ op.pc # "idle"
  BY DEF IInv, OperationInv
<1>2. /\ IsFile(d) /\ FileInv(d) /\ op.at \in Nat \ {0}
      /\ Entry \in Nat \ {0} /\ Count \in Nat /\ op.file \in Files
  BY <1>1, Typed DEF FilesInv, Target
<1>3. u \in Units /\ u.kind = "head" /\ u.size = op.at
  BY <1>2, UnitTypes DEF HeadUnit
<1>4. /\ op.at = Entry + Count + 1 /\ op.at <= Size(d)
      /\ d[Entry + Count] = TailUnit(Entry, Count)
  BY <1>1 DEF WriteInv
<1>5. AfterUnit(d, e, 0, u)
  BY <1>2, <1>3, Written
<1>. HIDE DEF u
<1>6. /\ IsFile(e) /\ Size(d) \in Nat /\ Size(e) = Size(d) /\ e[0] = u
      /\ \A a \in DOMAIN d : a # 0 => e[a] = d[a]
      /\ \A a \in DOMAIN e : (a = 0 /\ e[a] = u) \/ (e[a] = Blank) \/ (a \in DOMAIN d /\ e[a] = d[a])
  <2>1. Size(d) \in Nat /\ 0 < Size(d)
    BY <1>2, <1>4, FileDomain
  <2>. HIDE DEF d
  <2>. QED  BY <1>5, <2>1 DEF AfterUnit
<1>. HIDE DEF d
<1>7. DOMAIN d = 0..(Size(d) - 1) /\ DOMAIN e = 0..(Size(d) - 1)
  BY <1>2, <1>6, FileDomain
<1>8. TailsAtEnd(e)
  BY <1>2, <1>3, <1>6 DEF TailsAtEnd, FileInv, Blank
<1>9. ~Fresh(e)
  BY <1>2, <1>3, <1>4, <1>6, <1>7 DEF Fresh
<1>10. TailOf(e) = TailUnit(Entry, Count)
  <2>1. op.at - 1 = Entry + Count /\ Entry + Count # 0 /\ Entry + Count \in DOMAIN d
    BY <1>2, <1>4, <1>6, <1>7
  <2>2. e[Entry + Count] = d[Entry + Count]
    BY <1>6, <2>1
  <2>3. TailOf(e) = e[op.at - 1]
    BY <1>3, <1>6 DEF TailOf
  <2>. QED  BY <1>4, <2>1, <2>2, <2>3
<1>11. ASSUME Readable(e)
       PROVE  ListBelow(e, TailOf(e).entry)
  <2>. SUFFICES ASSUME NEW i \in 1..TailOf(e).count
                PROVE  Records(e)[i].at < TailOf(e).entry
    BY DEF ListBelow
  <2>1. i \in 1..Count /\ TailOf(e).entry = Entry /\ i \in 1..TailOf(e).count
    BY <1>10 DEF TailUnit
  <2>2. Records(e)[i] \in IndexUnits /\ Records(e)[i] = e[Entry + i - 1]
    BY <1>6, <1>11, <2>1, ReadableLemma
  <2>3. Entry + i - 1 \in DOMAIN d /\ Entry + i - 1 # 0
    BY <1>2, <1>4, <1>6, <1>7, <2>1
  <2>4. e[Entry + i - 1] = d[Entry + i - 1]
    BY <1>6, <2>3
  <2>5. d[Entry + i - 1].kind = "index"
    BY <2>2, <2>4 DEF IndexUnits
  <2>6. d[Entry + i - 1].at < Entry
    BY <2>1, <2>3, <2>5, RecordsBelow DEF d
  <2>. QED  BY <2>1, <2>2, <2>4, <2>6
<1>. QED
  BY <1>3, <1>4, <1>6, <1>8, <1>9, <1>10, <1>11 DEF FileInv, d, u

LEMMA HeadInv ==
  ASSUME IInv, WriteHead
  PROVE  FilesInv' /\ HandleInv' /\ OperationInv'
<1>. DEFINE e == Write2(Target, 0, HeadUnit(op.at))
<1>1. TypeOK /\ FilesInv /\ HandleInv /\ OpInv /\ WriteInv /\ op.pc = "head"
  BY DEF IInv, OperationInv, WriteHead
<1>2. op.file \in Files /\ DOMAIN disk = Files /\ op.at \in Nat /\ Entry \in Nat /\ Count \in Nat
  BY <1>1, Typed
<1>3. disk'[op.file] = e /\ \A f \in Files \ {op.file} : disk'[f] = disk[f]
  BY <1>2 DEF WriteHead, Target
<1>4. FileInv(e) /\ e[0] = HeadUnit(op.at) /\ op.at <= Size(e)
  BY <1>1, HeadFile
<1>. HIDE DEF e
<1>5. FilesInv'
  BY <1>1, <1>3, <1>4 DEF FilesInv
<1>6. /\ op'.pc = "end" /\ op'.kind = op.kind /\ op'.file = op.file
      /\ op'.at = op.at /\ op'.index = op.index /\ op'.indexLost = op.indexLost
  BY <1>1 DEF WriteHead, TypeOK, OperationStates
<1>7. /\ Loaded' = Loaded /\ Table' = Table /\ info'.szFilename = info.szFilename
      /\ info'.lpPckIndexTableToAdd = info.lpPckIndexTableToAdd
  BY <1>1 DEF WriteHead, TypeOK, Handles, Loaded, Table
<1>8. ~Appending' /\ ~Editing'
  BY <1>6 DEF Appending, Editing, Writing
<1>9. HandleInv' /\ OpInv' /\ AppendInv' /\ EditInv' /\ WriteInv'
  BY <1>1, <1>6, <1>7, <1>8 DEF HandleInv, OpInv, AppendInv, EditInv, WriteInv
<1>10. TableBelow(op.at)
  <2>1. TableBelow(Entry) /\ \A i \in DOMAIN Table : Table[i].at \in Nat
    BY <1>1, TableIsBelow, Typed, RecordFields DEF Writing
  <2>2. Entry < op.at
    BY <1>1, <1>2 DEF WriteInv
  <2>. QED  BY <1>2, <2>1, <2>2 DEF TableBelow
<1>11. EndInv'
  <2>1. Target' = e
    BY <1>3, <1>6 DEF Target
  <2>. QED  BY <1>4, <1>6, <1>7, <1>10, <2>1 DEF EndInv, TableBelow
<1>. QED
  BY <1>5, <1>9, <1>11 DEF OperationInv

LEMMA NotWrittenInv ==
  ASSUME IInv, HeadOrTailNotWritten
  PROVE  FilesInv' /\ HandleInv' /\ OperationInv'
<1>1. /\ TypeOK /\ FilesInv /\ HandleInv /\ OpInv /\ EditInv
      /\ op.pc \in Writing /\ op.pc # "idle" /\ UNCHANGED disk
  BY DEF IInv, OperationInv, HeadOrTailNotWritten, Writing
<1>2. op'.pc = "return" /\ op'.kind = op.kind /\ op'.file = op.file
  BY <1>1 DEF HeadOrTailNotWritten, TypeOK, OperationStates
<1>3. /\ Loaded' = Loaded /\ Table' = Table /\ Target' = Target
      /\ info'.szFilename = info.szFilename
      /\ info'.lpPckIndexTableToAdd = info.lpPckIndexTableToAdd
  <2>1. \/ info' = info
        \/ info \in Handles /\ info' = [info EXCEPT !.qwPckSize = op.at]
    BY <1>1 DEF HeadOrTailNotWritten, TypeOK
  <2>. QED  BY <1>1, <1>2, <2>1 DEF Loaded, Table, Target, Handles
<1>4. ~Appending' /\ ~Editing'
  BY <1>2 DEF Appending, Editing, Writing
<1>5. FilesInv' /\ HandleInv' /\ OpInv' /\ AppendInv' /\ EditInv' /\ WriteInv'
  BY <1>1, <1>2, <1>3, <1>4 DEF FilesInv, HandleInv, OpInv, AppendInv, EditInv, WriteInv
<1>6. ASSUME Loaded
      PROVE  0 \in DOMAIN Target /\ Target[0].kind = "head" /\ TableBelow(Target[0].size)
  <2>1. CASE Editing
    <3>1. /\ 0 \in DOMAIN Target /\ Target[0].kind = "head" /\ Target[0].size > Entry
          /\ TableBelow(Entry)
      BY <1>1, <2>1 DEF EditInv, IndexRegion
    <3>2. Target[0].size \in Nat /\ Entry \in Nat /\ \A i \in DOMAIN Table : Table[i].at \in Nat
      <4>1. Target[0] \in Units
        BY <1>1, <3>1, Typed DEF IsFile
      <4>. QED  BY <1>1, <3>1, <4>1, UnitKinds, Typed, RecordFields
    <3>. QED  BY <3>1, <3>2 DEF TableBelow
  <2>2. CASE Appending
    <3>1. TableBelow(Target[0].size)
      BY <1>1, <1>6, <2>2, TableIsBelow
    <3>2. Readable(Target)
      BY <1>1, <1>6, <2>2 DEF HandleInv, Knows, OpInv, Target, Mine
    <3>3. IsFile(Target)
      BY <1>1, Typed
    <3>. QED  BY <3>1, <3>2, <3>3, ReadableLemma, FileDomain DEF Readable, Detected
  <2>. QED  BY <1>1, <2>1, <2>2, WritersLemma
<1>7. EndInv'
  BY <1>2, <1>3, <1>6 DEF EndInv, TableBelow
<1>. QED
  BY <1>5, <1>7 DEF OperationInv

LEMMA CutInv ==
  ASSUME IInv, CutFile
  PROVE  FilesInv' /\ HandleInv' /\ OperationInv'
<1>. DEFINE d == Target
            e == SetEndOfFile(d, op.at)
<1>1. TypeOK /\ FilesInv /\ HandleInv /\ OpInv /\ EndInv /\ op.pc = "end" /\ UNCHANGED info
  BY DEF IInv, OperationInv, CutFile
<1>2. /\ op.file \in Files /\ DOMAIN disk = Files /\ IsFile(d) /\ FileInv(d)
      /\ op.at \in Nat \ {0}
  BY <1>1, Typed DEF FilesInv, Target
<1>3. d[0] = HeadUnit(op.at) /\ op.at <= Size(d) /\ TableBelow(op.at)
  BY <1>1 DEF EndInv
<1>4. 0 \in DOMAIN d /\ d[0].kind = "head" /\ d[0].size = op.at
  BY <1>2, <1>3, FileDomain DEF HeadUnit
<1>5. FileInv(e) /\ e[0] = d[0] /\ ~Fresh(e)
  <2>1. e = SetEndOfFile(d, d[0].size)
    BY <1>4
  <2>. HIDE DEF e, d
  <2>. QED  BY <1>2, <1>3, <1>4, <2>1, ShortFile
<1>6. disk'[op.file] = e /\ \A f \in Files \ {op.file} : disk'[f] = disk[f]
  BY <1>2 DEF CutFile, Target
<1>. HIDE DEF e
<1>7. FilesInv'
  BY <1>1, <1>5, <1>6 DEF FilesInv
<1>8. op'.pc = "return" /\ op'.kind = op.kind /\ op'.file = op.file
  BY <1>1 DEF CutFile, TypeOK, OperationStates
<1>9. Loaded' = Loaded /\ Table' = Table /\ Target' = e
  BY <1>1, <1>6, <1>8 DEF Loaded, Table, Target
<1>10. ~Appending' /\ ~Editing'
  BY <1>8 DEF Appending, Editing, Writing
<1>11. HandleInv' /\ OpInv' /\ AppendInv' /\ EditInv' /\ WriteInv'
  BY <1>1, <1>8, <1>9, <1>10 DEF HandleInv, OpInv, AppendInv, EditInv, WriteInv
<1>12. EndInv'
  <2>1. 0 \in DOMAIN e /\ e[0].kind = "head" /\ e[0].size = op.at
    BY <1>4, <1>5 DEF Fresh
  <2>. QED  BY <1>3, <1>8, <1>9, <2>1 DEF EndInv, TableBelow
<1>. QED
  BY <1>7, <1>11, <1>12 DEF OperationInv

LEMMA ReturnInv ==
  ASSUME IInv, Return
  PROVE  FilesInv' /\ HandleInv' /\ OperationInv'
<1>1. TypeOK /\ FilesInv /\ OpInv /\ op.pc = "return" /\ op'.pc = "idle"
  BY DEF IInv, OperationInv, Return, Idle
<1>2. CASE op.kind # "new"
  <2>1. MountPckFile(op.file) /\ op.file \in Files
    BY <1>1, <1>2, Typed DEF Return, Reopen
  <2>. QED  BY <1>1, <2>1, MountInv, IdleAfter
<1>3. CASE op.kind = "new"
  <2>1. info' = Closed /\ UNCHANGED disk
    BY <1>1, <1>3 DEF Return, OpInv, Loaded
  <2>. QED  BY <1>1, <2>1, ClosedAfter, IdleAfter DEF FilesInv
<1>. QED
  BY <1>2, <1>3

-----------------------------------------------------------------------------
(***************************************************************************)
(* Steps of the user while nothing is under way.                           *)
(***************************************************************************)
LEMMA ClosedInv ==
  ASSUME IInv, UNCHANGED disk, info' = Closed, op'.pc = "idle"
  PROVE  FilesInv' /\ HandleInv' /\ OperationInv'
BY ClosedAfter, IdleAfter DEF IInv, FilesInv

LEMMA OpenInv ==
  ASSUME IInv, NEW f \in Files, Open(f)
  PROVE  FilesInv' /\ HandleInv' /\ OperationInv'
BY MountInv, IdleAfter DEF IInv, Open

LEMMA RenameInv ==
  ASSUME IInv, NEW o \in {"delete", "rename"},
         NEW table \in Seq(TableRecords), DOMAIN table = DOMAIN Table,
         \A i \in DOMAIN Table : table[i].at = Table[i].at,
         RenameFilename(o, table)
  PROVE  FilesInv' /\ HandleInv' /\ OperationInv'
<1>1. TypeOK /\ FilesInv /\ HandleInv /\ op.pc = "idle" /\ Loaded
  BY DEF IInv, RenameFilename, Begin, Loaded
<1>2. CASE /\ info' = [info EXCEPT !.lpPckIndexTable = table]
           /\ disk' = [disk EXCEPT ![info.szFilename] = Mapping(@)]
           /\ op' = [Idle EXCEPT !.pc = "index", !.kind = o, !.file = info.szFilename,
                                 !.at = info.dwAddressOfFileEntry]
  <2>1. HandleKept
    BY <1>1, <1>2, InfoFields
  <2>. QED  BY <1>1, <1>2, <2>1, EditBegins
<1>3. CASE info' = [info EXCEPT !.lpPckIndexTable = table] /\ UNCHANGED <<disk, op>>
  <2>1. HandleKept
    BY <1>1, <1>3, InfoFields
  <2>2. op'.pc = "idle"
    BY <1>1, <1>3
  <2>. QED  BY <1>1, <1>3, <2>1, <2>2, IdleHandle
<1>4. CASE info' = Closed /\ UNCHANGED <<disk, op>>
  BY <1>1, <1>4, ClosedInv
<1>. QED
  BY <1>2, <1>3, <1>4 DEF RenameFilename

LEMMA UpdateInv ==
  ASSUME IInv, NewAlone, Update
  PROVE  FilesInv' /\ HandleInv' /\ OperationInv'
<1>1. ASSUME NEW N \in NameSets, UpdateClashes(N)
      PROVE  FilesInv' /\ HandleInv' /\ OperationInv'
  <2>1. PICK D \in SUBSET (N \ Folders) :
          info' = [info EXCEPT !.lpPckIndexTable = Invalidated(NodesOf(D)),
                               !.dwFileCountToAdd = Cardinality(N)]
    BY <1>1 DEF UpdateClashes
  <2>2. TypeOK /\ FilesInv /\ HandleInv /\ op.pc = "idle" /\ UNCHANGED <<disk, op>>
    BY <1>1 DEF IInv, UpdateClashes, Begin
  <2>3. /\ Invalidated(NodesOf(D)) \in Seq(TableRecords)
        /\ DOMAIN Invalidated(NodesOf(D)) = DOMAIN Table
        /\ \A i \in DOMAIN Table : Invalidated(NodesOf(D))[i].at = Table[i].at
    BY <2>2, Typed, InvalidatedLemma
  <2>4. HandleKept
    BY <2>1, <2>2, <2>3, InfoFields
  <2>. QED  BY <2>2, <2>4, IdleHandle
<1>2. ASSUME NEW N \in NameSets, UpdateCannotOpen(N)
      PROVE  FilesInv' /\ HandleInv' /\ OperationInv'
  <2>. DEFINE table == Invalidated(FindDuplicateNodes(N))
  <2>1. info' = [info EXCEPT !.lpPckIndexTable = table, !.dwFileCountToAdd = Cardinality(N)]
    BY <1>2 DEF UpdateCannotOpen
  <2>2. TypeOK /\ FilesInv /\ HandleInv /\ op.pc = "idle" /\ UNCHANGED <<disk, op>>
    BY <1>2 DEF IInv, UpdateCannotOpen, Begin
  <2>3. /\ table \in Seq(TableRecords) /\ DOMAIN table = DOMAIN Table
        /\ \A i \in DOMAIN Table : table[i].at = Table[i].at
    BY <2>2, Typed, InvalidatedLemma
  <2>. HIDE DEF table
  <2>4. HandleKept
    BY <2>1, <2>2, <2>3, InfoFields
  <2>. QED  BY <2>2, <2>4, IdleHandle
<1>3. ASSUME NEW o \in {"update", "new"}, NEW f \in Files, NEW N \in NameSets,
             UpdateStart(o, f, N)
      PROVE  FilesInv' /\ HandleInv' /\ OperationInv'
  BY <1>3, UpdateBegins
<1>. QED
  BY <1>1, <1>2, <1>3, StoreInv, StopInv, JoinedInv DEF Update

LEMMA TableRenamed ==
  ASSUME TypeOK, NEW n \in Names, NEW new \in Names, NEW i \in NodeOf(n)
  PROVE  LET table == [info.lpPckIndexTable EXCEPT ![i].name = new]
         IN  /\ table \in Seq(TableRecords) /\ DOMAIN table = DOMAIN Table
             /\ \A j \in DOMAIN Table : table[j].at = Table[j].at
<1>. DEFINE table == [Table EXCEPT ![i].name = new]
<1>1. Table \in Seq(TableRecords) /\ i \in 1..Len(Table) /\ i \in DOMAIN Table
  BY Typed DEF NodeOf, Table
<1>2. [Table[i] EXCEPT !.name = new] \in TableRecords /\ [Table[i] EXCEPT !.name = new].at = Table[i].at
  <2>1. Table[i] \in TableRecords
    BY <1>1
  <2>. QED  BY <2>1 DEF TableRecords
<1>3. table \in Seq(TableRecords) /\ DOMAIN table = DOMAIN Table
  BY <1>1, <1>2
<1>4. \A j \in DOMAIN Table : table[j] = IF j = i THEN [Table[i] EXCEPT !.name = new] ELSE Table[j]
  BY <1>1
<1>5. \A j \in DOMAIN Table : table[j].at = Table[j].at
  <2>. HIDE DEF table
  <2>. QED  BY <1>2, <1>4
<1>. QED
  BY <1>3, <1>5 DEF Table

LEMMA EditsInv ==
  ASSUME IInv, Edit
  PROVE  FilesInv' /\ HandleInv' /\ OperationInv'
<1>0. TypeOK
  BY DEF IInv
<1>1. ASSUME NEW N \in NameSets, Delete(N)
      PROVE  FilesInv' /\ HandleInv' /\ OperationInv'
  <2>. DEFINE table == Invalidated(NodesOf(N))
  <2>1. /\ table \in Seq(TableRecords) /\ DOMAIN table = DOMAIN Table
        /\ \A i \in DOMAIN Table : table[i].at = Table[i].at
    BY <1>0, Typed, InvalidatedLemma
  <2>2. RenameFilename("delete", table)
    BY <1>1 DEF Delete
  <2>. HIDE DEF table
  <2>. QED  BY <2>1, <2>2, RenameInv
<1>2. ASSUME NEW n \in Names, NEW new \in Names, Rename(n, new)
      PROVE  FilesInv' /\ HandleInv' /\ OperationInv'
  <2>1. PICK i \in NodeOf(n) :
          RenameFilename("rename", [info.lpPckIndexTable EXCEPT ![i].name = new])
    BY <1>2 DEF Rename
  <2>. DEFINE table == [info.lpPckIndexTable EXCEPT ![i].name = new]
  <2>2. /\ table \in Seq(TableRecords) /\ DOMAIN table = DOMAIN Table
        /\ \A j \in DOMAIN Table : table[j].at = Table[j].at
    BY <1>0, TableRenamed
  <2>3. RenameFilename("rename", table)
    BY <2>1
  <2>. HIDE DEF table
  <2>. QED  BY <2>2, <2>3, RenameInv
<1>. QED
  BY <1>1, <1>2, InfoInv DEF Edit

LEMMA GoneInv ==
  ASSUME IInv, Close \/ Crash \/ ReadGoneVector
  PROVE  FilesInv' /\ HandleInv' /\ OperationInv'
<1>1. UNCHANGED disk /\ info' = Closed /\ op'.pc = "idle"
  BY DEF Close, Crash, ReadGoneVector, Idle
<1>. QED
  BY <1>1, ClosedInv

LEMMA WriteInvs ==
  ASSUME IInv, WriteIndex
  PROVE  FilesInv' /\ HandleInv' /\ OperationInv'
BY GoneInv, AllIndexInv, IndexUnitInv, IndexLostInv, TailInv, HeadInv, NotWrittenInv, CutInv,
   ReturnInv DEF WriteIndex

LEMMA StutterInv ==
  ASSUME IInv, UNCHANGED vars
  PROVE  FilesInv' /\ HandleInv' /\ OperationInv'
<1>1. disk' = disk /\ info' = info /\ op' = op
  BY DEF vars
<1>2. /\ Loaded' = Loaded /\ Base' = Base /\ Table' = Table /\ Mine' = Mine
      /\ Target' = Target /\ Entry' = Entry /\ Count' = Count /\ Done' = Done
      /\ Appending' = Appending /\ Editing' = Editing
  BY <1>1
     DEF Loaded, Base, AppendAddress, Table, Mine, Target, Entry, Count, Done, Appending, Editing
<1>3. Full' = Full
  BY <1>1, <1>2, FullStays
<1>4. FilesInv' /\ HandleInv' /\ OpInv' /\ EditInv' /\ EndInv'
  BY <1>1, <1>2
     DEF IInv, OperationInv, FilesInv, HandleInv, OpInv, EditInv, EndInv, Knows, TableBelow
<1>5. AppendInv'
  BY <1>1, <1>2 DEF IInv, OperationInv, AppendInv, Unindexed
<1>6. WriteInv'
  BY <1>1, <1>2, <1>3 DEF IInv, OperationInv, WriteInv, RecordsWritten
<1>. QED
  BY <1>4, <1>5, <1>6 DEF OperationInv

LEMMA InvStep == IInv /\ NewAlone /\ [Next]_vars => IInv'
<1>. SUFFICES ASSUME IInv, NewAlone, [Next]_vars  PROVE  IInv'
  OBVIOUS
<1>1. TypeOK'
  BY TypeStep DEF IInv
<1>2. FilesInv' /\ HandleInv' /\ OperationInv'
  <2>1. CASE Next
    BY <2>1, OpenInv, GoneInv, UpdateInv, EditsInv, WriteInvs DEF Next
  <2>2. CASE UNCHANGED vars
    BY <2>2, StutterInv
  <2>. QED  BY <2>1, <2>2
<1>. QED
  BY <1>1, <1>2 DEF IInv

LEMMA InvInit == Init => IInv
<1>. SUFFICES ASSUME Init  PROVE  IInv
  OBVIOUS
<1>1. TypeOK
  BY TypeInit
<1>2. FilesInv
  <2>1. \A f \in Files : disk[f] = <<>>
    BY DEF Init
  <2>2. DOMAIN << >> = {}
    OBVIOUS
  <2>3. FileInv(<<>>)
    BY <2>2 DEF FileInv, TailsAtEnd, LeftRecords, Readable, Detected
  <2>. QED  BY <2>1, <2>3 DEF FilesInv
<1>3. HandleInv
  BY DEF Init, HandleInv, Closed, Loaded, Table
<1>4. OperationInv
  BY DEF Init, Idle, OperationInv, OpInv, AppendInv, EditInv, WriteInv, EndInv,
         Appending, Editing, Writing
<1>. QED
  BY <1>1, <1>2, <1>3, <1>4 DEF IInv

\* The inductive invariant of the archive: tails stand where their index ends, records
\* name places below the index, the handle knows the file it has open, and every
\* operation has the part of the file it writes for itself.
THEOREM LayoutInvariant == NewAlone => (Spec => []IInv)
<1>1. NewAlone => []NewAlone
  OBVIOUS
<1>. QED
  BY <1>1, InvInit, InvStep, PTL DEF Spec

\* Between two operations the open handle knows where the archive on disk ends and
\* where its index is.
THEOREM HandleAlwaysMatches == NewAlone => (Spec => []HandleMatchesFile)
<1>1. IInv => HandleMatchesFile
  BY DEF IInv, HandleInv, Knows, HandleMatchesFile, Loaded, Mine, Entry
<1>. QED
  BY <1>1, LayoutInvariant, PTL

-----------------------------------------------------------------------------
(***************************************************************************)
(* What a step does to what is listed.                                     *)
(***************************************************************************)
DataKept(f) ==
  \A a \in Listed(f) \cap DOMAIN disk[f] :
    disk[f][a].kind = "data" => a < Size(disk'[f]) /\ disk'[f][a] = disk[f][a]
StaysReadable(f) ==
  Readable(disk[f]) => Readable(disk'[f]) \/ op.kind \in {"rename", "delete"} \/ op.indexLost
Sound(f) == DataKept(f) /\ StaysReadable(f)

LEMMA ListedBelow ==
  ASSUME IInv, NEW f \in Files, NEW n \in Nat,
         Readable(disk[f]) => TailOf(disk[f]).entry <= n,
         info.szFilename = f => TableBelow(n)
  PROVE  \A a \in Listed(f) : a \in Nat /\ a < n
<1>. DEFINE d == disk[f]
<1>1. TypeOK /\ IsFile(d) /\ FileInv(d)
  BY Typed DEF IInv, FilesInv
<1>2. ASSUME Readable(d), NEW i \in DOMAIN Records(d)
      PROVE  Records(d)[i].at \in Nat /\ Records(d)[i].at < n
  <2>1. i \in 1..TailOf(d).count
    BY <1>1, <1>2, ReadableLemma
  <2>2. Records(d)[i].at \in Nat /\ Records(d)[i].at < TailOf(d).entry
    BY <1>1, <1>2, <2>1, ReadableEnds DEF FileInv, ListBelow
  <2>3. TailOf(d).entry \in Nat
    BY <1>1, <1>2, ReadableLemma
  <2>. QED  BY <1>2, <2>2, <2>3
<1>. HIDE DEF d
<1>3. ASSUME info.szFilename = f, NEW i \in DOMAIN Table
      PROVE  Table[i].at \in Nat /\ Table[i].at < n
  BY <1>1, <1>3, Typed, RecordFields DEF TableBelow
<1>4. \A a \in Listed(f) :
        \/ Readable(d) /\ \E i \in DOMAIN Records(d) : a = Records(d)[i].at
        \/ info.szFilename = f /\ \E i \in DOMAIN Table : a = Table[i].at
  BY DEF Listed, Table, d
<1>. QED
  BY <1>2, <1>3, <1>4

LEMMA SameSound ==
  ASSUME TypeOK, NEW f \in Files, disk'[f] = disk[f]
  PROVE  Sound(f)
<1>1. IsFile(disk[f])
  BY Typed
<1>2. Size(disk[f]) \in Nat /\ DOMAIN disk[f] = 0..(Size(disk[f]) - 1)
  BY <1>1, FileDomain
<1>3. DataKept(f)
  BY <1>2 DEF DataKept
<1>4. StaysReadable(f)
  BY DEF StaysReadable
<1>. QED
  BY <1>3, <1>4 DEF Sound

LEMMA StillSound ==
  ASSUME TypeOK, UNCHANGED disk
  PROVE  \A f \in Files : Sound(f)
BY SameSound

\* A unit is written at an address behind what is listed.
LEMMA UnitSound ==
  ASSUME IInv, op.file \in Files,
         NEW at, NEW u, AfterUnit(Target, disk'[op.file], at, u),
         \A a \in Listed(op.file) : a # at,
         Readable(Target) => Readable(disk'[op.file]) \/ Editing,
         \A f \in Files \ {op.file} : disk'[f] = disk[f]
  PROVE  \A f \in Files : Sound(f)
<1>. DEFINE e == disk'[op.file]
<1>1. TypeOK /\ IsFile(Target)
  BY Typed DEF IInv, Target
<1>2. Size(Target) \in Nat /\ DOMAIN Target = 0..(Size(Target) - 1)
  BY <1>1, FileDomain
<1>3. /\ Size(e) \in Nat /\ Size(e) >= Size(Target)
      /\ \A a \in DOMAIN Target : a # at => e[a] = Target[a]
  BY DEF AfterUnit
<1>. HIDE DEF e
<1>4. \A a \in Listed(op.file) \cap DOMAIN Target : a < Size(e) /\ e[a] = Target[a]
  BY <1>2, <1>3
<1>5. DataKept(op.file)
  BY <1>4 DEF DataKept, Target, e
<1>6. StaysReadable(op.file)
  BY DEF StaysReadable, Editing, Target
<1>7. \A f \in Files \ {op.file} : Sound(f)
  BY <1>1, SameSound
<1>. QED
  BY <1>5, <1>6, <1>7 DEF Sound

\* A file grows or is cut where its head says.
LEMMA CutSound ==
  ASSUME IInv, NEW f \in Files, 0 \in DOMAIN disk[f], disk[f][0].kind = "head",
         disk[f][0].size <= Size(disk[f]),
         disk'[f] = SetEndOfFile(disk[f], disk[f][0].size),
         info.szFilename = f => TableBelow(disk[f][0].size)
  PROVE  Sound(f)
<1>. DEFINE d == disk[f]
            e == disk'[f]
            n == d[0].size
<1>1. TypeOK /\ IsFile(d) /\ FileInv(d)
  BY Typed DEF IInv, FilesInv
<1>2. n \in Nat \ {0}
  BY <1>1, UnitKinds, FileDomain
<1>3. Readable(d) => TailOf(d).entry <= n
  <2>. SUFFICES ASSUME Readable(d)  PROVE  TailOf(d).entry <= n
    OBVIOUS
  <2>1. /\ TailOf(d).entry + TailOf(d).count = n - 1
        /\ TailOf(d).entry \in Nat /\ TailOf(d).count \in Nat
    BY <1>1, ReadableEnds, ReadableLemma DEF FileInv
  <2>. QED  BY <1>2, <2>1
<1>4. \A a \in Listed(f) : a \in Nat /\ a < n
  BY <1>2, <1>3, ListedBelow
<1>5. Size(e) = n /\ IsFile(e) /\ (\A a \in DOMAIN e : a \in DOMAIN d /\ e[a] = d[a])
      /\ (Readable(e) <=> Readable(d))
  <2>. HIDE DEF d, e
  <2>1. 0 \in DOMAIN d /\ d[0].kind = "head" /\ d[0].size <= Size(d)
        /\ e = SetEndOfFile(d, d[0].size)
    BY DEF d, e
  <2>2. IsFile(SetEndOfFile(d, n))
    <3>. HIDE DEF n
    <3>. QED  BY <1>1, <1>2, CutLemma
  <2>. QED  BY <1>1, <2>1, <2>2, ShortFile
<1>6. DOMAIN e = 0..(n - 1)
  BY <1>5, FileDomain
<1>7. DataKept(f)
  <2>. SUFFICES ASSUME NEW a \in Listed(f), a \in DOMAIN d
                PROVE  a < Size(e) /\ e[a] = d[a]
    BY DEF DataKept
  <2>1. a \in DOMAIN e
    BY <1>2, <1>4, <1>6
  <2>. QED  BY <1>4, <1>5, <2>1
<1>8. StaysReadable(f)
  BY <1>5 DEF StaysReadable
<1>. QED
  BY <1>7, <1>8 DEF Sound

LEMMA GrownSound ==
  ASSUME IInv, NEW f \in Files, disk' = [disk EXCEPT ![f] = Mapping(@)]
  PROVE  \A g \in Files : Sound(g)
<1>. DEFINE d == disk[f]
            e == Mapping(d)
<1>1. TypeOK /\ IsFile(d) /\ FileInv(d) /\ DOMAIN disk = Files
  BY Typed DEF IInv, FilesInv
<1>2. disk'[f] = e /\ \A g \in Files \ {f} : disk'[g] = disk[g]
  BY <1>1
<1>3. Grown(d, e) /\ (Readable(d) => Readable(e))
  BY <1>1, MappingLemma, GrownFile
<1>. HIDE DEF e
<1>4. /\ Size(d) \in Nat /\ DOMAIN d = 0..(Size(d) - 1)
      /\ Size(e) \in Nat /\ Size(e) >= Size(d) /\ \A a \in 0..(Size(d) - 1) : e[a] = d[a]
  BY <1>1, <1>3, FileDomain DEF Grown
<1>5. \A a \in DOMAIN d : a < Size(e) /\ e[a] = d[a]
  BY <1>4
<1>6. DataKept(f)
  BY <1>2, <1>5 DEF DataKept
<1>7. StaysReadable(f)
  BY <1>2, <1>3 DEF StaysReadable
<1>8. \A g \in Files \ {f} : Sound(g)
  BY <1>1, <1>2, SameSound
<1>. QED
  BY <1>6, <1>7, <1>8 DEF Sound

LEMMA MountSound ==
  ASSUME IInv, NEW f \in Files, MountPckFile(f),
         info.szFilename = f /\ Detected(disk[f]) => TableBelow(disk[f][0].size)
  PROVE  \A g \in Files : Sound(g)
<1>1. TypeOK /\ IsFile(disk[f]) /\ DOMAIN disk = Files
  BY Typed DEF IInv
<1>2. CASE Detected(disk[f])
  <2>1. /\ 0 \in DOMAIN disk[f] /\ disk[f][0].kind = "head"
        /\ disk[f][0].size <= Size(disk[f])
    BY <1>1, <1>2, FileDomain DEF Detected
  <2>2. /\ disk'[f] = SetEndOfFile(disk[f], disk[f][0].size)
        /\ \A g \in Files \ {f} : disk'[g] = disk[g]
    BY <1>1, <1>2 DEF MountPckFile, CutToSize
  <2>3. Sound(f)
    BY <1>2, <2>1, <2>2, CutSound
  <2>. QED  BY <1>1, <2>2, <2>3, SameSound
<1>3. CASE ~Detected(disk[f])
  BY <1>1, <1>3, StillSound DEF MountPckFile
<1>. QED
  BY <1>2, <1>3

\* What an operation writes lies behind what is listed.
LEMMA BehindListed ==
  ASSUME IInv, Appending \/ Editing, Appending => op.at >= Base, Editing => op.at >= Entry
  PROVE  \A a \in Listed(op.file) : a \in Nat /\ a < op.at
<1>1. /\ TypeOK /\ FilesInv /\ HandleInv /\ OpInv /\ AppendInv /\ EditInv /\ op.pc # "idle"
  BY DEF IInv, OperationInv, Appending, Editing, Writing
<1>2. /\ Entry \in Nat /\ Base \in Nat /\ op.at \in Nat /\ op.file \in Files
      /\ IsFile(Target) /\ FileInv(Target) /\ \A i \in DOMAIN Table : Table[i].at \in Nat
  BY <1>1, Typed, RecordFields DEF FilesInv, Target
<1>3. CASE Editing
  <2>1. IndexRegion(Target, Entry) /\ TableBelow(Entry)
    BY <1>1, <1>3 DEF EditInv
  <2>2. Readable(Target) => TailOf(Target).entry <= Entry
    BY <1>2, <2>1, RegionList DEF FileInv
  <2>3. \A a \in Listed(op.file) : a \in Nat /\ a < Entry
    BY <1>2, <2>1, <2>2, ListedBelow DEF Target
  <2>. QED  BY <1>2, <1>3, <2>3
<1>4. CASE Appending /\ Loaded
  <2>1. Target = Mine /\ Knows(Mine) /\ Base = Mine[0].size
    BY <1>1, <1>4 DEF HandleInv, Knows, OpInv, Target, Mine, Base, AppendAddress, Loaded
  <2>2. TailOf(Target).entry \in Nat /\ TailOf(Target).entry < Base
    BY <1>2, <2>1, ReadableEnds, ReadableLemma DEF Knows, FileInv
  <2>3. TableBelow(Base)
    BY <1>2, <2>1, <2>2 DEF Knows, TableBelow
  <2>4. \A a \in Listed(op.file) : a \in Nat /\ a < Base
    <3>1. Readable(disk[op.file]) => TailOf(disk[op.file]).entry <= Base
      BY <1>2, <2>2 DEF Target
    <3>. QED  BY <1>2, <2>3, <3>1, ListedBelow
  <2>. QED  BY <1>2, <1>4, <2>4
<1>5. CASE Appending /\ ~Loaded
  <2>1. ~Readable(Target)
    BY <1>1, <1>2, <1>5, ReadableEnds DEF AppendInv, FileInv
  <2>2. info.szFilename # op.file
    BY <1>1, <1>2, <1>5, ConstantsAssumption DEF HandleInv
  <2>3. \A a \in Listed(op.file) : a \in Nat /\ a < Base
    BY <1>2, <2>1, <2>2, ListedBelow DEF Target
  <2>. QED  BY <1>2, <1>5, <2>3
<1>. QED
  BY <1>3, <1>4, <1>5

LEMMA WriteSound ==
  ASSUME IInv, Appending \/ Editing, Appending => op.at >= Base, Editing => op.at >= Entry,
         NEW u \in Units,
         u.kind = "tail" => u.entry = Entry /\ u.entry + u.count = op.at,
         u.kind = "index" => u.at < Entry /\ (~Loaded => 2 * u.at <= op.at),
         Editing => u.kind # "data",
         disk' = [disk EXCEPT ![op.file] = Write2(@, op.at, u)]
  PROVE  \A f \in Files : Sound(f)
<1>. DEFINE e == disk'[op.file]
<1>1. /\ op.file \in Files /\ AfterUnit(Target, e, op.at, u)
      /\ \A f \in Files \ {op.file} : disk'[f] = disk[f]
      /\ Appending /\ Loaded => Readable(e)
  BY UnitLemma
<1>2. \A a \in Listed(op.file) : a # op.at
  BY BehindListed
<1>3. Readable(Target) => Readable(e) \/ Editing
  <2>1. CASE Appending /\ ~Loaded
    <3>1. Fresh(Target) /\ IsFile(Target) /\ TailsAtEnd(Target)
      BY <1>1, <2>1, Typed DEF IInv, OperationInv, AppendInv, FilesInv, FileInv, Target
    <3>. QED  BY <3>1, ReadableEnds
  <2>. QED  BY <1>1, <2>1
<1>. HIDE DEF e
<1>. QED
  BY <1>1, <1>2, <1>3, UnitSound DEF e

LEMMA StoreSound ==
  ASSUME IInv, NEW n \in Names, Store(n)
  PROVE  \A f \in Files : Sound(f)
<1>1. TypeOK /\ OpInv /\ AppendInv /\ op.pc = "store"
  BY DEF IInv, OperationInv, Store
<1>2. Appending /\ ~Editing /\ op.at >= Base
  <2>1. Base \in Nat /\ Len(op.index) \in Nat
    BY <1>1, Typed
  <2>. QED  BY <1>1, <2>1 DEF OpInv, AppendInv, Editing, Writing
<1>. DEFINE u == DataUnit(n, jobs)
<1>3. u \in Units /\ u.kind = "data"
  <2>1. jobs \in 1..MaxJobs
    BY <1>1 DEF TypeOK
  <2>. QED  BY <2>1, UnitTypes DEF DataUnit
<1>4. disk' = [disk EXCEPT ![op.file] = Write2(@, op.at, u)]
  BY DEF Store
<1>. HIDE DEF u
<1>5. u.kind # "tail" /\ u.kind # "index"
  BY <1>3
<1>. QED
  BY <1>2, <1>3, <1>4, <1>5, WriteSound

LEMMA RecordSound ==
  ASSUME IInv, WriteIndexUnit
  PROVE  \A f \in Files : Sound(f)
<1>. DEFINE u == Head(op.left)
<1>1. TypeOK /\ op.pc = "indexUnits"
  BY DEF IInv, WriteIndexUnit
<1>2. /\ Appending \/ Editing
      /\ Done \in Nat /\ op.at = Entry + Done /\ u \in IndexUnits /\ u.at < Entry
      /\ ~Loaded => 2 * u.at <= op.at
  BY NextRecord
<1>3. u \in Units /\ u.kind = "index"
  BY <1>2, UnitTypes DEF IndexUnits
<1>4. op.at >= Entry /\ (Appending => op.at >= Base)
  <2>1. Base \in Nat /\ Entry \in Nat /\ (Appending => Entry >= Base)
    BY <1>1, Typed, WritersLemma DEF Writing
  <2>. QED  BY <1>2, <2>1
<1>5. disk' = [disk EXCEPT ![op.file] = Write2(@, op.at, u)]
  BY DEF WriteIndexUnit
<1>. HIDE DEF u
<1>6. u.kind # "tail" /\ u.kind # "data"
  BY <1>3
<1>. QED
  BY <1>2, <1>3, <1>4, <1>5, <1>6, WriteSound

LEMMA TailSound ==
  ASSUME IInv, WriteTail
  PROVE  \A f \in Files : Sound(f)
<1>. DEFINE u == TailUnit(Entry, Count)
<1>1. TypeOK /\ op.pc = "indexUnits" /\ op.left = <<>>
  BY DEF IInv, WriteTail
<1>2. op.at = Entry + Count /\ u \in Units
  BY <1>1, AtTail
<1>3. /\ u.kind = "tail" /\ u.entry = Entry /\ u.count = Count
      /\ Entry \in Nat /\ Count \in Nat
  BY <1>1, Typed DEF TailUnit
<1>4. disk' = [disk EXCEPT ![op.file] = Write2(@, op.at, u)]
  BY DEF WriteTail, Entry, Count
<1>. HIDE DEF u
<1>5. (Appending \/ Editing) /\ (Appending => op.at >= Base) /\ op.at >= Entry
  <2>1. Base \in Nat /\ (Appending => Entry >= Base) /\ (Appending \/ Editing)
    BY <1>1, Typed, WritersLemma DEF Writing
  <2>. QED  BY <1>2, <1>3, <2>1
<1>6. u.kind # "index" /\ u.kind # "data" /\ u.entry + u.count = op.at
  BY <1>2, <1>3
<1>. QED
  BY <1>2, <1>3, <1>4, <1>5, <1>6, WriteSound

\* If the index has been written, the head makes the file readable, with that index.
LEMMA HeadReadable ==
  ASSUME IInv, op.pc = "head", ~op.indexLost,
         NEW e, e = Write2(Target, 0, HeadUnit(op.at))
  PROVE  Readable(e) /\ Count = Len(Full) /\ \A k \in 1..Count : Records(e)[k] = Full[k]
<1>. DEFINE d == Target
<1>1. TypeOK /\ WriteInv /\ (Appending \/ Editing) /\ op.pc # "store" /\ op.pc # "idle"
  BY WritersLemma DEF IInv, OperationInv, Writing
<1>2. IsFile(d) /\ op.at \in Nat /\ Entry \in Nat \ {0} /\ Count \in Nat
  BY <1>1, Typed
<1>3. /\ IsFile(e) /\ e[0] = HeadUnit(op.at) /\ Size(e) = Size(d) /\ op.at <= Size(e)
      /\ \A a \in DOMAIN d : a # 0 => e[a] = d[a]
      /\ TailOf(e) = TailUnit(Entry, Count)
  BY HeadFile
<1>. HIDE DEF d
<1>4. Size(d) \in Nat /\ DOMAIN d = 0..(Size(d) - 1) /\ DOMAIN e = 0..(Size(d) - 1)
  BY <1>2, <1>3, FileDomain
<1>5. Count = Len(Full) /\ RecordsWritten(Count) /\ op.at = Entry + Count + 1
  BY <1>1 DEF WriteInv
<1>6. \A k \in 1..Count : Full[k].kind = "index"
  <2>1. \A k \in 1..Len(Full) : Full[k] \in IndexUnits
    BY <1>1, FullLemma
  <2>. QED  BY <1>5, <2>1 DEF IndexUnits
<1>7. \A k \in 1..Count : Entry + k - 1 < Size(e) /\ e[Entry + k - 1] = Full[k]
  <2>. SUFFICES ASSUME NEW k \in 1..Count
                PROVE  Entry + k - 1 < Size(e) /\ e[Entry + k - 1] = Full[k]
    OBVIOUS
  <2>1. Entry + k - 1 < Size(d) /\ d[Entry + k - 1] = Full[k]
    BY <1>5 DEF RecordsWritten, d
  <2>2. Entry + k - 1 \in DOMAIN d /\ Entry + k - 1 # 0
    BY <1>2, <1>4, <2>1
  <2>. QED  BY <1>3, <2>1, <2>2
<1>8. \A a \in Entry..(Entry + Count - 1) : a < Size(e) /\ e[a].kind = "index"
  <2>. SUFFICES ASSUME NEW a \in Entry..(Entry + Count - 1)
                PROVE  a < Size(e) /\ e[a].kind = "index"
    OBVIOUS
  <2>1. a - Entry + 1 \in 1..Count /\ Entry + (a - Entry + 1) - 1 = a
    BY <1>2
  <2>. QED  BY <1>6, <1>7, <2>1
<1>9. Detected(e)
  <2>1. 0 \in DOMAIN e
    BY <1>2, <1>3, <1>4, <1>5
  <2>2. e[0].kind = "head" /\ e[0].size = op.at /\ TailOf(e).kind = "tail"
    BY <1>3 DEF HeadUnit, TailUnit
  <2>. QED  BY <1>3, <2>1, <2>2 DEF Detected
<1>10. TailOf(e).entry = Entry /\ TailOf(e).count = Count
  BY <1>3 DEF TailUnit
<1>11. \A k \in 1..Count : Records(e)[k] = Full[k]
  BY <1>7, <1>10 DEF Records
<1>. QED  BY <1>5, <1>8, <1>9, <1>10, <1>11 DEF Readable

LEMMA HeadSound ==
  ASSUME IInv, WriteHead
  PROVE  \A f \in Files : Sound(f)
<1>. DEFINE d == Target
            e == Write2(d, 0, HeadUnit(op.at))
<1>1. /\ TypeOK /\ FilesInv /\ HandleInv /\ OpInv /\ AppendInv /\ EditInv /\ WriteInv
      /\ op.pc = "head" /\ op.pc # "idle"
  BY DEF IInv, OperationInv, WriteHead
<1>2. /\ op.file \in Files /\ DOMAIN disk = Files /\ IsFile(d) /\ FileInv(d)
      /\ op.at \in Nat /\ Entry \in Nat \ {0} /\ Count \in Nat /\ op.indexLost \in BOOLEAN
  BY <1>1, Typed DEF FilesInv, Target
<1>3. disk'[op.file] = e /\ \A f \in Files \ {op.file} : disk'[f] = disk[f]
  BY <1>2 DEF WriteHead, Target
<1>4. /\ IsFile(e) /\ FileInv(e) /\ e[0] = HeadUnit(op.at) /\ Size(e) = Size(d)
      /\ op.at <= Size(e)
      /\ \A a \in DOMAIN d : a # 0 => e[a] = d[a]
      /\ TailOf(e) = TailUnit(Entry, Count)
  BY <1>1, HeadFile
<1>. HIDE DEF e, d
<1>5. Size(d) \in Nat /\ DOMAIN d = 0..(Size(d) - 1) /\ DOMAIN e = 0..(Size(d) - 1)
  BY <1>2, <1>4, FileDomain
<1>6. Appending \/ Editing
  BY <1>1, WritersLemma DEF Writing
<1>7. Appending /\ ~Loaded => ~Readable(d) /\ Listed(op.file) = {}
  <2>. SUFFICES ASSUME Appending, ~Loaded  PROVE  ~Readable(d) /\ Listed(op.file) = {}
    OBVIOUS
  <2>1. ~Readable(d)
    BY <1>1, <1>2, ReadableEnds DEF AppendInv, FileInv, d
  <2>2. info.szFilename # op.file
    BY <1>1, <1>2, ConstantsAssumption DEF HandleInv
  <2>. QED  BY <2>1, <2>2 DEF Listed, d, Target
<1>8. Loaded => d[0].kind = "head"
  <2>1. CASE Appending /\ Loaded
    <3>1. Readable(d)
      BY <1>1, <2>1 DEF HandleInv, Knows, OpInv, Target, Mine, d
    <3>. QED  BY <3>1 DEF Readable, Detected
  <2>2. CASE Editing
    BY <1>1, <2>2 DEF EditInv, IndexRegion, d
  <2>. QED  BY <1>6, <2>1, <2>2
<1>9. DataKept(op.file)
  <2>. SUFFICES ASSUME NEW a \in Listed(op.file), a \in DOMAIN d, d[a].kind = "data"
                PROVE  a < Size(e) /\ e[a] = d[a]
    BY <1>3 DEF DataKept, Target, d
  <2>1. Loaded
    BY <1>1, <1>6, <1>7, WritersLemma DEF Writing
  <2>2. a # 0
    BY <1>8, <2>1
  <2>. QED  BY <1>4, <1>5, <2>2
<1>10. ASSUME Appending, ~op.indexLost
       PROVE  Readable(e)
  BY <1>1, <1>10, HeadReadable DEF e, d
<1>11. StaysReadable(op.file)
  BY <1>2, <1>3, <1>6, <1>10 DEF StaysReadable, Editing
<1>. QED
  BY <1>1, <1>3, <1>9, <1>11, SameSound DEF Sound

LEMMA CutFileSound ==
  ASSUME IInv, CutFile
  PROVE  \A f \in Files : Sound(f)
<1>1. TypeOK /\ OpInv /\ EndInv /\ HandleInv /\ op.pc = "end"
  BY DEF IInv, OperationInv, CutFile
<1>2. op.file \in Files /\ DOMAIN disk = Files /\ IsFile(Target) /\ op.at \in Nat \ {0}
  BY <1>1, Typed
<1>3. Target[0] = HeadUnit(op.at) /\ op.at <= Size(Target) /\ TableBelow(op.at)
  BY <1>1 DEF EndInv
<1>4. 0 \in DOMAIN Target /\ Target[0].kind = "head" /\ Target[0].size = op.at
  BY <1>2, <1>3, FileDomain DEF HeadUnit
<1>5. /\ disk'[op.file] = SetEndOfFile(Target, op.at)
      /\ \A f \in Files \ {op.file} : disk'[f] = disk[f]
  BY <1>2 DEF CutFile, Target
<1>6. Sound(op.file)
  BY <1>2, <1>3, <1>4, <1>5, CutSound DEF Target
<1>. QED
  BY <1>1, <1>5, <1>6, SameSound

LEMMA ReturnSound ==
  ASSUME IInv, Return
  PROVE  \A f \in Files : Sound(f)
<1>1. TypeOK /\ OpInv /\ EndInv /\ HandleInv /\ op.pc = "return"
  BY DEF IInv, OperationInv, Return
<1>2. CASE op.kind # "new"
  <2>1. MountPckFile(op.file) /\ op.file \in Files
    BY <1>1, <1>2, Typed DEF Return, Reopen
  <2>2. info.szFilename = op.file => Loaded
    BY <1>1, <2>1, ConstantsAssumption DEF HandleInv
  <2>3. info.szFilename = op.file => TableBelow(disk[op.file][0].size)
    BY <1>1, <2>2 DEF EndInv, Target
  <2>. QED  BY <2>1, <2>3, MountSound
<1>3. CASE op.kind = "new"
  BY <1>1, <1>3, StillSound DEF Return
<1>. QED
  BY <1>2, <1>3

LEMMA OpenSound ==
  ASSUME IInv, NEW f \in Files, Open(f)
  PROVE  \A g \in Files : Sound(g)
<1>1. TypeOK /\ FilesInv /\ HandleInv /\ op.pc = "idle" /\ MountPckFile(f)
  BY DEF IInv, Open
<1>2. info.szFilename = f => TableBelow(disk[f][0].size)
  <2>. SUFFICES ASSUME info.szFilename = f  PROVE  TableBelow(disk[f][0].size)
    OBVIOUS
  <2>1. Loaded
    BY <1>1, ConstantsAssumption DEF HandleInv
  <2>2. Mine = disk[f] /\ Knows(Mine) /\ IsFile(Mine) /\ TailsAtEnd(Mine)
    BY <1>1, <2>1, Typed DEF HandleInv, Mine, FilesInv, FileInv
  <2>3. /\ TailOf(Mine).entry + TailOf(Mine).count = Mine[0].size - 1
        /\ TailOf(Mine).entry \in Nat /\ TailOf(Mine).count \in Nat
        /\ Mine[0].size \in Nat /\ TableBelow(TailOf(Mine).entry)
        /\ \A i \in DOMAIN Table : Table[i].at \in Nat
    BY <1>1, <2>2, ReadableEnds, ReadableLemma, Typed, RecordFields DEF Knows
  <2>4. TailOf(Mine).entry < Mine[0].size
    BY <2>3
  <2>5. TableBelow(Mine[0].size)
    BY <2>3, <2>4 DEF TableBelow
  <2>. QED  BY <2>2, <2>5
<1>. QED
  BY <1>1, <1>2, MountSound

LEMMA EditSound ==
  ASSUME IInv, Edit
  PROVE  \A f \in Files : Sound(f)
<1>1. TypeOK
  BY DEF IInv
<1>2. ASSUME NEW o, NEW table, RenameFilename(o, table)
      PROVE  \A f \in Files : Sound(f)
  <2>1. info.szFilename \in Files
    BY <1>1, <1>2, Typed DEF RenameFilename, Loaded
  <2>2. UNCHANGED disk \/ disk' = [disk EXCEPT ![info.szFilename] = Mapping(@)]
    BY <1>2 DEF RenameFilename
  <2>. QED  BY <1>1, <2>1, <2>2, StillSound, GrownSound
<1>3. CASE SetAdditionalInfo
  BY <1>1, <1>3, InfoInv, StillSound
<1>. QED
  BY <1>2, <1>3 DEF Edit, Delete, Rename

LEMMA StepSound ==
  ASSUME IInv, [Next]_vars
  PROVE  \A f \in Files : Sound(f)
<1>1. TypeOK
  BY DEF IInv
<1>2. CASE \E f \in Files : Open(f)
  BY <1>2, OpenSound
<1>3. CASE UNCHANGED disk
  BY <1>1, <1>3, StillSound
<1>4. CASE Update
  <2>1. ASSUME NEW o \in {"update", "new"}, NEW f \in Files, NEW N \in NameSets,
               UpdateStart(o, f, N)
        PROVE  \A g \in Files : Sound(g)
    BY <2>1, GrownSound DEF UpdateStart
  <2>2. CASE \E N \in NameSets : UpdateClashes(N) \/ UpdateCannotOpen(N)
    BY <1>3, <2>2 DEF UpdateClashes, UpdateCannotOpen
  <2>3. CASE Stop \/ ThreadsJoined
    BY <1>3, <2>3 DEF Stop, ThreadsJoined
  <2>. QED  BY <1>4, <2>1, <2>2, <2>3, StoreSound DEF Update
<1>5. CASE Edit
  BY <1>5, EditSound
<1>6. CASE WriteIndex
  <2>1. CASE WriteAllIndex \/ ReadGoneVector \/ IndexNotWritten \/ HeadOrTailNotWritten
    BY <1>3, <2>1 DEF WriteAllIndex, ReadGoneVector, IndexNotWritten, HeadOrTailNotWritten
  <2>. QED
    BY <1>6, <2>1, RecordSound, TailSound, HeadSound, CutFileSound, ReturnSound DEF WriteIndex
<1>7. CASE Close \/ Crash \/ UNCHANGED vars
  BY <1>3, <1>7 DEF Close, Crash, vars
<1>. QED
  BY <1>2, <1>4, <1>5, <1>6, <1>7 DEF Next

\* Adding files, even if it fails or is cut off, never makes an archive unreadable.
THEOREM OnlyEditsBreak == NewAlone => (Spec => OnlyInPlaceBreaks)
<1>1. IInv /\ [Next]_vars =>
        [\A f \in Files :
           Readable(disk[f]) /\ ~Readable(disk[f])' =>
             op.kind \in {"rename", "delete"} \/ op.indexLost]_vars
  BY StepSound DEF Sound, StaysReadable
<1>. QED
  BY <1>1, LayoutInvariant, PTL DEF Spec, OnlyInPlaceBreaks

\* The data of an entry that the file or the open handle lists is never overwritten or
\* cut off.
THEOREM DataStays == NewAlone => (Spec => DataNeverOverwritten)
<1>1. IInv /\ [Next]_vars =>
        [\A f \in Files : \A a \in Listed(f) \cap DOMAIN disk[f] :
           disk[f][a].kind = "data" => a < Size(disk'[f]) /\ disk'[f][a] = disk[f][a]]_vars
  BY StepSound DEF Sound, DataKept
<1>. QED
  BY <1>1, LayoutInvariant, PTL DEF Spec, DataNeverOverwritten
=============================================================================
