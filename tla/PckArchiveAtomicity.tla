------------------------ MODULE PckArchiveAtomicity ------------------------
(***************************************************************************)
(* Adding files to an archive implements AtomicArchive: what a reader of   *)
(* the file finds changes in the one step that writes the head, from one   *)
(* set of entries that all have their data to another.  On the way: every  *)
(* record has its data where it says, and no name is listed twice.  At the *)
(* end: no entry is lost.                                                  *)
(***************************************************************************)
EXTENDS PckArchiveProofs

\* The archive is only added to, and the index reaches the disk or the write of the
\* tail fails as well.  (An edit in place is not atomic, and a failed write of the
\* index goes unnoticed: the runs with those show the entries that are lost.)
AddOnly == Operations \subseteq {"update", "new"} /\ "index" \notin MayFail

(***************************************************************************)
(* The inductive invariant, beside IInv.                                   *)
(***************************************************************************)
DataAt(d, r) == r.at \in DOMAIN d /\ d[r.at].kind = "data" /\ d[r.at].name = r.name
Complete(d) == \A i \in 1..TailOf(d).count : DataAt(d, Records(d)[i])
Distinct(d) ==
  \A i, j \in 1..TailOf(d).count : Records(d)[i].name = Records(d)[j].name => i = j
Whole(d) == Readable(d) => Complete(d) /\ Distinct(d)

\* The data below address n is of job j or an earlier one.
DataBefore(d, n, j) ==
  \A a \in DOMAIN d : a < n /\ d[a].kind = "data" => d[a].job <= j

\* The table of the open handle is the index of its file, but for the marks.
TableIs(d) ==
  /\ DOMAIN Table = 1..TailOf(d).count
  /\ \A i \in DOMAIN Table :
       Table[i].name = Records(d)[i].name /\ Table[i].at = Records(d)[i].at

\* The new records have the data of this job, each another name; the old records that
\* stay have none of the names that are added.
NewRecords ==
  /\ \A i \in DOMAIN op.index :
       /\ op.index[i].name \in op.files /\ op.index[i].at \in DOMAIN Target
       /\ Target[op.index[i].at] = DataUnit(op.index[i].name, jobs)
  /\ \A i, j \in DOMAIN op.index : op.index[i].name = op.index[j].name => i = j
OldRecords == \A i \in DOMAIN Table : ~Table[i].isInvalid => Table[i].name \notin op.files

OnlyAdds == op.kind \in {"none", "update", "new"} /\ op.indexLost = FALSE
DiskWhole == \A f \in Files : Whole(disk[f]) /\ DataBefore(disk[f], Size(disk[f]), jobs)
HandleWhole == Loaded /\ (op.pc = "idle" \/ Appending) => TableIs(Mine)
AddedWhole ==
  Appending => NewRecords /\ OldRecords /\ (Loaded => DataBefore(Target, Base, jobs - 1))
AddInv == OnlyAdds /\ DiskWhole /\ HandleWhole /\ AddedWhole

-----------------------------------------------------------------------------
(***************************************************************************)
(* Contents.                                                               *)
(***************************************************************************)
Entries(d) ==
  {[name |-> Records(d)[i].name, job |-> d[Records(d)[i].at].job] : i \in 1..TailOf(d).count}

LEMMA ContentsAre ==
  ASSUME NEW d, IsFile(d), Readable(d), Complete(d), Distinct(d)
  PROVE  /\ Contents(d) = Entries(d)
         /\ \A i \in DOMAIN Records(d) : ~Shadowed(Records(d), i)
<1>. DEFINE s == Records(d)
            n == TailOf(d).count
<1>1. DOMAIN s = 1..n /\ n \in Nat
  BY ReadableLemma
<1>2. \A i \in 1..n : DataOf(d, s[i]) = d[s[i].at].job
  <2>. SUFFICES ASSUME NEW i \in 1..n  PROVE  DataOf(d, s[i]) = d[s[i].at].job
    OBVIOUS
  <2>1. DataAt(d, s[i])
    BY DEF Complete
  <2>. HIDE DEF s
  <2>2. s[i].at \in DOMAIN d /\ d[s[i].at].kind = "data" /\ d[s[i].at].name = s[i].name
    BY <2>1 DEF DataAt
  <2>3. s[i].at < Size(d)
    BY <2>2, FileDomain
  <2>. QED  BY <2>2, <2>3 DEF DataOf
<1>3. \A i \in 1..n : ~Shadowed(s, i)
  <2>. SUFFICES ASSUME NEW i \in 1..n, NEW j \in 1..n, j > i, s[j].name = s[i].name
                PROVE  FALSE
    BY <1>1 DEF Shadowed
  <2>1. i = j
    BY DEF Distinct
  <2>. QED  BY <1>1, <2>1
<1>4. Contents(d) = {[name |-> s[i].name, job |-> DataOf(d, s[i])] :
                       i \in {j \in DOMAIN s : ~Shadowed(s, j)}}
  BY DEF Contents
<1>. HIDE DEF s, n
<1>5. {j \in DOMAIN s : ~Shadowed(s, j)} = 1..n
  BY <1>1, <1>3
<1>6. Contents(d) = {[name |-> s[i].name, job |-> d[s[i].at].job] : i \in 1..n}
  BY <1>2, <1>4, <1>5
<1>. QED
  BY <1>1, <1>3, <1>6 DEF s, n, Entries

\* Nothing to find in a file that cannot be read.
LEMMA NoContents ==
  ASSUME NEW d, ~Readable(d)
  PROVE  Contents(d) = {}
BY DEF Contents

(***************************************************************************)
(* Every step but one leaves the archives as they are for a reader.        *)
(***************************************************************************)
\* Data that is new in a file is of the job under way, at the address of its writer.
Origin(f) ==
  \A a \in DOMAIN disk'[f] : disk'[f][a].kind = "data" =>
    \/ a \in DOMAIN disk[f] /\ disk'[f][a] = disk[f][a]
    \/ op.pc = "store" /\ a = op.at /\ disk'[f][a].job = jobs
Shape(f) ==
  /\ Readable(disk[f]) => Readable(disk'[f]) /\ SameArchive(disk[f], disk'[f])
  /\ ~Readable(disk[f]) => ~Readable(disk'[f])
  /\ Origin(f)

LEMMA ContentsKept ==
  ASSUME IInv, NEW f \in Files, IsFile(disk'[f]), Whole(disk[f]), Sound(f), Shape(f)
  PROVE  Whole(disk'[f]) /\ Contents(disk'[f]) = Contents(disk[f])
<1>. DEFINE d == disk[f]
            e == disk'[f]
<1>1. CASE ~Readable(d)
  <2>1. ~Readable(e)
    BY <1>1 DEF Shape
  <2>. QED  BY <1>1, <2>1, NoContents DEF Whole
<1>2. CASE Readable(d)
  <2>1. /\ Readable(e) /\ TailOf(e) = TailOf(d) /\ Records(e) = Records(d)
        /\ Complete(d) /\ Distinct(d) /\ IsFile(d)
    BY <1>2, Typed DEF Shape, SameArchive, Whole, IInv
  <2>. DEFINE s == Records(d)
              n == TailOf(d).count
  <2>2. DOMAIN s = 1..n
    BY <1>2, <2>1, ReadableLemma
  <2>3. \A i \in 1..n : s[i].at \in Listed(f)
    BY <1>2, <2>2 DEF Listed
  <2>4. \A i \in 1..n : s[i].at \in DOMAIN d /\ d[s[i].at].kind = "data" /\ d[s[i].at].name = s[i].name
    BY <2>1 DEF Complete, DataAt
  <2>5. \A i \in 1..n : s[i].at < Size(e) /\ e[s[i].at] = d[s[i].at]
    BY <2>3, <2>4 DEF Sound, DataKept
  <2>6. \A i \in 1..n : s[i].at \in DOMAIN e
    <3>1. \A a \in DOMAIN d : a \in Nat
      BY <2>1, FileDomain
    <3>. HIDE DEF s, n, e, d
    <3>2. IsFile(e)
      BY DEF e
    <3>. QED  BY <2>4, <2>5, <3>1, <3>2, FileDomain
  <2>7. Complete(e)
    <3>1. \A i \in 1..n : DataAt(e, s[i])
      <4>. HIDE DEF s, n, e, d
      <4>. QED  BY <2>4, <2>5, <2>6 DEF DataAt
    <3>. QED  BY <2>1, <3>1 DEF Complete
  <2>8. Distinct(e)
    BY <2>1 DEF Distinct
  <2>9. Entries(e) = Entries(d)
    <3>. HIDE DEF d, e
    <3>1. Entries(e) = {[name |-> s[i].name, job |-> e[s[i].at].job] : i \in 1..n}
      BY <2>1 DEF Entries
    <3>2. Entries(d) = {[name |-> s[i].name, job |-> d[s[i].at].job] : i \in 1..n}
      BY DEF Entries
    <3>. HIDE DEF s, n
    <3>. QED  BY <2>5, <3>1, <3>2
  <2>10. Contents(e) = Entries(e) /\ Contents(d) = Entries(d)
    BY <1>2, <2>1, <2>7, <2>8, ContentsAre
  <2>. QED  BY <2>7, <2>8, <2>9, <2>10 DEF Whole
<1>. QED
  BY <1>1, <1>2

LEMMA ShapeSame ==
  ASSUME TypeOK, NEW f \in Files, disk'[f] = disk[f]
  PROVE  Shape(f)
BY DEF Shape, SameArchive, Origin

LEMMA ShapeStill ==
  ASSUME TypeOK, UNCHANGED disk
  PROVE  \A f \in Files : Shape(f)
BY ShapeSame

LEMMA ShapeCut ==
  ASSUME IInv, NEW f \in Files, 0 \in DOMAIN disk[f], disk[f][0].kind = "head",
         disk[f][0].size <= Size(disk[f]),
         disk'[f] = SetEndOfFile(disk[f], disk[f][0].size)
  PROVE  Shape(f)
<1>. DEFINE d == disk[f]
            e == disk'[f]
<1>1. IsFile(d) /\ FileInv(d)
  BY Typed DEF IInv, FilesInv
<1>2. /\ 0 \in DOMAIN d /\ d[0].kind = "head" /\ d[0].size <= Size(d)
      /\ e = SetEndOfFile(d, d[0].size)
  OBVIOUS
<1>. HIDE DEF d, e
<1>3. /\ Readable(e) <=> Readable(d)
      /\ Readable(d) => SameArchive(d, e)
      /\ \A a \in DOMAIN e : a \in DOMAIN d /\ e[a] = d[a]
  BY <1>1, <1>2, ShortFile
<1>. QED
  BY <1>3 DEF Shape, Origin, d, e

LEMMA ShapeMount ==
  ASSUME IInv, NEW f \in Files, MountPckFile(f)
  PROVE  \A g \in Files : Shape(g)
<1>1. TypeOK /\ IsFile(disk[f]) /\ DOMAIN disk = Files
  BY Typed DEF IInv
<1>2. CASE Detected(disk[f])
  <2>1. /\ 0 \in DOMAIN disk[f] /\ disk[f][0].kind = "head"
        /\ disk[f][0].size <= Size(disk[f])
    BY <1>1, <1>2, FileDomain DEF Detected
  <2>2. /\ disk'[f] = SetEndOfFile(disk[f], disk[f][0].size)
        /\ \A g \in Files \ {f} : disk'[g] = disk[g]
    BY <1>1, <1>2 DEF MountPckFile, CutToSize
  <2>. QED  BY <1>1, <2>1, <2>2, ShapeCut, ShapeSame
<1>3. CASE ~Detected(disk[f])
  BY <1>1, <1>3, ShapeStill DEF MountPckFile
<1>. QED
  BY <1>2, <1>3

LEMMA ShapeBegin ==
  ASSUME IInv, NewAlone, NEW o \in {"update", "new"}, NEW f \in Files, NEW N \in NameSets,
         UpdateStart(o, f, N)
  PROVE  \A g \in Files : Shape(g)
<1>. DEFINE d == disk[f]
            e == Mapping(d)
<1>1. TypeOK /\ HandleInv /\ op.pc = "idle" /\ IsFile(d) /\ FileInv(d) /\ DOMAIN disk = Files
  BY Typed DEF IInv, FilesInv, UpdateStart, Begin
<1>2. disk'[f] = e /\ \A g \in Files \ {f} : disk'[g] = disk[g]
  BY <1>1 DEF UpdateStart
<1>3. /\ Fresh(d) <=> Fresh(e)
      /\ Readable(d) => Readable(e) /\ SameArchive(d, e)
      /\ \A a \in DOMAIN e : (e[a] = Blank) \/ (a \in DOMAIN d /\ e[a] = d[a])
      /\ IsFile(e) /\ FileInv(e)
  BY <1>1, MappingLemma, GrownFile DEF Grown
<1>. HIDE DEF e
<1>4. ~Readable(d) => ~Readable(e)
  <2>1. CASE Loaded
    <3>1. f = info.szFilename
      BY <2>1, UpdateBegins
    <3>. QED  BY <1>1, <2>1, <3>1 DEF HandleInv, Knows, Mine
  <2>2. CASE ~Loaded
    <3>1. Fresh(d)
      BY <2>2, UpdateBegins
    <3>. QED  BY <1>3, <3>1, ReadableEnds DEF FileInv
  <2>. QED  BY <2>1, <2>2
<1>5. Shape(f)
  BY <1>2, <1>3, <1>4 DEF Shape, Origin, Blank
<1>. QED
  BY <1>1, <1>2, <1>5, ShapeSame

\* A step of an addition writes one unit.
LEMMA ShapeWrite ==
  ASSUME IInv, Appending, op.at >= Base,
         NEW u \in Units,
         u.kind = "tail" => u.entry = Entry /\ u.entry + u.count = op.at,
         u.kind = "index" => u.at < Entry /\ (~Loaded => 2 * u.at <= op.at),
         u.kind = "data" => op.pc = "store" /\ u.job = jobs,
         disk' = [disk EXCEPT ![op.file] = Write2(@, op.at, u)]
  PROVE  \A f \in Files : Shape(f)
<1>. DEFINE e == disk'[op.file]
<1>1. TypeOK /\ ~Editing /\ op.pc # "idle"
  BY DEF IInv, Appending, Editing, Writing
<1>2. /\ op.file \in Files /\ AfterUnit(Target, e, op.at, u)
      /\ \A f \in Files \ {op.file} : disk'[f] = disk[f]
      /\ Loaded => Readable(e) /\ SameArchive(Target, e)
      /\ ~Loaded => Fresh(e)
      /\ FilesInv'
  BY <1>1, UnitLemma
<1>3. IsFile(e) /\ TailsAtEnd(e)
  BY <1>2 DEF AfterUnit, FilesInv, FileInv
<1>4. IsFile(Target) /\ TailsAtEnd(Target)
  BY <1>1, <1>2, Typed DEF IInv, FilesInv, FileInv, Target
<1>5. Loaded => Readable(Target)
  BY <1>1 DEF IInv, HandleInv, OperationInv, OpInv, Knows, Target, Mine
<1>6. ~Loaded => Fresh(Target)
  BY DEF IInv, OperationInv, AppendInv
<1>. HIDE DEF e
<1>7. ~Loaded => ~Readable(Target) /\ ~Readable(e)
  BY <1>2, <1>3, <1>4, <1>6, ReadableEnds
<1>8. \A a \in DOMAIN e : e[a].kind = "data" =>
        \/ a \in DOMAIN Target /\ e[a] = Target[a]
        \/ op.pc = "store" /\ a = op.at /\ e[a].job = jobs
  BY <1>2 DEF AfterUnit, Blank
<1>9. Shape(op.file)
  BY <1>2, <1>5, <1>7, <1>8 DEF Shape, Origin, Target, e
<1>. QED
  BY <1>1, <1>2, <1>9, ShapeSame

LEMMA ShapeStore ==
  ASSUME IInv, NEW n \in Names, Store(n)
  PROVE  \A f \in Files : Shape(f)
<1>1. TypeOK /\ OpInv /\ AppendInv /\ op.pc = "store"
  BY DEF IInv, OperationInv, Store
<1>2. Appending /\ op.at >= Base
  <2>1. Base \in Nat /\ Len(op.index) \in Nat
    BY <1>1, Typed
  <2>. QED  BY <1>1, <2>1 DEF OpInv, AppendInv
<1>. DEFINE u == DataUnit(n, jobs)
<1>3. u \in Units /\ u.kind = "data" /\ u.job = jobs
  <2>1. jobs \in 1..MaxJobs
    BY <1>1 DEF TypeOK
  <2>. QED  BY <2>1, UnitTypes DEF DataUnit
<1>4. disk' = [disk EXCEPT ![op.file] = Write2(@, op.at, u)]
  BY DEF Store
<1>. HIDE DEF u
<1>5. u.kind # "tail" /\ u.kind # "index"
  BY <1>3
<1>. QED
  BY <1>1, <1>2, <1>3, <1>4, <1>5, ShapeWrite

LEMMA ShapeRecord ==
  ASSUME IInv, ~Editing, WriteIndexUnit
  PROVE  \A f \in Files : Shape(f)
<1>. DEFINE u == Head(op.left)
<1>1. TypeOK /\ op.pc = "indexUnits"
  BY DEF IInv, WriteIndexUnit
<1>2. /\ Appending
      /\ Done \in Nat /\ op.at = Entry + Done /\ u \in IndexUnits /\ u.at < Entry
      /\ ~Loaded => 2 * u.at <= op.at
  BY NextRecord
<1>3. u \in Units /\ u.kind = "index"
  BY <1>2, UnitTypes DEF IndexUnits
<1>4. op.at >= Base
  <2>1. Base \in Nat /\ Entry \in Nat /\ (Appending => Entry >= Base)
    BY <1>1, Typed, WritersLemma DEF Writing
  <2>. QED  BY <1>2, <2>1
<1>5. disk' = [disk EXCEPT ![op.file] = Write2(@, op.at, u)]
  BY DEF WriteIndexUnit
<1>. HIDE DEF u
<1>6. u.kind # "tail" /\ u.kind # "data"
  BY <1>3
<1>. QED
  BY <1>2, <1>3, <1>4, <1>5, <1>6, ShapeWrite

LEMMA ShapeTail ==
  ASSUME IInv, ~Editing, WriteTail
  PROVE  \A f \in Files : Shape(f)
<1>. DEFINE u == TailUnit(Entry, Count)
<1>1. TypeOK /\ op.pc = "indexUnits" /\ op.left = <<>>
  BY DEF IInv, WriteTail
<1>2. op.at = Entry + Count /\ u \in Units
  BY <1>1, AtTail
<1>3. /\ u.kind = "tail" /\ u.entry = Entry /\ u.count = Count
      /\ Entry \in Nat /\ Count \in Nat
  BY <1>1, Typed DEF TailUnit
<1>4. disk' = [disk EXCEPT ![op.file] = Write2(@, op.at, u)]
  BY DEF WriteTail, Entry, Count
<1>. HIDE DEF u
<1>5. Appending /\ op.at >= Base
  <2>1. Base \in Nat /\ (Appending => Entry >= Base) /\ (Appending \/ Editing)
    BY <1>1, Typed, WritersLemma DEF Writing
  <2>. QED  BY <1>2, <1>3, <2>1
<1>6. u.kind # "index" /\ u.kind # "data" /\ u.entry + u.count = op.at
  BY <1>2, <1>3
<1>. QED
  BY <1>2, <1>3, <1>4, <1>5, <1>6, ShapeWrite

LEMMA ShapeCutFile ==
  ASSUME IInv, CutFile
  PROVE  \A f \in Files : Shape(f)
<1>1. TypeOK /\ EndInv /\ op.pc = "end"
  BY DEF IInv, OperationInv, CutFile
<1>2. op.file \in Files /\ DOMAIN disk = Files /\ IsFile(Target) /\ op.at \in Nat \ {0}
  BY <1>1, Typed
<1>3. Target[0] = HeadUnit(op.at) /\ op.at <= Size(Target)
  BY <1>1 DEF EndInv
<1>4. 0 \in DOMAIN Target /\ Target[0].kind = "head" /\ Target[0].size = op.at
  BY <1>2, <1>3, FileDomain DEF HeadUnit
<1>5. /\ disk'[op.file] = SetEndOfFile(Target, op.at)
      /\ \A f \in Files \ {op.file} : disk'[f] = disk[f]
  BY <1>2 DEF CutFile, Target
<1>6. Shape(op.file)
  BY <1>2, <1>3, <1>4, <1>5, ShapeCut DEF Target
<1>. QED
  BY <1>1, <1>5, <1>6, ShapeSame

LEMMA NoEdits ==
  ASSUME AddOnly, OnlyAdds
  PROVE  /\ ~Editing /\ op.indexLost = FALSE /\ ~IndexNotWritten
         /\ \A N : ~Delete(N) /\ \A n, new : ~Rename(n, new)
         /\ ~SetAdditionalInfo /\ ~Edit
<1>1. "delete" \notin Operations /\ "rename" \notin Operations /\ "info" \notin Operations
  BY DEF AddOnly
<1>2. \A t : ~RenameFilename("delete", t) /\ ~RenameFilename("rename", t)
  BY <1>1 DEF RenameFilename, Begin
<1>3. (\A N : ~Delete(N)) /\ (\A n, new : ~Rename(n, new))
  BY <1>2 DEF Delete, Rename
<1>4. ~SetAdditionalInfo
  BY <1>1 DEF SetAdditionalInfo, Begin
<1>. QED
  BY <1>3, <1>4 DEF Edit, AddOnly, OnlyAdds, Editing, IndexNotWritten

\* Every step but the one that writes the head.
LEMMA ShapeStep ==
  ASSUME IInv, NewAlone, AddOnly, OnlyAdds, [Next]_vars, ~WriteHead
  PROVE  \A f \in Files : Shape(f)
<1>1. TypeOK /\ ~Editing
  BY NoEdits DEF IInv
<1>2. CASE \E f \in Files : Open(f)
  BY <1>2, ShapeMount DEF Open
<1>3. CASE UNCHANGED disk
  BY <1>1, <1>3, ShapeStill
<1>4. CASE Update
  <2>1. CASE \E N \in NameSets : UpdateClashes(N) \/ UpdateCannotOpen(N)
    BY <1>3, <2>1 DEF UpdateClashes, UpdateCannotOpen
  <2>2. CASE Stop \/ ThreadsJoined
    BY <1>3, <2>2 DEF Stop, ThreadsJoined
  <2>. QED  BY <1>4, <2>1, <2>2, ShapeBegin, ShapeStore DEF Update
<1>5. CASE WriteIndex
  <2>1. CASE WriteAllIndex \/ ReadGoneVector \/ IndexNotWritten \/ HeadOrTailNotWritten
    BY <1>3, <2>1 DEF WriteAllIndex, ReadGoneVector, IndexNotWritten, HeadOrTailNotWritten
  <2>2. CASE Return
    <3>1. op.file \in Files
      BY <1>1, <2>2, Typed DEF Return
    <3>2. CASE op.kind # "new"
      BY <2>2, <3>1, <3>2, ShapeMount DEF Return, Reopen
    <3>3. CASE op.kind = "new"
      BY <1>3, <2>2, <3>3 DEF Return
    <3>. QED  BY <3>2, <3>3
  <2>. QED
    BY <1>1, <1>5, <2>1, <2>2, ShapeRecord, ShapeTail, ShapeCutFile DEF WriteIndex
<1>6. CASE Close \/ Crash \/ UNCHANGED vars
  BY <1>3, <1>6 DEF Close, Crash, vars
<1>. QED
  BY <1>2, <1>4, <1>5, <1>6, NoEdits DEF Next

-----------------------------------------------------------------------------
(***************************************************************************)
(* The invariant is kept, but for the step that writes the head.           *)
(***************************************************************************)
LEMMA JobsStep ==
  ASSUME TypeOK, [Next]_vars
  PROVE  jobs \in Nat /\ jobs' \in Nat /\ jobs' >= jobs
<1>1. jobs \in Nat
  BY ConstantsAssumption DEF TypeOK
<1>2. \A o : Begin(o) => jobs' = jobs + 1
  BY DEF Begin
<1>3. CASE UNCHANGED jobs
  BY <1>1, <1>3
<1>4. CASE \E o : Begin(o)
  BY <1>1, <1>2, <1>4
<1>5. CASE Update
  BY <1>3, <1>4, <1>5
     DEF Update, UpdateClashes, UpdateCannotOpen, UpdateStart, Store, Stop, ThreadsJoined
<1>6. CASE Edit
  BY <1>4, <1>6 DEF Edit, Delete, Rename, RenameFilename, SetAdditionalInfo
<1>7. CASE WriteIndex
  BY <1>3, <1>7
     DEF WriteIndex, WriteAllIndex, ReadGoneVector, WriteIndexUnit, IndexNotWritten,
         WriteTail, WriteHead, HeadOrTailNotWritten, CutFile, Return
<1>8. CASE (\E f \in Files : Open(f)) \/ Close \/ Crash \/ UNCHANGED vars
  BY <1>3, <1>8 DEF Open, Close, Crash, vars
<1>. QED
  BY <1>5, <1>6, <1>7, <1>8 DEF Next

LEMMA KindStep ==
  ASSUME TypeOK, AddOnly, OnlyAdds, [Next]_vars
  PROVE  OnlyAdds'
<1>0. op \in OperationStates
  BY DEF TypeOK
<1>1. CASE op' = op \/ op' = Idle
  BY <1>1 DEF OnlyAdds, Idle
<1>2. CASE op'.kind = op.kind /\ op'.indexLost = op.indexLost
  BY <1>2 DEF OnlyAdds
<1>3. ASSUME NEW o \in {"update", "new"}, NEW f \in Files, NEW N \in NameSets,
             UpdateStart(o, f, N)
      PROVE  OnlyAdds'
  <2>1. op'.kind = o /\ op'.indexLost = FALSE
    BY <1>3 DEF UpdateStart, Idle
  <2>. QED  BY <2>1 DEF OnlyAdds
<1>4. CASE (\E n \in Names : Store(n)) \/ Stop \/ ThreadsJoined
  <2>1. op'.kind = op.kind /\ op'.indexLost = op.indexLost
    BY <1>0, <1>4 DEF Store, Stop, ThreadsJoined, OperationStates
  <2>. QED  BY <1>2, <2>1
<1>5. CASE \/ WriteAllIndex \/ WriteIndexUnit \/ WriteTail \/ WriteHead
           \/ HeadOrTailNotWritten \/ CutFile
  <2>1. op'.kind = op.kind /\ op'.indexLost = op.indexLost
    BY <1>0, <1>5
       DEF WriteAllIndex, WriteIndexUnit, WriteTail, WriteHead, HeadOrTailNotWritten,
           CutFile, OperationStates
  <2>. QED  BY <1>2, <2>1
<1>6. CASE ReadGoneVector \/ Return \/ Close \/ Crash \/ UNCHANGED vars
  BY <1>1, <1>6 DEF ReadGoneVector, Return, Close, Crash, vars
<1>7. CASE \E f \in Files : Open(f)
  BY <1>1, <1>7 DEF Open
<1>8. CASE \E N \in NameSets : UpdateClashes(N) \/ UpdateCannotOpen(N)
  BY <1>1, <1>8 DEF UpdateClashes, UpdateCannotOpen
<1>. QED
  BY <1>3, <1>4, <1>5, <1>6, <1>7, <1>8, NoEdits DEF Next, Update, WriteIndex

LEMMA DiskWholeStep ==
  ASSUME IInv, TypeOK', NewAlone, AddOnly, AddInv, [Next]_vars, ~WriteHead
  PROVE  DiskWhole' /\ \A f \in Files : Contents(disk'[f]) = Contents(disk[f])
<1>1. \A f \in Files : Sound(f) /\ Shape(f)
  BY StepSound, ShapeStep DEF AddInv
<1>2. \A f \in Files : IsFile(disk'[f]) /\ IsFile(disk[f])
  BY Typed DEF IInv, TypeOK
<1>3. \A f \in Files : Whole(disk'[f]) /\ Contents(disk'[f]) = Contents(disk[f])
  BY <1>1, <1>2, ContentsKept DEF AddInv, DiskWhole
<1>4. ASSUME NEW f \in Files, NEW a \in DOMAIN disk'[f], disk'[f][a].kind = "data"
      PROVE  disk'[f][a].job <= jobs'
  <2>. DEFINE d == disk[f]
              e == disk'[f]
  <2>1. jobs \in Nat /\ jobs' \in Nat /\ jobs' >= jobs
    BY JobsStep DEF IInv
  <2>2. \/ a \in DOMAIN d /\ e[a] = d[a]
        \/ e[a].job = jobs
    BY <1>1, <1>4 DEF Shape, Origin
  <2>3. ASSUME a \in DOMAIN d, e[a] = d[a]
        PROVE  e[a].job <= jobs /\ e[a].job \in Nat
    <3>1. a < Size(d) /\ d[a] \in Units
      BY <1>2, <2>3, FileDomain
    <3>2. d[a].job <= jobs
      BY <1>4, <2>3, <3>1 DEF AddInv, DiskWhole, DataBefore
    <3>3. d[a].job \in Nat
      <4>1. d[a].kind = "data"
        BY <1>4, <2>3
      <4>. HIDE DEF d
      <4>2. d[a].job \in 1..MaxJobs
        BY <3>1, <4>1, UnitKinds
      <4>. QED  BY <4>2
    <3>. QED  BY <2>3, <3>2, <3>3
  <2>. HIDE DEF d, e
  <2>4. e[a].job <= jobs'
    BY <2>1, <2>2, <2>3
  <2>. QED  BY <2>4 DEF e
<1>5. DiskWhole'
  BY <1>3, <1>4 DEF DiskWhole, DataBefore
<1>. QED
  BY <1>3, <1>5

LEMMA AfterWrite ==
  ASSUME TypeOK, op.pc # "idle", NEW u \in Units,
         disk' = [disk EXCEPT ![op.file] = Write2(@, op.at, u)]
  PROVE  AfterUnit(Target, disk'[op.file], op.at, u)
<1>1. op.file \in Files /\ IsFile(Target) /\ op.at \in Nat /\ DOMAIN disk = Files
  BY Typed
<1>2. disk'[op.file] = Write2(Target, op.at, u)
  BY <1>1 DEF Target
<1>. QED
  BY <1>1, <1>2, Written

\* A step of an addition that leaves the handle alone.
SameJob ==
  /\ Table' = Table /\ Loaded' = Loaded /\ info'.szFilename = info.szFilename
  /\ Base' = Base /\ op'.files = op.files /\ op'.file = op.file /\ jobs' = jobs

LEMMA AdditionGoesOn ==
  ASSUME IInv, AddInv, Appending, Appending', SameJob, \A f \in Files : Shape(f),
         op.pc = "store" => op.at >= Base
  PROVE  HandleWhole' /\ OldRecords' /\ (Loaded => DataBefore(Target, Base, jobs - 1))'
<1>1. /\ TypeOK /\ HandleInv /\ OpInv /\ op.pc # "idle" /\ op'.pc # "idle"
  BY DEF IInv, OperationInv, Appending, Writing
<1>2. ASSUME Loaded
      PROVE  HandleWhole' /\ DataBefore(Target', Base', jobs' - 1)
  <2>. DEFINE d == Mine
              e == Mine'
  <2>1. info.szFilename \in Files /\ op.file = info.szFilename
    BY <1>1, <1>2, Typed DEF OpInv
  <2>2. Target = d /\ Target' = e
    BY <2>1 DEF SameJob, Target, Mine
  <2>3. Readable(d) /\ TableIs(d) /\ DataBefore(d, Base, jobs - 1)
    BY <1>1, <1>2, <2>2 DEF HandleInv, Knows, AddInv, HandleWhole, AddedWhole
  <2>4. SameArchive(d, e)
    BY <2>1, <2>3 DEF Shape, SameJob, Mine
  <2>5. \A a \in DOMAIN e : e[a].kind = "data" =>
          (a \in DOMAIN d /\ e[a] = d[a]) \/ (op.pc = "store" /\ a = op.at)
    BY <2>1 DEF Shape, Origin, SameJob, Mine
  <2>6. IsFile(d) /\ Base \in Nat
    BY <1>1, <1>2, Typed
  <2>. HIDE DEF d, e
  <2>7. TableIs(Mine)'
    BY <2>3, <2>4 DEF TableIs, SameArchive, SameJob, e
  <2>8. DataBefore(e, Base, jobs - 1)
    <3>. SUFFICES ASSUME NEW a \in DOMAIN e, a < Base, e[a].kind = "data"
                  PROVE  e[a].job <= jobs - 1
      BY DEF DataBefore
    <3>1. ~(op.pc = "store" /\ a = op.at)
      BY <1>1, <2>6, Typed
    <3>2. a \in DOMAIN d /\ e[a] = d[a]
      BY <2>5, <3>1
    <3>. QED  BY <2>3, <3>2 DEF DataBefore
  <2>. QED  BY <2>2, <2>7, <2>8 DEF HandleWhole, SameJob
<1>3. OldRecords'
  BY DEF AddInv, AddedWhole, OldRecords, SameJob
<1>. QED
  BY <1>2, <1>3 DEF HandleWhole, SameJob

LEMMA NewRecordsStay ==
  ASSUME IInv, AddInv, Appending, SameJob, op'.index = op.index,
         \/ UNCHANGED disk
         \/ op.pc = "indexUnits" /\ \E u : AfterUnit(Target, disk'[op.file], op.at, u)
  PROVE  NewRecords'
<1>. DEFINE e == disk'[op.file]
<1>1. TypeOK /\ AppendInv /\ NewRecords /\ op.pc # "idle"
  BY DEF IInv, OperationInv, AddInv, AddedWhole, Appending, Writing
<1>2. IsFile(Target) /\ Base \in Nat /\ op.at \in Nat /\ Len(op.index) \in Nat
      /\ DOMAIN op.index = 1..Len(op.index) /\ Entry \in Nat
  BY <1>1, Typed
<1>3. ASSUME NEW i \in DOMAIN op.index
      PROVE  op.index[i].at \in DOMAIN e /\ e[op.index[i].at] = Target[op.index[i].at]
  <2>1. op.index[i].at \in DOMAIN Target
    BY <1>1 DEF NewRecords
  <2>2. CASE UNCHANGED disk
    BY <2>1, <2>2 DEF Target
  <2>3. CASE op.pc = "indexUnits" /\ \E u : AfterUnit(Target, e, op.at, u)
    <3>1. op.index[i].at = Base + i - 1 /\ Entry = Base + Len(op.index)
      BY <1>1, <2>3 DEF AppendInv
    <3>2. op.at >= Entry
      BY <1>1, <2>3 DEF IInv, OperationInv, WriteInv
    <3>3. op.index[i].at # op.at
      BY <1>2, <3>1, <3>2
    <3>4. PICK u : AfterUnit(Target, e, op.at, u)
      BY <2>3
    <3>. HIDE DEF e
    <3>5. /\ IsFile(e) /\ Size(e) \in Nat /\ Size(e) >= Size(Target)
          /\ \A a \in DOMAIN Target : a # op.at => e[a] = Target[a]
      BY <3>4 DEF AfterUnit
    <3>6. op.index[i].at \in DOMAIN e
      BY <1>2, <2>1, <3>5, FileDomain
    <3>. QED  BY <2>1, <3>3, <3>5, <3>6
  <2>. QED  BY <2>2, <2>3
<1>4. Target' = e
  BY DEF SameJob, Target
<1>. HIDE DEF e
<1>. QED
  BY <1>1, <1>3, <1>4 DEF NewRecords, SameJob

LEMMA AddGone ==
  ASSUME ~Appending', ~(Loaded' /\ op'.pc = "idle")
  PROVE  HandleWhole' /\ AddedWhole'
BY DEF HandleWhole, AddedWhole

LEMMA AddClosed ==
  ASSUME info' = Closed, op'.pc = "idle"
  PROVE  HandleWhole' /\ AddedWhole'
BY AddGone DEF Closed, Loaded, Appending, Writing

LEMMA AddMount ==
  ASSUME IInv, NEW f \in Files, MountPckFile(f), op'.pc = "idle"
  PROVE  HandleWhole' /\ AddedWhole'
<1>. DEFINE d == disk[f]
            e == disk'[f]
<1>1. CASE ~Readable(d)
  BY <1>1, AddClosed DEF MountPckFile
<1>2. CASE Readable(d)
  <2>1. IsFile(d)
    BY Typed DEF IInv
  <2>2. info' = Mounted(f, d)
    BY <1>2 DEF MountPckFile
  <2>3. Table' = IndexTable(d) /\ Mine' = e
    BY <2>2 DEF Mounted, Closed, Table, Mine
  <2>4. SameArchive(d, e)
    BY <1>2, ShapeMount DEF Shape
  <2>. HIDE DEF d, e
  <2>5. /\ DOMAIN IndexTable(d) = 1..TailOf(d).count
        /\ \A i \in 1..TailOf(d).count :
             /\ IndexTable(d)[i].name = Records(d)[i].name
             /\ IndexTable(d)[i].at = Records(d)[i].at
    BY <1>2, <2>1, IndexTableLemma
  <2>6. TableIs(Mine)'
    BY <2>3, <2>4, <2>5 DEF TableIs, SameArchive
  <2>. QED  BY <2>6 DEF HandleWhole, AddedWhole, Appending, Writing
<1>. QED
  BY <1>1, <1>2

\* Steps that only mark records of the table.
Marked(I) ==
  /\ Loaded' = Loaded /\ info'.szFilename = info.szFilename
  /\ Table' = Invalidated(I)

LEMMA MarkedTable ==
  ASSUME TypeOK, NEW I, Marked(I)
  PROVE  /\ DOMAIN Table' = DOMAIN Table
         /\ \A i \in DOMAIN Table :
              /\ Table'[i].name = Table[i].name /\ Table'[i].at = Table[i].at
              /\ Table'[i].isInvalid = (Table[i].isInvalid \/ i \in I)
BY Typed, InvalidatedLemma DEF Marked

LEMMA AddMarks ==
  ASSUME IInv, AddInv, UNCHANGED <<disk, op>>, op.pc = "idle", NEW I, Marked(I)
  PROVE  HandleWhole' /\ AddedWhole'
<1>1. TypeOK
  BY DEF IInv
<1>2. Loaded => TableIs(Mine)'
  <2>1. Mine' = Mine
    BY DEF Marked, Mine
  <2>. QED  BY <1>1, <2>1, MarkedTable DEF AddInv, HandleWhole, TableIs
<1>. QED
  BY <1>2 DEF HandleWhole, AddedWhole, Marked, Appending, Writing

LEMMA AddClash ==
  ASSUME IInv, AddInv, NEW N \in NameSets, UpdateClashes(N) \/ UpdateCannotOpen(N)
  PROVE  HandleWhole' /\ AddedWhole'
<1>1. PICK I, n : info' = [info EXCEPT !.lpPckIndexTable = Invalidated(I), !.dwFileCountToAdd = n]
  BY DEF UpdateClashes, UpdateCannotOpen
<1>2. info \in Handles
  BY DEF IInv, TypeOK
<1>3. Marked(I)
  BY <1>1, <1>2 DEF Marked, Handles, Loaded, Table
<1>4. UNCHANGED <<disk, op>> /\ op.pc = "idle"
  BY DEF UpdateClashes, UpdateCannotOpen, Begin
<1>. QED
  BY <1>3, <1>4, AddMarks

LEMMA AddBegin ==
  ASSUME IInv, AddInv, NewAlone, NEW o \in {"update", "new"}, NEW f \in Files,
         NEW N \in NameSets, UpdateStart(o, f, N)
  PROVE  HandleWhole' /\ AddedWhole'
<1>. DEFINE d == disk[f]
            e == disk'[f]
            I == FindDuplicateNodes(N)
<1>1. /\ TypeOK /\ HandleInv /\ op.pc = "idle" /\ jobs' = jobs + 1 /\ jobs \in Nat
      /\ info \in Handles /\ DiskWhole /\ HandleWhole
  BY ConstantsAssumption DEF IInv, TypeOK, UpdateStart, Begin, AddInv
<1>2. Marked(I)
  <2>1. PICK n, c : info' = [info EXCEPT !.lpPckIndexTable = Invalidated(I),
                                         !.dwFileCount = c, !.dwFileCountToAdd = n]
    BY DEF UpdateStart
  <2>. HIDE DEF I
  <2>. QED  BY <1>1, <2>1 DEF Marked, Handles, Loaded, Table
<1>. HIDE DEF I
<1>3. /\ DOMAIN Table' = DOMAIN Table
      /\ \A i \in DOMAIN Table :
           /\ Table'[i].name = Table[i].name /\ Table'[i].at = Table[i].at
           /\ Table'[i].isInvalid = (Table[i].isInvalid \/ i \in I)
  BY <1>1, <1>2, MarkedTable
<1>4. Base' = Base
  <2>1. info'.qwPckSize = info.qwPckSize /\ info'.isPckFileLoaded = info.isPckFileLoaded
    BY <1>1 DEF UpdateStart, Handles
  <2>. QED  BY <2>1 DEF Base, AppendAddress
<1>5. op'.pc = "store" /\ op'.file = f /\ op'.files = N /\ op'.index = <<>>
  BY DEF UpdateStart, Idle
<1>6. Loaded => f = info.szFilename
  BY UpdateBegins
<1>7. Shape(f) /\ IsFile(d)
  BY <1>1, ShapeBegin, Typed
<1>8. Target' = e /\ (Loaded => Mine = d /\ Mine' = e)
  BY <1>2, <1>5, <1>6 DEF Target, Mine, Marked
<1>9. Loaded => /\ Readable(d) /\ SameArchive(d, e) /\ TableIs(d) /\ Distinct(d)
                /\ Size(d) = Base
  <2>. SUFFICES ASSUME Loaded
                PROVE  /\ Readable(d) /\ SameArchive(d, e) /\ TableIs(d) /\ Distinct(d)
                       /\ Size(d) = Base
    OBVIOUS
  <2>1. Readable(d) /\ Size(d) = d[0].size /\ Base = d[0].size
    BY <1>1, <1>8 DEF HandleInv, Knows, Base, AppendAddress, Loaded
  <2>2. TableIs(d)
    BY <1>1, <1>8 DEF HandleWhole
  <2>. QED  BY <1>1, <1>7, <2>1, <2>2 DEF Shape, DiskWhole, Whole
<1>10. \A a \in DOMAIN e : e[a].kind = "data" => a \in DOMAIN d /\ e[a] = d[a]
  BY <1>1, <1>7 DEF Shape, Origin
<1>11. DataBefore(d, Size(d), jobs)
  BY <1>1 DEF DiskWhole
<1>. HIDE DEF d, e
<1>12. HandleWhole'
  BY <1>2, <1>3, <1>8, <1>9 DEF HandleWhole, TableIs, SameArchive, Marked
<1>13. NewRecords'
  <2>1. DOMAIN op'.index = {}
    BY <1>5
  <2>. QED  BY <2>1 DEF NewRecords
<1>14. OldRecords'
  <2>. SUFFICES ASSUME NEW i \in DOMAIN Table, ~Table'[i].isInvalid, Table[i].name \in N
                PROVE  FALSE
    BY <1>3, <1>5 DEF OldRecords
  <2>1. Loaded
    BY <1>1 DEF HandleInv
  <2>2. i \in NodeOf(Table[i].name)
    <3>1. \A j \in DOMAIN Table : j > i => Table[j].name # Table[i].name
      <4>. SUFFICES ASSUME NEW j \in DOMAIN Table, j > i, Table[j].name = Table[i].name
                    PROVE  FALSE
        OBVIOUS
      <4>1. i \in 1..TailOf(d).count /\ j \in 1..TailOf(d).count
            /\ Records(d)[i].name = Records(d)[j].name
        BY <1>9, <2>1 DEF TableIs
      <4>2. i = j
        BY <1>9, <2>1, <4>1 DEF Distinct
      <4>3. i \in Int
        BY <4>1
      <4>. QED  BY <4>2, <4>3
    <3>. QED  BY <3>1 DEF NodeOf, Table
  <2>3. i \in I
    BY <2>2 DEF I, FindDuplicateNodes, NodesOf
  <2>. QED  BY <1>3, <2>3
<1>15. (Loaded => DataBefore(Target, Base, jobs - 1))'
  <2>. SUFFICES ASSUME Loaded, NEW a \in DOMAIN e, a < Base, e[a].kind = "data"
                PROVE  e[a].job <= jobs
    <3>1. jobs' - 1 = jobs
      BY <1>1
    <3>. QED  BY <1>2, <1>4, <1>8, <3>1 DEF DataBefore, Marked
  <2>1. a \in DOMAIN d /\ e[a] = d[a]
    BY <1>10
  <2>. QED  BY <1>9, <1>11, <2>1 DEF DataBefore
<1>. QED
  BY <1>12, <1>13, <1>14, <1>15 DEF AddedWhole

LEMMA AddStore ==
  ASSUME IInv, AddInv, NEW n \in Names, Store(n)
  PROVE  HandleWhole' /\ AddedWhole'
<1>. DEFINE e == disk'[op.file]
            r == IndexUnit(n, op.at)
            u == DataUnit(n, jobs)
            m == Len(op.index)
<1>1. /\ TypeOK /\ HandleInv /\ OpInv /\ AppendInv /\ op.pc = "store" /\ op.pc # "idle"
      /\ op \in OperationStates
  BY DEF IInv, OperationInv, Store, TypeOK
<1>2. /\ Appending /\ op.at = Base + m /\ op.index \in Seq(IndexUnits) /\ Base \in Nat
      /\ op.at \in Nat /\ m \in Nat /\ DOMAIN op.index = 1..m /\ IsFile(Target)
  BY <1>1, Typed DEF OpInv, AppendInv
<1>3. /\ op'.pc = "store" /\ op'.kind = op.kind /\ op'.file = op.file /\ op'.files = op.files
      /\ op'.index = Append(op.index, r)
  BY <1>1 DEF Store, OperationStates
<1>4. SameJob /\ Appending'
  BY <1>2, <1>3 DEF Store, SameJob, Table, Loaded, Base, AppendAddress, Appending, Writing
<1>5. \A f \in Files : Shape(f)
  BY ShapeStore
<1>6. HandleWhole' /\ OldRecords' /\ (Loaded => DataBefore(Target, Base, jobs - 1))'
  <2>1. op.at >= Base
    BY <1>2
  <2>. QED  BY <1>2, <1>4, <1>5, <2>1, AdditionGoesOn
<1>7. AfterUnit(Target, e, op.at, u)
  <2>1. jobs \in 1..MaxJobs
    BY <1>1 DEF TypeOK
  <2>2. u \in Units
    BY <2>1, UnitTypes DEF DataUnit
  <2>. QED  BY <1>1, <2>2, AfterWrite DEF Store
<1>8. /\ n \in op.files /\ \A i \in 1..m : op.index[i].name # n
      /\ NewRecords /\ \A i \in 1..m : op.index[i].at = Base + i - 1
  BY <1>1, <1>2 DEF Store, Stored, AddInv, AddedWhole, AppendInv
<1>. HIDE DEF u
<1>9. /\ IsFile(e) /\ Size(e) \in Nat /\ Size(e) >= Size(Target) /\ Size(e) > op.at /\ e[op.at] = u
      /\ \A a \in DOMAIN Target : a # op.at => e[a] = Target[a]
  BY <1>7 DEF AfterUnit
<1>. HIDE DEF e
<1>10. DOMAIN e = 0..(Size(e) - 1) /\ DOMAIN Target = 0..(Size(Target) - 1) /\ Size(Target) \in Nat
  BY <1>2, <1>9, FileDomain
<1>11. \A i \in 1..m : op.index[i].at \in DOMAIN e /\ e[op.index[i].at] = Target[op.index[i].at]
  <2>. SUFFICES ASSUME NEW i \in 1..m
                PROVE  op.index[i].at \in DOMAIN e /\ e[op.index[i].at] = Target[op.index[i].at]
    OBVIOUS
  <2>1. op.index[i].at \in DOMAIN Target /\ op.index[i].at = Base + i - 1
    BY <1>2, <1>8 DEF NewRecords
  <2>2. op.index[i].at # op.at
    BY <1>2, <2>1
  <2>. QED  BY <1>9, <1>10, <2>1, <2>2
<1>12. op.at \in DOMAIN e
  BY <1>2, <1>9, <1>10
<1>. DEFINE s == Append(op.index, r)
<1>13. /\ DOMAIN s = 1..(m + 1)
       /\ \A i \in 1..m : s[i] = op.index[i]
       /\ s[m + 1] = r
  <2>1. r \in IndexUnits
    BY <1>2, UnitTypes
  <2>. HIDE DEF r
  <2>. QED  BY <1>2, <2>1, AppendProperties
<1>14. r.name = n /\ r.at = op.at
  BY DEF IndexUnit
<1>15. Target' = e /\ jobs' = jobs /\ op'.index = s /\ op'.files = op.files
  BY <1>3, <1>4 DEF SameJob, Target, e
<1>. HIDE DEF s, r, m
<1>16. ASSUME NEW i \in 1..(m + 1)
       PROVE  s[i].name \in op.files /\ s[i].at \in DOMAIN e /\ e[s[i].at] = DataUnit(s[i].name, jobs)
  <2>1. CASE i = m + 1
    BY <1>8, <1>9, <1>12, <1>13, <1>14, <2>1 DEF u
  <2>2. CASE i \in 1..m
    <3>1. op.index[i].name \in op.files /\ Target[op.index[i].at] = DataUnit(op.index[i].name, jobs)
      BY <1>2, <1>8, <2>2 DEF NewRecords
    <3>2. s[i] = op.index[i] /\ op.index[i].at \in DOMAIN e /\ e[op.index[i].at] = Target[op.index[i].at]
      BY <1>11, <1>13, <2>2
    <3>. QED  BY <3>1, <3>2
  <2>. QED  BY <1>2, <2>1, <2>2
<1>17. ASSUME NEW i \in 1..(m + 1), NEW j \in 1..(m + 1), s[i].name = s[j].name
       PROVE  i = j
  <2>1. CASE i \in 1..m /\ j \in 1..m
    BY <1>2, <1>8, <1>13, <1>17, <2>1 DEF NewRecords
  <2>2. CASE i = m + 1 /\ j \in 1..m
    BY <1>8, <1>13, <1>14, <1>17, <2>2
  <2>3. CASE j = m + 1 /\ i \in 1..m
    BY <1>8, <1>13, <1>14, <1>17, <2>3
  <2>4. CASE i = m + 1 /\ j = m + 1
    BY <2>4
  <2>. QED  BY <1>2, <2>1, <2>2, <2>3, <2>4
<1>18. NewRecords'
  BY <1>13, <1>15, <1>16, <1>17 DEF NewRecords
<1>. QED
  BY <1>6, <1>18 DEF AddedWhole

\* Steps between the data and the index write nothing.
LEMMA AddQuiet ==
  ASSUME IInv, AddInv, AddOnly, Stop \/ ThreadsJoined \/ WriteAllIndex
  PROVE  HandleWhole' /\ AddedWhole'
<1>1. /\ TypeOK /\ OpInv /\ AppendInv /\ ~Editing /\ op \in OperationStates /\ info \in Handles
  BY NoEdits DEF IInv, OperationInv, TypeOK, AddInv
<1>2. /\ op.pc \in {"store", "index"} /\ op'.pc \in {"store", "index", "indexUnits"}
      /\ op'.kind = op.kind /\ op'.file = op.file /\ op'.files = op.files
      /\ op'.index = op.index /\ UNCHANGED <<disk, jobs>>
  BY <1>1 DEF Stop, ThreadsJoined, WriteAllIndex, OperationStates
<1>3. /\ info'.lpPckIndexTable = info.lpPckIndexTable
      /\ info'.isPckFileLoaded = info.isPckFileLoaded
      /\ info'.szFilename = info.szFilename /\ info'.qwPckSize = info.qwPckSize
  BY <1>1 DEF Stop, ThreadsJoined, WriteAllIndex, Handles
<1>4. Appending
  BY <1>1, <1>2, WritersLemma DEF OpInv, Writing
<1>5. Appending'
  BY <1>2, <1>4 DEF Appending, Writing
<1>6. SameJob
  BY <1>2, <1>3 DEF SameJob, Table, Loaded, Base, AppendAddress
<1>7. op.pc = "store" => op.at >= Base
  <2>1. Base \in Nat /\ Len(op.index) \in Nat
    BY <1>1, Typed
  <2>. QED  BY <1>1, <1>4, <2>1 DEF AppendInv
<1>8. \A f \in Files : Shape(f)
  BY <1>1, <1>2, ShapeStill
<1>9. HandleWhole' /\ OldRecords' /\ (Loaded => DataBefore(Target, Base, jobs - 1))'
  BY <1>4, <1>5, <1>6, <1>7, <1>8, AdditionGoesOn
<1>10. NewRecords'
  BY <1>2, <1>4, <1>6, NewRecordsStay
<1>. QED
  BY <1>9, <1>10 DEF AddedWhole

\* The index, or the tail.
LEMMA AddUnit ==
  ASSUME IInv, AddInv, AddOnly, WriteIndexUnit \/ WriteTail
  PROVE  HandleWhole' /\ AddedWhole'
<1>1. /\ TypeOK /\ ~Editing /\ op \in OperationStates /\ op.pc = "indexUnits"
  BY NoEdits DEF IInv, TypeOK, AddInv, WriteIndexUnit, WriteTail
<1>2. /\ op'.pc \in {"indexUnits", "head"}
      /\ op'.kind = op.kind /\ op'.file = op.file /\ op'.files = op.files
      /\ op'.index = op.index /\ UNCHANGED <<info, jobs>>
  BY <1>1 DEF WriteIndexUnit, WriteTail, OperationStates
<1>3. Appending
  BY <1>1, WritersLemma DEF Writing
<1>4. Appending'
  BY <1>2, <1>3 DEF Appending, Writing
<1>5. SameJob
  BY <1>2 DEF SameJob, Table, Loaded, Base, AppendAddress
<1>6. \A f \in Files : Shape(f)
  BY <1>1, ShapeRecord, ShapeTail
<1>7. \E u : AfterUnit(Target, disk'[op.file], op.at, u)
  <2>1. CASE WriteIndexUnit
    <3>1. Head(op.left) \in Units
      BY <2>1, NextRecord, UnitTypes
    <3>. QED  BY <1>1, <2>1, <3>1, AfterWrite DEF WriteIndexUnit
  <2>2. CASE WriteTail
    <3>1. TailUnit(Entry, Count) \in Units
      BY <1>1, <2>2, AtTail DEF WriteTail
    <3>. QED  BY <1>1, <2>2, <3>1, AfterWrite DEF WriteTail, Entry, Count
  <2>. QED  BY <2>1, <2>2
<1>8. HandleWhole' /\ OldRecords' /\ (Loaded => DataBefore(Target, Base, jobs - 1))'
  BY <1>1, <1>3, <1>4, <1>5, <1>6, AdditionGoesOn
<1>9. NewRecords'
  BY <1>1, <1>3, <1>5, <1>2, <1>7, NewRecordsStay
<1>. QED
  BY <1>8, <1>9 DEF AddedWhole

\* The head, and what comes after it.
LEMMA AddEnd ==
  ASSUME IInv, AddInv, HeadOrTailNotWritten \/ WriteHead \/ CutFile
  PROVE  HandleWhole' /\ AddedWhole'
<1>1. op \in OperationStates
  BY DEF IInv, TypeOK
<1>2. op'.pc \in {"return", "end"}
  BY <1>1 DEF HeadOrTailNotWritten, WriteHead, CutFile, OperationStates
<1>. QED
  BY <1>2, AddGone DEF Appending, Writing

LEMMA AddReturn ==
  ASSUME IInv, AddInv, Return
  PROVE  HandleWhole' /\ AddedWhole'
<1>1. TypeOK /\ OpInv /\ op.pc = "return" /\ op.pc # "idle" /\ op'.pc = "idle"
  BY DEF IInv, OperationInv, Return, Idle
<1>2. CASE op.kind # "new"
  <2>1. op.file \in Files /\ MountPckFile(op.file)
    BY <1>1, <1>2, Typed DEF Return, Reopen
  <2>. QED  BY <1>1, <2>1, AddMount
<1>3. CASE op.kind = "new"
  <2>1. ~info.isPckFileLoaded
    BY <1>1, <1>3 DEF OpInv, Loaded
  <2>. QED  BY <1>1, <1>3, <2>1, AddClosed DEF Return
<1>. QED
  BY <1>2, <1>3

LEMMA AddStutter ==
  ASSUME AddInv, UNCHANGED vars
  PROVE  HandleWhole' /\ AddedWhole'
BY DEF AddInv, vars, HandleWhole, AddedWhole, NewRecords, OldRecords, TableIs, DataBefore,
       Table, Loaded, Mine, Target, Base, AppendAddress, Appending, Writing

LEMMA HandleWholeStep ==
  ASSUME IInv, NewAlone, AddOnly, AddInv, [Next]_vars
  PROVE  HandleWhole' /\ AddedWhole'
<1>1. CASE \E f \in Files : Open(f)
  BY <1>1, AddMount DEF Open
<1>2. CASE Close \/ Crash \/ ReadGoneVector
  BY <1>2, AddClosed DEF Close, Crash, ReadGoneVector, Idle
<1>3. CASE Update
  BY <1>3, AddClash, AddBegin, AddStore, AddQuiet DEF Update
<1>4. CASE WriteIndex
  BY <1>2, <1>4, NoEdits, AddQuiet, AddUnit, AddEnd, AddReturn DEF WriteIndex, AddInv
<1>5. CASE UNCHANGED vars
  BY <1>5, AddStutter
<1>. QED
  BY <1>1, <1>2, <1>3, <1>4, <1>5, NoEdits DEF Next, AddInv

-----------------------------------------------------------------------------
(***************************************************************************)
(* The step that writes the head.                                          *)
(***************************************************************************)
\* The record of the table that is the k-th to be written again.
Place(k) == NthOf(ValidPlaces, k)

\* The index that is written: first the records that stay, then the new ones.
LEMMA FullRecords ==
  ASSUME TypeOK
  PROVE  /\ Len(OldIndex) \in Nat /\ Len(op.index) \in Nat
         /\ DOMAIN op.index = 1..Len(op.index)
         /\ Len(Full) = Len(OldIndex) + Len(op.index)
         /\ \A k \in 1..Len(OldIndex) :
              /\ Place(k) \in DOMAIN Table /\ ~Table[Place(k)].isInvalid
              /\ Full[k].name = Table[Place(k)].name /\ Full[k].at = Table[Place(k)].at
         /\ \A k, l \in 1..Len(OldIndex) : Place(k) = Place(l) => k = l
         /\ \A i \in 1..Len(op.index) : Full[Len(OldIndex) + i] = op.index[i]
<1>1. /\ Table \in Seq(TableRecords) /\ op.index \in Seq(IndexUnits)
      /\ Len(Table) \in Nat /\ DOMAIN Table = 1..Len(Table)
  BY Typed
<1>2. /\ ValidPlaces \in SUBSET (1..Len(Table))
      /\ OldIndex \in Seq(IndexUnits)
      /\ Len(OldIndex) = Cardinality(ValidPlaces) /\ Len(OldIndex) \in Nat
      /\ \A k \in 1..Len(OldIndex) :
           /\ Place(k) \in ValidPlaces
           /\ OldIndex[k].name = Table[Place(k)].name
           /\ OldIndex[k].at = Table[Place(k)].at
  BY <1>1, OldIndexLemma DEF Place
<1>3. \A i \in ValidPlaces : i \in DOMAIN Table /\ ~Table[i].isInvalid
  BY DEF ValidPlaces, Table
<1>4. \A k \in 1..Len(OldIndex) : Rank(ValidPlaces, Place(k)) = k
  BY <1>1, <1>2, NthLemma DEF Place
<1>5. \A k, l \in 1..Len(OldIndex) : Place(k) = Place(l) => k = l
  <2>. SUFFICES ASSUME NEW k \in 1..Len(OldIndex), NEW l \in 1..Len(OldIndex), Place(k) = Place(l)
                PROVE  k = l
    OBVIOUS
  <2>1. Rank(ValidPlaces, Place(k)) = k /\ Rank(ValidPlaces, Place(l)) = l
    BY <1>4
  <2>. QED  BY <2>1
<1>6. Len(op.index) \in Nat /\ DOMAIN op.index = 1..Len(op.index)
  BY <1>1
<1>7. /\ Len(Full) = Len(OldIndex) + Len(op.index)
      /\ \A k \in 1..Len(Full) :
           Full[k] = IF k <= Len(OldIndex) THEN OldIndex[k] ELSE op.index[k - Len(OldIndex)]
  BY <1>1, <1>2, ConcatProperties DEF Full
<1>8. \A k \in 1..Len(OldIndex) : Full[k] = OldIndex[k]
  BY <1>2, <1>6, <1>7
<1>9. \A i \in 1..Len(op.index) : Full[Len(OldIndex) + i] = op.index[i]
  <2>. SUFFICES ASSUME NEW i \in 1..Len(op.index)
                PROVE  Full[Len(OldIndex) + i] = op.index[i]
    OBVIOUS
  <2>. DEFINE k == Len(OldIndex) + i
  <2>1. k \in 1..Len(Full) /\ ~(k <= Len(OldIndex)) /\ k - Len(OldIndex) = i
    BY <1>2, <1>6, <1>7
  <2>. HIDE DEF k
  <2>2. Full[k] = op.index[k - Len(OldIndex)]
    BY <1>7, <2>1
  <2>. QED  BY <2>1, <2>2 DEF k
<1>. QED
  BY <1>2, <1>3, <1>5, <1>6, <1>7, <1>8, <1>9

\* A record that stays is one of the archive that was there before; a new one has data
\* of this job.
OldRecord(r) ==
  /\ Loaded
  /\ \E i \in 1..TailOf(Target).count :
       r.name = Records(Target)[i].name /\ r.at = Records(Target)[i].at
  /\ r.name \notin op.files
NewRecord(r) == r.name \in op.files /\ r.at \in DOMAIN Target /\ Target[r.at] = DataUnit(r.name, jobs)

LEMMA FullParts ==
  ASSUME IInv, AddInv, Appending
  PROVE  /\ \A k \in 1..Len(OldIndex) : OldRecord(Full[k])
         /\ \A i \in 1..Len(op.index) : NewRecord(op.index[i]) /\ op.index[i].at # 0
         /\ Loaded => /\ Readable(Target) /\ TableIs(Target)
                      /\ Complete(Target) /\ Distinct(Target)
                      /\ Base = Target[0].size
         /\ ~Loaded => ~Readable(Target) /\ Len(OldIndex) = 0
<1>1. /\ TypeOK /\ HandleInv /\ OpInv /\ AppendInv /\ NewRecords /\ OldRecords /\ op.pc # "idle"
  BY DEF IInv, OperationInv, AddInv, AddedWhole, Appending, Writing
<1>2. op.file \in Files /\ IsFile(Target) /\ TailsAtEnd(Target) /\ Whole(Target)
  BY <1>1, Typed DEF IInv, FilesInv, FileInv, AddInv, DiskWhole, Target
<1>3. ASSUME Loaded
      PROVE  /\ Readable(Target) /\ TableIs(Target)
             /\ Complete(Target) /\ Distinct(Target) /\ Base = Target[0].size
  <2>1. Mine = Target
    BY <1>1, <1>3 DEF OpInv, Mine, Target
  <2>2. Readable(Target) /\ TableIs(Target) /\ info.qwPckSize = Target[0].size
    BY <1>1, <1>3, <2>1 DEF HandleInv, Knows, AddInv, HandleWhole
  <2>. QED  BY <1>2, <1>3, <2>2 DEF Whole, Base, AppendAddress, Loaded
<1>4. ASSUME ~Loaded
      PROVE  ~Readable(Target) /\ Len(OldIndex) = 0
  <2>1. Table = <<>> /\ Fresh(Target)
    BY <1>1, <1>4 DEF HandleInv, AppendInv
  <2>2. ~Readable(Target)
    BY <1>2, <2>1, ReadableEnds
  <2>3. Len(OldIndex) \in Nat /\ \A k \in 1..Len(OldIndex) : Place(k) \in {}
    BY <1>1, <2>1, FullRecords
  <2>4. ~(1 \in 1..Len(OldIndex))
    BY <2>3
  <2>. QED  BY <2>2, <2>3, <2>4
<1>5. ASSUME NEW k \in 1..Len(OldIndex)
      PROVE  OldRecord(Full[k])
  <2>1. Loaded
    BY <1>4
  <2>2. /\ Place(k) \in DOMAIN Table /\ ~Table[Place(k)].isInvalid
        /\ Full[k].name = Table[Place(k)].name /\ Full[k].at = Table[Place(k)].at
    BY <1>1, FullRecords
  <2>3. /\ Place(k) \in 1..TailOf(Target).count
        /\ Table[Place(k)].name = Records(Target)[Place(k)].name
        /\ Table[Place(k)].at = Records(Target)[Place(k)].at
    BY <1>3, <2>1, <2>2 DEF TableIs
  <2>4. Table[Place(k)].name \notin op.files
    BY <1>1, <2>2 DEF OldRecords
  <2>. QED  BY <2>1, <2>2, <2>3, <2>4 DEF OldRecord
<1>6. ASSUME NEW i \in 1..Len(op.index)
      PROVE  NewRecord(op.index[i]) /\ op.index[i].at # 0
  <2>1. i \in DOMAIN op.index /\ i \in Nat /\ i >= 1
    BY <1>1, FullRecords
  <2>2. op.index[i].at = Base + i - 1 /\ Base \in Nat \ {0}
    BY <1>1, <2>1, Typed DEF AppendInv
  <2>3. op.index[i].at # 0
    BY <2>1, <2>2
  <2>. QED  BY <1>1, <2>1, <2>3 DEF NewRecords, NewRecord
<1>. QED
  BY <1>3, <1>4, <1>5, <1>6

LEMMA FullDistinct ==
  ASSUME IInv, AddInv, Appending,
         NEW k \in 1..Len(Full), NEW l \in 1..Len(Full), Full[k].name = Full[l].name
  PROVE  k = l
<1>. DEFINE m == Len(OldIndex)
            n == Len(op.index)
<1>1. /\ TypeOK /\ NewRecords
  BY DEF IInv, AddInv, AddedWhole
<1>2. /\ m \in Nat /\ n \in Nat /\ DOMAIN op.index = 1..n /\ Len(Full) = m + n
      /\ \A i \in 1..n : Full[m + i] = op.index[i]
  BY <1>1, FullRecords
<1>3. \A i \in 1..m : OldRecord(Full[i])
  BY FullParts
<1>4. \A i \in 1..n : NewRecord(Full[m + i])
  BY <1>2, FullParts
<1>5. CASE k \in 1..m /\ l \in 1..m
  <2>1. OldRecord(Full[k])
    BY <1>3, <1>5
  <2>2. TableIs(Target) /\ Distinct(Target)
    BY <2>1, FullParts DEF OldRecord
  <2>3. /\ Place(k) \in DOMAIN Table /\ Full[k].name = Table[Place(k)].name
        /\ Place(l) \in DOMAIN Table /\ Full[l].name = Table[Place(l)].name
        /\ Place(k) = Place(l) => k = l
    BY <1>1, <1>5, FullRecords
  <2>4. /\ Place(k) \in 1..TailOf(Target).count /\ Place(l) \in 1..TailOf(Target).count
        /\ Records(Target)[Place(k)].name = Records(Target)[Place(l)].name
    BY <2>2, <2>3 DEF TableIs
  <2>. QED  BY <2>2, <2>3, <2>4 DEF Distinct
<1>. HIDE DEF m, n
<1>6. \A i \in 1..(m + n) : i \in 1..m \/ \E j \in 1..n : i = m + j
  <2>. SUFFICES ASSUME NEW i \in 1..(m + n), ~(i \in 1..m)  PROVE  \E j \in 1..n : i = m + j
    OBVIOUS
  <2>1. i - m \in 1..n /\ i = m + (i - m)
    BY <1>2
  <2>. QED  BY <2>1
<1>7. ASSUME NEW i \in 1..m, NEW j \in 1..n, Full[i].name = Full[m + j].name
      PROVE  FALSE
  <2>1. OldRecord(Full[i]) /\ NewRecord(Full[m + j])
    BY <1>3, <1>4
  <2>2. Full[i].name \notin op.files /\ Full[m + j].name \in op.files
    BY <2>1 DEF OldRecord, NewRecord
  <2>. QED  BY <1>7, <2>2
<1>8. ASSUME NEW i \in 1..n, NEW j \in 1..n, Full[m + i].name = Full[m + j].name
      PROVE  i = j
  <2>1. op.index[i].name = op.index[j].name /\ i \in DOMAIN op.index /\ j \in DOMAIN op.index
    BY <1>2, <1>8
  <2>2. \A a, b \in DOMAIN op.index : op.index[a].name = op.index[b].name => a = b
    BY <1>1 DEF NewRecords
  <2>. QED  BY <2>1, <2>2
<1>9. k \in 1..(m + n) /\ l \in 1..(m + n)
  BY <1>2
<1>10. CASE k \in 1..m /\ ~(l \in 1..m)
  <2>1. PICK j \in 1..n : l = m + j
    BY <1>6, <1>9, <1>10
  <2>2. Full[k].name = Full[m + j].name
    BY <2>1
  <2>. QED  BY <1>7, <1>10, <2>2
<1>11. CASE l \in 1..m /\ ~(k \in 1..m)
  <2>1. PICK j \in 1..n : k = m + j
    BY <1>6, <1>9, <1>11
  <2>2. Full[l].name = Full[m + j].name
    BY <2>1
  <2>. QED  BY <1>7, <1>11, <2>2
<1>12. CASE ~(k \in 1..m) /\ ~(l \in 1..m)
  <2>1. PICK i \in 1..n : k = m + i
    BY <1>6, <1>9, <1>12
  <2>2. PICK j \in 1..n : l = m + j
    BY <1>6, <1>9, <1>12
  <2>3. Full[m + i].name = Full[m + j].name
    BY <2>1, <2>2
  <2>4. i = j
    BY <1>8, <2>3
  <2>. QED  BY <2>1, <2>2, <2>4
<1>. QED
  BY <1>5, <1>10, <1>11, <1>12 DEF m

\* What a reader finds of a record in the file that is written.
Found(r) == [name |-> r.name, job |-> Target[r.at].job]

\* Every record of the index that is written has its data, behind the head; what a
\* reader finds of the old ones was there before, what he finds of the new ones is
\* of this job.
LEMMA FoundLemma ==
  ASSUME IInv, AddInv, Appending
  PROVE  /\ \A k \in 1..Len(Full) : DataAt(Target, Full[k]) /\ Full[k].at # 0
         /\ \A k \in 1..Len(OldIndex) :
              Found(Full[k]) \in Contents(Target) /\ Full[k].name \notin op.files
         /\ \A i \in 1..Len(op.index) : Found(op.index[i]).job = jobs
<1>1. TypeOK
  BY DEF IInv
<1>2. op.file \in Files /\ IsFile(Target)
  BY <1>1, Typed DEF Appending, Writing
<1>3. ASSUME NEW k \in 1..Len(OldIndex)
      PROVE  /\ DataAt(Target, Full[k]) /\ Full[k].at # 0
             /\ Found(Full[k]) \in Contents(Target) /\ Full[k].name \notin op.files
  <2>1. OldRecord(Full[k])
    BY FullParts
  <2>2. Readable(Target) /\ Complete(Target) /\ Distinct(Target)
    BY <2>1, FullParts DEF OldRecord
  <2>3. PICK i \in 1..TailOf(Target).count :
          Full[k].name = Records(Target)[i].name /\ Full[k].at = Records(Target)[i].at
    BY <2>1 DEF OldRecord
  <2>4. DataAt(Target, Records(Target)[i])
    BY <2>2 DEF Complete
  <2>5. DataAt(Target, Full[k])
    BY <2>3, <2>4 DEF DataAt
  <2>6. Full[k].at # 0
    <3>1. Target[0].kind = "head"
      BY <1>2, <2>2, ReadableLemma
    <3>. QED  BY <2>5, <3>1 DEF DataAt
  <2>7. Found(Full[k]) \in Entries(Target)
    BY <2>3 DEF Found, Entries
  <2>8. Contents(Target) = Entries(Target)
    BY <1>2, <2>2, ContentsAre
  <2>. QED  BY <2>1, <2>5, <2>6, <2>7, <2>8 DEF OldRecord
<1>4. ASSUME NEW i \in 1..Len(op.index)
      PROVE  DataAt(Target, op.index[i]) /\ op.index[i].at # 0 /\ Found(op.index[i]).job = jobs
  <2>1. NewRecord(op.index[i]) /\ op.index[i].at # 0
    BY FullParts
  <2>. QED  BY <2>1 DEF NewRecord, DataAt, DataUnit, Found
<1>5. ASSUME NEW k \in 1..Len(Full)
      PROVE  DataAt(Target, Full[k]) /\ Full[k].at # 0
  <2>1. /\ Len(OldIndex) \in Nat /\ Len(op.index) \in Nat
        /\ Len(Full) = Len(OldIndex) + Len(op.index)
        /\ \A i \in 1..Len(op.index) : Full[Len(OldIndex) + i] = op.index[i]
    BY <1>1, FullRecords
  <2>2. CASE k \in 1..Len(OldIndex)
    BY <1>3, <2>2
  <2>3. CASE ~(k \in 1..Len(OldIndex))
    <3>1. PICK i \in 1..Len(op.index) : k = Len(OldIndex) + i
      <4>1. k - Len(OldIndex) \in 1..Len(op.index) /\ k = Len(OldIndex) + (k - Len(OldIndex))
        BY <2>1, <2>3
      <4>. QED  BY <4>1
    <3>2. Full[k] = op.index[i]
      BY <2>1, <3>1
    <3>. QED  BY <1>4, <3>2
  <2>. QED  BY <2>2, <2>3
<1>. QED
  BY <1>3, <1>4, <1>5

\* The entries that were there before are of earlier jobs.
LEMMA EarlierJobs ==
  ASSUME IInv, AddInv, Appending
  PROVE  /\ jobs \in 1..MaxJobs
         /\ \A c \in Contents(Target) : c.job < jobs
<1>1. TypeOK /\ op.pc # "idle"
  BY DEF IInv, Appending, Writing
<1>2. op.file \in Files /\ IsFile(Target) /\ FileInv(Target)
  BY <1>1, Typed DEF IInv, FilesInv, Target
<1>3. jobs \in 1..MaxJobs
  BY <1>1, ConstantsAssumption DEF TypeOK
<1>4. ASSUME NEW c \in Contents(Target)
      PROVE  c.job < jobs
  <2>1. Loaded
    BY FullParts DEF Contents
  <2>2. /\ Readable(Target) /\ Complete(Target) /\ Distinct(Target)
        /\ Base = Target[0].size
    BY <2>1, FullParts
  <2>3. PICK i \in 1..TailOf(Target).count :
          c = [name |-> Records(Target)[i].name, job |-> Target[Records(Target)[i].at].job]
    BY <1>2, <2>2, ContentsAre DEF Entries
  <2>. DEFINE a == Records(Target)[i].at
  <2>4. a \in DOMAIN Target /\ Target[a].kind = "data"
    BY <2>2 DEF Complete, DataAt
  <2>5. a < Base
    <3>1. /\ TailOf(Target).entry + TailOf(Target).count = Target[0].size - 1 /\ a \in Nat
      BY <1>2, <2>2, ReadableEnds DEF FileInv
    <3>2. /\ TailOf(Target).entry \in Nat /\ TailOf(Target).count \in Nat
          /\ Target[0].size \in Nat
      BY <1>2, <2>2, ReadableLemma
    <3>3. a < TailOf(Target).entry
      BY <1>2, <2>2 DEF FileInv, ListBelow
    <3>. QED  BY <2>2, <3>1, <3>2, <3>3
  <2>6. Target[a].job <= jobs - 1
    BY <2>1, <2>4, <2>5 DEF AddInv, AddedWhole, DataBefore
  <2>7. Target[a].job \in Nat
    <3>1. Target[a] \in Units
      BY <1>2, <2>4, FileDomain
    <3>2. Target[a].job \in 1..MaxJobs
      BY <2>4, <3>1, UnitKinds
    <3>. QED  BY <3>2
  <2>8. c.job = Target[a].job
    BY <2>3
  <2>. QED  BY <1>3, <2>6, <2>7, <2>8
<1>. QED
  BY <1>3, <1>4

\* The archive after the head has been written.
LEMMA HeadContents ==
  ASSUME IInv, AddInv, op.pc = "head", Appending,
         NEW e, e = Write2(Target, 0, HeadUnit(op.at))
  PROVE  /\ Readable(e) /\ Complete(e) /\ Distinct(e)
         /\ \A a \in DOMAIN e : e[a].kind = "data" => a \in DOMAIN Target /\ e[a] = Target[a]
         /\ Contents(e) = {Found(Full[k]) : k \in 1..Len(Full)}
<1>1. TypeOK /\ ~op.indexLost
  BY DEF IInv, AddInv, OnlyAdds
<1>2. op.file \in Files /\ IsFile(Target)
  BY <1>1, Typed
<1>3. /\ IsFile(e) /\ e[0] = HeadUnit(op.at) /\ Size(e) = Size(Target)
      /\ \A a \in DOMAIN Target : a # 0 => e[a] = Target[a]
      /\ TailOf(e) = TailUnit(Entry, Count)
  BY HeadFile
<1>4. Readable(e) /\ Count = Len(Full) /\ \A k \in 1..Count : Records(e)[k] = Full[k]
  BY <1>1, HeadReadable
<1>5. DOMAIN e = DOMAIN Target
  BY <1>2, <1>3, FileDomain
<1>6. TailOf(e).count = Len(Full)
  BY <1>3, <1>4 DEF TailUnit
<1>7. \A k \in 1..Len(Full) : Records(e)[k] = Full[k]
  BY <1>4
<1>8. \A k \in 1..Len(Full) : DataAt(Target, Full[k]) /\ Full[k].at # 0
  BY FoundLemma
<1>9. \A k \in 1..Len(Full) : Full[k].at \in DOMAIN Target /\ e[Full[k].at] = Target[Full[k].at]
  BY <1>3, <1>8 DEF DataAt
<1>10. Complete(e)
  <2>1. \A k \in 1..Len(Full) : DataAt(e, Full[k])
    BY <1>5, <1>8, <1>9 DEF DataAt
  <2>. QED  BY <1>6, <1>7, <2>1 DEF Complete
<1>11. Distinct(e)
  BY <1>6, <1>7, FullDistinct DEF Distinct
<1>12. Contents(e) = Entries(e)
  BY <1>3, <1>4, <1>10, <1>11, ContentsAre
<1>13. Entries(e) = {Found(Full[k]) : k \in 1..Len(Full)}
  <2>1. Entries(e) = {[name |-> Records(e)[k].name, job |-> e[Records(e)[k].at].job] : k \in 1..Len(Full)}
    BY <1>6 DEF Entries
  <2>2. \A k \in 1..Len(Full) :
          [name |-> Records(e)[k].name, job |-> e[Records(e)[k].at].job] = Found(Full[k])
    BY <1>7, <1>9 DEF Found
  <2>. DEFINE F(k) == [name |-> Records(e)[k].name, job |-> e[Records(e)[k].at].job]
              G(k) == Found(Full[k])
  <2>3. \A k \in 1..Len(Full) : F(k) = G(k)
    BY <2>2
  <2>4. Entries(e) = {F(k) : k \in 1..Len(Full)}
    BY <2>1
  <2>. HIDE DEF F, G
  <2>5. Entries(e) = {G(k) : k \in 1..Len(Full)}
    BY <2>3, <2>4
  <2>. QED  BY <2>5 DEF G
<1>14. \A a \in DOMAIN e : e[a].kind = "data" => a \in DOMAIN Target /\ e[a] = Target[a]
  BY <1>3, <1>5 DEF HeadUnit
<1>. QED
  BY <1>4, <1>10, <1>11, <1>12, <1>13, <1>14

\* The step of the abstract specification: this job leaves out entries and puts in those
\* it has stored.
Replaced(d, e) ==
  /\ \A c \in d : c.job < jobs
  /\ \E left \in SUBSET {c \in d : c.name \notin Stored} :
       e = left \cup [name : Stored, job : {jobs}]

LEMMA HeadReplaces ==
  ASSUME IInv, AddInv, op.pc = "head", Appending,
         NEW e, e = Write2(Target, 0, HeadUnit(op.at))
  PROVE  Stored \in SUBSET Names /\ Replaced(Contents(Target), Contents(e))
<1>1. TypeOK /\ NewRecords
  BY DEF IInv, AddInv, AddedWhole
<1>. DEFINE m == Len(OldIndex)
            n == Len(op.index)
            left == {Found(Full[k]) : k \in 1..m}
            new == {Found(op.index[i]) : i \in 1..n}
<1>2. /\ m \in Nat /\ n \in Nat /\ DOMAIN op.index = 1..n /\ Len(Full) = m + n
      /\ \A i \in 1..n : Full[m + i] = op.index[i]
  BY <1>1, FullRecords
<1>3. /\ \A k \in 1..m : Found(Full[k]) \in Contents(Target) /\ Full[k].name \notin op.files
      /\ \A i \in 1..n : Found(op.index[i]).job = jobs
  BY FoundLemma
<1>4. Stored \subseteq op.files /\ Stored = {op.index[i].name : i \in 1..n}
  BY <1>1, <1>2 DEF Stored, NewRecords
<1>5. Stored \in SUBSET Names
  <2>1. op.files \subseteq Names
    BY <1>1 DEF TypeOK, OperationStates
  <2>. QED  BY <1>4, <2>1
<1>6. left \in SUBSET {c \in Contents(Target) : c.name \notin Stored}
  <2>. SUFFICES ASSUME NEW k \in 1..m
                PROVE  Found(Full[k]) \in Contents(Target) /\ Found(Full[k]).name \notin Stored
    OBVIOUS
  <2>1. Found(Full[k]).name = Full[k].name
    BY DEF Found
  <2>. QED  BY <1>3, <1>4, <2>1
<1>7. new = [name : Stored, job : {jobs}]
  <2>1. \A i \in 1..n : Found(op.index[i]) = [name |-> op.index[i].name, job |-> jobs]
    BY <1>3 DEF Found
  <2>. HIDE DEF n
  <2>2. new = {[name |-> op.index[i].name, job |-> jobs] : i \in 1..n}
    BY <2>1
  <2>. HIDE DEF new
  <2>3. ASSUME NEW r \in [name : Stored, job : {jobs}]
        PROVE  r \in new
    <3>1. r = [name |-> r.name, job |-> jobs] /\ r.name \in Stored
      OBVIOUS
    <3>2. PICK i \in 1..n : r.name = op.index[i].name
      BY <1>4, <3>1
    <3>. QED  BY <2>2, <3>1, <3>2
  <2>4. ASSUME NEW r \in new
        PROVE  r \in [name : Stored, job : {jobs}]
    BY <1>4, <2>2
  <2>. QED  BY <2>3, <2>4
<1>8. {Found(Full[k]) : k \in 1..Len(Full)} = left \cup new
  <2>1. \A i \in 1..n : m + i \in 1..(m + n) /\ Found(Full[m + i]) = Found(op.index[i])
    BY <1>2
  <2>2. \A k \in 1..(m + n) : k \in 1..m \/ \E i \in 1..n : k = m + i
    <3>. SUFFICES ASSUME NEW k \in 1..(m + n), ~(k \in 1..m)  PROVE  \E i \in 1..n : k = m + i
      OBVIOUS
    <3>. HIDE DEF m, n
    <3>1. k - m \in 1..n /\ k = m + (k - m)
      BY <1>2
    <3>. QED  BY <3>1
  <2>3. \A k \in 1..m : k \in 1..(m + n)
    BY <1>2
  <2>. DEFINE all == {Found(Full[k]) : k \in 1..(m + n)}
  <2>4. Len(Full) = m + n
    BY <1>2
  <2>. HIDE DEF m, n
  <2>5. all \subseteq left \cup new
    <3>. SUFFICES ASSUME NEW k \in 1..(m + n)  PROVE  Found(Full[k]) \in left \cup new
      OBVIOUS
    <3>1. CASE k \in 1..m
      BY <3>1
    <3>2. CASE ~(k \in 1..m)
      <4>1. PICK i \in 1..n : k = m + i
        BY <2>2, <3>2
      <4>2. Found(Full[k]) = Found(op.index[i])
        BY <2>1, <4>1
      <4>. QED  BY <4>2
    <3>. QED  BY <3>1, <3>2
  <2>6. left \subseteq all
    BY <2>3
  <2>7. new \subseteq all
    <3>. SUFFICES ASSUME NEW i \in 1..n  PROVE  Found(op.index[i]) \in all
      OBVIOUS
    <3>. QED  BY <2>1
  <2>. QED  BY <2>4, <2>5, <2>6, <2>7
<1>9. \A c \in Contents(Target) : c.job < jobs
  BY EarlierJobs
<1>10. Contents(e) = left \cup [name : Stored, job : {jobs}]
  BY <1>7, <1>8, HeadContents
<1>. HIDE DEF left
<1>. QED
  BY <1>5, <1>6, <1>9, <1>10 DEF Replaced

LEMMA HeadStep ==
  ASSUME IInv, AddInv, AddOnly, WriteHead
  PROVE  /\ DiskWhole'
         /\ op.file \in Files /\ jobs \in 1..MaxJobs /\ Stored \in SUBSET Names
         /\ Replaced(Contents(disk[op.file]), Contents(disk'[op.file]))
         /\ \A f \in Files \ {op.file} : Contents(disk'[f]) = Contents(disk[f])
<1>. DEFINE e == disk'[op.file]
<1>1. TypeOK /\ op.pc = "head" /\ ~Editing /\ DiskWhole /\ jobs' = jobs
  BY NoEdits DEF IInv, WriteHead, AddInv
<1>2. Appending
  BY <1>1, WritersLemma DEF Writing
<1>3. op.file \in Files /\ IsFile(Target) /\ DOMAIN disk = Files
  BY <1>1, Typed
<1>4. e = Write2(Target, 0, HeadUnit(op.at)) /\ \A f \in Files \ {op.file} : disk'[f] = disk[f]
  BY <1>3 DEF WriteHead, Target
<1>5. Stored \in SUBSET Names /\ Replaced(Contents(Target), Contents(e))
  BY <1>1, <1>2, <1>4, HeadReplaces
<1>6. /\ Complete(e) /\ Distinct(e)
      /\ \A a \in DOMAIN e : e[a].kind = "data" => a \in DOMAIN Target /\ e[a] = Target[a]
  BY <1>1, <1>2, <1>4, HeadContents
<1>7. DataBefore(e, Size(e), jobs)
  <2>1. DataBefore(Target, Size(Target), jobs)
    BY <1>1, <1>3 DEF DiskWhole, Target
  <2>2. \A a \in DOMAIN Target : a < Size(Target)
    BY <1>3, FileDomain
  <2>. HIDE DEF e
  <2>. QED  BY <1>6, <2>1, <2>2 DEF DataBefore
<1>8. DiskWhole'
  <2>. SUFFICES ASSUME NEW f \in Files
                PROVE  Whole(disk'[f]) /\ DataBefore(disk'[f], Size(disk'[f]), jobs)
    BY <1>1 DEF DiskWhole
  <2>1. CASE f = op.file
    BY <1>6, <1>7, <2>1 DEF Whole
  <2>2. CASE f # op.file
    BY <1>1, <1>4, <2>2 DEF DiskWhole
  <2>. QED  BY <2>1, <2>2
<1>9. jobs \in 1..MaxJobs
  BY <1>2, EarlierJobs
<1>. QED
  BY <1>3, <1>4, <1>5, <1>8, <1>9 DEF Target

-----------------------------------------------------------------------------
(***************************************************************************)
(* The theorems.                                                           *)
(***************************************************************************)
LEMMA AddInvStep ==
  ASSUME IInv, TypeOK', NewAlone, AddOnly, AddInv, [Next]_vars
  PROVE  AddInv'
<1>1. OnlyAdds'
  BY KindStep DEF IInv, AddInv
<1>2. DiskWhole'
  BY DiskWholeStep, HeadStep
<1>3. HandleWhole' /\ AddedWhole'
  BY HandleWholeStep
<1>. QED
  BY <1>1, <1>2, <1>3 DEF AddInv

LEMMA AddInvInit ==
  ASSUME Init
  PROVE  AddInv /\ \A f \in Files : ~Readable(disk[f])
<1>1. \A f \in Files : DOMAIN disk[f] = {}
  BY DEF Init
<1>2. \A f \in Files : ~Readable(disk[f])
  BY <1>1 DEF Readable, Detected
<1>3. \A f \in Files : DataBefore(disk[f], Size(disk[f]), jobs)
  BY <1>1 DEF DataBefore
<1>4. DiskWhole
  BY <1>2, <1>3 DEF DiskWhole, Whole
<1>5. OnlyAdds /\ op.pc = "idle" /\ ~Loaded
  BY DEF Init, Idle, Closed, OnlyAdds, Loaded
<1>. QED
  BY <1>2, <1>4, <1>5 DEF AddInv, HandleWhole, AddedWhole, Appending, Writing

\* Where files are only added: every record of a readable file has its data and a name
\* of its own, and so will the index that an operation is about to write.
THEOREM AdditionInvariant == NewAlone /\ AddOnly => (Spec => []AddInv)
<1>1. NewAlone /\ AddOnly => [](NewAlone /\ AddOnly)
  OBVIOUS
<1>2. Init => AddInv
  BY AddInvInit
<1>3. IInv /\ IInv' /\ NewAlone /\ AddOnly /\ AddInv /\ [Next]_vars => AddInv'
  BY AddInvStep DEF IInv
<1>. QED
  BY <1>1, <1>2, <1>3, LayoutInvariant, PTL DEF Spec

\* The data of every entry is where its record says, whatever crashes or fails between
\* two writes of an addition.
THEOREM EveryEntryHasData == NewAlone /\ AddOnly => (Spec => []DataIsThere)
<1>1. IInv /\ AddInv => DataIsThere
  <2>. SUFFICES ASSUME IInv, AddInv, NEW f \in Files, NEW c \in Contents(disk[f])
                PROVE  c.job # 0
    BY DEF DataIsThere
  <2>. DEFINE d == disk[f]
  <2>1. IsFile(d)
    BY Typed DEF IInv
  <2>2. Readable(d) /\ Complete(d) /\ Distinct(d)
    BY DEF Contents, AddInv, DiskWhole, Whole
  <2>3. PICK i \in 1..TailOf(d).count :
          c = [name |-> Records(d)[i].name, job |-> d[Records(d)[i].at].job]
    BY <2>1, <2>2, ContentsAre DEF Entries
  <2>. DEFINE u == d[Records(d)[i].at]
  <2>4. u \in Units /\ u.kind = "data"
    BY <2>1, <2>2, FileDomain DEF Complete, DataAt
  <2>5. u.job \in 1..MaxJobs
    <3>. HIDE DEF u
    <3>. QED  BY <2>4, UnitKinds
  <2>6. c.job = u.job
    BY <2>3
  <2>. HIDE DEF u
  <2>. QED  BY <2>5, <2>6
<1>. QED
  BY <1>1, LayoutInvariant, AdditionInvariant, PTL

\* No archive lists a name twice.
THEOREM NoNameTwice == NewAlone /\ AddOnly => (Spec => []NoDuplicates)
<1>1. IInv /\ AddInv => NoDuplicates
  <2>1. IInv => \A f \in Files : IsFile(disk[f])
    BY Typed DEF IInv
  <2>. QED
    BY <2>1, ContentsAre DEF AddInv, DiskWhole, Whole, NoDuplicates
<1>. QED
  BY <1>1, LayoutInvariant, AdditionInvariant, PTL

LEMMA StepIsAtomic ==
  ASSUME IInv, TypeOK', NewAlone, AddOnly, AddInv, [Next]_vars
  PROVE  [Atomic!Next]_([f \in Files |-> Contents(disk[f])])
<1>. DEFINE contents == [f \in Files |-> Contents(disk[f])]
<1>1. CASE WriteHead
  <2>1. /\ op.file \in Files /\ jobs \in 1..MaxJobs /\ Stored \in SUBSET Names
        /\ Replaced(Contents(disk[op.file]), Contents(disk'[op.file]))
        /\ \A f \in Files \ {op.file} : Contents(disk'[f]) = Contents(disk[f])
    BY <1>1, HeadStep
  <2>2. PICK left \in SUBSET {c \in Contents(disk[op.file]) : c.name \notin Stored} :
          Contents(disk'[op.file]) = left \cup [name : Stored, job : {jobs}]
    BY <2>1 DEF Replaced
  <2>3. contents' = [contents EXCEPT ![op.file] = left \cup [name : Stored, job : {jobs}]]
    BY <2>1, <2>2
  <2>4. \A c \in contents[op.file] : c.job < jobs
    BY <2>1 DEF Replaced
  <2>5. left \in SUBSET {c \in contents[op.file] : c.name \notin Stored}
    BY <2>1, <2>2
  <2>6. Atomic!Replace(op.file, jobs, Stored)
    BY <2>3, <2>4, <2>5 DEF Atomic!Replace
  <2>. QED  BY <2>1, <2>6 DEF Atomic!Next
<1>2. CASE ~WriteHead
  <2>1. \A f \in Files : Contents(disk'[f]) = Contents(disk[f])
    BY <1>2, DiskWholeStep
  <2>2. contents' = contents
    BY <2>1
  <2>. QED  BY <2>2
<1>. QED
  BY <1>1, <1>2

\* Adding files is atomic, whatever crashes, is cancelled or fails to be written: who
\* opens a file finds what was there before or what is there after, never part of it.
THEOREM AdditionsAreAtomic == NewAlone /\ AddOnly => (Spec => AddingIsAtomic)
<1>1. Init => Atomic!Init
  <2>. SUFFICES ASSUME Init  PROVE  Atomic!Init
    OBVIOUS
  <2>1. \A f \in Files : Contents(disk[f]) = {}
    BY AddInvInit, NoContents
  <2>. QED  BY <2>1 DEF Atomic!Init
<1>2. NewAlone /\ AddOnly => [](NewAlone /\ AddOnly)
  OBVIOUS
<1>3. IInv /\ IInv' /\ NewAlone /\ AddOnly /\ AddInv /\ [Next]_vars
        => [Atomic!Next]_([f \in Files |-> Contents(disk[f])])
  BY StepIsAtomic DEF IInv
<1>. QED
  BY <1>1, <1>2, <1>3, LayoutInvariant, AdditionInvariant, PTL
     DEF Spec, AddingIsAtomic, Atomic!Spec

-----------------------------------------------------------------------------
(***************************************************************************)
(* No entry is lost where every addition that marks one as replaced also   *)
(* stores it again.                                                        *)
(***************************************************************************)
\* Additions are not cancelled, and not given up after duplicates have been marked: the
\* marks of those stay, and the next operation takes them for entries to leave out.
AllStored == ~UserMayCancel /\ "open" \notin MayFail /\ Folders = {}

Unmarked == \A i \in DOMAIN Table : ~Table[i].isInvalid
ReplacedOnly == \A i \in DOMAIN Table : Table[i].isInvalid => Table[i].name \in op.files
KeepInv ==
  /\ op.stopped = FALSE
  /\ Loaded /\ op.pc = "idle" => Unmarked
  /\ Appending /\ Loaded => ReplacedOnly
  /\ Appending /\ op.pc # "store" => Stored = op.files

LEMMA KeepClosed ==
  ASSUME ~Loaded', op' = Idle
  PROVE  KeepInv'
BY DEF KeepInv, Appending, Writing, Idle

\* A mount marks what is shadowed, and in a file that is whole nothing is.
LEMMA KeepMount ==
  ASSUME IInv, AddInv, NEW f \in Files, MountPckFile(f), op'.pc = "idle", op'.stopped = FALSE
  PROVE  KeepInv'
<1>. DEFINE d == disk[f]
<1>1. CASE ~Readable(d)
  <2>1. ~Loaded'
    BY <1>1 DEF MountPckFile, Closed, Loaded
  <2>. QED  BY <2>1 DEF KeepInv, Appending, Writing
<1>2. CASE Readable(d)
  <2>1. IsFile(d) /\ Complete(d) /\ Distinct(d)
    BY <1>2, Typed DEF IInv, AddInv, DiskWhole, Whole
  <2>2. Table' = IndexTable(d)
    BY <1>2 DEF MountPckFile, Mounted, Closed, Table
  <2>. HIDE DEF d
  <2>3. /\ DOMAIN IndexTable(d) = 1..TailOf(d).count
        /\ \A i \in 1..TailOf(d).count : IndexTable(d)[i].isInvalid = Shadowed(Records(d), i)
    BY <1>2, <2>1, IndexTableLemma
  <2>4. DOMAIN Records(d) = 1..TailOf(d).count
    BY <1>2, <2>1, ReadableLemma
  <2>5. \A i \in 1..TailOf(d).count : ~Shadowed(Records(d), i)
    BY <1>2, <2>1, <2>4, ContentsAre
  <2>6. Unmarked'
    BY <2>2, <2>3, <2>5 DEF Unmarked
  <2>. QED  BY <2>6 DEF KeepInv, Appending, Writing
<1>. QED
  BY <1>1, <1>2

LEMMA KeepBegin ==
  ASSUME IInv, KeepInv, NEW o \in {"update", "new"}, NEW f \in Files,
         NEW N \in NameSets, UpdateStart(o, f, N)
  PROVE  KeepInv'
<1>. DEFINE I == FindDuplicateNodes(N)
<1>1. TypeOK /\ op.pc = "idle" /\ info \in Handles
  BY DEF IInv, TypeOK, UpdateStart, Begin
<1>2. Marked(I)
  <2>1. PICK n, c : info' = [info EXCEPT !.lpPckIndexTable = Invalidated(I),
                                         !.dwFileCount = c, !.dwFileCountToAdd = n]
    BY DEF UpdateStart
  <2>. HIDE DEF I
  <2>. QED  BY <1>1, <2>1 DEF Marked, Handles, Loaded, Table
<1>3. \A i \in I : Table[i].name \in N
  BY DEF I, FindDuplicateNodes, NodesOf, NodeOf, Table
<1>. HIDE DEF I
<1>4. op'.pc = "store" /\ op'.files = N /\ op'.stopped = FALSE
  BY DEF UpdateStart, Idle
<1>5. /\ DOMAIN Table' = DOMAIN Table
      /\ \A i \in DOMAIN Table :
           /\ Table'[i].name = Table[i].name
           /\ Table'[i].isInvalid = (Table[i].isInvalid \/ i \in I)
  BY <1>1, <1>2, MarkedTable
<1>6. Loaded' => ReplacedOnly'
  BY <1>1, <1>2, <1>3, <1>4, <1>5 DEF KeepInv, Unmarked, ReplacedOnly, Marked
<1>. QED
  BY <1>4, <1>6 DEF KeepInv

\* Steps that leave the table alone.
LEMMA KeepQuiet ==
  ASSUME KeepInv, Appending, Table' = Table, Loaded' = Loaded, op'.files = op.files,
         op'.stopped = FALSE, op'.pc # "idle", op'.pc \notin {"store"} => Stored' = op.files
  PROVE  KeepInv'
BY DEF KeepInv, ReplacedOnly

LEMMA KeepPipeline ==
  ASSUME IInv, AddInv, AllStored, KeepInv,
         Stop \/ ThreadsJoined \/ \E n \in Names : Store(n)
  PROVE  KeepInv'
<1>1. /\ TypeOK /\ op \in OperationStates /\ info \in Handles /\ OpInv /\ op.pc = "store"
  BY DEF IInv, OperationInv, TypeOK, Stop, ThreadsJoined, Store
<1>2. Appending
  BY <1>1 DEF OpInv, Appending, Writing
<1>3. ~Stop
  BY DEF AllStored, Stop
<1>4. CASE ThreadsJoined
  <2>1. Stored = op.files
    BY <1>4 DEF ThreadsJoined, KeepInv
  <2>2. op'.pc = "index" /\ op'.files = op.files /\ op'.index = op.index /\ op'.stopped = op.stopped
    BY <1>1, <1>4 DEF ThreadsJoined, OperationStates
  <2>3. Table' = Table /\ Loaded' = Loaded
    BY <1>1, <1>4 DEF ThreadsJoined, Handles, Table, Loaded
  <2>4. Stored' = op.files
    BY <2>1, <2>2 DEF Stored
  <2>. QED  BY <1>2, <2>2, <2>3, <2>4, KeepQuiet DEF KeepInv
<1>5. ASSUME NEW n \in Names, Store(n)
      PROVE  KeepInv'
  <2>1. op'.pc = "store" /\ op'.files = op.files /\ op'.stopped = op.stopped /\ info' = info
    BY <1>1, <1>5 DEF Store, OperationStates
  <2>2. Table' = Table /\ Loaded' = Loaded
    BY <2>1 DEF Table, Loaded
  <2>. QED  BY <1>2, <2>1, <2>2, KeepQuiet DEF KeepInv
<1>. QED
  BY <1>3, <1>4, <1>5

LEMMA KeepWrite ==
  ASSUME IInv, AddInv, AddOnly, KeepInv, WriteAllIndex \/ WriteIndexUnit \/ WriteTail
  PROVE  KeepInv'
<1>1. /\ op \in OperationStates /\ info \in Handles /\ ~Editing /\ TypeOK
      /\ op.pc \in {"index", "indexUnits"}
  BY NoEdits DEF IInv, TypeOK, AddInv, WriteAllIndex, WriteIndexUnit, WriteTail
<1>2. Appending /\ op.pc # "store"
  BY <1>1, WritersLemma DEF Writing
<1>3. /\ op'.pc \in {"indexUnits", "head"} /\ op'.files = op.files /\ op'.index = op.index
      /\ op'.stopped = op.stopped
  BY <1>1 DEF WriteAllIndex, WriteIndexUnit, WriteTail, OperationStates
<1>4. Table' = Table /\ Loaded' = Loaded
  BY <1>1 DEF WriteAllIndex, WriteIndexUnit, WriteTail, Handles, Table, Loaded
<1>5. Stored' = op.files
  BY <1>2, <1>3 DEF Stored, KeepInv
<1>. QED
  BY <1>2, <1>3, <1>4, <1>5, KeepQuiet DEF KeepInv

LEMMA KeepEnd ==
  ASSUME IInv, AddInv, KeepInv, HeadOrTailNotWritten \/ WriteHead \/ CutFile \/ Return
  PROVE  KeepInv'
<1>1. TypeOK /\ OpInv /\ op \in OperationStates
  BY DEF IInv, TypeOK, OperationInv
<1>2. CASE HeadOrTailNotWritten \/ WriteHead \/ CutFile
  <2>1. op'.pc \in {"return", "end"} /\ op'.stopped = op.stopped
    BY <1>1, <1>2 DEF HeadOrTailNotWritten, WriteHead, CutFile, OperationStates
  <2>. QED  BY <2>1 DEF KeepInv, Appending, Writing
<1>3. CASE Return
  <2>1. op.pc = "return" /\ op' = Idle /\ op'.pc = "idle" /\ op'.stopped = FALSE
    BY <1>3 DEF Return, Idle
  <2>2. CASE op.kind # "new"
    <3>1. op.file \in Files /\ MountPckFile(op.file)
      BY <1>1, <1>3, <2>1, <2>2, Typed DEF Return, Reopen
    <3>. QED  BY <2>1, <3>1, KeepMount
  <2>3. CASE op.kind = "new"
    <3>1. ~info.isPckFileLoaded
      BY <1>1, <2>1, <2>3 DEF OpInv, Loaded
    <3>2. ~Loaded'
      BY <1>3, <2>3, <3>1 DEF Return, Closed, Loaded
    <3>. QED  BY <2>1, <3>2, KeepClosed
  <2>. QED  BY <2>2, <2>3
<1>. QED
  BY <1>2, <1>3

LEMMA KeepInvStep ==
  ASSUME IInv, AddOnly, AddInv, AllStored, KeepInv, [Next]_vars
  PROVE  KeepInv'
<1>1. CASE \E f \in Files : Open(f)
  <2>1. PICK f \in Files : MountPckFile(f) /\ op.pc = "idle" /\ op' = op
    BY <1>1 DEF Open
  <2>. QED  BY <2>1, KeepMount DEF KeepInv
<1>2. CASE Close
  <2>1. ~Loaded' /\ op' = op /\ op.pc = "idle"
    BY <1>2 DEF Close, Closed, Loaded
  <2>. QED  BY <2>1 DEF KeepInv, Appending, Writing
<1>3. CASE Crash \/ ReadGoneVector
  <2>1. ~Loaded' /\ op' = Idle
    BY <1>3 DEF Crash, ReadGoneVector, Closed, Loaded
  <2>. QED  BY <2>1, KeepClosed
<1>4. CASE Update
  <2>1. \A N \in NameSets : ~UpdateClashes(N) /\ ~UpdateCannotOpen(N)
    BY DEF AllStored, UpdateClashes, UpdateCannotOpen
  <2>. QED  BY <1>4, <2>1, KeepBegin, KeepPipeline DEF Update
<1>5. CASE WriteIndex
  BY <1>3, <1>5, NoEdits, KeepWrite, KeepEnd DEF WriteIndex, AddInv
<1>6. CASE UNCHANGED vars
  BY <1>6 DEF vars, KeepInv, Unmarked, ReplacedOnly, Table, Loaded, Appending, Writing, Stored
<1>. QED
  BY <1>1, <1>2, <1>3, <1>4, <1>5, <1>6, NoEdits DEF Next, AddInv

\* Every record of the old archive is written again, or stored anew under its name.
LEMMA HeadKeeps ==
  ASSUME IInv, AddInv, KeepInv, op.pc = "head", Appending,
         NEW e, e = Write2(Target, 0, HeadUnit(op.at))
  PROVE  NamesIn(Target) \subseteq NamesIn(e)
<1>. SUFFICES ASSUME NEW c \in Contents(Target)
              PROVE  \E b \in Contents(e) : b.name = c.name
  BY DEF NamesIn
<1>1. TypeOK
  BY DEF IInv
<1>2. op.file \in Files /\ IsFile(Target)
  BY <1>1, Typed DEF Appending, Writing
<1>3. Loaded
  BY FullParts DEF Contents
<1>4. Readable(Target) /\ TableIs(Target) /\ Complete(Target) /\ Distinct(Target)
  BY <1>3, FullParts
<1>5. PICK i \in 1..TailOf(Target).count : c.name = Records(Target)[i].name
  BY <1>2, <1>4, ContentsAre DEF Entries
<1>6. i \in DOMAIN Table /\ Table[i].name = c.name
  BY <1>4, <1>5 DEF TableIs
<1>7. CASE Table[i].isInvalid
  <2>1. c.name \in Stored
    BY <1>3, <1>6, <1>7 DEF KeepInv, ReplacedOnly
  <2>2. [name |-> c.name, job |-> jobs] \in Contents(e)
    <3>1. [name : Stored, job : {jobs}] \subseteq Contents(e)
      BY HeadReplaces DEF Replaced
    <3>. QED  BY <2>1, <3>1
  <2>. QED  BY <2>2
<1>8. CASE ~Table[i].isInvalid
  <2>1. i \in ValidPlaces
    BY <1>6, <1>8 DEF ValidPlaces, Table
  <2>2. /\ ValidPlaces \in SUBSET (1..Len(Table)) /\ Len(Table) \in Nat
        /\ Len(OldIndex) = Cardinality(ValidPlaces)
    BY <1>1, Typed, OldIndexLemma
  <2>3. PICK k \in 1..Len(OldIndex) : Place(k) = i
    <3>1. Rank(ValidPlaces, i) \in 1..Cardinality(ValidPlaces)
      BY <2>1, <2>2, RankLemma
    <3>2. NthOf(ValidPlaces, Rank(ValidPlaces, i)) = i
      BY <2>1, <2>2, NthLemma
    <3>. QED  BY <2>2, <3>1, <3>2 DEF Place
  <2>4. Full[k].name = c.name /\ k \in 1..Len(Full)
    <3>1. /\ Full[k].name = Table[Place(k)].name /\ Len(OldIndex) \in Nat /\ Len(op.index) \in Nat
          /\ Len(Full) = Len(OldIndex) + Len(op.index)
      BY <1>1, FullRecords
    <3>2. k \in 1..Len(Full)
      BY <3>1
    <3>. QED  BY <1>6, <2>3, <3>1, <3>2
  <2>5. Found(Full[k]) \in Contents(e)
    BY <2>4, HeadContents
  <2>6. Found(Full[k]).name = c.name
    BY <2>4 DEF Found
  <2>. QED  BY <2>5, <2>6
<1>. QED
  BY <1>7, <1>8

LEMMA StepKeeps ==
  ASSUME IInv, TypeOK', NewAlone, AddOnly, AddInv, KeepInv, [Next]_vars
  PROVE  \A f \in Files : NamesIn(disk[f]) \subseteq NamesIn(disk'[f])
<1>1. CASE WriteHead
  <2>1. TypeOK /\ op.pc = "head" /\ ~Editing
    BY <1>1, NoEdits DEF IInv, WriteHead, AddInv
  <2>2. Appending
    BY <2>1, WritersLemma DEF Writing
  <2>3. op.file \in Files /\ DOMAIN disk = Files
    BY <2>1, Typed
  <2>4. disk'[op.file] = Write2(Target, 0, HeadUnit(op.at))
    BY <1>1, <2>3 DEF WriteHead, Target
  <2>5. NamesIn(disk[op.file]) \subseteq NamesIn(disk'[op.file])
    BY <2>1, <2>2, <2>4, HeadKeeps DEF Target
  <2>6. \A f \in Files \ {op.file} : disk'[f] = disk[f]
    BY <1>1, <2>3 DEF WriteHead
  <2>. QED  BY <2>5, <2>6
<1>2. CASE ~WriteHead
  <2>1. \A f \in Files : Contents(disk'[f]) = Contents(disk[f])
    BY <1>2, DiskWholeStep
  <2>. QED  BY <2>1 DEF NamesIn
<1>. QED
  BY <1>1, <1>2

\* Adding files removes no entry from an archive, whatever crashes and whether or not
\* tail and head get written, if no addition is cancelled or refused.
THEOREM NoEntryLost == NewAlone /\ AddOnly /\ AllStored => (Spec => EntriesKept)
<1>. DEFINE S == \A f \in Files :
       op.kind = "update" /\ Readable(disk[f]) /\ Readable(disk[f])'
         => NamesIn(disk[f]) \subseteq NamesIn(disk[f])'
<1>1. NewAlone /\ AddOnly /\ AllStored => [](NewAlone /\ AddOnly /\ AllStored)
  OBVIOUS
<1>2. Init => KeepInv
  BY DEF Init, Idle, Closed, Loaded, KeepInv, Appending, Writing
<1>3. IInv /\ AddOnly /\ AllStored /\ AddInv /\ KeepInv /\ [Next]_vars => KeepInv'
  BY KeepInvStep
<1>4. IInv /\ IInv' /\ NewAlone /\ AddOnly /\ AddInv /\ KeepInv /\ [Next]_vars => [S]_vars
  BY StepKeeps DEF IInv
<1>5. NewAlone /\ AddOnly /\ AllStored => (Spec => []KeepInv)
  BY <1>1, <1>2, <1>3, LayoutInvariant, AdditionInvariant, PTL DEF Spec
<1>6. NewAlone /\ AddOnly /\ AllStored => (Spec => [][S]_vars)
  BY <1>1, <1>4, <1>5, LayoutInvariant, AdditionInvariant, PTL DEF Spec
<1>. QED
  BY <1>6 DEF S, EntriesKept
=============================================================================
