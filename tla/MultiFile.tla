------------------------------ MODULE MultiFile ------------------------------
(***************************************************************************)
(* The files of one archive - x.pck, x.pkx, x.pkg - as one address space,  *)
(* CMapViewFileMulti and what is derived from it.  The writer gives every  *)
(* file a fixed range of addresses (a cell of MaxPck), creates files ahead *)
(* of need and grows them through their mappings; the reader puts what it  *)
(* finds on disk end to end.  An archive is all right if the two agree.    *)
(*                                                                         *)
(* The archive itself is reduced to what uses the addresses: a head of one *)
(* unit that gives its size, data, an index, and a tail.  A unit on disk   *)
(* is <<a, g>>: it was written for address a by job g.                     *)
(***************************************************************************)
EXTENDS Integers, SequencesExt

CONSTANTS
  Cells,        \* number of files, SetPackageCountAndSuffix
  MaxPck,       \* m_Max_PckFile_Size
  DetectSize,   \* PCK_SPACE_DETECT_SIZE: room wanted behind every write
  StepSize,     \* PCK_STEP_ADD_SIZE: how far the files grow
  TailSize,
  Chunks,       \* sizes of data and of indices that are written
  MaxAddress,   \* bound on the size of the archive
  MaxJobs,      \* bound on the number of jobs
  SpaceMayLack, \* the disk may be full
  EditsMayCross \* an edit in place may outgrow the last file there is

ASSUME CellsAssumption == Cells \in Nat \ {0} /\ MaxPck \in Nat \ {0}
ASSUME SizesAssumption ==
  /\ DetectSize \in Nat \ {0} /\ StepSize \in Nat /\ StepSize >= DetectSize
  /\ TailSize \in Nat \ {0} /\ Chunks \subseteq Nat \ {0}
  /\ MaxAddress \in Nat \ {0} /\ MaxJobs \in Nat

Files == 1..Cells
Zero == <<-1, 0>>        \* what a file is filled with when it grows
NoFile == <<<<-2, 0>>>>  \* no file has a unit like this

VARIABLES
  disk,      \* the files, each NoFile or the sequence of its units
  head,      \* the size of the archive its head gives, 0 without one
  entry,     \* the address of the index its tail gives
  cells,     \* the writer's m_file_cell: how many, 0 if no writer is open
  size,      \* qwCellSize of each cell
  mapped,    \* how much of each cell is mapped
  full,      \* m_uqwFullSize
  step,      \* what the writer does next
  cell,      \* the cell it does that to, when it goes from cell to cell
  kind,      \* the job it does
  at,        \* dwAddress: where it writes next
  index,     \* where it wrote the index
  jobs,      \* number of jobs begun
  flat,      \* ghost: the job that last wrote each address of the archive, 0 for none
  pending,   \* ghost: the same for the archive the job is making
  promised,  \* ghost: the archive is whole, not in the middle of an edit in place
  trouble    \* ghost: "none", or "space" was short, or a write was "refused" without

archive == <<head, entry>>
writer == <<cells, size, mapped, full>>
job == <<step, cell, kind, at, index, jobs>>
ghost == <<flat, pending, promised, trouble>>
vars == <<disk, archive, writer, job, ghost>>

Exists(i) == disk[i] # NoFile
FileSize(i) == IF Exists(i) THEN Len(disk[i]) ELSE 0
Addresses == 0..(MaxAddress - 1)

\* A file cut or filled to n units; CreateFileMapping only makes files longer.
Resized(f, n) == [k \in 1..n |-> IF k <= Len(f) THEN f[k] ELSE Zero]
Grown(f, n) == IF Len(f) >= n THEN f ELSE Resized(f, n)

\* OpenPck of reader and of OPEN_EXISTING stops at the first file that is missing.
Opened == {i \in Files : \A k \in 1..i : Exists(k)}

\* The reader's address space: the files end to end.
Contents == FlattenSeq([i \in 1..Cardinality(Opened) |-> disk[i]])

\* CMapViewFileMulti::Read stays in the file where it begins.
InOneFile(a, n) ==
  \E i \in Opened : LET before == SumFunctionOnSet([k \in Files |-> FileSize(k)], 1..(i - 1))
                    IN before <= a /\ a + n <= before + FileSize(i)

\* DetectPckVerion and ReadPckFileIndexes find an archive, as its head says.
Mounted ==
  /\ head > 0 /\ promised
  /\ head = Len(Contents)
  /\ InOneFile(head - TailSize, TailSize)
  /\ \A i \in Opened : FileSize(i) > 0

Init ==
  /\ disk = [i \in Files |-> NoFile]
  /\ head = 0 /\ entry = 0
  /\ cells = 0 /\ size = <<>> /\ mapped = <<>> /\ full = 0
  /\ step = "idle" /\ cell = 0 /\ kind = "none" /\ at = 0 /\ index = 0 /\ jobs = 0
  /\ flat = [a \in Addresses |-> 0] /\ pending = flat
  /\ promised = FALSE /\ trouble = "none"
-----------------------------------------------------------------------------
(***************************************************************************)
(* CMapViewFileMultiWrite.                                                 *)
(***************************************************************************)
CellBegin(i) == (i - 1) * MaxPck

\* The last cell has no end.
GetCellIDByPoint(p) == IF p >= cells * MaxPck THEN cells ELSE p \div MaxPck + 1

\* Mapping(d): the cells before the one of d in full, that one as far as needed, unless
\* it fails at a cell; d may be the first address of a cell, which is then left alone.
MapLength(d, i) ==
  LET c == GetCellIDByPoint(d)
  IN IF i < c THEN MaxPck ELSE IF i = c THEN d - CellBegin(c) ELSE 0

Mapping(d, failsAt) ==
  [ok     |-> failsAt > cells,
   short  |-> failsAt <= cells,
   disk   |-> [i \in Files |-> IF i <= cells /\ i < failsAt
                               THEN Grown(disk[i], MapLength(d, i)) ELSE disk[i]],
   mapped |-> [i \in 1..cells |-> IF i < failsAt THEN MapLength(d, i) ELSE 0],
   size   |-> [i \in 1..cells |-> IF i < failsAt /\ MapLength(d, i) > 0
                                  THEN MapLength(d, i) ELSE size[i]],
   full   |-> IF failsAt > cells /\ d > full THEN d ELSE full]

\* Where it may fail: a file that would have to grow.
FailsAt(d) ==
  {cells + 1} \cup (IF SpaceMayLack
                    THEN {i \in 1..cells : MapLength(d, i) > FileSize(i)} ELSE {})

\* variant: expands only when the write itself does not fit
NeedExpandTight(a, n) == a + n > full

NeedExpand(a, n) == a + n + DetectSize > full

\* IsNeedExpandWritingFile.  After a failure the old size is mapped again.
WantedStep(n) == IF n + DetectSize > StepSize THEN n + DetectSize ELSE StepSize

IsNeedExpandWritingFile(a, n) ==
  LET here == [ok |-> TRUE, short |-> FALSE, disk |-> disk,
               mapped |-> mapped, size |-> size, full |-> full]
      spaces == {WantedStep(n)} \cup (IF SpaceMayLack THEN 0..WantedStep(n) ELSE {})
      tried(e) == {[Mapping(full + e, k) EXCEPT !.short = @ \/ e < WantedStep(n)] :
                     k \in FailsAt(full + e)}
      again(w) == [w EXCEPT !.mapped = [i \in 1..cells |-> MapLength(full, i)]]
  IN IF ~NeedExpand(a, n) THEN {here}
     ELSE UNION {IF n > e THEN {[here EXCEPT !.ok = FALSE, !.short = TRUE]}
                 ELSE {IF w.ok THEN w ELSE again(w) : w \in tried(e)} : e \in spaces}

\* ViewAndWrite2: each cell that is touched is viewed and copied to in turn.  The end
\* is looked up as an address, so that a write up to the end of a cell also views the
\* next one, in full.
ViewAndWrite2(w, a, n) ==
  LET first == GetCellIDByPoint(a)
      last == GetCellIDByPoint(a + n)
      end(i) == IF i = last THEN a + n - CellBegin(i) ELSE MaxPck
      views(i) == w.mapped[i] > 0 /\ w.mapped[i] >= end(i)
      done == {i \in first..last : \A k \in first..i : views(k)}
  IN [w EXCEPT
        !.ok = done = first..last,
        !.disk = [i \in Files |->
          IF i \notin done THEN w.disk[i]
          ELSE [k \in 1..Len(w.disk[i]) |->
                 LET b == CellBegin(i) + k - 1
                 IN IF a <= b /\ b < a + n /\ k <= end(i) THEN <<b, jobs>> ELSE w.disk[i][k]]]]

\* Write2(a, ., n): what it may leave behind.
Write2(a, n) ==
  {IF w.ok THEN ViewAndWrite2(w, a, n) ELSE w : w \in IsNeedExpandWritingFile(a, n)}

\* The parts of the state a Write2 or a Mapping changes.  trouble tells a write that
\* failed for want of space from one that failed without.
Becomes(w) ==
  /\ disk' = w.disk /\ mapped' = w.mapped /\ size' = w.size /\ full' = w.full
  /\ trouble' = IF w.short THEN "space"
                ELSE IF ~w.ok /\ trouble = "none" THEN "refused" ELSE trouble
-----------------------------------------------------------------------------
(***************************************************************************)
(* The jobs that write.                                                    *)
(***************************************************************************)
\* AddFile for every file, in the order of the suffixes.
AddFiles(d, n) ==
  /\ disk' = d
  /\ cells' = n
  /\ size' = [i \in 1..n |-> IF d[i] = NoFile THEN 0 ELSE Len(d[i])]
  /\ mapped' = [i \in 1..n |-> 0]
  /\ full' = SumFunction(size')

Start(k, s, a) ==
  /\ step' = s /\ cell' = 1 /\ kind' = k /\ at' = a /\ index' = 0
  /\ jobs' = jobs + 1
  /\ trouble' = "none"

\* Rebuilding and recompressing create the files anew, all of them.
New ==
  /\ cells = 0 /\ jobs < MaxJobs
  /\ AddFiles([i \in Files |-> <<>>], Cells)
  /\ Start("new", "map", 1)
  /\ head' = 0 /\ entry' = 0
  /\ promised' = FALSE
  /\ flat' = [a \in Addresses |-> 0] /\ pending' = flat'

\* UpdatePckFile opens the files there are and creates the others.
Update ==
  /\ cells = 0 /\ jobs < MaxJobs /\ Mounted
  /\ AddFiles([i \in Files |-> IF Exists(i) THEN disk[i] ELSE <<>>], Cells)
  /\ Start("append", "map", head)
  /\ pending' = flat
  /\ UNCHANGED <<archive, flat, promised>>

\* RenameFilename, for renaming and deleting, writes a new index over the old one.
Rename ==
  /\ cells = 0 /\ jobs < MaxJobs /\ Mounted
  /\ AddFiles(disk, Cardinality(Opened))
  /\ Start("rename", "map", entry)
  /\ pending' = flat
  /\ UNCHANGED <<archive, flat, promised>>

\* The room asked for to begin with: what is there, an estimate of what comes, and
\* DetectSize, less where the disk is full.
Map ==
  /\ step = "map"
  /\ \E n \in {0} \cup IF kind = "rename" THEN {} ELSE Chunks :
     \E e \in {n + DetectSize} \cup IF SpaceMayLack THEN 0..(n + DetectSize) ELSE {} :
     \E k \in FailsAt(full + e) :
       /\ Becomes([Mapping(full + e, k) EXCEPT !.short = @ \/ e < n + DetectSize])
       /\ step' = IF k <= cells THEN "close" ELSE IF kind = "rename" THEN "index" ELSE "data"
  /\ UNCHANGED <<archive, cells, cell, kind, at, index, jobs, flat, pending, promised>>

\* Addresses a to a + n - 1 now belong to this job.
Marked(a, n, g) == [b \in Addresses |-> IF a <= b /\ b < a + n THEN g ELSE pending[b]]

\* The writer thread stores the data of an entry.
WriteData(n) ==
  /\ step = "data"
  /\ at + n < MaxAddress
  /\ \E w \in Write2(at, n) :
       /\ Becomes(w)
       /\ IF w.ok THEN at' = at + n /\ pending' = Marked(at, n, jobs) /\ UNCHANGED step
          ELSE step' = "index" /\ UNCHANGED <<at, pending>>
  /\ UNCHANGED <<archive, cells, cell, kind, index, jobs, flat, promised>>

EndOfData ==
  /\ step = "data"
  /\ step' = "index"
  /\ UNCHANGED <<disk, archive, writer, cell, kind, at, index, jobs, ghost>>

\* WriteAllIndex does not look at what Write2 returns.  An edit in place tears the
\* archive from here until the head is written.
WriteIndex(n) ==
  /\ step = "index"
  /\ at + n + TailSize <= MaxAddress
  /\ \/ kind # "rename" \/ EditsMayCross \/ cells = Cells
     \/ at + n + TailSize <= cells * MaxPck
  /\ \E w \in Write2(at, n) :
       /\ Becomes(w)
       /\ pending' = Marked(at, n, IF w.ok THEN jobs ELSE 0)
  /\ at' = at + n /\ index' = at
  /\ promised' = (promised /\ kind # "rename")
  /\ step' = "tail"
  /\ UNCHANGED <<archive, cells, cell, kind, jobs, flat>>

WriteTail ==
  /\ step = "tail"
  /\ \E w \in Write2(at, TailSize) :
       /\ Becomes(w)
       /\ IF w.ok THEN /\ step' = "head" /\ at' = at + TailSize
                       /\ pending' = Marked(at, TailSize, jobs)
          ELSE step' = "close" /\ UNCHANGED <<at, pending>>
  /\ UNCHANGED <<archive, cells, cell, kind, index, jobs, flat, promised>>

\* The head makes it an archive of the new size; then the mappings are dropped.
WriteHead ==
  /\ step = "head"
  /\ \E w \in Write2(0, 1) :
       IF w.ok
       THEN /\ Becomes([w EXCEPT !.mapped = [i \in 1..cells |-> 0]])
            /\ head' = at /\ entry' = index
            /\ flat' = Marked(0, 1, jobs)
            /\ promised' = TRUE
            /\ step' = "cut"
       ELSE Becomes(w) /\ step' = "close" /\ UNCHANGED <<archive, flat, promised>>
  /\ UNCHANGED <<cells, cell, kind, at, index, jobs, pending>>

\* variant: every file but the one of the end is emptied
SetEndOfFileOthersEmpty ==
  /\ step = "cut"
  /\ LET c == GetCellIDByPoint(at)
         n == IF cell < c THEN 0 ELSE IF cell = c THEN at - CellBegin(c) ELSE 0
     IN disk' = [disk EXCEPT ![cell] = Resized(@, n)] /\ size' = [size EXCEPT ![cell] = n]
  /\ IF cell = cells THEN step' = "finish" /\ cell' = 1 /\ full' = at
     ELSE cell' = cell + 1 /\ UNCHANGED <<step, full>>
  /\ UNCHANGED <<archive, cells, mapped, kind, at, index, jobs, ghost>>

\* SetFilePointer to the new end, then SetEndOfFile cell by cell: the files before stay as
\* they are, the one of the end is cut or filled up to it, the ones behind are emptied.
SetEndOfFile ==
  /\ step = "cut"
  /\ LET c == GetCellIDByPoint(at)
         n == IF cell < c THEN FileSize(cell) ELSE IF cell = c THEN at - CellBegin(c) ELSE 0
     IN disk' = [disk EXCEPT ![cell] = Resized(@, n)] /\ size' = [size EXCEPT ![cell] = n]
  /\ IF cell = cells THEN step' = "finish" /\ cell' = 1 /\ full' = at
     ELSE cell' = cell + 1 /\ UNCHANGED <<step, full>>
  /\ UNCHANGED <<archive, cells, mapped, kind, at, index, jobs, ghost>>

\* variant: the cells stay in the list
NoWriterKeepsCells ==
  /\ UNCHANGED cells /\ size' = <<>> /\ mapped' = <<>> /\ full' = 0
  /\ step' = "idle" /\ cell' = 0 /\ kind' = "none" /\ at' = 0 /\ index' = 0
  /\ pending' = flat /\ trouble' = "none"

NoWriter ==
  /\ cells' = 0 /\ size' = <<>> /\ mapped' = <<>> /\ full' = 0
  /\ step' = "idle" /\ cell' = 0 /\ kind' = "none" /\ at' = 0 /\ index' = 0
  /\ pending' = flat /\ trouble' = "none"

\* variant: empty files stay
CloseKeepsEmpty ==
  /\ step \in {"close", "finish"}
  /\ IF cell = cells THEN NoWriter
     ELSE cell' = cell + 1 /\ UNCHANGED <<writer, step, kind, at, index, pending, trouble>>
  /\ UNCHANGED <<disk, archive, jobs, flat, promised>>

\* clear(), cell by cell: the file is closed, and removed if it is empty.
Close ==
  /\ step \in {"close", "finish"}
  /\ disk' = [disk EXCEPT ![cell] = IF size[cell] = 0 THEN NoFile ELSE @]
  /\ IF cell = cells THEN NoWriter
     ELSE cell' = cell + 1 /\ UNCHANGED <<writer, step, kind, at, index, pending, trouble>>
  /\ UNCHANGED <<archive, jobs, flat, promised>>

\* Setting the comment overwrites the tail through the file pointer, with CMapViewFileMulti's
\* Write: all of it goes into the file where it begins.
SetAdditionalInfo ==
  /\ cells = 0 /\ jobs < MaxJobs /\ Mounted
  /\ LET n == Cardinality(Opened)
         p == head - TailSize
         c == IF p >= n * MaxPck THEN n ELSE p \div MaxPck + 1
         written(f) == [k \in 1..Len(Grown(f, p - CellBegin(c) + TailSize)) |->
                          LET b == CellBegin(c) + k - 1
                          IN IF p <= b /\ b < p + TailSize THEN <<b, jobs + 1>> ELSE f[k]]
     IN AddFiles([disk EXCEPT ![c] = written(@)], n)
  /\ Start("comment", "close", head)
  /\ flat' = [a \in Addresses |-> IF head - TailSize <= a /\ a < head THEN jobs + 1 ELSE flat[a]]
  /\ pending' = flat'
  /\ UNCHANGED <<archive, promised>>

\* Opening an archive: the reader's own clear() removes what is empty, and if there is more
\* than the head says, it is cut off.
Mount ==
  /\ cells = 0 /\ head > 0 /\ promised /\ ~Mounted
  /\ head <= Len(Contents) /\ InOneFile(head - TailSize, TailSize)
  /\ LET d == [i \in Files |-> IF i \in Opened /\ FileSize(i) = 0 THEN NoFile ELSE disk[i]]
         n == CHOOSE k \in Files : /\ \A i \in 1..k : d[i] # NoFile
                                   /\ k = Cells \/ d[k + 1] = NoFile
     IN IF head < Len(Contents)
        THEN /\ AddFiles(d, n)
             /\ step' = "cut" /\ cell' = 1 /\ kind' = "mount" /\ at' = head
             /\ UNCHANGED <<index, jobs, trouble>>
        ELSE disk' = d /\ UNCHANGED <<writer, job, trouble>>
  /\ UNCHANGED <<archive, flat, pending, promised>>

\* The process ends; what was mapped stays written.
Crash ==
  /\ cells > 0
  /\ NoWriter
  /\ UNCHANGED <<disk, archive, jobs, flat, promised>>

Next ==
  \/ New \/ Update \/ Rename \/ SetAdditionalInfo \/ Mount
  \/ Map \/ EndOfData \/ WriteTail \/ WriteHead \/ SetEndOfFile \/ Close \/ Crash
  \/ \E n \in Chunks : WriteData(n) \/ WriteIndex(n)

Spec == Init /\ [][Next]_vars
-----------------------------------------------------------------------------
TypeOK ==
  /\ \A i \in Files : disk[i] = NoFile \/ \A k \in 1..Len(disk[i]) :
       disk[i][k] = Zero \/ disk[i][k] \in Addresses \X (1..MaxJobs)
  /\ head \in 0..MaxAddress /\ entry \in 0..MaxAddress
  /\ cells \in 0..Cells
  /\ DOMAIN size = 1..cells /\ DOMAIN mapped = 1..cells
  /\ \A i \in 1..cells : size[i] \in Nat /\ mapped[i] \in Nat
  /\ full \in Nat
  /\ step \in {"idle", "map", "data", "index", "tail", "head", "cut", "close", "finish"}
  /\ cell \in 0..cells
  /\ kind \in {"none", "new", "append", "rename", "comment", "mount"}
  /\ at \in 0..MaxAddress /\ index \in 0..MaxAddress /\ jobs \in 0..MaxJobs
  /\ flat \in [Addresses -> 0..MaxJobs] /\ pending \in [Addresses -> 0..MaxJobs]
  /\ promised \in BOOLEAN /\ trouble \in {"none", "space", "refused"}

\* What was written at an address is found there.  Whenever no writer is open, after a
\* crash too, the files hold the archive its head describes, put together as the reader does.
ReadBack ==
  cells = 0 /\ head > 0 /\ promised =>
    /\ head <= Len(Contents)
    /\ \A a \in 0..(head - 1) : flat[a] # 0 => Contents[a + 1] = <<a, flat[a]>>

\* Write2 stores what it is given unless the disk is full: the files are always far
\* enough mapped, also when a write ends where a file does.
NeverRefused == trouble # "refused"

\* A job that wrote its head leaves files of exactly that size, and none of those it had
\* is empty.  A file it did not have may be: what a crash left behind a gap.
EndsExact ==
  [][Close /\ step = "finish" /\ cells' = 0
       => /\ (head = Len(Contents))'
          /\ \A i \in 1..cells : (Exists(i) => FileSize(i) > 0)']_vars
=============================================================================
