----------------------------- MODULE PckArchive -----------------------------
(***************************************************************************)
(* An archive file and the handle that edits it.  A file is a sequence of  *)
(* units: the head at address 0, the data of the entries, the index        *)
(* records, and the tail, which is where the size in the head says.        *)
(* Adding files appends behind the tail and writes the head last; renaming *)
(* and deleting write the index anew where it is.  The process may crash   *)
(* between any two units; mounting is all the recovery there is.           *)
(*                                                                         *)
(* The pipeline that stores the data is taken by its promise               *)
(* (ArchiveAppend): entries one at a time, in any order, all of them unless *)
(* the job is stopped.                                                     *)
(***************************************************************************)
EXTENDS Integers, Sequences, FiniteSets

CONSTANTS
  Names,        \* names of entries
  Folders,      \* names that are folders in the archive: adding a file of that name clashes
  Files,        \* archive files
  Operations,   \* which of "update", "new", "delete", "rename", "info" the user performs
  MayFail,      \* which of "open", "index", "tail", "head" may fail to open or be written
  UserMayCancel,\* whether the user may force a stop, or storing an entry fail
  MaxJobs       \* bound: operations begun

ASSUME ConstantsAssumption ==
  /\ IsFiniteSet(Names)
  /\ Folders \subseteq Names
  /\ "none" \notin Files
  /\ Operations \subseteq {"update", "new", "delete", "rename", "info"}
  /\ MayFail \subseteq {"open", "index", "tail", "head"}
  /\ UserMayCancel \in BOOLEAN
  /\ MaxJobs \in Nat

VARIABLES
  disk,  \* the files: functions from addresses to units
  info,  \* m_PckAllInfo of the open CPckClass
  op,    \* the operation under way, what it keeps on its stack, and whether its
         \* index failed to be written (for the properties)
  jobs   \* operations begun

vars == <<disk, info, op, jobs>>

PCK_DATA_START_AT == 1

HeadUnit(size) == [kind |-> "head", size |-> size]
DataUnit(n, job) == [kind |-> "data", name |-> n, job |-> job]
IndexUnit(n, at) == [kind |-> "index", name |-> n, at |-> at]
TailUnit(entry, count) == [kind |-> "tail", entry |-> entry, count |-> count]
Blank == [kind |-> "blank"]

(***************************************************************************)
(* Files.                                                                  *)
(***************************************************************************)
Larger(m, n) == IF m < n THEN n ELSE m
Size(d) == Cardinality(DOMAIN d)
Write2(d, at, unit) ==
  [a \in 0..Larger(Size(d) - 1, at) |->
     IF a = at THEN unit ELSE IF a < Size(d) THEN d[a] ELSE Blank]
SetEndOfFile(d, size) ==
  [a \in 0..(size - 1) |-> IF a < Size(d) THEN d[a] ELSE Blank]
\* Mapping a file to be written makes room in it.
Mapping(d) == SetEndOfFile(d, Larger(Size(d), 1) + 1)

\* What DetectPckVerion insists on: the size in the head is within the file, and a
\* tail is where it says.  ReadPckFileIndexes finds index records where that says.
TailAtEndOfFile(d) == d[Size(d) - 1] \* variant: the size in the head ignored
TailOf(d) == d[d[0].size - 1]
Detected(d) ==
  /\ DOMAIN d # {}
  /\ d[0].kind = "head"
  /\ d[0].size <= Size(d)
  /\ TailOf(d).kind = "tail"
Readable(d) ==
  /\ Detected(d)
  /\ \A a \in TailOf(d).entry..(TailOf(d).entry + TailOf(d).count - 1) :
       a < Size(d) /\ d[a].kind = "index"

Records(d) ==
  [i \in 1..TailOf(d).count |-> d[TailOf(d).entry + i - 1]]

\* Of two records of one name the later counts (AddFileToNode).
Shadowed(s, i) == \E j \in DOMAIN s : j > i /\ s[j].name = s[i].name
IndexTable(d) ==
  LET s == Records(d)
  IN [i \in DOMAIN s |->
        [name |-> s[i].name, at |-> s[i].at, isInvalid |-> Shadowed(s, i)]]

(***************************************************************************)
(* The handle.                                                             *)
(***************************************************************************)
Closed ==
  [isPckFileLoaded |-> FALSE, szFilename |-> "none", lpPckIndexTable |-> <<>>,
   dwFileCountToAdd |-> 0, lpPckIndexTableToAdd |-> "null", qwPckSize |-> 0,
   dwAddressOfFileEntry |-> PCK_DATA_START_AT, dwFileCount |-> 0,
   dwFinalFileCount |-> 0]

Mounted(f, d) ==
  [Closed EXCEPT !.isPckFileLoaded = TRUE, !.szFilename = f,
                 !.lpPckIndexTable = IndexTable(d),
                 !.qwPckSize = d[0].size,
                 !.dwAddressOfFileEntry = TailOf(d).entry,
                 !.dwFileCount = TailOf(d).count,
                 !.dwFinalFileCount = TailOf(d).count]

Idle == [pc |-> "idle", kind |-> "none", file |-> "none", files |-> {},
         index |-> <<>>, left |-> <<>>, at |-> 0, stopped |-> FALSE,
         indexLost |-> FALSE]

Init ==
  /\ disk = [f \in Files |-> <<>>]
  /\ info = Closed
  /\ op = Idle
  /\ jobs = 0

\* Init of CPckClass: DetectPckVerion cuts off what is behind the size in the head,
\* before the index is read.  A file that cannot be read leaves the handle closed.
FileNotCut(d) == d \* variant: the rest of an interrupted update stays
CutToSize(d) == SetEndOfFile(d, d[0].size)
MountPckFile(f) ==
  /\ info' = IF Readable(disk[f]) THEN Mounted(f, disk[f]) ELSE Closed
  /\ disk' = IF Detected(disk[f]) THEN [disk EXCEPT ![f] = CutToSize(@)] ELSE disk

Open(f) ==
  /\ op.pc = "idle"
  /\ MountPckFile(f)
  /\ UNCHANGED <<op, jobs>>

Close ==
  /\ op.pc = "idle"
  /\ info' = Closed
  /\ UNCHANGED <<disk, op, jobs>>

Crash ==
  /\ info' = Closed
  /\ op' = Idle
  /\ UNCHANGED <<disk, jobs>>

Begin(o) ==
  /\ op.pc = "idle"
  /\ o \in Operations
  /\ jobs < MaxJobs
  /\ jobs' = jobs + 1

-----------------------------------------------------------------------------
(***************************************************************************)
(* UpdatePckFile: add files N to f, which is the open archive, or a new    *)
(* one.  "new" is the menu command that asks for another file name.  A new *)
(* file that replaces an archive is left out.                              *)
(***************************************************************************)
\* The record a node of the tree points to: the last of its name.
NodeOf(n) ==
  {i \in DOMAIN info.lpPckIndexTable :
     info.lpPckIndexTable[i].name = n
       /\ \A j \in DOMAIN info.lpPckIndexTable :
            j > i => info.lpPckIndexTable[j].name # n}
NodesOf(N) == UNION {NodeOf(n) : n \in N}
Invalidated(I) ==
  [i \in DOMAIN info.lpPckIndexTable |->
     [info.lpPckIndexTable[i] EXCEPT !.isInvalid = @ \/ i \in I]]

DuplicatesKept(N) == {} \* variant: the records that are replaced stay valid
FindDuplicateNodes(N) == NodesOf(N)
AllCountedDuplicate(N) == Cardinality(N) \* variant: new names counted as well
DuplicateFileCount(N) == Cardinality(NodesOf(N))

\* A folder of the same name ends the search: the duplicates found before it stay
\* marked and the handle stays open.
UpdateClashes(N) ==
  /\ Begin("update")
  /\ info.isPckFileLoaded
  /\ N \cap Folders # {}
  /\ \E D \in SUBSET (N \ Folders) :
       info' = [info EXCEPT !.lpPckIndexTable = Invalidated(NodesOf(D)),
                            !.dwFileCountToAdd = Cardinality(N)]
  /\ UNCHANGED <<disk, op>>

\* The files may have grown when their mapping fails.  What they have grown by lies behind
\* the size in the head: nothing reads it, and the next mount cuts it off.
UpdateCannotOpen(N) ==
  /\ "open" \in MayFail
  /\ Begin("update")
  /\ info.isPckFileLoaded
  /\ N \cap Folders = {}
  /\ info' = [info EXCEPT !.lpPckIndexTable = Invalidated(FindDuplicateNodes(N)),
                          !.dwFileCountToAdd = Cardinality(N)]
  /\ UNCHANGED <<disk, op>>

\* Where the data goes.
AppendAtIndex == info.dwAddressOfFileEntry \* variant: over the index
AppendFromStart == PCK_DATA_START_AT \* variant: an open archive is not asked for its end
AppendAddress ==
  IF info.isPckFileLoaded THEN info.qwPckSize ELSE PCK_DATA_START_AT

UpdateStart(o, f, N) ==
  /\ Begin(o)
  /\ IF info.isPckFileLoaded
     THEN (f = info.szFilename) = (o = "update") /\ N \cap Folders = {}
     ELSE TRUE
  /\ f # info.szFilename => \A a \in DOMAIN disk[f] : disk[f][a].kind # "head"
  /\ info' = [info EXCEPT !.lpPckIndexTable = Invalidated(FindDuplicateNodes(N)),
                          !.dwFileCount = Len(info.lpPckIndexTable)
                                            - DuplicateFileCount(N),
                          !.dwFileCountToAdd = Cardinality(N)]
  /\ disk' = [disk EXCEPT ![f] = Mapping(@)]
  /\ op' = [Idle EXCEPT !.pc = "store", !.kind = o, !.file = f, !.files = N,
                        !.at = AppendAddress]

Stored == {op.index[i].name : i \in DOMAIN op.index}

Store(n) ==
  /\ op.pc = "store"
  /\ n \in op.files \ Stored
  /\ disk' = [disk EXCEPT ![op.file] = Write2(@, op.at, DataUnit(n, jobs))]
  /\ op' = [op EXCEPT !.index = Append(@, IndexUnit(n, op.at)), !.at = @ + 1]
  /\ UNCHANGED <<info, jobs>>

Stop ==
  /\ UserMayCancel
  /\ op.pc = "store"
  /\ op' = [op EXCEPT !.stopped = TRUE]
  /\ UNCHANGED <<disk, info, jobs>>

\* start() after the threads are joined.
ThreadsJoined ==
  /\ op.pc = "store"
  /\ op.stopped \/ Stored = op.files
  /\ info' = [info EXCEPT !.lpPckIndexTableToAdd = "runner",
                          !.dwFileCountToAdd = Len(op.index),
                          !.dwAddressOfFileEntry = op.at]
  /\ op' = [op EXCEPT !.pc = "index"]
  /\ UNCHANGED <<disk, jobs>>

-----------------------------------------------------------------------------
(***************************************************************************)
(* DeleteNode or RenameIndex, and RenameFilename: the index is written     *)
(* again where it is.                                                      *)
(***************************************************************************)
RenameFilename(o, table) ==
  /\ Begin(o)
  /\ info.isPckFileLoaded
  /\ \/ /\ info' = [info EXCEPT !.lpPckIndexTable = table]
        /\ disk' = [disk EXCEPT ![info.szFilename] = Mapping(@)]
        /\ op' = [Idle EXCEPT !.pc = "index", !.kind = o, !.file = info.szFilename,
                              !.at = info.dwAddressOfFileEntry]
     \/ /\ "open" \in MayFail
        /\ info' = IF o = "rename" THEN Closed
                   ELSE [info EXCEPT !.lpPckIndexTable = table]
        /\ UNCHANGED <<disk, op>>

Delete(N) ==
  /\ NodesOf(N) # {}
  /\ RenameFilename("delete", Invalidated(NodesOf(N)))

\* (Renaming to the name of a folder is a matter of the tree.)
Rename(n, new) ==
  /\ new \notin Folders \cup {n}
  /\ \E i \in NodeOf(n) :
       RenameFilename("rename", [info.lpPckIndexTable EXCEPT ![i].name = new])

\* SetAdditionalInfo writes the tail at the end of the file.
SetAdditionalInfo ==
  LET f == info.szFilename
  IN /\ Begin("info")
     /\ info.isPckFileLoaded
     /\ disk' = [disk EXCEPT ![f] =
          Write2(@, Size(@) - 1,
                 TailUnit(info.dwAddressOfFileEntry, info.dwFinalFileCount))]
     /\ UNCHANGED <<info, op>>

-----------------------------------------------------------------------------
(***************************************************************************)
(* WriteAllIndex, WriteHeadAndTail.                                        *)
(***************************************************************************)
\* The valid records in their order: the k-th is the one with k of them up to it.
ValidPlaces == {i \in DOMAIN info.lpPckIndexTable : ~info.lpPckIndexTable[i].isInvalid}
NthOf(I, k) == CHOOSE i \in I : Cardinality({j \in I : j <= i}) = k
OldIndexForgotten == <<>> \* variant: only the new records
OldIndex ==
  [k \in 1..Cardinality(ValidPlaces) |->
     LET r == info.lpPckIndexTable[NthOf(ValidPlaces, k)] IN IndexUnit(r.name, r.at)]

\* lpPckIndexTableToAdd is read up to dwFileCountToAdd.  NULL ends the process; a
\* vector that is gone may, or may hold anything.
IsVectorRead == info.dwFileCountToAdd # 0 /\ info.lpPckIndexTableToAdd # "runner"

WriteAllIndex ==
  /\ op.pc = "index"
  /\ ~(IsVectorRead /\ info.lpPckIndexTableToAdd = "null")
  /\ LET new == IF IsVectorRead
                THEN [i \in 1..info.dwFileCountToAdd |-> Blank] ELSE op.index
     IN /\ info' = [info EXCEPT !.dwFileCount = Len(OldIndex),
                                !.dwFinalFileCount = Len(OldIndex) + Len(new)]
        /\ op' = [op EXCEPT !.pc = "indexUnits", !.left = OldIndex \o new]
  /\ UNCHANGED <<disk, jobs>>

ReadGoneVector ==
  /\ op.pc = "index"
  /\ IsVectorRead
  /\ info' = Closed
  /\ op' = Idle
  /\ UNCHANGED <<disk, jobs>>

WriteIndexUnit ==
  /\ op.pc = "indexUnits"
  /\ op.left # <<>>
  /\ disk' = [disk EXCEPT ![op.file] = Write2(@, op.at, Head(op.left))]
  /\ op' = [op EXCEPT !.left = Tail(@), !.at = @ + 1]
  /\ UNCHANGED <<info, jobs>>

\* A failed Write2 of the index goes unnoticed.
IndexNotWritten ==
  /\ "index" \in MayFail
  /\ op.pc = "indexUnits"
  /\ Len(op.left) = info.dwFinalFileCount
  /\ op' = [op EXCEPT !.left = <<>>, !.at = @ + Len(op.left), !.indexLost = TRUE]
  /\ UNCHANGED <<disk, info, jobs>>

WriteTail ==
  /\ op.pc = "indexUnits"
  /\ op.left = <<>>
  /\ disk' = [disk EXCEPT ![op.file] =
       Write2(@, op.at, TailUnit(info.dwAddressOfFileEntry, info.dwFinalFileCount))]
  /\ op' = [op EXCEPT !.pc = "head", !.at = @ + 1]
  /\ UNCHANGED <<info, jobs>>

WriteHead ==
  /\ op.pc = "head"
  /\ info' = [info EXCEPT !.qwPckSize = op.at]
  /\ disk' = [disk EXCEPT ![op.file] = Write2(@, 0, HeadUnit(op.at))]
  /\ op' = [op EXCEPT !.pc = "end"]
  /\ UNCHANGED jobs

\* A failed tail or head ends WriteHeadAndTail; nobody looks at its result.  The handle
\* has the new size before the head is written.
HeadOrTailNotWritten ==
  /\ \/ /\ "tail" \in MayFail
        /\ op.pc = "indexUnits"
        /\ op.left = <<>>
        /\ UNCHANGED info
     \/ /\ "head" \in MayFail
        /\ op.pc = "head"
        /\ info' = [info EXCEPT !.qwPckSize = op.at]
  /\ op' = [op EXCEPT !.pc = "return"]
  /\ UNCHANGED <<disk, jobs>>

CutFile ==
  /\ op.pc = "end"
  /\ disk' = [disk EXCEPT ![op.file] = SetEndOfFile(@, op.at)]
  /\ op' = [op EXCEPT !.pc = "return"]
  /\ UNCHANGED <<info, jobs>>

\* The front end opens the archive again.  After "new" it closes the handle, or
\* leaves the archive open that was open before; the runner and its index records
\* are gone then.
ReopenNothing == UNCHANGED <<disk, info>> \* variant
Reopen == MountPckFile(op.file)
Return ==
  /\ op.pc = "return"
  /\ op' = Idle
  /\ IF op.kind # "new" THEN Reopen
     ELSE /\ info' = IF info.isPckFileLoaded
                     THEN [info EXCEPT !.lpPckIndexTableToAdd = "dangling"]
                     ELSE Closed
          /\ UNCHANGED disk
  /\ UNCHANGED jobs

-----------------------------------------------------------------------------
NameSets == SUBSET Names \ {{}}

Update ==
  \/ \E N \in NameSets : UpdateClashes(N) \/ UpdateCannotOpen(N)
  \/ \E o \in {"update", "new"}, f \in Files, N \in NameSets : UpdateStart(o, f, N)
  \/ \E n \in Names : Store(n)
  \/ Stop
  \/ ThreadsJoined

Edit ==
  \/ \E N \in NameSets : Delete(N)
  \/ \E n, new \in Names : Rename(n, new)
  \/ SetAdditionalInfo

WriteIndex ==
  \/ WriteAllIndex \/ ReadGoneVector
  \/ WriteIndexUnit \/ IndexNotWritten
  \/ WriteTail \/ WriteHead \/ HeadOrTailNotWritten
  \/ CutFile \/ Return

Next ==
  \/ \E f \in Files : Open(f)
  \/ Close
  \/ Crash
  \/ Update
  \/ Edit
  \/ WriteIndex

Spec == Init /\ [][Next]_vars
-----------------------------------------------------------------------------
(***************************************************************************)
(* Properties.                                                             *)
(***************************************************************************)
Addresses == Nat
IndexUnits == [kind : {"index"}, name : Names, at : Addresses]
Units ==
  [kind : {"head"}, size : Addresses \ {0}]
    \cup [kind : {"data"}, name : Names, job : 1..MaxJobs]
    \cup IndexUnits
    \cup [kind : {"tail"}, entry : Addresses \ {0}, count : Nat]
    \cup {Blank}
IsFile(d) == Size(d) \in Nat /\ d \in [0..(Size(d) - 1) -> Units]
TableRecords == [name : Names, at : Addresses, isInvalid : BOOLEAN]
Handles ==
  [isPckFileLoaded : BOOLEAN, szFilename : Files \cup {"none"},
   lpPckIndexTable : Seq(TableRecords), dwFileCountToAdd : Nat,
   lpPckIndexTableToAdd : {"null", "runner", "dangling"}, qwPckSize : Nat,
   dwAddressOfFileEntry : Addresses \ {0}, dwFileCount : Nat, dwFinalFileCount : Nat]
OperationStates ==
  [pc : {"idle", "store", "index", "indexUnits", "head", "end", "return"},
   kind : {"none", "update", "new", "delete", "rename"}, file : Files \cup {"none"},
   files : SUBSET Names, index : Seq(IndexUnits), left : Seq(IndexUnits \cup {Blank}),
   at : Addresses, stopped : BOOLEAN, indexLost : BOOLEAN]

\* Files have no gaps, the unsigned counts of the handle do not go below zero, and an
\* operation under way has a file and an address.
TypeOK ==
  /\ disk = [f \in Files |-> disk[f]]
  /\ \A f \in Files : IsFile(disk[f])
  /\ info \in Handles
  /\ info.isPckFileLoaded => info.szFilename \in Files /\ info.qwPckSize # 0
  /\ op \in OperationStates
  /\ op.pc # "idle" => op.file \in Files /\ op.at # 0 /\ jobs # 0
  /\ jobs \in 0..MaxJobs

\* What a reader finds: the entries with the job that added their data, or with no
\* job where the data of a record is not there.
DataOf(d, r) ==
  IF r.at < Size(d) /\ d[r.at].kind = "data" /\ d[r.at].name = r.name
  THEN d[r.at].job ELSE 0
Contents(d) ==
  IF ~Readable(d) THEN {}
  ELSE LET s == Records(d)
       IN {[name |-> s[i].name, job |-> DataOf(d, s[i])] :
             i \in {j \in DOMAIN s : ~Shadowed(s, j)}}
NamesIn(d) == {r.name : r \in Contents(d)}

\* Adding files is atomic whatever crashes, fails or is cancelled: what a mount of
\* the file finds changes in one step, from one set of entries that all have their
\* data to another.
Atomic == INSTANCE AtomicArchive WITH
  contents <- [f \in Files |-> Contents(disk[f])], Jobs <- 1..MaxJobs
AddingIsAtomic == Atomic!Spec

\* Adding files, even if it fails, never makes an archive unreadable: only a
\* rename or a delete that is cut off can, and a failed write of the index, which
\* goes unnoticed.
OnlyInPlaceBreaks ==
  [][\A f \in Files :
       Readable(disk[f]) /\ ~Readable(disk[f])' =>
         op.kind \in {"rename", "delete"} \/ op.indexLost]_vars

\* The data of an entry that the file or the open handle lists is never overwritten,
\* neither by data nor by an index that grows or moves.
Listed(f) ==
  (IF Readable(disk[f]) THEN {r.at : r \in {Records(disk[f])[i] : i \in DOMAIN Records(disk[f])}}
   ELSE {})
  \cup (IF info.szFilename = f
        THEN {r.at : r \in {info.lpPckIndexTable[i] : i \in DOMAIN info.lpPckIndexTable}}
        ELSE {})
DataNeverOverwritten ==
  [][\A f \in Files : \A a \in Listed(f) \cap DOMAIN disk[f] :
       disk[f][a].kind = "data" => a < Size(disk'[f]) /\ disk'[f][a] = disk[f][a]]_vars

\* Between two operations the open handle knows where the archive on disk ends and
\* where its index is: the next operation writes there.
HandleMatchesFile ==
  op.pc = "idle" /\ info.isPckFileLoaded =>
    LET d == disk[info.szFilename]
    IN /\ Readable(d)
       /\ info.qwPckSize = d[0].size
       /\ info.dwAddressOfFileEntry = TailOf(d).entry

\* Adding files removes no entry from the archive, as long as nobody cancels and no file
\* has the name of a folder (UserMayCancel = FALSE, Folders = {}): what UpdatePckFile
\* has marked as replaced before a cancellation or a refusal is gone, here as in the code.
EntriesKept ==
  [][\A f \in Files :
       op.kind = "update" /\ Readable(disk[f]) /\ Readable(disk[f])'
         => NamesIn(disk[f]) \subseteq NamesIn(disk[f])']_vars

\* Adding an entry again replaces its record: no archive lists a name twice.
NoDuplicates ==
  \A f \in Files : Readable(disk[f]) =>
    \A i \in DOMAIN Records(disk[f]) : ~Shadowed(Records(disk[f]), i)

\* The data of every entry is where its record says.
DataIsThere ==
  \A f \in Files : \A r \in Contents(disk[f]) : r.job # 0
=============================================================================
