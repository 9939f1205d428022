------------------------------- MODULE PckTree -------------------------------
(***************************************************************************)
(* The directory tree of an open archive and what walks it: finding the    *)
(* entries that added files replace, renaming and deleting files and       *)
(* folders, extraction, the script that filters a rebuild, and the rebuild *)
(* itself, which copies what is valid to a new archive.                    *)
(*                                                                         *)
(* A name is a sequence of parts.  Writing the archive is one step here    *)
(* (PckArchive has the details), and it is mounted again behind every      *)
(* change, as the front end does.  Names that differ only in case are left *)
(* out: the script, unlike the tree, does not tell them apart.             *)
(***************************************************************************)
EXTENDS Integers, FiniteSets, SequencesExt

CONSTANTS
  Parts,            \* parts of names
  PartSize,         \* their length in bytes
  MAX_PATH_PCK_256, \* room for a name, with its end
  SizeModulus,      \* 2^32 or 2^64, the range of size_t
  AddedNames,       \* names of files that are added, relative to a folder
  SearchNames,      \* names an entry may be given in the list of a search
  DataSizes,        \* sizes of stored data
  Scripts,          \* scripts: sequences of lines [op, name]
  Textures,         \* names ModelTextureCheck accepts
  AddressModulus,   \* 2^32
  RenamesMayClash,  \* the user may give a file the name of a folder, or the reverse
  UserMayCancel,
  MaxEntries,       \* bounds
  MaxJobs

NameSize(p) == FoldLeft(LAMBDA n, part : n + PartSize[part] + 1, -1, p)

\* ".." stands for a step up in the directories of an extraction: no name has it.
ASSUME NamesAssumption ==
  /\ PartSize \in [Parts -> Nat \ {0}] /\ ".." \notin Parts
  /\ MAX_PATH_PCK_256 \in Nat /\ SizeModulus \in Nat /\ MAX_PATH_PCK_256 < SizeModulus
  /\ IsFiniteSet(AddedNames)
  /\ \A p \in AddedNames \cup SearchNames : p \in Seq(Parts) \ {<<>>}
ASSUME ScriptsAssumption ==
  \A script \in Scripts : script \in Seq([op : STRING, name : Seq(Parts)])
ASSUME BoundsAssumption ==
  /\ AddressModulus \in Nat \ {0} /\ DataSizes \subseteq Nat
  /\ {MaxEntries, MaxJobs} \subseteq Nat

VARIABLES
  disk,   \* the archive: its index records and its data
  table,  \* lpPckIndexTable
  nodes,  \* the tree: the node of every path
  state,  \* "open", "crashed" in building the tree, or "torn": see Overruns
  job,    \* the rebuild or the extraction under way
  jobs    \* operations begun

vars == <<disk, table, nodes, state, job, jobs>>

\* A record; id, which is not in the code, tells whose data it should be.
Record(p, at, n, id) == [name |-> p, at |-> at, size |-> n, id |-> id]
DataUnits(id, n) == [k \in 1..n |-> <<id, k>>]

PathsTo(p) == {SubSeq(p, 1, k) : k \in 1..Len(p)}
Clash(p, q) == IsStrictPrefix(p, q) \/ IsStrictPrefix(q, p)
Least(m, n) == IF m < n THEN m ELSE n

(***************************************************************************)
(* Building the tree.  A node is a folder until a record ends at it, and   *)
(* has the least room any of the names through it has left.                *)
(***************************************************************************)
Left(p) == MAX_PATH_PCK_256 - NameSize(p) - 1
\* A size_t: a name that fills its record to the last byte leaves room without end, and
\* so does not lessen that of its folders.
FilelenLeft(p) == IF Left(p) < 0 THEN Left(p) + SizeModulus ELSE Left(p)

\* A record that ends at a folder makes AddFileToNode mark a record that is not there.
AddFileToNode(t, i) ==
  LET p == t.table[i].name
      old == DOMAIN t.nodes
      left(q) == IF q \in old THEN t.nodes[q].left ELSE MAX_PATH_PCK_256
      node(q) == IF q = p THEN [index |-> i, folder |-> FALSE]
                 ELSE IF q \in old THEN t.nodes[q] ELSE [index |-> 0, folder |-> TRUE]
  IN IF ~t.built \/ (p \in old /\ t.nodes[p].index = 0) THEN [t EXCEPT !.built = FALSE]
     ELSE [t EXCEPT
            !.table = IF p \in old THEN [@ EXCEPT ![t.nodes[p].index].isInvalid = TRUE] ELSE @,
            !.nodes = [q \in old \cup PathsTo(p) |->
              IF q \notin PathsTo(p) THEN t.nodes[q]
              ELSE [index |-> node(q).index, folder |-> node(q).folder,
                    left |-> Least(left(q), FilelenLeft(p))]]]

BuildDirTree(index) ==
  FoldLeft(AddFileToNode,
    [built |-> TRUE, nodes |-> <<>>,
     table |-> [i \in DOMAIN index |->
       [rec |-> index[i], name |-> index[i].name, at |-> index[i].at,
        isInvalid |-> FALSE, isProtected |-> FALSE, isToDeDelete |-> FALSE]]],
    [i \in DOMAIN index |-> i])

NoJob == [pc |-> "none"]

\* variant: the archive is not mounted again
SaveOnly(index, data) ==
  /\ disk' = [index |-> index, data |-> data]
  /\ job' = NoJob /\ UNCHANGED <<table, nodes, state>>
\* The archive is written, and mounted again.
Save(index, data) ==
  /\ disk' = [index |-> index, data |-> data]
  /\ LET t == BuildDirTree(index)
     IN /\ table' = t.table /\ nodes' = t.nodes
        /\ state' = IF t.built THEN "open" ELSE "crashed"
  /\ job' = NoJob

Init ==
  /\ disk = [index |-> <<>>, data |-> <<>>]
  /\ table = <<>> /\ nodes = <<>>
  /\ state = "open" /\ job = NoJob /\ jobs = 0

Begin ==
  /\ state = "open" /\ job = NoJob /\ jobs < MaxJobs
  /\ jobs' = jobs + 1

\* What WriteAllIndex takes over from the table.
Written(t) ==
  FoldLeft(LAMBDA index, r : IF r.isInvalid THEN index
                             ELSE Append(index, Record(r.name, r.at, r.rec.size, r.rec.id)),
           <<>>, t)
-----------------------------------------------------------------------------
(***************************************************************************)
(* Walks.  DeleteNode and RenameNodeEnum ask for children, the filter and  *)
(* extraction ask for the flag.                                            *)
(***************************************************************************)
HasChild(q) == \E r \in DOMAIN nodes : IsStrictPrefix(q, r)
Under(q) == {r \in DOMAIN nodes : IsStrictPrefix(q, r)}
Leaves(q) == {nodes[r].index : r \in {s \in Under(q) : ~HasChild(s)}}
Flagged(q) ==
  {nodes[r].index : r \in {s \in Under(q) :
     ~nodes[s].folder /\ \A f \in PathsTo(s) \ {s} : Len(f) > Len(q) => nodes[f].folder}}

\* FindFileNode from a folder: the record found, 0, or INVALID_NODE for a file where
\* a folder is wanted or the reverse.
INVALID_NODE == -1
\* variant: a file on the way is taken for a folder
FindFileNodeAtEnd(base, p) ==
  LET q == base \o p
  IN IF q \notin DOMAIN nodes THEN 0 ELSE IF HasChild(q) THEN INVALID_NODE ELSE nodes[q].index
\* variant: a folder of the name that is wanted for a file is overlooked
FindFileNodeOverlooked(base, p) ==
  LET q == base \o p
      onTheWay == {r \in PathsTo(q) \ {q} : Len(r) > Len(base) /\ r \in DOMAIN nodes}
  IN IF \E r \in onTheWay : ~HasChild(r) THEN INVALID_NODE
     ELSE IF q \notin DOMAIN nodes THEN 0 ELSE nodes[q].index
FindFileNode(base, p) ==
  LET q == base \o p
      onTheWay == {r \in PathsTo(q) \ {q} : Len(r) > Len(base) /\ r \in DOMAIN nodes}
  IN IF \E r \in onTheWay : ~HasChild(r) THEN INVALID_NODE
     ELSE IF q \notin DOMAIN nodes THEN 0
     ELSE IF HasChild(q) THEN INVALID_NODE ELSE nodes[q].index

Folders == {<<>>} \cup {q \in DOMAIN nodes : nodes[q].folder}

\* A file is stored behind all data, its record behind all others.
Stored(a, p, n) ==
  LET id == <<jobs, Len(a.index) + 1>>
  IN [index |-> Append(a.index, Record(p, Len(a.data), n, id)), data |-> a.data \o DataUnits(id, n)]
StoredAll(a, base, files, sizes) == FoldLeft(LAMBDA b, p : Stored(b, base \o p, sizes[p]), a, files)

\* Files of a folder of the disk are added to one of the archive.  A clash refuses
\* them all, but the records marked before stay so.
Add(base, names, sizes) ==
  /\ Begin
  /\ Len(table) + Cardinality(names) <= MaxEntries
  /\ \A p \in names : NameSize(base \o p) < MAX_PATH_PCK_256
  /\ \A p, q \in names : ~Clash(p, q)
  /\ LET found == [p \in names |-> FindFileNode(base, p)]
         marked(P) == [i \in DOMAIN table |->
           [table[i] EXCEPT !.isInvalid = @ \/ \E p \in P : found[p] = i]]
         a == StoredAll([index |-> Written(marked(names)), data |-> disk.data],
                        base, SetToSeq(names), sizes)
     IN IF \E p \in names : found[p] = INVALID_NODE
        THEN /\ \E P \in SUBSET {p \in names : found[p] # INVALID_NODE} : table' = marked(P)
             /\ UNCHANGED <<disk, nodes, state, job>>
        ELSE Save(a.index, a.data)

\* Deleting a file or a folder; an archive without entries is left out.
Delete(q) ==
  /\ Begin
  /\ LET gone == IF nodes[q].folder THEN Leaves(q) ELSE {nodes[q].index}
         t == [i \in DOMAIN table |-> [table[i] EXCEPT !.isInvalid = @ \/ i \in gone]]
     IN /\ Written(t) # <<>>
        /\ Save(Written(t), disk.data)

\* Renaming a file in its folder, a folder, or an entry in the list of a search.
\* variant: only the name of the node itself is looked at
RoomForNode(q, part) == NameSize([q EXCEPT ![Len(q)] = part]) < MAX_PATH_PCK_256
RoomFor(q, part) == PartSize[part] <= nodes[q].left + PartSize[Last(q)]

Renamed(I, p) == [i \in DOMAIN table |->
  IF i \in I THEN [table[i] EXCEPT !.name = p[i]] ELSE table[i]]

Rename(t) ==
  /\ Begin
  /\ RenamesMayClash
       \/ \A i, j \in DOMAIN Written(t) : ~Clash(Written(t)[i].name, Written(t)[j].name)
  /\ Save(Written(t), disk.data)

\* The room was that of a name which fills its record: a name is cut off by its record, or
\* the end of the record is cleared and what is behind it too.  What follows is left out.
Overruns(q, names) ==
  \/ \E i \in DOMAIN names : NameSize(names[i]) > MAX_PATH_PCK_256
  \/ ~nodes[q].folder /\ NameSize(q) >= MAX_PATH_PCK_256
Tear ==
  /\ Begin
  /\ state' = "torn"
  /\ UNCHANGED <<disk, table, nodes, job>>

RenameNode(q, part) ==
  /\ RoomFor(q, part)
  /\ LET I == IF nodes[q].folder THEN Leaves(q) ELSE {nodes[q].index}
         names == [i \in I |-> [table[i].name EXCEPT ![Len(q)] = part]]
     IN IF Overruns(q, names) THEN Tear ELSE Rename(Renamed(I, names))

\* The test lets a name through that leaves no room for its end.
RenameIndex(i, p) ==
  /\ ~table[i].isInvalid
  /\ NameSize(p) <= MAX_PATH_PCK_256
  /\ Rename(Renamed({i}, [j \in {i} |-> p]))
-----------------------------------------------------------------------------
(***************************************************************************)
(* The filter.  ParseScript keeps a record for the line it reads next, so  *)
(* the list it leaves ends with one of no operation and no name.           *)
(***************************************************************************)
ParseScript(script) == Append(script, [op |-> "unknown", name |-> <<>>])
\* ParseOneLine refuses a line
IsBad(script) == \E k \in DOMAIN script : script[k].op = "bad"

MarkFilterFlagToFileIndex(r, op) ==
  IF op = "protect" THEN [r EXCEPT !.isProtected = TRUE]
  ELSE IF op \in {"delete", "rmdir"} /\ ~r.isInvalid /\ ~r.isProtected
       THEN [r EXCEPT !.isToDeDelete = TRUE, !.isInvalid = TRUE]
       ELSE r

Covered(q) == IF nodes[q].folder THEN Flagged(q) ELSE {nodes[q].index}

\* One line.  A name LocationFileIndex does not find makes the script fail, and the
\* lines behind it are applied all the same.
ApplyLine(f, line) ==
  IF line.op = "chkfile" THEN f
  ELSE IF line.name \notin DOMAIN nodes THEN [f EXCEPT !.failed = TRUE]
  ELSE [f EXCEPT
         !.edited = @ \cup Covered(line.name),
         !.table = [i \in DOMAIN @ |->
           IF i \in Covered(line.name) THEN MarkFilterFlagToFileIndex(@[i], line.op) ELSE @[i]]]

\* variant: what was invalid before becomes valid
ResetAll(t, edited) ==
  [i \in DOMAIN t |-> IF i \in edited
     THEN [t[i] EXCEPT !.isInvalid = FALSE, !.isProtected = FALSE, !.isToDeDelete = FALSE]
     ELSE t[i]]
ResetRebuildFilterInIndexList(t, edited) ==
  [i \in DOMAIN t |-> IF i \in edited
     THEN [t[i] EXCEPT !.isInvalid = @ /\ ~t[i].isToDeDelete,
                       !.isProtected = FALSE, !.isToDeDelete = FALSE]
     ELSE t[i]]

Unfiltered == [table |-> table, edited |-> {}, failed |-> FALSE]
ApplyLines(lines) == FoldLeft(ApplyLine, Unfiltered, lines)

\* A script with a line that does not parse is not applied, one that fails is undone;
\* the rebuild goes on without it.
ApplyScript(script) ==
  IF script = <<>> \/ IsBad(script) THEN Unfiltered
  ELSE LET f == ApplyLines(ParseScript(script))
       IN IF f.failed THEN [f EXCEPT !.table = ResetRebuildFilterInIndexList(@, f.edited)] ELSE f

StripModelTexture ==
  LET I == {i \in DOMAIN table : table[i].name \in Textures /\ ~table[i].isInvalid}
  IN [Unfiltered EXCEPT !.edited = I,
        !.table = [i \in DOMAIN @ |-> IF i \in I
          THEN [@[i] EXCEPT !.isToDeDelete = TRUE, !.isInvalid = TRUE] ELSE @[i]]]

(***************************************************************************)
(* The rebuild.  "rebuild" copies in the order of the index, the threads   *)
(* of "recompress" and "strip" in any order (ThreadRunner has them).  An   *)
(* archive without entries is left out.                                    *)
(***************************************************************************)
Start(kind, script) ==
  /\ Begin
  /\ LET f == IF kind = "strip" THEN StripModelTexture ELSE ApplyScript(script)
     IN /\ Written(f.table) # <<>>
        /\ table' = f.table
        /\ job' = [pc |-> "copy", kind |-> kind, script |-> script, edited |-> f.edited,
                   stopped |-> FALSE, out |-> <<>>, data |-> <<>>, copied |-> {},
                   before |-> table]
  /\ UNCHANGED <<disk, nodes, state>>

ToCopy == {i \in DOMAIN table : ~table[i].isInvalid} \ job.copied
DataAt(at, n) == SubSeq(disk.data, at + 1, at + n)

\* A plain rebuild reads from an address it has put into 32 bits, and has the new
\* address in the record while that is written to the index.
SourceAddress(at) == IF job.kind = "rebuild" THEN at % AddressModulus ELSE at

\* variant: the record keeps the new address
NotRestored(at) == IF job.kind = "rebuild" THEN Len(job.data) ELSE at
Restored(at) == at

\* variant: the record is written with the address of the source
FilledFromSource(r, at) == Record(r.name, r.at, r.rec.size, r.rec.id)
FillIndexData(r, at) == Record(r.name, at, r.rec.size, r.rec.id)

InTurn(i) ==
  /\ i \in ToCopy
  /\ job.kind = "rebuild" => ~job.stopped /\ \A k \in ToCopy : i <= k

Copy(i) ==
  /\ job.pc = "copy" /\ InTurn(i)
  /\ LET r == table[i]
         from == SourceAddress(r.at)
     IN /\ job' = [job EXCEPT
                     !.copied = @ \cup {i},
                     !.out = Append(@, FillIndexData(r, Len(job.data))),
                     !.data = @ \o DataAt(from, r.rec.size)]
        /\ table' = [table EXCEPT ![i].at = Restored(from)]
  /\ UNCHANGED <<disk, nodes, state, jobs>>

Cancel ==
  /\ UserMayCancel /\ job.pc \in {"copy", "extract"} /\ ~job.stopped
  /\ job' = [job EXCEPT !.stopped = TRUE]
  /\ UNCHANGED <<disk, table, nodes, state, jobs>>

\* The filter object goes: index, tail and head are written for what was copied, or
\* a view of the source has failed.
Return(pc) ==
  /\ job' = [job EXCEPT !.pc = pc]
  /\ table' = ResetRebuildFilterInIndexList(table, job.edited)
  /\ UNCHANGED <<disk, nodes, state, jobs>>
Finish == job.pc = "copy" /\ (ToCopy = {} \/ job.stopped) /\ Return("done")
ViewFails == job.pc = "copy" /\ job.kind = "rebuild" /\ ToCopy # {} /\ Return("failed")

\* The user goes on with the archive that is open, or opens the new one.
Leave ==
  /\ job.pc \in {"done", "failed", "extracted"} /\ job' = NoJob
  /\ UNCHANGED <<disk, table, nodes, state, jobs>>
OpenRebuilt ==
  /\ job.pc = "done" /\ job.out # <<>>
  /\ Save(job.out, job.data)
  /\ UNCHANGED jobs

(***************************************************************************)
(* Extraction.  A level is what StartExtract has left of a folder, in any  *)
(* order; cwd is the current directory, seen from the destination.         *)
(***************************************************************************)
Children(q) == {r \in DOMAIN nodes : Len(r) = Len(q) + 1 /\ IsPrefix(q, r)}
Up(path) == IF path = <<>> \/ Last(path) = ".." THEN Append(path, "..") ELSE Front(path)

ExtractFiles(base, Q) ==
  /\ Begin /\ Q # {}
  /\ job' = [pc |-> "extract", base |-> base, chosen |-> Q, levels |-> <<Q>>, cwd |-> <<>>,
             written |-> {}, failed |-> FALSE, lost |-> FALSE, stopped |-> FALSE]
  /\ UNCHANGED <<disk, table, nodes, state>>

ExtractNext(r) ==
  /\ job.pc = "extract" /\ ~job.stopped /\ r \in Last(job.levels)
  /\ UNCHANGED <<disk, table, nodes, state, jobs>>
Rest(r) == [job.levels EXCEPT ![Len(job.levels)] = @ \ {r}]

\* Nobody asks whether the folder could be made and entered.
EnterFolder(r) ==
  /\ ExtractNext(r) /\ nodes[r].folder
  /\ \E made \in BOOLEAN :
       job' = [job EXCEPT !.levels = Append(Rest(r), Children(r)),
                          !.cwd = IF made THEN Append(@, Last(r)) ELSE @,
                          !.lost = @ \/ ~made]
\* variant: a failure goes back to the folder above, and not to its directory
FailWithoutUp ==
  job' = [job EXCEPT !.failed = TRUE, !.levels = IF Len(@) = 1 THEN <<{}>> ELSE Front(@)]
FailLevel == job' = [job EXCEPT !.failed = TRUE, !.levels[Len(job.levels)] = {}]

DecompressFile(r) ==
  /\ ExtractNext(r) /\ ~nodes[r].folder
  /\ \/ job' = [job EXCEPT !.levels = Rest(r),
                            !.written = @ \cup {[at |-> Append(job.cwd, Last(r)), index |-> nodes[r].index]}]
     \/ FailLevel
\* A level that has nothing left, was cancelled or has failed.
LeaveFolder ==
  /\ job.pc = "extract" /\ (job.stopped \/ Last(job.levels) = {})
  /\ job' = IF Len(job.levels) = 1 THEN [job EXCEPT !.pc = "extracted"]
            ELSE [job EXCEPT !.levels = Front(@), !.cwd = Up(@)]
  /\ UNCHANGED <<disk, table, nodes, state, jobs>>

Edit ==
  \/ \E base \in Folders, names \in SUBSET AddedNames \ {{}} :
       \E sizes \in [names -> DataSizes] : Add(base, names, sizes)
  \/ \E q \in DOMAIN nodes : Delete(q) \/ \E part \in Parts : RenameNode(q, part)
  \/ \E i \in DOMAIN table, p \in SearchNames : RenameIndex(i, p)

Next ==
  \/ Edit
  \/ \E script \in Scripts \cup {<<>>}, kind \in {"rebuild", "recompress"} : Start(kind, script)
  \/ Start("strip", <<>>)
  \/ \E i \in DOMAIN table : Copy(i)
  \/ \E base \in Folders : ExtractFiles(base, Children(base))
  \/ \E q \in DOMAIN nodes : ExtractFiles(Front(q), {q})
  \/ \E q \in DOMAIN nodes : EnterFolder(q) \/ DecompressFile(q)
  \/ LeaveFolder \/ Cancel \/ Finish \/ ViewFails \/ Leave \/ OpenRebuilt

Spec == Init /\ [][Next]_vars
-----------------------------------------------------------------------------
(***************************************************************************)
(* Properties.                                                             *)
(***************************************************************************)
Names == {table[i].name : i \in DOMAIN table}
Records == [name : Names, at : Nat, size : DataSizes, id : Nat \X Nat]

\* The tree has a node for every part of every name, table and index belong together.
TypeOK ==
  /\ state \in {"open", "crashed", "torn"} /\ jobs \in 0..MaxJobs
  /\ DOMAIN table = DOMAIN disk.index /\ Len(table) <= MaxEntries
  /\ \A i \in DOMAIN table :
       /\ disk.index[i] \in Records /\ table[i].at \in Nat
       /\ {table[i].isInvalid, table[i].isProtected, table[i].isToDeDelete} \subseteq BOOLEAN
  /\ state = "open" => DOMAIN nodes = UNION {PathsTo(p) : p \in Names}
  /\ \A q \in DOMAIN nodes : nodes[q].index \in 0..Len(table) /\ nodes[q].folder \in BOOLEAN
  /\ job.pc \in {"none", "copy", "done", "failed", "extract", "extracted"}

\* What the program writes it can open again: no sequence of adding, deleting, rebuilding
\* and renaming lets AddFileToNode mark a record that is not there, as long as no renaming
\* gives a file the name of a folder or the reverse, which the code does not check: with
\* RenamesMayClash = TRUE one such renaming is enough to crash it.
MountsAgain == state # "crashed"

\* Walking the folders of a mounted archive, as the filter does, finds
\* every valid record at its name, once: none is hidden below a file.  This too is for
\* renames that do not clash (RenamesMayClash = FALSE), and does not hold with others.
TreeShowsAll ==
  state = "open" =>
    LET t == BuildDirTree(disk.index)
        shown == {q \in DOMAIN t.nodes :
                    ~t.nodes[q].folder /\ \A f \in PathsTo(q) \ {q} : t.nodes[f].folder}
    IN /\ {t.nodes[q].index : q \in shown} = {i \in DOMAIN t.table : ~t.table[i].isInvalid}
       /\ \A q \in shown : t.table[t.nodes[q].index].name = q

\* However files are added and folders renamed, each name fits its record with its end,
\* also the longest below a folder, and none is cut off.  Only a search can put an end to
\* that: RenameIndex accepts a name that fills the record to its last byte, and that one
\* name has no end then.  From such a state nothing is promised, as the room of the
\* folders is wrong (see Overruns).
Fits(p) == NameSize(p) < MAX_PATH_PCK_256
AllFit == state # "torn" /\ \A i \in DOMAIN table : Fits(table[i].name)
FilledBySearch ==
  /\ state # "torn"
  /\ \E p \in SearchNames :
       /\ NameSize(p) = MAX_PATH_PCK_256
       /\ \A i \in DOMAIN table : Fits(table[i].name) \/ table[i].name = p
NamesFit == [][AllFit => AllFit' \/ FilledBySearch']_vars

\* Names the filter of the rebuild under way may take out: the first line that covers
\* the name deletes it.
Deletes(script, p) ==
  \E k \in DOMAIN script :
    /\ script[k].op \in {"delete", "rmdir"} /\ script[k].name \in PathsTo(p)
    /\ \A j \in 1..(k - 1) : ~(script[j].op = "protect" /\ script[j].name \in PathsTo(p))
Filtered(p) == IF job.kind = "strip" THEN p \in Textures ELSE Deletes(job.script, p)

\* A new archive holds valid entries of the old one, each once and with its data; one
\* that was not cancelled has all of them but those the filter names.
RebuiltWhole ==
  job.pc = "done" =>
    LET valid == {i \in DOMAIN table : ~job.before[i].isInvalid}
        ids == {job.out[k].id : k \in DOMAIN job.out}
    IN /\ Cardinality(ids) = Len(job.out)
       /\ ids \subseteq {disk.index[i].id : i \in valid}
       /\ \A k \in DOMAIN job.out :
            LET r == job.out[k]
            IN /\ r.at + r.size <= Len(job.data)
               /\ SubSeq(job.data, r.at + 1, r.at + r.size) = DataUnits(r.id, r.size)
       /\ ~job.stopped => \A i \in valid : disk.index[i].id \in ids \/ Filtered(table[i].name)

\* Whatever fails or is cancelled on the way, a file is written at its place below the
\* destination, and if nothing is, all are; that every folder could be made is assumed.
ExtractedInPlace ==
  job.pc \in {"extract", "extracted"} /\ ~job.lost =>
    /\ \A w \in job.written : job.base \o w.at = table[w.index].name
    /\ job.pc = "extracted" /\ ~job.failed /\ ~job.stopped =>
         {w.index : w \in job.written}
           = UNION {IF nodes[q].folder THEN Flagged(q) ELSE {nodes[q].index} : q \in job.chosen}

\* A rebuild leaves the table of the open archive as it found it, marks and addresses,
\* whatever the filter marked and however it ends.
HandleUnchanged == [][job.pc = "copy" /\ job'.pc # "copy" => table' = job.before]_vars

\* A script whose lines parse and name what is there decides what the new archive holds.
ScriptApplied ==
  job.pc = "done" /\ ~job.stopped
    /\ (\A k \in DOMAIN job.script :
          job.script[k].op # "bad" /\ (job.script[k].op # "chkfile" => job.script[k].name \in DOMAIN nodes))
    => \A k \in DOMAIN job.out : ~Deletes(job.script, job.out[k].name)
=============================================================================
