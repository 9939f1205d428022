# WinPCK in TLA+

WinPCK reads and writes `.pck` archives, the file packages of a game engine. An archive is a
head, the data of the entries, the index table, and a tail; a part `.pkx` continues it when it
gets large. The program is a library (`src/PckDll`) with a Win32 front end (`src/WinPCK`).
This directory holds TLA+ models of its core, the TLC runs that check them on small instances,
and TLAPS proofs about them.

## 1. Inventory

`C/` stands for `src/PckDll/PckClass/`.

**Compression pipeline** (`C/PckThreadRunner*.cpp`). *State*: the source list position, the
compressed entries in a queue, the index records made so far, the address of the next entry, the
memory in use (`dwMTMemoryUsed`) against `dwMTMaxMemory`, the flag that somebody waits for
memory. *Operations*: `startThread` starts `dwMTThread` compressors and one writer, and joins
them; `GetUncompressedDataFromFile`/`FromPCK` take an entry and get its buffers;
`putCompressedDataQueue`/`getCompressedDataQueue`; `WriteThread`; the failure branch of
`WriteThread`; `start`, which then writes index, tail and head. *Hard*: six critical sections
under five mutexes and two condition variables, cancellation at any point, failures of `malloc`,
views and writes. *Correct when*: the records published are exactly the entries stored, back to
back, once each, all of them unless the job was stopped; the memory accounting is exact and
bounded; the job ends.

**Operation flags and errors** (`C/PckClassBaseFeatures.cpp`, `C/PckStructs.h`).
`bThreadRunning`, `bForcedStopWorking`, `errMessageNo`. `SetThreadFlag`, `SetErrMsgFlag`,
`CheckIfNeedForcedStopWorking`. *Correct when*: what went wrong is still there for the caller to
read when the job is over.

**Archive writer** (`C/PckClassAppendFiles.cpp`, `PckClassRenamer.cpp`, `PckClassIndexWriter.cpp`,
`PckClassHeadTailWriter.cpp`). *State*: the index table in memory with an `isInvalid` mark per
record, `dwFileCount`, `dwFileCountOld`, `dwFileCountToAdd`, `lpPckIndexTableToAdd`,
`qwPckSize`, `dwAddressOfFileEntry`. *Operations*: add files behind the tail, rename or delete and rewrite
the index in place. *Hard*: a crash between any two writes; early returns that leave state behind
in a handle that stays open; a pointer into an object that is gone. *Correct when*: an
archive on disk can always be opened with the entries before or after the operation.

**Archive reader** (`C/PckClassMount.cpp`, `PckClassVersionDetect.cpp`, `PckClassIndexRead.cpp`).
*Operations*: read the head, the tail at the size the head gives, the index; truncate what is
behind. It is the recovery of the archive writer.

**Session** (`src/PckDll/src/pck_handle.cpp`, `src/PckDll/PckControlCenter`, used by
`src/WinPCK/threadproc.cpp`, `winmain.cpp`, `mainfunc.cpp`, `MenuButtonFuncs.cpp`). *State*: one
global archive object, whether an archive is open in it, the three flags, the front end's
`bGoingToExit`. *Operations*: open, close, cancel, exit, and the seven long operations the user
starts, each on a worker thread. *Hard*: every test of the working flag is a step of another thread
than its setting; deleting the object and `Reset()` do not ask who uses it; the window thread waits
in `pck_close` without reading messages, and log lines are messages sent under a lock. *Correct
when*: a job keeps its flag, its object and its cancellation until it ends; the window comes back to the user.

**Memory mapped files** (`src/self-dev/MapViewFile`). *State*: the files (`.pck`, `.pkx`, ...) of one
address space with the size and the mapped length of each. *Operations*: create, open, grow in
steps, map, write over a file boundary, set the end, remove what is empty. *Hard*: the writer gives each file
a fixed range, the reader puts files end to end; boundaries; a full disk; a crash between two files.
*Correct when*: what is written at an address is what a reader finds there.

**Directory tree** (`C/PckClassNode.cpp`). *State*: a node for every path, with the record that ends there
and the room its longest name has left. *Operations*: build, find, mark what added files
replace, delete and rename files and folders. *Correct when*: what is written mounts again, nothing is hidden,
names fit.

**Rebuild and its filter** (`C/PckClassRebuild.cpp`, `PckClassRebuildFilter.cpp`, `PckModelStrip.cpp`).
Copies the valid entries to a new archive, with or without recompression. A script, or the strip, marks entries
invalid for that time. *Correct when*: the new archive is whole, and the open one is as it was.

**Extraction** (`C/PckClassExtract.cpp`). A recursive walk that keeps the current directory of the process
in step with it. *Correct when*: files end up at their places.

**The rest**: choice of the files to add, formats and keys, `.zup` archives, the user interface, helper libraries, and vendored code. `PROJECT.json` lists all of
them with the reason why they are not modelled.

**Interactions.** The front end starts a worker thread, which calls the handle interface; that calls the
control centre, which owns one `CPckClass`. Its writer builds a `THREAD_PARAMS` and runs a
`CPckThreadRunner` on the caller's thread until its own threads are joined. The window thread reads progress
and sets `bForcedStopWorking` meanwhile. When the operation is over the front end opens the
archive anew, which throws the whole in-memory state away.

## 2. Modules

| module | models | state and actions |
| --- | --- | --- |
| `ThreadRunner` | `CPckThreadRunner` with the parts of `CPckClassBaseFeatures` and `WriteAllIndex` it calls | `pc[t]` is where a thread is; one action per critical section, and per step outside one that touches shared state |
| `ArchiveAppend` | the promise of that pipeline: entries stored one by one, back to back, and an index that is exactly them | `Store`, `Stop`, `Publish`, `Resume` |
| `MCThreadRunner` | sizes for TLC | |
| `ThreadRunnerProofs` | theorems about `ThreadRunner`: the published index | |
| `ThreadRunnerRefinement` | and: each entry once, the promise of `ArchiveAppend` kept | |
| `ThreadRunnerBuffers` | and: buffers and their owners, the memory budget; sums over finite sets | |
| `PckArchive` | the archive file and the handle that edits it: update, new, delete, rename, comment, mount, crash | one action per write to the file; `info` is `m_PckAllInfo`, `disk` the files |
| `AtomicArchive` | the promise of an update: whoever mounts the file finds the entries before it or after it | `Replace` |
| `PckArchiveProofs` | theorems about `PckArchive`: files and types, what the handle knows of its file, what no step destroys | |
| `PckArchiveAtomicity` | and: the promise of `AtomicArchive` kept, no entry lost | |
| `PckSession` | the handle interface, the control centre, the worker functions and message handlers of the front end | `todo[t]` holds the steps thread `t` has left, by name; one action per kind of step |
| `MCPckSession` | symmetry for TLC | |
| `PckSessionProofs` | theorems about `PckSession` | |
| `MultiFile` | `CMapViewFileMulti*`: the files of an archive as one address space, and the jobs that write it | one action per mapping, write, cut and removal; `disk` the files, `cells`, `size`, `mapped`, `full` the writer |
| `MultiFileProofs` | theorems about `MultiFile` | |
| `PckTree` | `CPckClassNode`, the filter, the rebuild, the strip, extraction | `table` and `nodes` are the open archive, `job` the rebuild or extraction under way |
| `MCPckTree` | names and scripts for TLC | |
| `PckTreeProofs` | theorems about `PckTree`, and lemmas about folds, prefixes and marks | |

`PckArchive` takes the storing of data by the promise `ArchiveAppend` states and
`ThreadRunner` is shown to keep (`Store`, `Stop`, `ThreadsJoined`). `ThreadRunner` in turn takes
the writing of index, tail and head as one step.

**ThreadRunner.** An entry is a number; its sizes (`Clear`, `Bound`, `Packed`, `Stored`,
`Inflated`) are constants, and the bytes are left out: nothing the properties tell apart depends
on them. `heap` is the set of allocated buffers, so that a leak or a double free is visible.
`disk` is the set of extents written. `m_LockQueue` is released while the writer waits, so a `get`
on an empty queue is split into the test of the stop flag (`GetFindsEmpty`) and the wait
(`GetWaits`): a notification given under the lock cannot fall between the two (`QueueUnlocked`),
one given without it can.

**PckArchive.** A file is a function from addresses to units: the head, the data of one entry, one index
record, the tail. Data and index are written unit by unit, so that a crash (`Crash`, the process
only: mapped pages survive it) falls between any two of them. The head is one unit because its
twelve bytes are copied in one call within one page. `MountPckFile` is what is left of a file: `Detected` and
`Readable` are what the reader insists on, `CutToSize` what it cuts off. Failing calls are
`MayFail`, and each early return leaves in `info` what the code leaves there. `Folders` stands for the names that are folders of the archive: an
update with such a name is refused halfway through the search for duplicates. The names of one
update are distinct, which the file system guarantees for one directory.

**PckSession.** The window thread and the workers run sequences of steps; `Begin`, `Body` and `Finish` are
those sequences for each operation, and a step such as `pck_open` replaces itself by what it calls
(`Push`). `SetThreadFlag`, `ClearThreadFlag`, `Delete` (with `Reset`) and `New` are single steps because
each writes the shared state once. Messages to the window thread are synchronous: the sender goes on when
the window has nothing left to do (`Pumping`); while a message box is shown it still reads messages, and the user
can do nothing else (`asking`). The operations themselves are two steps that matter here, one that may return early (`prepare`) and the job
proper (`work`). Which buttons are disabled is left out: they are disabled by messages, later than the races
begin, so the model lets the user start whatever the menu functions do not refuse by themselves. Three variables
are not in the code. `flagged` holds the workers between the two calls of `SetThreadFlag`; `abandoned` says that a
rebuild returned without the second; `raced` keeps the workers whose job another
thread's test of the flag has missed. The code does not exclude that case, and the properties say what it
guarantees outside of it.

**MultiFile.** The archive is what uses addresses: a head of one unit that gives its size, data, index and tail. A
unit on disk is its address and the job that wrote it, so that any shift of contents is visible. `SpaceMayLack` lets
the room found on the disk be anything less than what is wanted, and a mapping fail where a file would have to
grow. A crash may come between any two writes, and between two files in `SetEndOfFile` and `Close`.

**PckTree.** A name is a sequence of parts with lengths. `id` in a record, which the code does not have, tells whose data it should
have. Writing an archive and mounting it again is one step (`Save`); `PckArchive` has
the details. The nodes are a function from paths; building it is the fold of `AddFileToNode` over the index,
which ends in "crashed" where the code marks the record of a folder that has none. Sizes are `size_t` (`SizeModulus`): the
room a name leaves that fills its record wraps around. A rename that writes beyond a record because of that (`Overruns`) ends in "torn",
behind which nothing happens. `ParseScript` adds
the unfilled line the code leaves at the end of its list. `ExtractNext` works on the innermost of a stack of levels, which is the
recursion of `StartExtract`; `cwd` is the current directory.

Comments of the form `variant` mark faulty forms of the definition that follows; nothing refers to
them. They show which property notices which fault (`PROJECT.json`, "mutants").

## 3. Runs

| run | instance | shows |
| --- | --- | --- |
| `file_faults` | 2 compressors, 4 files, a budget smaller than one buffer, `malloc`, open and write failing, cancellation | the published index is laid out, stored, complete, each entry once; who waits for memory is woken; refinement of `ArchiveAppend` |
| `pck` | 2 compressors recompress 5 entries, one invalid, one damaged; failing views and writes, cancellation; a budget (21) that makes compressors wait, the smallest with which they need not wait for each other | budget exact and overdrawn by one buffer per compressor at most, three buffers an entry all given back; what is published as above; with such a budget (`BudgetSuffices`) the job ends unless it was told to stop or a compressor gave up |
| `add` | 1 file, 3 updates, 3 names of which one a folder | `AddingIsAtomic`: refinement of `AtomicArchive` |
| `keep` | 2 files, 3 updates, nothing cancelled | no entry lost, doubled or without data |
| `edit` | 1 file, 4 operations of all kinds, everything may fail | handle and file agree between operations; only rename, delete and an index that was not written make a file unreadable; listed data is never overwritten |
| `session` | 2 workers that rebuild, 4 objects, symmetry of the workers | a job set in time keeps flag, object and cancellation, alone, and the process does not exit under it |
| `session_answers` | 1 worker, all 7 operations, fair | types; the window thread comes back to its messages, unless it is caught in the lock of the log |
| `multi_file` | 3 files of 3 units, growth by 2, room of 1, data of 1 or 3 units, tail of 2, 3 jobs, a full disk, crashes | each address reads what was written there; no write is refused while there is space; the files a job had end with the archive, none of them empty |
| `tree` | names of up to 3 parts in 7 bytes, 4 entries, 4 operations, 3 scripts, cancellation, failing views and folders; no rename gives a file the name of a folder or the reverse | archives mount again with every entry in sight, names fit until a search fills a record to its last byte, rebuilt archives are whole and the open one unchanged, files are extracted at their places |

Two compressors are enough for every race of two of the pipeline's critical sections, and three
valid entries keep both busy while the queue holds one. An archive hazard takes a state left by one operation, a second one to
meet it and at most a third to publish it, with the first needed to have an archive at all: three or four operations. Two
names give a replaced and an untouched entry, the third the clash. In the session a hazard is a test by one
thread, a step of a second and one of the window thread; a rebuild is the operation that may open an archive by itself, asks for the
version, sets the flag and may leave it set. `session_answers` has the others with one worker, and the theorems of section 4 hold for any number of workers with any of
them. Objects are numbers for
identity: with two workers at most three are in use at once, so that a fourth is always free. In `multi_file` the data
sizes put ends before, on and behind the boundaries between files, and the third job meets what two jobs and their crashes
left. In `tree` the limits let one part more, a longer part, and neither fit.

`violation` runs state what a comment, a declaration or a message of the program says, and show a
behaviour of the code that contradicts it:

| run | what happens |
| --- | --- |
| `forced_stop` | the last notification comes between the writer's test of the stop flag and its wait: the job never ends |
| `exit` | a confirmed exit during a job waits for an error number the end of the job has reset: the window never closes, and can not be closed any more |
| `script` | a rebuild with a script that parses copies what the script deletes: the unfilled last line makes every script fail |

Met on the way and not given a run of their own; each can be seen with the change named:

- A cancelled update removes the entries it was about to replace (`keep` with `UserMayCancel = TRUE`: `EntriesKept`), and the marks outlive a refused update.
- "New" with an archive open puts that archive's records in the new file (`keep` with `Operations = {"update", "new"}`: `DataIsThere`).
- It also writes that file's addresses into the handle of the open one. A comment that is then saved ("Save comment" reads them) puts a tail into the middle of the open archive, whose own tail is no longer where the head says: it can not be opened again (`edit` with a second file: `HandleMatchesFile`, `OnlyInPlaceBreaks`). The theorems about `PckArchive` leave "new" beside another file out, by the hypothesis `NewAlone`.
- A damaged entry that is stored in no bytes, though its record gives it a size, is recompressed to a record of length 0; the writer frees buffers only of records that have a length, so its buffer is never freed. The theorem about buffers leaves it out, by the hypothesis `SomethingIsWritten`.
- A refused update leaves `dwFileCountToAdd` set; a rename then reads that many records from a vector that is gone (`ReadGoneVector`).
- Recompression waits for memory that only recompression can free: each compressor keeps one buffer while it waits for the next, and with `MaxMemory = 20` both wait for ever. `Finishes` is about the budgets that exclude this (`BudgetSuffices`), and the run has the smallest of them; without that hypothesis it is violated at 20 with nothing failing.
- The "most memory used" (`PckStructs.h:350`) is exceeded, because the size asked for is not part of the test; `OverdraftBounded` says by how much. After a failed write the writer sets the budget to 0 while compressors still give buffers back, and the 32-bit counter wraps (`BudgetIsExact` leaves that case out).
- `SetThreadFlag(FALSE)` clears the error before the caller can read it: `exit` is one consequence, a cancelled job reported as done another.
- Two workers, or a worker and an opening or closing window, may both pass the test of the working flag before it is set. What then happens is what `raced` stands for: an object deleted under a job, a job that runs without its flag.
- The window thread writes a log line while a worker holds the lock of the log and waits for the window thread (`LogDeadlock`): both wait for ever.
- A plain rebuild of an archive above 4 GB reads its source addresses modulo 2^32 (`tree` with `AddressModulus = 2`: `RebuiltWhole`).
- Renaming a file to the name of a folder writes an archive the program cannot open again (`tree` with `RenamesMayClash = TRUE`: `MountsAgain`, `TreeShowsAll`). The code checks names when files are added, never when they are renamed; both properties are about sequences without such a rename.
- In the list of a search an entry can be given a name of exactly 256 bytes (`PckClassNode.cpp:331`; the edit box allows as many, `listViewFunc.cpp:314-323`), which fills its record and has no end there. The room such a name leaves is below zero in an unsigned number, so that its folders seem to have room for more; renaming one of these to a longer name cuts the name off, and renaming the file itself clears memory behind the record. `NamesFit` excepts that one step (`FilledBySearch`), the model ends in `Tear` where a later rename does the damage.
- Renaming so many entries that the index outgrows the last file there is (`multi_file` with `EditsMayCross = TRUE`: `ReadBack`).
- A crash between the removals of two empty files leaves the later one behind a gap. Nobody sees it, an edit in place does not open it and does not remove it: `EndsExact` speaks of the files a job had (`multi_file` with `MaxPck = 4`, `TailSize = 1`, `Chunks = {1}` has such a file).
- With four files instead of three, three crashes at the right places lose an archive: a third file that grew past its cell while it was the last one survives behind the gap of a removed second, and the next update builds on it (`multi_file` with `Cells = 4`, `MaxPck = 3`, `DetectSize = 1`, `StepSize = 2`, `TailSize = 1`, `Chunks = {1, 7}`, `MaxAddress = 13`: `ReadBack`). The table of suffixes has three (`MapViewFileMultiPck.cpp:7`); whoever adds one meets this.
- Deleting every entry contradicts an assertion (`PckClassHeadTailWriter.cpp:15`). An index that cannot be written goes unnoticed, and head and tail then publish an archive without one (`OnlyInPlaceBreaks` names the case). A new archive over an old file is opened with `OPEN_ALWAYS`, so the old head stays valid while its data is overwritten.
- A folder that cannot be made is entered all the same (`EnterFolder` with `made = FALSE`): what follows is written one level up or higher.

**Fairness.** `FairSpec` of `ThreadRunner` has weak fairness for each thread's own steps: the
operating system runs every thread that can go on, and the five second wait for memory ends by itself. A compressor
that asks for `m_LockQueue` again and again gets it in the end (strong fairness of `Push`). The
user's cancellation, failures and spurious wake-ups have no fairness. `FairSpec` of `PckSession` runs
every thread that has a step to do, and answers the question of a message box. A message that was sent is delivered
under strong fairness: `GetMessage` hands out sent messages before any posted input, so a user who keeps clicking cannot keep
a worker waiting. The user need not do anything. The waiting time of `pck_close` ends by itself. `PckArchive`, `MultiFile` and `PckTree` have
no fairness: they make only safety claims, and a crash may come at any time.

**Deadlock** is checked in `add`, `keep` and `edit`. It is not in the runs of `ThreadRunner`, where the writer may wait for
ever after a cancellation or a failed view (`forced_stop`, `Finishes`); not in those of `PckSession`, where the process ends (`quit`), or hangs in the
lock of the log, which `WindowAnswers` names; and not in `multi_file` and `tree`, where the number of jobs is bounded.

## 4. Proofs

All theorems hold for every value of the constants that satisfies the assumptions of the module they are about.
Each component has one inductive invariant; later modules add parts to it and never restate what an earlier one has
shown. The safety properties are not inductive by themselves, and what each invariant adds is the part of the
state a property silently depends on.

**The pipeline**: any number of threads and entries, any sizes, any budget and any set of faults.

`ThreadRunnerProofs` has `IInv`: `TypeOK`; `InHand`, that every compressor at work holds an entry of the
source and that a thread giving back a buffer has one to give; `WriterInv`, how the records and the address counter
relate to the extents on disk while the writer is between two critical sections; and `MainInv`, that `start` publishes
only after all threads ended. That the published index is laid out needs the address the writer is about to take, which
needs what it holds, which needs what was in the queue.

`ThreadRunnerRefinement` adds `Promise`, which follows an entry: it is in the hands of one compressor, then in the queue,
then among the records, and nowhere twice (`Apart`); all of these have been fetched (`Custody`); the writer gives up only
when a stop is flagged (`StopInv`); all data ends where the writer goes on (`DiskInv`). Every step is shown to
be one of four moves of entries, or none (`Moves`), and each move to keep `Promise`. The refinement
of `ArchiveAppend` then needs three cases: `WriteEntry` is `Store`, setting and clearing the flag are `Stop` and
`Resume`, `WriteIndex` is `Publish`, all else stutters. That `Publish` finds everything stored
unless it was stopped is `Apart` and a count: as many distinct entries as there are valid ones are all of them.

`ThreadRunnerBuffers` adds `Upkeep`: as long as the writer has not failed, every allocated buffer has an owner (`Owned`),
a compressor that holds the entry, the queue, the writer, or a list of buffers to be freed, and a thread has such a list
only while it is freeing. When all threads have ended there is no owner left. Its hypothesis `SomethingIsWritten` says that
what has a size is stored in more than no bytes, which holds for all that the compressor makes (section 3 has the exception).

It also adds `Accounts`. The budget is compared with sums over the allocated buffers, so this part begins with what
happens to a sum when one element joins, leaves or changes. The library's induction theorems take an operator, which cannot be
instantiated here; `SubsetInduction` says the same of sets of subsets and follows from the well-foundedness of the strict
subset order. Then `There`: every buffer a thread is about to free is allocated, with the size
it was charged with, no two buffers are for the same purpose, and what is about to be allocated is not there yet. A free therefore takes
out of the sum what it takes off the counter, but for the decompress buffer of a damaged entry, which gives back
what the entry inflated to: `GaveLess` says which entries are past that point, and `lost` collects them. The bound on the overdraft needs a stronger statement, because a
compressor that has passed the test may be overtaken by all the others: the charge is
below the limit plus one buffer for each compressor that is *not* between the test and the charge (`Limit`). Passing the test is only possible below the
limit itself; the charge uses up the place. Its hypothesis `SizesFit` is that the counter can hold the limit with one buffer for each compressor, and that
an entry never outgrows its buffers: zlib is called with the size of the buffer (`Inflated`), compresses within `compressBound` (`Packed`), and the stored
data of a damaged entry, which is copied into the buffer for the compressed, is not longer than that. The instances of the runs satisfy both hypotheses.

| theorem | states |
| --- | --- |
| `Invariant` | `Spec => []IInv` |
| `TypeCorrect` | `TypeOK` |
| `LayoutCorrect` | `PublishedLaidOut`: records lie back to back from the start address, the index behind them |
| `StorageCorrect` | `PublishedStored`: every published record names an extent that was written |
| `NoWaiterForgotten` | `WaitersAnnounced`: a compressor waiting for memory has said so |
| `PromiseInvariant` | `Spec => [](IInv /\ Promise)` |
| `NoneTwice` | `PublishedOnce`: no entry is published twice |
| `NoneMissing` | `PublishedComplete`: all are, unless there was a stop or an error |
| `DataOnlyAppended` | `DiskGrowsAtEnd`: data is only ever added behind all other data |
| `PipelineKeepsPromise` | `KeepsPromise`: refinement of `ArchiveAppend` |
| `NothingLeaks` | `NoLeakOnSuccess`, under `SomethingIsWritten`: a job without failure has freed every buffer |
| `BudgetExact` | `BudgetIsExact`: the counter is the sum of the buffers, whoever frees them and however it wraps |
| `OverdraftIsBounded` | `OverdraftBounded`, under `SizesFit`: at most one buffer too much for each compressor |

**The archive**: any number of files, names, operations and failures.

`PckArchiveProofs` has the lemmas about files (what a write, a cut and a mapping do to the units of a file) and
about the records that stay when some are marked, `TypeOK`, and `IInv`. Three parts are about what is always so: `FilesInv`, that tails stand right behind their
index and a readable archive names only places below it; `HandleInv`, that between operations, and while
something is added, the open handle knows its file. `OperationInv` says for each step of an operation what it has
written so far: an addition leaves everything below the old end alone and puts records where the writer put the
data (`AppendInv`); an edit writes only to the index (`EditInv`); the index on disk is the one in memory as far as it has come
(`WriteInv`), and the tail is there before the head (`EndInv`). One part took a counterexample to find: an
interrupted addition to a file that never had a head leaves records behind, which a later one could take for its own, were they not
all in the wrong place (`LeftRecords`: a record at address a names a place not above a/2, because the data of such a file
starts at its beginning and has as many units as the index). The hypothesis `NewAlone` is explained in section 3.

`PckArchiveAtomicity` adds `AddInv`, for archives that are only added to (`AddOnly`: an edit in place is not atomic,
and an index that cannot be written goes unnoticed). Every record of a readable file has its data, of the name it says,
and no name is listed twice (`DiskWhole`); the table in memory is the index on disk but for the marks (`HandleWhole`); the new records have
the data of this job under distinct names, and no old record that stays has one of these (`AddedWhole`). So the index an operation
writes lists every name once, and the head, written last, is the step that turns the old contents into
the new: `Replace` of `AtomicArchive`. All others leave what a mount finds as it was.

`Replace` may leave entries out, and a cancelled addition does. `AllStored` excludes that: nobody cancels, and no addition is given up between
the marking of duplicates and the storing. `KeepInv` then says that between operations nothing is marked, that during one only what will be stored
again is, and that all of it has been stored when the index is written. A valid record finds its place in the new index by its rank (`NthLemma`).
The hypothesis is that of the run `keep`; section 3 has what happens without it.

| theorem | states |
| --- | --- |
| `TypeCorrect` | `TypeOK` |
| `LayoutInvariant` | `IInv`, under `NewAlone` |
| `HandleAlwaysMatches` | `HandleMatchesFile`: between operations, handle and file agree on where the archive ends |
| `OnlyEditsBreak` | `OnlyInPlaceBreaks`: no addition makes a readable archive unreadable |
| `DataStays` | `DataNeverOverwritten`: no step overwrites or cuts off the data of a listed entry |
| `AdditionInvariant` | `AddInv`, under `NewAlone` and `AddOnly` |
| `EveryEntryHasData` | `DataIsThere`, under the same |
| `NoNameTwice` | `NoDuplicates`, under the same |
| `AdditionsAreAtomic` | `AddingIsAtomic`, under the same: refinement of `AtomicArchive` |
| `NoEntryLost` | `EntriesKept`, under these and `AllStored`: adding removes no entry |

**The session**: any number of workers, any set of operations and any numbering of objects.

The invariant of `PckSessionProofs` is `TypeOK /\ ShapeInv /\ SafeInv`. `ShapeInv` is about single threads: the steps a
thread has left are ordered as the sequences of the model are - `new` follows `close` and `delete`, what comes
before `flag` never comes behind it - and a worker is in `flagged` exactly when it
has its `unflag` step ahead and its `flag` step behind. `SafeInv` is about two threads: the four safety
properties, and what they rest on. While a job that nobody missed is under way, no other thread has passed a test and not yet acted
on it: every such worker (`Pending`) is in `raced` (`PendingAlone`) and no thread is about to replace the object (`ClosingAlone`). Jobs that were missed are
only with others of their kind (`Together`). A worker that has passed `enter` and not yet set the flag is in the current object, or knows that it
is not (`RightObject`). The properties are not inductive alone: `JobIsProtected` is kept by `Delete` only because of
`ClosingAlone`, which `SetThreadFlag` establishes.

| theorem | states |
| --- | --- |
| `TypeCorrect` | `TypeOK` |
| `Invariance` | `Spec => []IInv` |
| `FlagAlwaysHasOwner` | `FlagHasOwner`: a set flag belongs to a job, or to a rebuild that left it |
| `JobAlwaysProtected` | `JobIsProtected`: flag and object stay with a job set in time |
| `JobsAlwaysExclusive` | `JobsExclusive`: two such jobs never run at once |
| `QuitAlwaysSparesJobs` | `QuitSparesJobs`: the process does not exit under one |
| `CancelAlwaysSticks` | `CancelSticks`: its cancellation is not taken back |

**The files**: cells, chunks, reserves and steps of any size, any number of jobs, crashes and shortages anywhere.

The hypothesis of `MultiFileProofs` is `ThreeFiles`: at most as many files as there are suffixes, and edits in place that
fit the files there are (`EditsMayCross = FALSE`). Section 3 has the counterexamples without either. The writer's addresses
and the reader's agree through `Reaches` and `Keeps`: below the size in the head every file but the last is exactly as long as its cell, the last long enough,
and each unit written stands where `CellBegin` puts it. `BeginsWhereWritten` then says that the reader, who adds up lengths, begins each file at the same
address, and `FoundAgain` is `ReadBack`. Four lemmas follow a write: `MappingIs` and `ExpandIs` for what growing does to files and mappings
(`Longer`: nothing shrinks, nothing but filling is added, only the last file goes beyond its cell), `ViewIs` for the cells `ViewAndWrite2` touches, `Write2Is`
for all of it. A write that ends where a cell does also views the next one: `ViewedUpTo` shows that `DetectSize` more than is written
has always been mapped, which is what `NeverRefused` needs.

`IInv` has ten parts. `WholeInv` is that the archive of the head is on disk, unless an edit in place has torn it; `PendingInv` the same of the one being made, as
far as it has come, and that it is written behind the old one. `MapInv` and `AtInv` are that the next write begins in the mapped part. `SizeInv` keeps
`Close` from taking a file of the archive for an empty one: the lengths it goes by are those the files had when they
were opened or mapped. `EndInv` follows `SetEndOfFile` and the removals cell by cell. `PresentInv` and `SlimInv` are about crashes: which files can be left behind, and that a file longer than its cell is
always the last of those the next job opens. `SlimInv` is the part that is false with four files.

| theorem | states |
| --- | --- |
| `Invariant` | `Spec => []IInv`, under `ThreeFiles`, like all of these |
| `TypeCorrect` | `TypeOK` |
| `WrittenIsRead` | `ReadBack`: the reader finds at each address what was written there |
| `WritesAreMapped` | `NeverRefused`: no write fails but for want of space |
| `JobsEndExactly` | `EndsExact`: files end with the archive, none the job had is empty |

**The tree**: any parts, names, sizes and scripts, any number of entries and operations, extractions of any depth.

The index, the table and the marks of a script are folds (`FoldLeft`), and so is the tree. A fold cannot be
reasoned about by the induction theorems of the library; `UpwardInduction` says the same of a set of numbers. Each fold of the model is shown to be a
*chain*, a value for each place with one link between neighbours (`NameSizeChain`, `WrittenChain`, `StoredChain`, `ApplyChain`, `TreeChain`), and has one lemma that says what
holds at every place: `WrittenIs` for the index that is written, `TreeIs` for the nodes after each record, `StoredAllIs` for the records and the data
stored behind the old ones, `ApplyScriptIs` for the table behind each line of a script. The induction takes the set of the places at which the statement holds.

`IInv` has seven parts. `DiskInv`: the index on disk names each datum once and within what there is. `TableInv`: a row for each record, with
its name and its mark. `TreeInv`: a node for each part of each name and nothing else, a folder above each of its nodes, the room left in a node no more
than any name through it leaves (`NamesFit` rests on this: `RenameNode` looks only at the node it renames; where all names fit no room has wrapped, `RenameNodeFits`). `MarksInv`: rows are invalid because the tree
dropped them, or a refused addition did. `CopyInv`: what the filter has marked it has noted (`edited`), what is copied is copied once and from a
row that was valid. `ExtractInv`: the levels of an extraction are nested folders and the current directory is that of the innermost; what
is written and what the levels still have to do is all that was chosen. `JobInv` names the steps.

Above it are two layers. `DataInv` follows the data: each record finds its own, in the archive and in the one being made, and the
table has the addresses of the index. It needs `AddressesFit`, that the archive stays below 4 GB: above, source addresses are cut
off (section 3). `IInv` itself holds without it, which is why `DiskInv` only says that data lies within what there is.
`ClashInv` is that no name lies on the way to another. Additions are refused by `FindFileNode` where a name would (`FoundIs`, for a tree of
any shape), deleting and rebuilding only take names away; renaming is the one operation that does not look, hence the hypothesis `~RenamesMayClash`.

One fact met in the proof says more than a run would: *no* script changes what a rebuild copies (`ScriptFails`, `ResetIs`). Every list
`ParseScript` makes ends with a line of no name, which no tree has, so every script fails and is undone. `RebuiltWhole` is therefore proved with what is
`Filtered` by a script never used; the run `script` shows the same from the side of the user.

| theorem | states |
| --- | --- |
| `InductiveInvariant` | `Spec => []IInv` |
| `TypeCorrect` | `TypeOK` |
| `NamesAlwaysFit` | `NamesFit`, for search names of any size: where all names fit, every step keeps them so, also below a renamed folder, but for a search that fills one record |
| `ExtractionInPlace` | `ExtractedInPlace`: each file at its place, all of them unless something failed |
| `HandleKept` | `HandleUnchanged`, under `AddressesFit`: a rebuild leaves the open archive as it was |
| `RebuildKeepsData` | `RebuiltWhole`, under `AddressesFit`: a rebuilt archive has the valid entries, once, with their data |
| `AlwaysMountsAgain` | `MountsAgain`, under `~RenamesMayClash`: what is written can be opened again |
| `AllShown` | `TreeShowsAll`, under the same: every valid record is found by walking the folders, once |

**Only model-checked.** Liveness under fairness (`Finishes`, `WindowAnswers`) is out of the prover's reach. The three runs that expect a violation
have no theorem, as what they state is false.

## 5. Not modelled

Power loss: the order in which the operating system writes mapped pages back is not known, and
the code flushes by volume (`FLUSH_SIZE_THRESHOLD`), not by step. Versions and keys of the format, code pages,
compression itself, progress counters and the text of the log change nothing the properties tell apart. In `MultiFile` an archive whose tail lies
across two files is not opened, as the reader does not read it. In `PckTree` names that differ only in case are left out, and archives without entries. The `do_` functions of the library, for callers without a window, run one after the other in one thread. Which controls of the
window are disabled, dialogs and the list are left out; so are the pointers the items of the list keep into the archive. `.zup` archives and the
dictionary hash are read only and pure functions of the file; the strip of models and textures is a pure function of their data. Most of the lines of the repository are
vendored: `json.hpp` twice, `spdlog` with `fmt`, `zlib`, `libdeflate`; of its own code the pipeline, the writer, the session, the tree, the rebuild, extraction
and the mapped files are covered. The reasons for each part are in `PROJECT.json`.

## 6. Plan

The components that carry the program are modelled and proved. What is left:

1. `PckTree`: names that differ only in case, which the filter takes for the same and the tree does not.
2. The pointers that the items of the list keep into an archive that is mounted again.
