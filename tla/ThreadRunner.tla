---------------------------- MODULE ThreadRunner ----------------------------
(***************************************************************************)
(* CPckThreadRunner: the pipeline that fills a .pck archive.  dwMTThread   *)
(* compressor threads take source entries one by one, charge the buffers   *)
(* they allocate against a memory budget, and put the compressed entries   *)
(* in a queue; one writer thread takes them out, assigns their addresses,  *)
(* writes them behind each other and keeps their index records.  When all  *)
(* threads are joined, start() writes the index, the tail and the head.    *)
(*                                                                         *)
(* A section under a mutex is one step; a section that is not under the    *)
(* mutex of what it touches is split where another thread can interleave.  *)
(***************************************************************************)
EXTENDS Integers, Sequences, FiniteSets, FiniteSetsExt

CONSTANTS
  Compressors,    \* the compressor threads
  Writer,         \* the writer thread
  Source,         \* pck_data_src: "DATA_FROM_FILE" or "DATA_FROM_PCK"
  NEntries,       \* source entries: files to add, or records of the source index
  Invalid,        \* entries with isInvalid set (DATA_FROM_PCK)
  Clear,          \* dwFileClearTextSize of an entry
  Bound,          \* compressBound of that size
  Packed,         \* size of the entry once compressed
  Stored,         \* dwFileCipherTextSize in the source archive
  Inflated,       \* what decompress reports for the stored data
  NoZlibHeader,   \* entries whose stored data has no zlib header
  NoCompress,     \* PCK_BEGINCOMPRESS_SIZE
  ShrinkLimit,    \* slack above which a compressed buffer is reallocated
  MaxMemory,      \* dwMTMaxMemory
  MemModulus,     \* 2^32, the range of dwMTMemoryUsed
  MallocRetries,  \* retry_count
  StartAt,        \* dwAddressStartAt
  UnreadableFiles,\* entries whose file view or archive view may fail
  MallocMayFail,  \* whether malloc may fail
  WriteMayFail,   \* whether Write2 may fail
  UserMayCancel   \* whether the user may force a stop

Entries == 1..NEntries
Threads == Compressors \cup {Writer}

ASSUME ThreadsAssumption ==
  /\ Compressors # {}
  /\ IsFiniteSet(Compressors)
  /\ Writer \notin Compressors

ASSUME SourceAssumption ==
  /\ Source \in {"DATA_FROM_FILE", "DATA_FROM_PCK"}
  /\ NEntries \in Nat
  /\ Invalid \subseteq Entries
  /\ NoZlibHeader \subseteq Entries
  /\ UnreadableFiles \subseteq Entries
  /\ \A size \in {Clear, Bound, Packed, Stored, Inflated} :
       size \in [Entries -> Nat]

ASSUME LimitsAssumption ==
  /\ NoCompress \in Nat
  /\ ShrinkLimit \in Nat
  /\ MaxMemory \in Nat \ {0}
  /\ MemModulus \in Nat \ {0}
  /\ MallocRetries \in Nat
  /\ StartAt \in Nat
  /\ {MallocMayFail, WriteMayFail, UserMayCancel} \subseteq BOOLEAN

VARIABLES
  next,                      \* ciFilesList / dwProcessIndex: the next source entry
  pc,                        \* where each thread is
  pckFileIndex,              \* the entry each thread works on: [f, malloc]
  want,                      \* the buffer a compressor is allocating
  retries,                   \* retry_count left for that buffer
  frees,                     \* what a thread still has to give back to the budget
  ret,                       \* where it goes after that
  heap,                      \* allocated buffers: [buf, size], buf = <<entry, kind>>
  dwMTMemoryUsed,            \* the budget in use
  m_memoryNotEnoughBlocked,  \* some thread waits for memory
  m_QueueContent,            \* compressed entries waiting for the writer
  m_Index_Compress,          \* index records made so far
  mt_dwAddressQueue,         \* address of the next entry
  dwAddressDataAreaEndAt,    \* end of what the writer wrote
  nWrite,                    \* entries the writer has dealt with
  dwFileCountOfWriteTarget,  \* entries it is to deal with
  disk,                      \* extents written to the archive file
  bForcedStopWorking,        \* a stop was forced
  errMessageNo,              \* the last error
  phase,                     \* start(): "threads", "index", "flag", "done"
  dwFileCountToAdd,          \* entries start() publishes
  dwAddressOfFileEntry,      \* where start() puts the index
  published                  \* the index records start() has written

fetchVars  == <<next>>
memoryVars == <<heap, dwMTMemoryUsed, m_memoryNotEnoughBlocked>>
threadVars == <<pckFileIndex, want, retries, frees, ret>>
writerVars == <<mt_dwAddressQueue, dwAddressDataAreaEndAt, nWrite,
                dwFileCountOfWriteTarget, m_Index_Compress, disk>>
flagVars   == <<bForcedStopWorking, errMessageNo>>
mainVars   == <<phase, dwFileCountToAdd, dwAddressOfFileEntry, published>>
vars == <<fetchVars, pc, threadVars, memoryVars, m_QueueContent, writerVars,
          flagVars, mainVars>>

(***************************************************************************)
(* Entries and their sizes.                                                *)
(***************************************************************************)
Valid == IF Source = "DATA_FROM_PCK" THEN Entries \ Invalid ELSE Entries

\* PCK_BEGINCOMPRESS_SIZE < dwFileClearTextSize: the entry gets compressed.
IsCompressed(f) == NoCompress < Clear[f]

\* dwMallocSize as it is first asked for.
MallocSize(f) == IF IsCompressed(f) THEN Bound[f] ELSE Clear[f]

\* The stored data decompressed to the size its record states.
IsIntact(f) == f \notin NoZlibHeader /\ Inflated[f] = Clear[f]

\* dwFileCipherTextSize of the entry when it enters the queue.
CipherSize(f) ==
  IF ~IsCompressed(f) THEN Clear[f]
  ELSE IF Source = "DATA_FROM_PCK" /\ ~IsIntact(f) THEN Stored[f] ELSE Packed[f]

\* What freeing the decompress buffer subtracts: decompress overwrites the
\* size the buffer was charged with.
InflatedSize(f) == IF f \in NoZlibHeader THEN Clear[f] ELSE Inflated[f]

BufferSize(f, kind) ==
  CASE kind = "compressed" -> MallocSize(f)
    [] kind = "source"     -> Stored[f]
    [] kind = "decompress" -> Clear[f]

Buffer(f, kind, size) == [buf |-> <<f, kind>>, size |-> size]

\* dwMTMemoryUsed is a uint32_t.  (SignedMemory, and the other definitions marked
\* as variants, are faulty forms that show which property notices the fault.)
SignedMemory(n) == n \* variant: no wrap-around
Memory(n) == n % MemModulus

NoItem == [f |-> 0, malloc |-> 0]
NoBuffer == <<0, "none">>
NoRecord == [f |-> 0, at |-> 0, len |-> 0]
Goto(t, l) == pc' = [pc EXCEPT ![t] = l]

PCK_OK == "PCK_OK"
PCK_MSG_USERCANCELED == "PCK_MSG_USERCANCELED"
PCK_ERR_OPENMAPVIEWR == "PCK_ERR_OPENMAPVIEWR"
PCK_ERR_VIEW == "PCK_ERR_VIEW"

SetErrMsgFlag(e) ==
  /\ bForcedStopWorking' = (e # PCK_OK)
  /\ errMessageNo' = e

\* CheckIfNeedForcedStopWorking returning TRUE also replaces the error number.
ForcedStop == bForcedStopWorking /\ SetErrMsgFlag(PCK_MSG_USERCANCELED)
NotForcedStop == ~bForcedStopWorking /\ UNCHANGED flagVars

Init ==
  /\ next = 1
  /\ pc = [t \in Threads |-> IF t = Writer THEN "get" ELSE "fetch"]
  /\ pckFileIndex = [t \in Threads |-> NoItem]
  /\ want = [c \in Compressors |-> "compressed"]
  /\ retries = [c \in Compressors |-> MallocRetries]
  /\ frees = [t \in Threads |-> <<>>]
  /\ ret = [t \in Threads |-> IF t = Writer THEN "get" ELSE "put"]
  /\ heap = {}
  /\ dwMTMemoryUsed = 0
  /\ m_memoryNotEnoughBlocked = FALSE
  /\ m_QueueContent = <<>>
  /\ m_Index_Compress = <<>>
  /\ mt_dwAddressQueue = StartAt
  /\ dwAddressDataAreaEndAt = StartAt
  /\ nWrite = 0
  /\ dwFileCountOfWriteTarget = Cardinality(Valid)
  /\ disk = {}
  /\ bForcedStopWorking = FALSE
  /\ errMessageNo = PCK_OK
  /\ phase = "threads"
  /\ dwFileCountToAdd = 0
  /\ dwAddressOfFileEntry = 0
  /\ published = <<>>

-----------------------------------------------------------------------------
(***************************************************************************)
(* Compressor: GetUncompressedDataFromFile / GetUncompressedDataFromPCK.   *)
(* The next entry is taken under m_LockCompressedflag.                     *)
(***************************************************************************)
FetchEnd(c) ==
  /\ pc[c] = "fetch"
  /\ next > NEntries
  /\ Goto(c, "exit")
  /\ UNCHANGED <<fetchVars, threadVars, memoryVars, m_QueueContent, writerVars,
                 flagVars, mainVars>>

FetchSkipInvalid(c) ==
  /\ pc[c] = "fetch"
  /\ next \in Entries \ Valid
  /\ next' = next + 1
  /\ UNCHANGED <<pc, threadVars, memoryVars, m_QueueContent, writerVars,
                 flagVars, mainVars>>

\* An empty entry gets no buffer and goes straight to the queue.
FetchEntry(c) ==
  /\ pc[c] = "fetch"
  /\ next \in Valid
  /\ next' = next + 1
  /\ pckFileIndex' =
       [pckFileIndex EXCEPT ![c] = [f |-> next, malloc |-> MallocSize(next)]]
  /\ want' = [want EXCEPT ![c] = "compressed"]
  /\ Goto(c, IF Clear[next] = 0 THEN "put"
             ELSE IF Source = "DATA_FROM_FILE" THEN "open" ELSE "check")
  /\ UNCHANGED <<retries, frees, ret, memoryVars, m_QueueContent, writerVars,
                 flagVars, mainVars>>

\* OpenMappingViewAllRead: a failure sets the error flag and ends the thread.
OpenFile(c) ==
  /\ pc[c] = "open"
  /\ \/ Goto(c, "check") /\ UNCHANGED flagVars
     \/ /\ pckFileIndex[c].f \in UnreadableFiles
        /\ SetErrMsgFlag(PCK_ERR_OPENMAPVIEWR)
        /\ Goto(c, "exit")
  /\ UNCHANGED <<fetchVars, threadVars, memoryVars, m_QueueContent, writerVars,
                 mainVars>>

(***************************************************************************)
(* detectMaxToAddMemory: one turn of its loop under m_LockMaxMemory.  The  *)
(* lock is released before the memory is charged.                          *)
(***************************************************************************)
DetectCancelled(c) ==
  /\ pc[c] = "check"
  /\ ForcedStop
  /\ Goto(c, "exit")
  /\ UNCHANGED <<fetchVars, threadVars, memoryVars, m_QueueContent, writerVars,
                 mainVars>>

BudgetIgnored == TRUE \* variant: no check
BudgetLeft == dwMTMemoryUsed < MaxMemory

WaitUnannounced == UNCHANGED m_memoryNotEnoughBlocked \* variant: flag not set
AnnounceWait == m_memoryNotEnoughBlocked' = TRUE

DetectFull(c) ==
  /\ pc[c] = "check"
  /\ NotForcedStop
  /\ ~BudgetLeft
  /\ AnnounceWait
  /\ Goto(c, "memWait")
  /\ UNCHANGED <<fetchVars, threadVars, heap, dwMTMemoryUsed, m_QueueContent,
                 writerVars, mainVars>>

DetectEnough(c) ==
  /\ pc[c] = "check"
  /\ NotForcedStop
  /\ BudgetLeft
  /\ retries' = [retries EXCEPT ![c] = MallocRetries]
  /\ Goto(c, "alloc")
  /\ UNCHANGED <<fetchVars, pckFileIndex, want, frees, ret, memoryVars,
                 m_QueueContent, writerVars, mainVars>>

\* wait_for(5s) runs out (or the thread wakes without a reason).
MemoryWaitTimeout(c) ==
  /\ pc[c] = "memWait"
  /\ Goto(c, "check")
  /\ UNCHANGED <<fetchVars, threadVars, memoryVars, m_QueueContent, writerVars,
                 flagVars, mainVars>>

(***************************************************************************)
(* detectMaxAndAddMemory: malloc and the charge.  An entry of an archive   *)
(* that is recompressed needs three buffers, one after the other.          *)
(***************************************************************************)
AfterBuffer(f, kind) ==
  IF Source = "DATA_FROM_FILE" THEN "put"
  ELSE IF kind = "decompress" \/ ~IsCompressed(f) THEN "view" ELSE "check"

Allocate(c) ==
  LET f == pckFileIndex[c].f
  IN /\ pc[c] = "alloc"
     /\ heap' = heap \cup {Buffer(f, want[c], BufferSize(f, want[c]))}
     /\ dwMTMemoryUsed' = Memory(dwMTMemoryUsed + BufferSize(f, want[c]))
     /\ want' = [want EXCEPT ![c] =
                   IF @ = "compressed" THEN "source" ELSE "decompress"]
     /\ Goto(c, AfterBuffer(f, want[c]))
     /\ UNCHANGED <<fetchVars, pckFileIndex, retries, frees, ret,
                    m_memoryNotEnoughBlocked, m_QueueContent, writerVars,
                    flagVars, mainVars>>

MallocFails(c) ==
  /\ MallocMayFail
  /\ pc[c] = "alloc"
  /\ AnnounceWait
  /\ Goto(c, "allocWait")
  /\ UNCHANGED <<fetchVars, threadVars, heap, dwMTMemoryUsed, m_QueueContent,
                 writerVars, flagVars, mainVars>>

\* After at most 5s: a forced stop ends the thread, and so does, with no error
\* flag, the last retry.
MallocRetry(c) ==
  /\ pc[c] = "allocWait"
  /\ \/ ForcedStop /\ Goto(c, "exit") /\ UNCHANGED retries
     \/ /\ NotForcedStop
        /\ retries[c] > 0
        /\ retries' = [retries EXCEPT ![c] = @ - 1]
        /\ Goto(c, "alloc")
     \/ NotForcedStop /\ retries[c] = 0 /\ Goto(c, "exit") /\ UNCHANGED retries
  /\ UNCHANGED <<fetchVars, pckFileIndex, want, frees, ret, memoryVars,
                 m_QueueContent, writerVars, mainVars>>

\* The two buffers needed only while an entry is recompressed.
SourceBufferOnly(f, size) == <<Buffer(f, "source", Stored[f])>> \* variant: a leak
ScratchBuffers(f, size) ==
  <<Buffer(f, "source", Stored[f]), Buffer(f, "decompress", size)>>

\* View of the stored data under m_LockReadFileMap, and the work on it.  A
\* failed view ends the thread with no error flag and loses the compressed
\* buffer.
ViewSource(c) ==
  LET f == pckFileIndex[c].f
  IN /\ pc[c] = "view"
     /\ \E ok \in IF f \in UnreadableFiles THEN BOOLEAN ELSE {TRUE} :
          IF IsCompressed(f)
          THEN /\ frees' = [frees EXCEPT ![c] =
                    ScratchBuffers(f, IF ok THEN InflatedSize(f) ELSE Clear[f])]
               /\ ret' = [ret EXCEPT ![c] = IF ok THEN "put" ELSE "exit"]
               /\ Goto(c, "free")
          ELSE /\ Goto(c, IF ok THEN "put" ELSE "exit")
               /\ UNCHANGED <<frees, ret>>
     /\ UNCHANGED <<fetchVars, pckFileIndex, want, retries, memoryVars,
                    m_QueueContent, writerVars, flagVars, mainVars>>

(***************************************************************************)
(* putCompressedDataQueue: a buffer with much slack is reallocated (which  *)
(* may fail) and the slack given back; then the entry is queued.  The       *)
(* slack is a DWORD too.                                                   *)
(***************************************************************************)
Shrink(c) ==
  LET f     == pckFileIndex[c].f
      slack == Memory(pckFileIndex[c].malloc - CipherSize(f))
  IN /\ pc[c] = "put"
     /\ \/ /\ ShrinkLimit < slack
           /\ pckFileIndex' = [pckFileIndex EXCEPT ![c].malloc = CipherSize(f)]
           /\ heap' = {IF b.buf = <<f, "compressed">>
                         THEN [b EXCEPT !.size = CipherSize(f)] ELSE b : b \in heap}
           /\ frees' = [frees EXCEPT ![c] =
                          <<[buf |-> NoBuffer, size |-> slack]>>]
           /\ ret' = [ret EXCEPT ![c] = "push"]
           /\ Goto(c, "free")
        \/ /\ ShrinkLimit < slack => MallocMayFail
           /\ Goto(c, "push")
           /\ UNCHANGED <<pckFileIndex, heap, frees, ret>>
     /\ UNCHANGED <<fetchVars, want, retries, dwMTMemoryUsed,
                    m_memoryNotEnoughBlocked, m_QueueContent, writerVars,
                    flagVars, mainVars>>

\* The queue mutex is free unless the writer is between its test and its wait.
QueueUnlocked == pc[Writer] # "prewait"

\* m_cvReadyToPut.notify_one: only the writer ever waits on it.
NotifyNobody(c, l) == Goto(c, l) \* variant: no notify_one
NotifyWriter(c, l) ==
  pc' = [pc EXCEPT ![c] = l,
                   ![Writer] = IF @ = "waiting" THEN "get" ELSE @]

Push(c) ==
  /\ pc[c] = "push"
  /\ QueueUnlocked
  /\ m_QueueContent' = Append(m_QueueContent, pckFileIndex[c])
  /\ pckFileIndex' = [pckFileIndex EXCEPT ![c] = NoItem]
  /\ NotifyWriter(c, "fetch")
  /\ UNCHANGED <<fetchVars, want, retries, frees, ret, memoryVars, writerVars,
                 flagVars, mainVars>>

\* The end of CompressThread: notify_one, without m_LockQueue.
ThreadExit(c) ==
  /\ pc[c] = "exit"
  /\ NotifyWriter(c, "done")
  /\ UNCHANGED <<fetchVars, threadVars, memoryVars, m_QueueContent, writerVars,
                 flagVars, mainVars>>

(***************************************************************************)
(* freeMaxAndSubtractMemory, for every thread: free and subtract under     *)
(* m_LockMaxMemory; then test m_memoryNotEnoughBlocked, clear it and       *)
(* notify, all three without it.                                           *)
(***************************************************************************)
AfterFree(t) == IF frees[t] = <<>> THEN ret[t] ELSE "free"

FreeBuffer(t) ==
  /\ pc[t] = "free"
  /\ heap' = {b \in heap : b.buf # Head(frees[t]).buf}
  /\ dwMTMemoryUsed' = Memory(dwMTMemoryUsed - Head(frees[t]).size)
  /\ frees' = [frees EXCEPT ![t] = Tail(@)]
  /\ Goto(t, "wake")
  /\ UNCHANGED <<fetchVars, pckFileIndex, want, retries, ret,
                 m_memoryNotEnoughBlocked, m_QueueContent, writerVars,
                 flagVars, mainVars>>

TestBlocked(t) ==
  /\ pc[t] = "wake"
  /\ Goto(t, IF m_memoryNotEnoughBlocked THEN "unblock" ELSE AfterFree(t))
  /\ UNCHANGED <<fetchVars, threadVars, memoryVars, m_QueueContent, writerVars,
                 flagVars, mainVars>>

\* A compressor may have set the flag again since it was tested.
ClearBlocked(t) ==
  /\ pc[t] = "unblock"
  /\ m_memoryNotEnoughBlocked' = FALSE
  /\ Goto(t, "notify")
  /\ UNCHANGED <<fetchVars, threadVars, heap, dwMTMemoryUsed, m_QueueContent,
                 writerVars, flagVars, mainVars>>

\* notify_all: every thread in wait_for tests again.
WakeMemoryWaiters(t, l) ==
  pc' = [u \in Threads |-> IF u = t THEN l
                           ELSE IF pc[u] = "memWait" THEN "check" ELSE pc[u]]

NotifyMemory(t) ==
  /\ pc[t] = "notify"
  /\ WakeMemoryWaiters(t, AfterFree(t))
  /\ UNCHANGED <<fetchVars, threadVars, memoryVars, m_QueueContent, writerVars,
                 flagVars, mainVars>>

-----------------------------------------------------------------------------
(***************************************************************************)
(* Writer: the loop of WriteThread around getCompressedDataQueue.          *)
(***************************************************************************)
Wants == pc[Writer] = "get" /\ nWrite < dwFileCountOfWriteTarget

QueueNotPopped == m_QueueContent \* variant: front without pop_front
QueueAfterGet == Tail(m_QueueContent)

AddressKept(f) == mt_dwAddressQueue \* variant: the address does not move on
AddressAfter(f) == mt_dwAddressQueue + CipherSize(f)

\* The front entry gets the next address; its record joins the index.
GetEntry ==
  LET entry == Head(m_QueueContent)
  IN /\ Wants
     /\ m_QueueContent # <<>>
     /\ m_QueueContent' = QueueAfterGet
     /\ pckFileIndex' = [pckFileIndex EXCEPT ![Writer] = entry]
     /\ m_Index_Compress' =
          Append(m_Index_Compress, [f   |-> entry.f,
                                    at  |-> mt_dwAddressQueue,
                                    len |-> CipherSize(entry.f)])
     /\ mt_dwAddressQueue' = AddressAfter(entry.f)
     /\ Goto(Writer, "write")
     /\ UNCHANGED <<fetchVars, want, retries, frees, ret, memoryVars,
                    dwAddressDataAreaEndAt, nWrite, dwFileCountOfWriteTarget,
                    disk, flagVars, mainVars>>

\* The queue is empty and no stop is forced: the writer is about to wait, and
\* still holds m_LockQueue.
GetFindsEmpty ==
  /\ Wants
  /\ m_QueueContent = <<>>
  /\ NotForcedStop
  /\ Goto(Writer, "prewait")
  /\ UNCHANGED <<fetchVars, threadVars, memoryVars, m_QueueContent, writerVars,
                 mainVars>>

GetWaits ==
  /\ pc[Writer] = "prewait"
  /\ Goto(Writer, "waiting")
  /\ UNCHANGED <<fetchVars, threadVars, memoryVars, m_QueueContent, writerVars,
                 flagVars, mainVars>>

\* A condition variable may wake its thread without a notification.
GetWakesSpuriously ==
  /\ pc[Writer] = "waiting"
  /\ Goto(Writer, "get")
  /\ UNCHANGED <<fetchVars, threadVars, memoryVars, m_QueueContent, writerVars,
                 flagVars, mainVars>>

\* Forced stop on an empty queue: a blank record, taken back by WriterFails2.
GetCancelled ==
  /\ Wants
  /\ m_QueueContent = <<>>
  /\ ForcedStop
  /\ m_Index_Compress' = Append(m_Index_Compress, NoRecord)
  /\ pckFileIndex' = [pckFileIndex EXCEPT ![Writer] = NoItem]
  /\ Goto(Writer, "fail")
  /\ UNCHANGED <<fetchVars, want, retries, frees, ret, memoryVars,
                 m_QueueContent, mt_dwAddressQueue, dwAddressDataAreaEndAt,
                 nWrite, dwFileCountOfWriteTarget, disk, mainVars>>

CipherGivenBack(entry) == \* variant: the compressed, not the allocated size
  <<Buffer(entry.f, "compressed", CipherSize(entry.f))>>
WriterFrees(entry) == <<Buffer(entry.f, "compressed", entry.malloc)>>

\* Write2 succeeds, or there is nothing to write.
WriteEntry ==
  LET entry  == pckFileIndex[Writer]
      record == m_Index_Compress[Len(m_Index_Compress)]
  IN /\ pc[Writer] = "write"
     /\ nWrite' = nWrite + 1
     /\ dwAddressDataAreaEndAt' = dwAddressDataAreaEndAt + record.len
     /\ IF record.len = 0
        THEN Goto(Writer, "get") /\ UNCHANGED <<disk, frees, ret>>
        ELSE /\ disk' = disk \cup {record}
             /\ frees' = [frees EXCEPT ![Writer] = WriterFrees(entry)]
             /\ ret' = [ret EXCEPT ![Writer] = "get"]
             /\ Goto(Writer, "free")
     /\ UNCHANGED <<fetchVars, pckFileIndex, want, retries, memoryVars,
                    m_QueueContent, m_Index_Compress, mt_dwAddressQueue,
                    dwFileCountOfWriteTarget, flagVars, mainVars>>

IgnoreFailure == \* variant: the result of Write2 is not looked at
  /\ nWrite' = nWrite + 1
  /\ dwAddressDataAreaEndAt' = mt_dwAddressQueue
  /\ Goto(Writer, "get")
  /\ UNCHANGED flagVars
UnflaggedFailure == \* variant: no SetErrMsgFlag
  /\ Goto(Writer, "fail")
  /\ UNCHANGED <<nWrite, dwAddressDataAreaEndAt, flagVars>>
HandleFailure ==
  /\ SetErrMsgFlag(PCK_ERR_VIEW)
  /\ Goto(Writer, "fail")
  /\ UNCHANGED <<nWrite, dwAddressDataAreaEndAt>>

WriteFails ==
  /\ WriteMayFail
  /\ pc[Writer] = "write"
  /\ m_Index_Compress[Len(m_Index_Compress)].len # 0
  /\ HandleFailure
  /\ UNCHANGED <<fetchVars, threadVars, memoryVars, m_QueueContent,
                 mt_dwAddressQueue, dwFileCountOfWriteTarget, m_Index_Compress,
                 disk, mainVars>>

WriterEnd ==
  /\ pc[Writer] = "get"
  /\ nWrite >= dwFileCountOfWriteTarget
  /\ mt_dwAddressQueue' = dwAddressDataAreaEndAt
  /\ Goto(Writer, "done")
  /\ UNCHANGED <<fetchVars, threadVars, memoryVars, m_QueueContent,
                 dwAddressDataAreaEndAt, nWrite, dwFileCountOfWriteTarget,
                 m_Index_Compress, disk, flagVars, mainVars>>

(***************************************************************************)
(* The failure branch of WriteThread takes no mutex.  First it winds the   *)
(* address and the target back and frees the writer's buffer and those it  *)
(* finds in the queue; then it clears the queue, the budget and the last   *)
(* record.                                                                 *)
(***************************************************************************)
AddressNotWoundBack == mt_dwAddressQueue \* variant: the failed entry keeps its room
AddressAfterFailure == dwAddressDataAreaEndAt

WriterFails1 ==
  LET queued == {m_QueueContent[i].f : i \in DOMAIN m_QueueContent}
  IN /\ pc[Writer] = "fail"
     /\ mt_dwAddressQueue' = AddressAfterFailure
     /\ dwFileCountOfWriteTarget' = nWrite
     /\ heap' = {b \in heap :
                   b.buf \notin (queued \cup {pckFileIndex[Writer].f}) \X {"compressed"}}
     /\ Goto(Writer, "clear")
     /\ UNCHANGED <<fetchVars, threadVars, dwMTMemoryUsed,
                    m_memoryNotEnoughBlocked, m_QueueContent,
                    dwAddressDataAreaEndAt, nWrite, m_Index_Compress, disk,
                    flagVars, mainVars>>

\* The store of 0 races with a compressor that updates the budget, and may be
\* lost to it.
WriterFails2 ==
  LET updating == \E c \in Compressors : pc[c] \in {"alloc", "free"}
  IN /\ pc[Writer] = "clear"
     /\ m_QueueContent' = <<>>
     /\ dwMTMemoryUsed' \in {0} \cup (IF updating THEN {dwMTMemoryUsed} ELSE {})
     /\ m_Index_Compress' =
          SubSeq(m_Index_Compress, 1, Len(m_Index_Compress) - 1)
     /\ WakeMemoryWaiters(Writer, "done")
     /\ UNCHANGED <<fetchVars, threadVars, heap, m_memoryNotEnoughBlocked,
                    mt_dwAddressQueue, dwAddressDataAreaEndAt, nWrite,
                    dwFileCountOfWriteTarget, disk, flagVars, mainVars>>

-----------------------------------------------------------------------------
(***************************************************************************)
(* start(): after the joins it publishes what the writer left.             *)
(***************************************************************************)
JoinThreads ==
  /\ phase = "threads"
  /\ \A t \in Threads : pc[t] = "done"
  /\ phase' = "index"
  /\ dwMTMemoryUsed' = 0
  /\ dwFileCountToAdd' = dwFileCountOfWriteTarget
  /\ dwAddressOfFileEntry' = mt_dwAddressQueue
  /\ UNCHANGED <<fetchVars, pc, threadVars, heap, m_memoryNotEnoughBlocked,
                 m_QueueContent, writerVars, flagVars, published>>

\* WriteAllIndex and WriteHeadAndTail.
WriteIndex ==
  /\ phase = "index"
  /\ phase' = "flag"
  /\ published' = SubSeq(m_Index_Compress, 1, dwFileCountToAdd)
  /\ UNCHANGED <<fetchVars, pc, threadVars, memoryVars, m_QueueContent,
                 writerVars, flagVars, dwFileCountToAdd, dwAddressOfFileEntry>>

\* SetThreadFlag(FALSE) clears the error with the running flag.
ClearThreadFlag ==
  /\ phase = "flag"
  /\ phase' = "done"
  /\ SetErrMsgFlag(PCK_OK)
  /\ UNCHANGED <<fetchVars, pc, threadVars, memoryVars, m_QueueContent,
                 writerVars, dwFileCountToAdd, dwAddressOfFileEntry, published>>

\* pck_forceBreakThreadWorking and pck_close, while bThreadRunning is set.
ForceBreakThreadWorking ==
  /\ UserMayCancel
  /\ phase # "done"
  /\ ~bForcedStopWorking
  /\ bForcedStopWorking' = TRUE
  /\ UNCHANGED <<fetchVars, pc, threadVars, memoryVars, m_QueueContent,
                 writerVars, errMessageNo, mainVars>>

Terminated == phase = "done" /\ UNCHANGED vars

Compressor(c) ==
  \/ FetchEnd(c) \/ FetchSkipInvalid(c) \/ FetchEntry(c) \/ OpenFile(c)
  \/ DetectCancelled(c) \/ DetectFull(c) \/ DetectEnough(c)
  \/ MemoryWaitTimeout(c)
  \/ Allocate(c) \/ MallocFails(c) \/ MallocRetry(c)
  \/ ViewSource(c) \/ Shrink(c) \/ Push(c) \/ ThreadExit(c)

Freeing(t) ==
  FreeBuffer(t) \/ TestBlocked(t) \/ ClearBlocked(t) \/ NotifyMemory(t)

WriteThread ==
  \/ GetEntry \/ GetFindsEmpty \/ GetWaits \/ GetCancelled
  \/ WriteEntry \/ WriteFails \/ WriterEnd \/ WriterFails1 \/ WriterFails2

Main == JoinThreads \/ WriteIndex \/ ClearThreadFlag

Next ==
  \/ \E c \in Compressors : Compressor(c)
  \/ \E t \in Threads : Freeing(t)
  \/ WriteThread
  \/ GetWakesSpuriously
  \/ Main
  \/ ForceBreakThreadWorking
  \/ Terminated

Spec == Init /\ [][Next]_vars

(***************************************************************************)
(* The scheduler runs every thread that can go on; wait_for ends after 5s  *)
(* by itself.  Nothing makes the user cancel or a condition variable wake  *)
(* spuriously.  A thread that asks for m_LockQueue gets it in the end.       *)
(***************************************************************************)
Fairness ==
  /\ \A c \in Compressors : WF_vars(Compressor(c))
  /\ \A t \in Threads : WF_vars(Freeing(t))
  /\ \A c \in Compressors : SF_vars(Push(c))
  /\ WF_vars(WriteThread)
  /\ WF_vars(Main)

FairSpec == Spec /\ Fairness
-----------------------------------------------------------------------------
(***************************************************************************)
(* Properties.                                                             *)
(***************************************************************************)
CompressorPlaces ==
  {"fetch", "open", "check", "memWait", "alloc", "allocWait", "view", "put",
   "push", "free", "wake", "unblock", "notify", "exit", "done"}
WriterPlaces ==
  {"get", "prewait", "waiting", "write", "free", "wake", "unblock", "notify",
   "fail", "clear", "done"}
Kinds == {"compressed", "source", "decompress"}
Items == [f : 0..NEntries, malloc : Nat]
Records == [f : 0..NEntries, at : Nat, len : Nat]
Frees == [buf : (Entries \X Kinds) \cup {NoBuffer}, size : Nat]
Errors == {PCK_OK, PCK_MSG_USERCANCELED, PCK_ERR_OPENMAPVIEWR, PCK_ERR_VIEW}

ThreadTypes ==
  /\ next \in 1..(NEntries + 1)
  /\ pc \in [Threads -> CompressorPlaces \cup WriterPlaces]
  /\ pc[Writer] \in WriterPlaces
  /\ \A c \in Compressors : pc[c] \in CompressorPlaces
  /\ pckFileIndex \in [Threads -> Items]
  /\ want \in [Compressors -> Kinds]
  /\ retries \in [Compressors -> 0..MallocRetries]
  /\ frees \in [Threads -> Seq(Frees)]
  /\ ret \in [Threads -> {"put", "push", "exit", "get"}]
  /\ ret[Writer] = "get"
  /\ \A c \in Compressors : ret[c] # "get"

MemoryTypes ==
  /\ heap \subseteq [buf : Entries \X Kinds, size : Nat]
  /\ dwMTMemoryUsed \in 0..(MemModulus - 1)
  /\ m_memoryNotEnoughBlocked \in BOOLEAN

WriterTypes ==
  /\ m_Index_Compress \in Seq(Records)
  /\ mt_dwAddressQueue \in Nat
  /\ dwAddressDataAreaEndAt \in Nat
  /\ nWrite \in Nat
  /\ dwFileCountOfWriteTarget \in Nat
  /\ disk \subseteq Records

FlagTypes ==
  /\ bForcedStopWorking \in BOOLEAN
  /\ errMessageNo \in Errors

MainTypes ==
  /\ phase \in {"threads", "index", "flag", "done"}
  /\ dwFileCountToAdd \in Nat
  /\ dwAddressOfFileEntry \in Nat
  /\ published \in Seq(Records)

\* Every variable has its type, and dwMTMemoryUsed stays in its 32 bits.
TypeOK ==
  /\ ThreadTypes
  /\ MemoryTypes
  /\ m_QueueContent \in Seq([f : Entries, malloc : Nat])
  /\ WriterTypes
  /\ FlagTypes
  /\ MainTypes

\* Records laid back to back from StartAt, and where the last of them ends.
LaidOut(s) ==
  \A i \in DOMAIN s : s[i].at = IF i = 1 THEN StartAt ELSE s[i-1].at + s[i-1].len
EndOf(s) ==
  IF s = <<>> THEN StartAt ELSE s[Len(s)].at + s[Len(s)].len

\* Whatever was cancelled or failed on the way, the published records are laid
\* back to back and the index table starts where the last of them ends: start()
\* uses what the writer's failure branch has wound back.
PublishedLaidOut ==
  phase \in {"flag", "done"} =>
    LaidOut(published) /\ dwAddressOfFileEntry = EndOf(published)

\* Every published record has its data in the file, at its address, and there is
\* data for nothing else: the blank or unwritten record of a failed run is gone.
PublishedStored ==
  phase \in {"flag", "done"} =>
    disk = {published[i] : i \in {j \in DOMAIN published : published[j].len # 0}}

\* No source entry is published twice, though every compressor takes from the
\* same list and the writer from the same queue.
PublishedOnce ==
  phase \in {"flag", "done"} =>
    \A i, j \in DOMAIN published : published[i].f = published[j].f => i = j

\* start() publishes fewer entries than there are only after a forced stop or an
\* error that set the flag.
PublishedComplete ==
  phase = "flag" /\ ~bForcedStopWorking =>
    {published[i].f : i \in DOMAIN published} = Valid

\* Until the writer fails, the budget is the sum of the allocated buffers (and of
\* the slack a reallocation is about to give back): every charge is given back
\* once, by whichever thread frees the buffer.  Only an entry that inflates to less
\* than its record states gives back less than it was charged, and that once.
WriterFailed == dwFileCountOfWriteTarget # Cardinality(Valid)
SlackToGiveBack ==
  {t \in Threads : frees[t] # <<>> /\ Head(frees[t]).buf = NoBuffer}
Damaged == {f \in Valid : f < next /\ InflatedSize(f) # Clear[f]}
BudgetIsExact ==
  phase = "threads" /\ ~WriterFailed =>
    \E lost \in SUBSET Damaged :
      dwMTMemoryUsed =
        (MapThenSumSet(LAMBDA b : b.size, heap)
           + MapThenSumSet(LAMBDA t : Head(frees[t]).size, SlackToGiveBack)
           + MapThenSumSet(LAMBDA f : Clear[f] - InflatedSize(f), lost))
        % MemModulus

\* The check and the charge are two critical sections, so the budget may be
\* overdrawn, but only by one buffer of each compressor.
LargestBuffer ==
  Max({0} \cup {BufferSize(f, kind) : f \in Entries, kind \in Kinds})
OverdraftBounded ==
  ~WriterFailed => dwMTMemoryUsed < MaxMemory + Cardinality(Compressors) * LargestBuffer

\* A run that published everything it was to has freed every buffer.
NoLeakOnSuccess ==
  phase # "threads" /\ ~WriterFailed => heap = {}

\* While a compressor waits for memory, the flag that makes the next free notify
\* it is set, or a notification is under way, though the flag is tested and
\* cleared outside the mutex.
WaitersAnnounced ==
  (\E c \in Compressors : pc[c] = "memWait") =>
    m_memoryNotEnoughBlocked \/ \E t \in Threads : pc[t] = "notify"

\* Data, once in the file, is never overwritten by a later entry: a step only
\* adds extents, behind all the others.
DiskGrowsAtEnd ==
  [][disk' # disk =>
       /\ disk \subseteq disk'
       /\ \A new \in disk' \ disk, old \in disk : old.at + old.len <= new.at]_vars

\* The pipeline keeps the promise of ArchiveAppend: what it has stored are the
\* records the writer has dealt with.
Archive == INSTANCE ArchiveAppend WITH
  Wanted  <- Valid,
  Size    <- [f \in Entries |-> CipherSize(f)],
  stored  <- SubSeq(m_Index_Compress, 1, nWrite),
  stopped <- bForcedStopWorking,
  closed  <- phase \in {"flag", "done"},
  index   <- published
KeepsPromise == Archive!Spec

\* What a compressor holds when it asks for the last buffer of an entry, and what a
\* damaged entry never gives back.
Held(f) ==
  IF Source = "DATA_FROM_PCK" /\ IsCompressed(f)
  THEN BufferSize(f, "compressed") + BufferSize(f, "source") ELSE 0
NeverGivenBack(f) == Clear[f] - InflatedSize(f)

\* The budget is larger than what the compressors can hold all together, each waiting
\* for the last buffer of its entry, on top of what damaged entries have used up.
BudgetSuffices ==
  \A taken \in SUBSET Valid :
    Cardinality(taken) <= Cardinality(Compressors) =>
      MapThenSumSet(Held, taken) + MapThenSumSet(NeverGivenBack, Valid \ taken)
        < MaxMemory

\* With such a budget the job ends, unless it is told to stop or a compressor gives up
\* the entry it has taken: the writer counts on that entry and may wait for ever.  A
\* smaller budget is a deadlock of the code: the compressors may wait for each other's
\* buffers, which none gives back before it has got the next.
GivesUp(c) == pc[c] \in {"exit", "done"} /\ pckFileIndex[c].f # 0
Finishes ==
  BudgetSuffices =>
    <>(phase = "done" \/ bForcedStopWorking \/ \E c \in Compressors : GivesUp(c))

\* bForcedStopWorking ("force a stop") makes a running job stop.
ForcedStopEnds == bForcedStopWorking ~> phase = "done"
=============================================================================
