------------------------- MODULE ThreadRunnerProofs -------------------------
(***************************************************************************)
(* Proofs about ThreadRunner, for any number of compressors, any entries,  *)
(* sizes and limits, and any failures.                                     *)
(***************************************************************************)
EXTENDS ThreadRunner, FiniteSetTheorems, SequenceTheorems, TLAPS

(***************************************************************************)
(* The inductive invariant.                                                *)
(***************************************************************************)
Working == (CompressorPlaces \ {"fetch", "exit", "done"}) \cup {"write"}

\* A thread that works on an entry has one in hand, and one about to free a buffer
\* has one to free.
InHand ==
  /\ \A t \in Threads : pc[t] \in Working => pckFileIndex[t].f \in Entries
  /\ \A t \in Threads : pc[t] = "free" => frees[t] # <<>>

\* The writer between two entries, with a record whose data it has not written,
\* and after its loop.
Between == {"get", "prewait", "waiting", "free", "wake", "unblock", "notify"}
Holding == {"write", "fail", "clear"}
Over == {"clear", "done"}

\* The first n records of s: laid back to back, where they end, and the extents they
\* take in the file.
Laid(s, n) ==
  \A i \in 1..n : s[i].at = IF i = 1 THEN StartAt ELSE s[i-1].at + s[i-1].len
EndAt(s, n) == IF n = 0 THEN StartAt ELSE s[n].at + s[n].len
Extents(s, n) == {s[i] : i \in {j \in 1..n : s[j].len # 0}}

\* The first nWrite records are laid back to back up to dwAddressDataAreaEndAt and
\* are the ones the file has data for.
RecordsInv ==
  /\ Laid(m_Index_Compress, nWrite)
  /\ dwAddressDataAreaEndAt = EndAt(m_Index_Compress, nWrite)
  /\ disk = Extents(m_Index_Compress, nWrite)

\* One more record is there while the writer holds it: it continues the others when
\* it is to be written, and the failure branch removes it.
CountInv ==
  /\ Len(m_Index_Compress) = IF pc[Writer] \in Holding THEN nWrite + 1 ELSE nWrite
  /\ pc[Writer] \in Between \cup Over =>
       mt_dwAddressQueue = dwAddressDataAreaEndAt
  /\ pc[Writer] = "write" =>
       /\ m_Index_Compress[nWrite + 1].at = dwAddressDataAreaEndAt
       /\ mt_dwAddressQueue =
            dwAddressDataAreaEndAt + m_Index_Compress[nWrite + 1].len
  /\ nWrite <= dwFileCountOfWriteTarget
  /\ pc[Writer] \in {"write", "fail"} => nWrite < dwFileCountOfWriteTarget
  /\ pc[Writer] \in Over => nWrite = dwFileCountOfWriteTarget

WriterInv == RecordsInv /\ CountInv

\* start() goes on only when every thread has ended, and publishes the records the
\* writer left.
MainInv ==
  /\ phase # "threads" =>
       /\ pc[Writer] = "done"
       /\ \A t \in Threads : pc[t] = "done"
       /\ dwFileCountToAdd = nWrite
       /\ dwAddressOfFileEntry = dwAddressDataAreaEndAt
  /\ phase \in {"flag", "done"} => published = m_Index_Compress

IInv == TypeOK /\ InHand /\ WriterInv /\ MainInv

-----------------------------------------------------------------------------
\* The sizes of an entry are natural numbers, and so is what is charged for it.
LEMMA Sizes ==
  ASSUME NEW f \in Entries
  PROVE  /\ Clear[f] \in Nat /\ Stored[f] \in Nat
         /\ MallocSize(f) \in Nat /\ CipherSize(f) \in Nat
         /\ InflatedSize(f) \in Nat
         /\ \A kind \in Kinds : BufferSize(f, kind) \in Nat
BY SourceAssumption
   DEF MallocSize, CipherSize, InflatedSize, BufferSize, IsIntact, IsCompressed,
       Kinds

\* The budget keeps to its modulus.
LEMMA MemoryRange ==
  ASSUME NEW n \in Int
  PROVE  Memory(n) \in 0..(MemModulus - 1)
BY LimitsAssumption DEF Memory

LEMMA NumberOfEntries ==
  /\ Valid \subseteq Entries
  /\ IsFiniteSet(Valid)
  /\ Cardinality(Valid) \in Nat
<1>1. Valid \subseteq Entries
  BY DEF Valid
<1>2. IsFiniteSet(Entries)
  BY SourceAssumption, FS_Interval DEF Entries
<1>3. IsFiniteSet(Valid)
  BY <1>1, <1>2, FS_Subset
<1>. QED
  BY <1>1, <1>3, FS_CardinalityType

-----------------------------------------------------------------------------
\* Records laid out, and the record that continues them.
LEMMA RecordsKept ==
  ASSUME NEW n \in Nat, NEW s, NEW r, \A i \in 1..n : r[i] = s[i]
  PROVE  /\ Laid(r, n) <=> Laid(s, n)
         /\ EndAt(r, n) = EndAt(s, n)
         /\ Extents(r, n) = Extents(s, n)
<1>1. \A i \in 1..n : i # 1 => i - 1 \in 1..n
  OBVIOUS
<1>2. Laid(r, n) <=> Laid(s, n)
  BY <1>1 DEF Laid
<1>. QED
  BY <1>2 DEF EndAt, Extents

LEMMA RecordAdded ==
  ASSUME NEW n \in Nat, NEW s, Laid(s, n), s[n + 1].at = EndAt(s, n)
  PROVE  /\ Laid(s, n + 1)
         /\ EndAt(s, n + 1) = s[n + 1].at + s[n + 1].len
         /\ Extents(s, n + 1) =
              Extents(s, n) \cup (IF s[n + 1].len = 0 THEN {} ELSE {s[n + 1]})
<1>1. Laid(s, n + 1)
  BY DEF Laid, EndAt
<1>2. {j \in 1..(n + 1) : s[j].len # 0}
        = {j \in 1..n : s[j].len # 0} \cup (IF s[n + 1].len = 0 THEN {} ELSE {n + 1})
  OBVIOUS
<1>. QED
  BY <1>1, <1>2 DEF EndAt, Extents

-----------------------------------------------------------------------------
LEMMA InitIInv == Init => IInv
<1> SUFFICES ASSUME Init PROVE IInv
  OBVIOUS
<1> USE SourceAssumption, LimitsAssumption, ThreadsAssumption, NumberOfEntries
<1>1. TypeOK
  <2>1. ThreadTypes
    BY DEF Init, ThreadTypes, Threads, CompressorPlaces, WriterPlaces, Items,
           NoItem, Kinds, Frees
  <2>2. m_memoryNotEnoughBlocked \in BOOLEAN /\ FlagTypes
    BY Zenon DEF Init, FlagTypes, Errors
  <2>4. heap = {} /\ dwMTMemoryUsed \in 0..(MemModulus - 1)
    BY DEF Init
  <2>5. MainTypes
    BY DEF Init, MainTypes
  <2>6. MemoryTypes
    BY <2>2, <2>4, Zenon DEF MemoryTypes
  <2>3. WriterTypes /\ m_QueueContent \in Seq([f : Entries, malloc : Nat])
    BY DEF Init, WriterTypes
  <2>. QED
    BY <2>1, <2>2, <2>3, <2>5, <2>6 DEF TypeOK
<1>2. InHand
  BY DEF Init, InHand, Working, CompressorPlaces
<1>3. WriterInv
  BY DEF Init, WriterInv, RecordsInv, CountInv, Laid, EndAt, Extents, Holding, Between, Over, Threads
<1>4. MainInv
  BY DEF Init, MainInv
<1>. QED
  BY <1>1, <1>2, <1>3, <1>4 DEF IInv

-----------------------------------------------------------------------------
(***************************************************************************)
(* What a step leaves alone keeps its part of the invariant.               *)
(***************************************************************************)
LEMMA WriterFrame ==
  ASSUME WriterInv, UNCHANGED writerVars,
         \/ pc'[Writer] = pc[Writer]
         \/ pc[Writer] \in Between /\ pc'[Writer] \in Between
  PROVE  WriterInv'
BY DEF WriterInv, RecordsInv, CountInv, writerVars, Laid, EndAt, Extents, Between, Holding, Over

LEMMA MainFrame ==
  ASSUME MainInv, UNCHANGED mainVars, NEW t \in Threads, pc[t] # "done"
  PROVE  MainInv'
BY DEF MainInv, mainVars

\* A step of a compressor, or of a thread that frees a buffer, is of this kind.
QuietStep(t) ==
  /\ pc[t] # "done"
  /\ UNCHANGED writerVars
  /\ UNCHANGED mainVars
  /\ \/ pc'[Writer] = pc[Writer]
     \/ pc[Writer] \in Between /\ pc'[Writer] \in Between
  /\ ThreadTypes' /\ InHand'
  /\ MemoryTypes' /\ FlagTypes'
  /\ (m_QueueContent \in Seq([f : Entries, malloc : Nat]))'

LEMMA QuietStepKeepsIInv ==
  ASSUME IInv, NEW t \in Threads, QuietStep(t)
  PROVE  IInv'
<1>1. WriterInv'
  BY WriterFrame DEF IInv, QuietStep
<1>2. MainInv'
  BY MainFrame DEF IInv, QuietStep
<1>3. WriterTypes' /\ MainTypes'
  BY DEF IInv, TypeOK, QuietStep, WriterTypes, MainTypes, writerVars, mainVars
<1>. QED
  BY <1>1, <1>2, <1>3 DEF IInv, TypeOK, QuietStep

(***************************************************************************)
(* Compressors.                                                            *)
(***************************************************************************)
\* A compressor that only goes elsewhere, with what it needs there in hand.
LEMMA CompressorMoves ==
  ASSUME ThreadTypes, InHand, NEW c \in Compressors,
         NEW l \in CompressorPlaces \ {"free"}, Goto(c, l),
         l \in Working => pckFileIndex[c].f \in Entries,
         next' = next, UNCHANGED <<pckFileIndex, want, frees, ret>>,
         retries' \in [Compressors -> 0..MallocRetries]
  PROVE  ThreadTypes' /\ InHand'
<1>1. c \in Threads /\ c # Writer
  BY ThreadsAssumption DEF Threads
<1>2. ThreadTypes'
  BY <1>1 DEF ThreadTypes, Goto
<1>3. InHand'
  BY <1>1 DEF ThreadTypes, InHand, Goto, Threads
<1>. QED
  BY <1>2, <1>3

\* The same while the compressor also wakes the writer.
LEMMA CompressorNotifies ==
  ASSUME ThreadTypes, InHand, NEW c \in Compressors,
         NEW l \in {"fetch", "done"}, NotifyWriter(c, l),
         pckFileIndex' = pckFileIndex \/
           pckFileIndex' = [pckFileIndex EXCEPT ![c] = NoItem],
         next' = next, UNCHANGED <<want, retries, frees, ret>>
  PROVE  /\ ThreadTypes' /\ InHand'
         /\ \/ pc'[Writer] = pc[Writer]
            \/ pc[Writer] \in Between /\ pc'[Writer] \in Between
<1>1. c \in Threads /\ c # Writer /\ Writer \in Threads
  BY ThreadsAssumption DEF Threads
<1>2. NoItem \in Items
  BY SourceAssumption DEF NoItem, Items
<1>3. /\ pc' \in [Threads -> CompressorPlaces \cup WriterPlaces]
      /\ \A d \in Compressors : pc'[d] \in CompressorPlaces
      /\ \A d \in Compressors \ {c} : pc'[d] = pc[d]
      /\ pc'[c] = l
      /\ \/ pc'[Writer] = pc[Writer]
         \/ pc[Writer] = "waiting" /\ pc'[Writer] = "get"
  BY <1>1, ThreadsAssumption
     DEF NotifyWriter, ThreadTypes, CompressorPlaces, WriterPlaces, Threads
<1>4. pckFileIndex' \in [Threads -> Items]
  BY <1>1, <1>2 DEF ThreadTypes
<1>5. ThreadTypes'
  BY <1>3, <1>4 DEF ThreadTypes, WriterPlaces
<1>6. \A t \in Threads \ {c} : pckFileIndex'[t] = pckFileIndex[t]
  BY <1>1 DEF ThreadTypes
<1>7. \A t \in Threads \ {c} : \/ pc'[t] = pc[t]
                               \/ pc'[t] = "get"
  BY <1>3 DEF Threads
<1>8. l \notin Working /\ "get" \notin Working
  BY DEF Working, CompressorPlaces
<1>9. InHand'
  BY <1>3, <1>6, <1>7, <1>8 DEF InHand
<1>. QED
  BY <1>3, <1>5, <1>9 DEF Between

\* Fetching: the entry a compressor has in hand is a source entry.
LEMMA FetchKeeps ==
  ASSUME ThreadTypes, InHand, NEW c \in Compressors, FetchEntry(c)
  PROVE  ThreadTypes' /\ InHand'
<1>1. c \in Threads /\ c # Writer
  BY ThreadsAssumption DEF Threads
<1>2. next \in Entries /\ MallocSize(next) \in Nat /\ next + 1 \in 1..(NEntries + 1)
  <2>1. next \in Entries
    BY NumberOfEntries DEF FetchEntry
  <2>2. MallocSize(next) \in Nat
    BY <2>1, Sizes
  <2>3. next + 1 \in 1..(NEntries + 1)
    BY <2>1, SourceAssumption DEF Entries
  <2>. QED
    BY <2>1, <2>2, <2>3
<1>3. pckFileIndex' \in [Threads -> Items]
  BY <1>1, <1>2 DEF FetchEntry, ThreadTypes, Items, Entries
<1>4. pckFileIndex'[c].f \in Entries
  BY <1>1, <1>2 DEF FetchEntry, ThreadTypes
<1>. QED
  BY <1>1, <1>2, <1>3, <1>4
     DEF FetchEntry, Goto, ThreadTypes, InHand, Working, Kinds, CompressorPlaces

\* A compressor that starts to give something back.
LEMMA CompressorStartsFreeing ==
  ASSUME ThreadTypes, InHand, NEW c \in Compressors, Goto(c, "free"),
         NEW g \in Seq(Frees), g # <<>>, frees' = [frees EXCEPT ![c] = g],
         NEW r \in {"put", "push", "exit"}, ret' = [ret EXCEPT ![c] = r],
         pckFileIndex' \in [Threads -> Items], pckFileIndex'[c].f \in Entries,
         \A t \in Threads \ {c} : pckFileIndex'[t] = pckFileIndex[t],
         UNCHANGED <<next, want, retries>>
  PROVE  ThreadTypes' /\ InHand'
<1>1. c \in Threads /\ c # Writer
  BY ThreadsAssumption DEF Threads
<1>2. /\ pc' \in [Threads -> CompressorPlaces \cup WriterPlaces]
      /\ \A t \in Threads \ {c} : pc'[t] = pc[t]
      /\ pc'[c] \in CompressorPlaces
  BY <1>1 DEF ThreadTypes, Goto, CompressorPlaces
<1>3. /\ ret' \in [Threads -> {"put", "push", "exit", "get"}]
      /\ \A t \in Threads \ {c} : ret'[t] = ret[t]
      /\ ret'[c] # "get"
  BY <1>1 DEF ThreadTypes
<1>4. /\ frees' \in [Threads -> Seq(Frees)]
      /\ \A t \in Threads \ {c} : frees'[t] = frees[t]
      /\ frees'[c] # <<>>
  BY <1>1 DEF ThreadTypes
<1>5. ThreadTypes'
  BY <1>1, <1>2, <1>3, <1>4 DEF ThreadTypes, Threads
<1>6. InHand'
  BY <1>1, <1>2, <1>4 DEF InHand, Threads
<1>. QED
  BY <1>5, <1>6

\* The work on a source entry ends with its two scratch buffers to free.
LEMMA ViewKeeps ==
  ASSUME ThreadTypes, InHand, NEW c \in Compressors, ViewSource(c)
  PROVE  ThreadTypes' /\ InHand'
<1> DEFINE f == pckFileIndex[c].f
<1>1. f \in Entries
  BY DEF ViewSource, InHand, Working, CompressorPlaces, Threads
<1>2. next' = next /\ UNCHANGED <<pckFileIndex, want, retries>>
  BY DEF ViewSource, fetchVars
<1>3. CASE ~IsCompressed(f)
  <2>1. PICK l \in {"put", "exit"} : Goto(c, l)
    BY <1>3 DEF ViewSource
  <2>2. UNCHANGED <<frees, ret>>
    BY <1>3 DEF ViewSource
  <2>3. l \in CompressorPlaces \ {"free"}
    BY DEF CompressorPlaces
  <2>4. retries' \in [Compressors -> 0..MallocRetries]
    BY <1>2 DEF ThreadTypes
  <2>. QED
    BY <1>1, <1>2, <2>1, <2>2, <2>3, <2>4, CompressorMoves
<1>4. CASE IsCompressed(f)
  <2>1. PICK ok \in BOOLEAN :
          /\ frees' = [frees EXCEPT ![c] =
               ScratchBuffers(f, IF ok THEN InflatedSize(f) ELSE Clear[f])]
          /\ ret' = [ret EXCEPT ![c] = IF ok THEN "put" ELSE "exit"]
    BY <1>4, Zenon DEF ViewSource
  <2> DEFINE size == IF ok THEN InflatedSize(f) ELSE Clear[f]
             r    == IF ok THEN "put" ELSE "exit"
  <2>2. size \in Nat /\ Stored[f] \in Nat
    BY <1>1, Sizes
  <2>3. Buffer(f, "source", Stored[f]) \in Frees /\ Buffer(f, "decompress", size) \in Frees
    BY <1>1, <2>2 DEF Buffer, Frees, Kinds
  <2>4. ScratchBuffers(f, size) \in Seq(Frees) /\ ScratchBuffers(f, size) # <<>>
    BY <2>3 DEF ScratchBuffers
  <2>5. r \in {"put", "push", "exit"}
    OBVIOUS
  <2>6. Goto(c, "free")
    BY <1>4 DEF ViewSource
  <2>7. /\ pckFileIndex' \in [Threads -> Items] /\ pckFileIndex'[c].f \in Entries
        /\ \A t \in Threads \ {c} : pckFileIndex'[t] = pckFileIndex[t]
    BY <1>1, <1>2 DEF ThreadTypes
  <2>. HIDE DEF size, r
  <2>8. frees' = [frees EXCEPT ![c] = ScratchBuffers(f, size)]
        /\ ret' = [ret EXCEPT ![c] = r]
    BY <2>1 DEF size, r
  <2>. QED
    BY <1>2, <2>4, <2>5, <2>6, <2>7, <2>8, CompressorStartsFreeing
<1>. QED
  BY <1>3, <1>4

\* So does a reallocation, with the slack.
LEMMA ShrinkKeeps ==
  ASSUME ThreadTypes, InHand, NEW c \in Compressors, Shrink(c)
  PROVE  ThreadTypes' /\ InHand'
<1> DEFINE f == pckFileIndex[c].f
           slack == Memory(pckFileIndex[c].malloc - CipherSize(f))
<1>1. f \in Entries /\ c \in Threads
  BY DEF Shrink, InHand, Working, CompressorPlaces, Threads
<1>2. UNCHANGED <<next, want, retries>>
  BY DEF Shrink, fetchVars
<1>3. CASE Goto(c, "push") /\ UNCHANGED <<pckFileIndex, heap, frees, ret>>
  <2>1. retries' \in [Compressors -> 0..MallocRetries]
    BY <1>2 DEF ThreadTypes
  <2>. QED
    BY <1>1, <1>2, <1>3, <2>1, CompressorMoves DEF CompressorPlaces
<1>4. CASE /\ ShrinkLimit < slack
           /\ pckFileIndex' = [pckFileIndex EXCEPT ![c].malloc = CipherSize(f)]
           /\ frees' = [frees EXCEPT ![c] = <<[buf |-> NoBuffer, size |-> slack]>>]
           /\ ret' = [ret EXCEPT ![c] = "push"]
           /\ Goto(c, "free")
  <2>1. CipherSize(f) \in Nat /\ pckFileIndex[c] \in Items
    BY <1>1, Sizes DEF ThreadTypes
  <2>2. slack \in Nat
    <3>1. pckFileIndex[c].malloc - CipherSize(f) \in Int
      BY <2>1 DEF Items
    <3>. QED
      BY <3>1, MemoryRange, LimitsAssumption
  <2>3. <<[buf |-> NoBuffer, size |-> slack]>> \in Seq(Frees)
    BY <2>2 DEF Frees
  <2>4. [pckFileIndex[c] EXCEPT !.malloc = CipherSize(f)]
          = [f |-> f, malloc |-> CipherSize(f)]
    BY <2>1 DEF Items
  <2>5. pckFileIndex' =
          [pckFileIndex EXCEPT ![c] = [f |-> f, malloc |-> CipherSize(f)]]
    BY <1>4, <2>4
  <2>6. [f |-> f, malloc |-> CipherSize(f)] \in Items
    BY <2>1 DEF Items
  <2>7. /\ pckFileIndex' \in [Threads -> Items] /\ pckFileIndex'[c].f \in Entries
        /\ \A t \in Threads \ {c} : pckFileIndex'[t] = pckFileIndex[t]
    BY <1>1, <2>5, <2>6 DEF ThreadTypes
  <2>. HIDE DEF slack
  <2>8. <<[buf |-> NoBuffer, size |-> slack]>> # <<>>
    OBVIOUS
  <2>. QED
    BY <1>2, <1>4, <2>3, <2>7, <2>8, CompressorStartsFreeing
<1>. QED
  BY <1>3, <1>4 DEF Shrink

LEMMA CompressorKeepsThreads ==
  ASSUME ThreadTypes, InHand, NEW c \in Compressors, Compressor(c)
  PROVE  ThreadTypes' /\ InHand'
<1> USE DEF CompressorPlaces
<1>1. c \in Threads /\ c # Writer
  BY ThreadsAssumption DEF Threads
<1>2. CASE FetchEnd(c)
  BY <1>2, CompressorMoves DEF FetchEnd, fetchVars, threadVars, Working, ThreadTypes
<1>3. CASE FetchSkipInvalid(c)
  BY <1>3, SourceAssumption
     DEF FetchSkipInvalid, ThreadTypes, InHand, Working, threadVars, Entries
<1>4. CASE FetchEntry(c)
  BY <1>4, FetchKeeps
<1>5. CASE OpenFile(c)
  <2>1. PICK l \in {"check", "exit"} : Goto(c, l)
    BY <1>5 DEF OpenFile
  <2>2. pckFileIndex[c].f \in Entries
    BY <1>1, <1>5 DEF OpenFile, InHand, Working
  <2>. QED
    BY <1>5, <2>1, <2>2, CompressorMoves
       DEF OpenFile, fetchVars, threadVars, ThreadTypes
<1>6. CASE DetectCancelled(c) \/ DetectFull(c) \/ DetectEnough(c)
  <2>1. PICK l \in {"exit", "memWait", "alloc"} : Goto(c, l)
    BY <1>6 DEF DetectCancelled, DetectFull, DetectEnough
  <2>2. pckFileIndex[c].f \in Entries
    BY <1>1, <1>6 DEF DetectCancelled, DetectFull, DetectEnough, InHand, Working
  <2>3. next' = next /\ UNCHANGED <<pckFileIndex, want, frees, ret>>
    BY <1>6 DEF DetectCancelled, DetectFull, DetectEnough, fetchVars, threadVars
  <2>4. retries' \in [Compressors -> 0..MallocRetries]
    BY <1>6, LimitsAssumption
       DEF DetectCancelled, DetectFull, DetectEnough, threadVars, ThreadTypes
  <2>. QED
    BY <2>1, <2>2, <2>3, <2>4, CompressorMoves
<1>7. CASE MemoryWaitTimeout(c)
  BY <1>1, <1>7, CompressorMoves
     DEF MemoryWaitTimeout, fetchVars, threadVars, ThreadTypes, InHand, Working
<1>8. CASE Allocate(c)
  <2>1. PICK l \in {"put", "view", "check"} : Goto(c, l)
    BY <1>8 DEF Allocate, AfterBuffer
  <2>2. pckFileIndex[c].f \in Entries
    BY <1>1, <1>8 DEF Allocate, InHand, Working
  <2>3. want' \in [Compressors -> Kinds]
    BY <1>8 DEF Allocate, ThreadTypes, Kinds
  <2>4. /\ UNCHANGED <<next, pckFileIndex, retries, frees, ret>>
    BY <1>8 DEF Allocate, fetchVars
  <2>. QED
    BY <1>1, <2>1, <2>2, <2>3, <2>4 DEF ThreadTypes, InHand, Goto, Threads, Working
<1>9. CASE MallocFails(c)
  BY <1>1, <1>9, CompressorMoves
     DEF MallocFails, fetchVars, threadVars, ThreadTypes, InHand, Working
<1>10. CASE MallocRetry(c)
  <2>1. PICK l \in {"exit", "alloc"} : Goto(c, l)
    BY <1>10 DEF MallocRetry
  <2>2. pckFileIndex[c].f \in Entries
    BY <1>1, <1>10 DEF MallocRetry, InHand, Working
  <2>3. retries' \in [Compressors -> 0..MallocRetries]
    BY <1>10, LimitsAssumption DEF MallocRetry, ThreadTypes
  <2>. QED
    BY <1>10, <2>1, <2>2, <2>3, CompressorMoves DEF MallocRetry, fetchVars
<1>11. CASE ViewSource(c)
  BY <1>11, ViewKeeps
<1>12. CASE Shrink(c)
  BY <1>12, ShrinkKeeps
<1>13. CASE Push(c)
  BY <1>13, CompressorNotifies DEF Push, fetchVars
<1>14. CASE ThreadExit(c)
  BY <1>14, CompressorNotifies DEF ThreadExit, fetchVars, threadVars
<1>. QED
  BY <1>2, <1>3, <1>4, <1>5, <1>6, <1>7, <1>8, <1>9, <1>10, <1>11, <1>12, <1>13,
     <1>14 DEF Compressor

\* The flags: a compressor forces a stop or takes note of one.
LEMMA CompressorKeepsFlags ==
  ASSUME FlagTypes, NEW c \in Compressors, Compressor(c)
  PROVE  FlagTypes'
<1>1. \/ UNCHANGED flagVars
      \/ SetErrMsgFlag(PCK_ERR_OPENMAPVIEWR)
      \/ SetErrMsgFlag(PCK_MSG_USERCANCELED)
  BY DEF Compressor, FetchEnd, FetchSkipInvalid, FetchEntry, OpenFile,
     DetectCancelled, DetectFull, DetectEnough, MemoryWaitTimeout, Allocate,
     MallocFails, MallocRetry, ViewSource, Shrink, Push, ThreadExit, ForcedStop,
     NotForcedStop
<1>2. \A e : (e # PCK_OK) \in BOOLEAN
  BY Zenon
<1>. QED
  BY <1>1, <1>2, Zenon DEF FlagTypes, Errors, SetErrMsgFlag, flagVars

LEMMA CompressorKeepsQueue ==
  ASSUME ThreadTypes, InHand, NEW c \in Compressors, Compressor(c),
         m_QueueContent \in Seq([f : Entries, malloc : Nat])
  PROVE  m_QueueContent' \in Seq([f : Entries, malloc : Nat])
<1>1. CASE Push(c)
  <2>1. pckFileIndex[c] \in [f : Entries, malloc : Nat]
    BY <1>1 DEF Push, ThreadTypes, InHand, Working, CompressorPlaces, Items, Threads
  <2>. QED
    BY <1>1, <2>1 DEF Push
<1>2. CASE m_QueueContent' = m_QueueContent
  BY <1>2
<1>. QED
  BY <1>1, <1>2
     DEF Compressor, FetchEnd, FetchSkipInvalid, FetchEntry, OpenFile,
     DetectCancelled, DetectFull, DetectEnough, MemoryWaitTimeout, Allocate,
     MallocFails, MallocRetry, ViewSource, Shrink, ThreadExit

\* The heap and the budget change when a buffer is allocated or shrunk.
LEMMA CompressorKeepsMemory ==
  ASSUME ThreadTypes, InHand, MemoryTypes, NEW c \in Compressors, Compressor(c)
  PROVE  MemoryTypes'
<1>1. m_memoryNotEnoughBlocked' \in BOOLEAN
  <2>1. \/ m_memoryNotEnoughBlocked' = m_memoryNotEnoughBlocked
        \/ m_memoryNotEnoughBlocked' = TRUE
    BY Zenon
       DEF Compressor, FetchEnd, FetchSkipInvalid, FetchEntry, OpenFile,
       DetectCancelled, DetectFull, DetectEnough, MemoryWaitTimeout, Allocate,
       MallocFails, MallocRetry, ViewSource, Shrink, Push, ThreadExit, AnnounceWait,
       memoryVars
  <2>. QED
    BY <2>1, Zenon DEF MemoryTypes
<1>2. /\ heap' \subseteq [buf : Entries \X Kinds, size : Nat]
      /\ dwMTMemoryUsed' \in 0..(MemModulus - 1)
  <2>1. CASE UNCHANGED <<heap, dwMTMemoryUsed>>
    BY <2>1 DEF MemoryTypes
  <2>2. CASE Allocate(c)
    <3>1. pckFileIndex[c].f \in Entries /\ want[c] \in Kinds
      BY <2>2 DEF Allocate, ThreadTypes, InHand, Working, CompressorPlaces, Threads
    <3>2. BufferSize(pckFileIndex[c].f, want[c]) \in Nat
      BY <3>1, Sizes
    <3>3. dwMTMemoryUsed' \in 0..(MemModulus - 1)
      BY <2>2, <3>2, MemoryRange DEF Allocate, MemoryTypes
    <3>4. Buffer(pckFileIndex[c].f, want[c],
                 BufferSize(pckFileIndex[c].f, want[c]))
            \in [buf : Entries \X Kinds, size : Nat]
      BY <3>1, <3>2 DEF Buffer
    <3>. QED
      BY <2>2, <3>3, <3>4 DEF Allocate, MemoryTypes
  <2>3. CASE Shrink(c)
    <3>1. CipherSize(pckFileIndex[c].f) \in Nat
      BY <2>3, Sizes DEF Shrink, InHand, Working, CompressorPlaces, Threads
    <3>2. \A b \in heap : [b EXCEPT !.size = CipherSize(pckFileIndex[c].f)]
                            \in [buf : Entries \X Kinds, size : Nat]
      BY <3>1 DEF MemoryTypes
    <3>. QED
      BY <2>3, <3>2 DEF Shrink, MemoryTypes
  <2>. QED
    BY <2>1, <2>2, <2>3
       DEF Compressor, FetchEnd, FetchSkipInvalid, FetchEntry, OpenFile,
       DetectCancelled, DetectFull, DetectEnough, MemoryWaitTimeout,
       MallocFails, MallocRetry, ViewSource, Push, ThreadExit, memoryVars
<1>. QED
  BY <1>1, <1>2, Zenon DEF MemoryTypes

LEMMA CompressorStep ==
  ASSUME IInv, NEW c \in Compressors, Compressor(c)
  PROVE  QuietStep(c)
<1>1. c \in Threads /\ c # Writer
  BY ThreadsAssumption DEF Threads
<1>2. /\ ThreadTypes' /\ InHand' /\ MemoryTypes' /\ FlagTypes'
      /\ (m_QueueContent \in Seq([f : Entries, malloc : Nat]))'
  BY CompressorKeepsThreads, CompressorKeepsFlags, CompressorKeepsQueue,
     CompressorKeepsMemory DEF IInv, TypeOK
<1>3. UNCHANGED writerVars /\ UNCHANGED mainVars /\ pc[c] # "done"
  BY DEF Compressor, FetchEnd, FetchSkipInvalid, FetchEntry, OpenFile,
     DetectCancelled, DetectFull, DetectEnough, MemoryWaitTimeout, Allocate,
     MallocFails, MallocRetry, ViewSource, Shrink, Push, ThreadExit
<1>4. \/ pc'[Writer] = pc[Writer]
      \/ pc[Writer] \in Between /\ pc'[Writer] \in Between
  <2>1. CASE Push(c) \/ ThreadExit(c)
    BY <1>1, <2>1 DEF Push, ThreadExit, NotifyWriter, Between, IInv, TypeOK,
       ThreadTypes, Threads
  <2>2. CASE pc'[Writer] = pc[Writer]
    BY <2>2
  <2>. QED
    BY <1>1, <2>1, <2>2
       DEF Compressor, FetchEnd, FetchSkipInvalid, FetchEntry, OpenFile,
       DetectCancelled, DetectFull, DetectEnough, MemoryWaitTimeout, Allocate,
       MallocFails, MallocRetry, ViewSource, Shrink, Goto, IInv, TypeOK,
       ThreadTypes, Threads
<1>. QED
  BY <1>2, <1>3, <1>4 DEF QuietStep

-----------------------------------------------------------------------------
(***************************************************************************)
(* Giving memory back.                                                     *)
(***************************************************************************)
\* A thread that frees goes on freeing or to where it was to go after that; those
\* that wait for memory may be woken.
LEMMA FreeingMoves ==
  ASSUME ThreadTypes, InHand, NEW t \in Threads,
         pc[t] \in {"free", "wake", "unblock", "notify"},
         NEW l \in {"wake", "unblock", "notify", AfterFree(t)},
         Goto(t, l) \/ WakeMemoryWaiters(t, l),
         next' = next, UNCHANGED <<pckFileIndex, want, retries, ret>>,
         frees' \in [Threads -> Seq(Frees)],
         \A u \in Threads \ {t} : frees'[u] = frees[u],
         l = "free" => frees'[t] # <<>>
  PROVE  /\ ThreadTypes' /\ InHand'
         /\ \/ pc'[Writer] = pc[Writer]
            \/ pc[Writer] \in Between /\ pc'[Writer] \in Between
<1> USE DEF CompressorPlaces, WriterPlaces
<1>1. \A u \in Threads : u = Writer \/ u \in Compressors
  BY DEF Threads
<1>2. Writer \in Threads /\ Compressors \subseteq Threads
  BY DEF Threads
<1>3. ret[t] \in {"put", "push", "exit", "get"} /\ (t = Writer <=> ret[t] = "get")
  BY <1>1, ThreadsAssumption DEF ThreadTypes
<1>4. l \in {"wake", "unblock", "notify", "free", ret[t]}
  BY DEF AfterFree
<1>5. /\ pc' \in [Threads -> CompressorPlaces \cup WriterPlaces]
      /\ pc'[t] = l
      /\ \A u \in Threads \ {t} : \/ pc'[u] = pc[u]
                                  \/ pc[u] = "memWait" /\ pc'[u] = "check"
  <2>1. CASE Goto(t, l)
    BY <1>3, <1>4, <2>1 DEF Goto, ThreadTypes
  <2>2. CASE WakeMemoryWaiters(t, l)
    BY <1>3, <1>4, <2>2 DEF WakeMemoryWaiters, ThreadTypes
  <2>. QED
    BY <2>1, <2>2
<1>6. \A c \in Compressors : pc'[c] \in CompressorPlaces
  BY <1>2, <1>3, <1>4, <1>5, ThreadsAssumption DEF ThreadTypes
<1>7. pc'[Writer] \in WriterPlaces
  BY <1>2, <1>3, <1>4, <1>5, ThreadsAssumption DEF ThreadTypes
<1>8. ThreadTypes'
  BY <1>5, <1>6, <1>7 DEF ThreadTypes
<1>9. InHand'
  <2>1. \A u \in Threads : pc'[u] = "free" => frees'[u] # <<>>
    BY <1>5 DEF InHand
  <2>2. \A u \in Threads : pc'[u] \in Working => pckFileIndex[u].f \in Entries
    BY <1>2, <1>3, <1>4, <1>5 DEF InHand, Working
  <2>. QED
    BY <2>1, <2>2 DEF InHand
<1>10. \/ pc'[Writer] = pc[Writer]
       \/ pc[Writer] \in Between /\ pc'[Writer] \in Between
  BY <1>2, <1>3, <1>4, <1>5 DEF Between, ThreadTypes
<1>. QED
  BY <1>8, <1>9, <1>10

LEMMA FreeingStep ==
  ASSUME IInv, NEW t \in Threads, Freeing(t)
  PROVE  QuietStep(t)
<1>1. /\ ThreadTypes' /\ InHand'
      /\ \/ pc'[Writer] = pc[Writer]
         \/ pc[Writer] \in Between /\ pc'[Writer] \in Between
  <2> USE DEF IInv, TypeOK
  <2>1. CASE FreeBuffer(t)
    <3>1. frees[t] \in Seq(Frees) /\ frees[t] # <<>>
      BY <2>1 DEF FreeBuffer, InHand, ThreadTypes
    <3>2. Tail(frees[t]) \in Seq(Frees)
      BY <3>1
    <3>3. /\ frees' \in [Threads -> Seq(Frees)]
          /\ \A u \in Threads \ {t} : frees'[u] = frees[u]
      BY <2>1, <3>2 DEF FreeBuffer, ThreadTypes
    <3>. QED
      BY <2>1, <3>3, FreeingMoves DEF FreeBuffer, fetchVars
  <2>2. CASE TestBlocked(t)
    <3>1. PICK l \in {"unblock", AfterFree(t)} : Goto(t, l)
      BY <2>2, Zenon DEF TestBlocked
    <3>2. /\ pc[t] = "wake" /\ next' = next
          /\ UNCHANGED <<pckFileIndex, want, retries, ret, frees>>
      BY <2>2 DEF TestBlocked, fetchVars, threadVars
    <3>3. l = "free" => frees[t] # <<>>
      BY DEF AfterFree, ThreadTypes
    <3>4. frees' \in [Threads -> Seq(Frees)]
      BY <3>2 DEF ThreadTypes
    <3>. QED
      BY <3>1, <3>2, <3>3, <3>4, FreeingMoves
  <2>3. CASE NotifyMemory(t)
    <3>1. AfterFree(t) = "free" => frees[t] # <<>>
      BY DEF AfterFree, ThreadTypes
    <3>2. frees' \in [Threads -> Seq(Frees)]
      BY <2>3 DEF NotifyMemory, ThreadTypes, threadVars
    <3>. QED
      BY <2>3, <3>1, <3>2, FreeingMoves DEF NotifyMemory, fetchVars, threadVars
  <2>4. CASE ClearBlocked(t)
    <3>1. frees' \in [Threads -> Seq(Frees)]
      BY <2>4 DEF ClearBlocked, ThreadTypes, threadVars
    <3>2. AfterFree(t) = "free" => frees[t] # <<>>
      BY DEF AfterFree, ThreadTypes
    <3>. QED
      BY <2>4, <3>1, <3>2, FreeingMoves DEF ClearBlocked, fetchVars, threadVars
  <2>. QED
    BY <2>1, <2>2, <2>3, <2>4 DEF Freeing
<1>2. m_memoryNotEnoughBlocked' \in BOOLEAN
  BY Zenon DEF Freeing, FreeBuffer, TestBlocked, ClearBlocked, NotifyMemory, IInv, TypeOK,
     MemoryTypes, memoryVars
<1>3. /\ heap' \subseteq heap
      /\ dwMTMemoryUsed' \in 0..(MemModulus - 1)
  <2>1. CASE FreeBuffer(t)
    <3>1. frees[t] \in Seq(Frees) /\ frees[t] # <<>>
      BY <2>1 DEF FreeBuffer, InHand, ThreadTypes, IInv, TypeOK
    <3>2. Head(frees[t]) \in Frees
      BY <3>1
    <3>3. dwMTMemoryUsed - Head(frees[t]).size \in Int
      BY <3>2 DEF Frees, IInv, TypeOK, MemoryTypes
    <3>. QED
      BY <2>1, <3>3, MemoryRange DEF FreeBuffer
  <2>. QED
    BY <2>1 DEF Freeing, TestBlocked, ClearBlocked, NotifyMemory, memoryVars, IInv, TypeOK,
       MemoryTypes
<1>4. MemoryTypes'
  <2>1. heap' \subseteq [buf : Entries \X Kinds, size : Nat]
    BY <1>3 DEF IInv, TypeOK, MemoryTypes
  <2>. QED
    BY <1>2, <1>3, <2>1, Zenon DEF MemoryTypes
<1>5. FlagTypes'
  BY Zenon DEF Freeing, FreeBuffer, TestBlocked, ClearBlocked, NotifyMemory, IInv, TypeOK,
     FlagTypes, flagVars
<1>6. /\ UNCHANGED writerVars /\ UNCHANGED mainVars /\ pc[t] # "done"
      /\ m_QueueContent' = m_QueueContent
  BY DEF Freeing, FreeBuffer, TestBlocked, ClearBlocked, NotifyMemory
<1>. QED
  BY <1>1, <1>4, <1>5, <1>6 DEF QuietStep, IInv, TypeOK

-----------------------------------------------------------------------------
(***************************************************************************)
(* The writer.                                                             *)
(***************************************************************************)
\* A step of the writer that keeps the invariant if it keeps WriterInv.
WriterStep ==
  /\ pc[Writer] # "done"
  /\ UNCHANGED mainVars
  /\ ThreadTypes' /\ InHand' /\ MemoryTypes' /\ FlagTypes' /\ WriterTypes'
  /\ (m_QueueContent \in Seq([f : Entries, malloc : Nat]))'
  /\ WriterInv'

LEMMA WriterStepKeepsIInv ==
  ASSUME IInv, WriterStep
  PROVE  IInv'
<1>1. MainInv'
  BY MainFrame DEF IInv, WriterStep, Threads
<1>2. MainTypes'
  BY DEF IInv, TypeOK, WriterStep, MainTypes, mainVars
<1>. QED
  BY <1>1, <1>2 DEF IInv, TypeOK, WriterStep

LEMMA WriterMoves ==
  ASSUME ThreadTypes, InHand, NEW l \in WriterPlaces \ {"free"}, Goto(Writer, l),
         NEW item \in Items,
         pckFileIndex' = [pckFileIndex EXCEPT ![Writer] = item],
         l \in Working => item.f \in Entries,
         UNCHANGED <<next, want, retries, frees, ret>>
  PROVE  ThreadTypes' /\ InHand'
<1>1. Writer \in Threads /\ Writer \notin Compressors /\ Compressors \subseteq Threads
  BY ThreadsAssumption DEF Threads
<1>2. /\ pc' \in [Threads -> CompressorPlaces \cup WriterPlaces]
      /\ pc'[Writer] = l
      /\ \A t \in Threads \ {Writer} : pc'[t] = pc[t]
  BY <1>1 DEF ThreadTypes, Goto
<1>3. /\ pckFileIndex' \in [Threads -> Items]
      /\ \A t \in Threads \ {Writer} : pckFileIndex'[t] = pckFileIndex[t]
  BY <1>1 DEF ThreadTypes
<1>4. ThreadTypes'
  BY <1>1, <1>2, <1>3 DEF ThreadTypes
<1>5. InHand'
  BY <1>1, <1>2, <1>3 DEF InHand
<1>. QED
  BY <1>4, <1>5

LEMMA KeepItem ==
  ASSUME ThreadTypes, pckFileIndex' = pckFileIndex
  PROVE  \E item \in Items : pckFileIndex' = [pckFileIndex EXCEPT ![Writer] = item]
<1>1. pckFileIndex[Writer] \in Items
  BY DEF ThreadTypes, Threads
<1>2. pckFileIndex' = [pckFileIndex EXCEPT ![Writer] = pckFileIndex[Writer]]
  BY DEF ThreadTypes
<1>. QED
  BY <1>1, <1>2

\* The records stay when nothing is written and no written one changes.
LEMMA RecordsStay ==
  ASSUME RecordsInv, nWrite \in Nat,
         UNCHANGED <<nWrite, dwAddressDataAreaEndAt, disk>>,
         \A i \in 1..nWrite : m_Index_Compress'[i] = m_Index_Compress[i]
  PROVE  RecordsInv'
<1>1. /\ Laid(m_Index_Compress', nWrite)
      /\ EndAt(m_Index_Compress', nWrite) = dwAddressDataAreaEndAt
      /\ disk = Extents(m_Index_Compress', nWrite)
  BY RecordsKept DEF RecordsInv
<1>2. Laid(m_Index_Compress, nWrite)'
  BY <1>1 DEF Laid
<1>3. (disk = Extents(m_Index_Compress, nWrite))'
  BY <1>1 DEF Extents
<1>4. (dwAddressDataAreaEndAt = EndAt(m_Index_Compress, nWrite))'
  BY <1>1 DEF EndAt
<1>. QED
  BY <1>2, <1>3, <1>4 DEF RecordsInv

\* Waiting for the queue.
LEMMA WaitStep ==
  ASSUME IInv, GetFindsEmpty \/ GetWaits \/ GetWakesSpuriously
  PROVE  QuietStep(Writer)
<1>1. PICK l \in {"prewait", "waiting", "get"} : Goto(Writer, l)
  BY DEF GetFindsEmpty, GetWaits, GetWakesSpuriously
<1>2. /\ UNCHANGED <<next, threadVars, memoryVars, m_QueueContent, writerVars, mainVars>>
      /\ pc[Writer] \in {"get", "prewait", "waiting"}
      /\ UNCHANGED flagVars
  BY DEF GetFindsEmpty, GetWaits, GetWakesSpuriously, Wants, NotForcedStop, fetchVars
<1>3. PICK item \in Items : pckFileIndex' = [pckFileIndex EXCEPT ![Writer] = item]
  BY <1>2, KeepItem DEF threadVars, IInv, TypeOK
<1>4. ThreadTypes' /\ InHand'
  BY <1>1, <1>2, <1>3, WriterMoves
     DEF threadVars, WriterPlaces, Working, CompressorPlaces, IInv, TypeOK
<1>5. MemoryTypes' /\ FlagTypes' /\ (m_QueueContent \in Seq([f : Entries, malloc : Nat]))'
  BY <1>2, Zenon DEF IInv, TypeOK, MemoryTypes, FlagTypes, memoryVars, flagVars
<1>6. pc'[Writer] = l
  BY <1>1 DEF Goto, IInv, TypeOK, ThreadTypes, Threads
<1>. QED
  BY <1>2, <1>4, <1>5, <1>6 DEF QuietStep, Between

\* A queued entry is something to work on, and a record can be made of it.
LEMMA QueuedEntries ==
  ASSUME NEW e \in [f : Entries, malloc : Nat], NEW at \in Nat
  PROVE  /\ e \in Items /\ e.f \in Entries /\ CipherSize(e.f) \in Nat
         /\ [f |-> e.f, at |-> at, len |-> CipherSize(e.f)] \in Records
<1>1. e.f \in Entries /\ e \in Items
  BY SourceAssumption DEF Items, Entries
<1>2. CipherSize(e.f) \in Nat
  BY <1>1, Sizes
<1>3. e.f \in 0..NEntries
  BY <1>1, SourceAssumption DEF Entries
<1>. QED
  BY <1>1, <1>2, <1>3 DEF Records

\* Taking an entry: its record continues the index.
LEMMA GetEntryStep ==
  ASSUME IInv, GetEntry
  PROVE  WriterStep
<1> DEFINE entry  == Head(m_QueueContent)
           record == [f |-> entry.f, at |-> mt_dwAddressQueue,
                      len |-> CipherSize(entry.f)]
<1>1. entry \in [f : Entries, malloc : Nat]
      /\ Tail(m_QueueContent) \in Seq([f : Entries, malloc : Nat])
  <2>1. m_QueueContent # <<>>
    BY DEF GetEntry
  <2>2. m_QueueContent \in Seq([f : Entries, malloc : Nat])
    BY DEF IInv, TypeOK
  <2>. QED
    BY <2>1, <2>2, HeadTailProperties
<1>2. CipherSize(entry.f) \in Nat /\ entry \in Items /\ record \in Records
  <2>1. mt_dwAddressQueue \in Nat
    BY DEF IInv, TypeOK, WriterTypes
  <2>2. entry \in [f : Entries, malloc : Nat]
    BY <1>1
  <2>. HIDE DEF entry
  <2>. QED
    BY <2>1, <2>2, QueuedEntries
<1>3. ThreadTypes' /\ InHand'
  <2>1. entry.f \in Entries
    BY <1>1
  <2>. QED
    BY <1>2, <2>1, WriterMoves DEF GetEntry, WriterPlaces, IInv, TypeOK, fetchVars
<1>4. (m_QueueContent \in Seq([f : Entries, malloc : Nat]))'
  BY <1>1 DEF GetEntry, QueueAfterGet
<1>5. m_Index_Compress' = Append(m_Index_Compress, record)
  BY DEF GetEntry
<1>6. WriterTypes'
  BY <1>2, <1>5 DEF GetEntry, IInv, TypeOK, WriterTypes, AddressAfter
<1>7. MemoryTypes' /\ FlagTypes'
  BY Zenon DEF GetEntry, IInv, TypeOK, MemoryTypes, FlagTypes, memoryVars, flagVars
<1>8. WriterInv'
  <2>1. /\ Len(m_Index_Compress) = nWrite
        /\ nWrite < dwFileCountOfWriteTarget
        /\ mt_dwAddressQueue = dwAddressDataAreaEndAt
    BY DEF GetEntry, Wants, IInv, WriterInv, CountInv, Holding, Between
  <2>2. /\ Len(m_Index_Compress') = nWrite + 1
        /\ \A i \in 1..nWrite : m_Index_Compress'[i] = m_Index_Compress[i]
        /\ m_Index_Compress'[nWrite + 1] = record
    BY <1>2, <1>5, <2>1 DEF IInv, TypeOK, WriterTypes
  <2>3. pc'[Writer] = "write"
    BY DEF GetEntry, Goto, IInv, TypeOK, ThreadTypes, Threads
  <2>4. UNCHANGED <<nWrite, dwAddressDataAreaEndAt, disk, dwFileCountOfWriteTarget>>
    BY DEF GetEntry
  <2>5. mt_dwAddressQueue' = mt_dwAddressQueue + CipherSize(entry.f)
    BY DEF GetEntry, AddressAfter
  <2>6. nWrite \in Nat
    BY DEF IInv, TypeOK, WriterTypes
  <2>. QED
    <3>1. RecordsInv'
      BY <2>2, <2>4, <2>6, RecordsStay DEF IInv, WriterInv
    <3>2. CountInv'
      BY <2>1, <2>2, <2>3, <2>4, <2>5, <2>6
         DEF CountInv, Holding, Between, Over, IInv, TypeOK, WriterTypes
    <3>. QED
      BY <3>1, <3>2 DEF WriterInv
<1>. QED
  BY <1>3, <1>4, <1>6, <1>7, <1>8 DEF WriterStep, GetEntry, Wants

\* A cancelled wait leaves a blank record for the failure branch.
LEMMA GetCancelledStep ==
  ASSUME IInv, GetCancelled
  PROVE  WriterStep
<1>1. NoItem \in Items /\ NoRecord \in Records
  BY SourceAssumption DEF NoItem, Items, NoRecord, Records
<1>2. ThreadTypes' /\ InHand'
  <2>1. /\ Goto(Writer, "fail")
        /\ pckFileIndex' = [pckFileIndex EXCEPT ![Writer] = NoItem]
        /\ UNCHANGED <<next, want, retries, frees, ret>>
    BY DEF GetCancelled, fetchVars
  <2>2. "fail" \in WriterPlaces \ {"free"} /\ "fail" \notin Working
    BY DEF WriterPlaces, Working, CompressorPlaces
  <2>. QED
    BY <1>1, <2>1, <2>2, WriterMoves DEF IInv, TypeOK
<1>3. WriterTypes'
  BY <1>1 DEF GetCancelled, IInv, TypeOK, WriterTypes
<1>4. MemoryTypes'
  BY Zenon DEF GetCancelled, IInv, TypeOK, MemoryTypes, memoryVars
<1>5. FlagTypes'
  <2>1. SetErrMsgFlag(PCK_MSG_USERCANCELED)
    BY DEF GetCancelled, ForcedStop
  <2>2. (PCK_MSG_USERCANCELED # PCK_OK) \in BOOLEAN
    BY Zenon
  <2>. QED
    BY <2>1, <2>2, Zenon DEF SetErrMsgFlag, FlagTypes, Errors
<1>6. WriterInv'
  <2>1. /\ Len(m_Index_Compress) = nWrite
        /\ nWrite < dwFileCountOfWriteTarget
    BY DEF GetCancelled, Wants, IInv, WriterInv, CountInv, Holding
  <2>2. /\ Len(m_Index_Compress') = nWrite + 1
        /\ \A i \in 1..nWrite : m_Index_Compress'[i] = m_Index_Compress[i]
    BY <1>1, <2>1 DEF GetCancelled, IInv, TypeOK, WriterTypes
  <2>3. pc'[Writer] = "fail"
    BY DEF GetCancelled, Goto, IInv, TypeOK, ThreadTypes, Threads
  <2>4. UNCHANGED <<nWrite, dwAddressDataAreaEndAt, disk, dwFileCountOfWriteTarget>>
    BY DEF GetCancelled
  <2>5. nWrite \in Nat
    BY DEF IInv, TypeOK, WriterTypes
  <2>. QED
    <3>1. RecordsInv'
      BY <2>2, <2>4, <2>5, RecordsStay DEF IInv, WriterInv
    <3>2. CountInv'
      BY <2>1, <2>2, <2>3, <2>4, <2>5
         DEF CountInv, Holding, Between, Over, IInv, TypeOK, WriterTypes
    <3>. QED
      BY <3>1, <3>2 DEF WriterInv
<1>. QED
  BY <1>2, <1>3, <1>4, <1>5, <1>6 DEF WriterStep, GetCancelled, Wants, IInv, TypeOK

\* A record becomes one of those the file has data for.
LEMMA WriteEntryStep ==
  ASSUME IInv, WriteEntry
  PROVE  WriterStep
<1> DEFINE n == nWrite + 1
           entry == pckFileIndex[Writer]
           record == m_Index_Compress[n]
<1>1. /\ Len(m_Index_Compress) = n /\ nWrite \in Nat
      /\ record \in Records
      /\ record.at = dwAddressDataAreaEndAt
      /\ mt_dwAddressQueue = dwAddressDataAreaEndAt + record.len
      /\ nWrite < dwFileCountOfWriteTarget
  BY DEF WriteEntry, IInv, TypeOK, WriterTypes, WriterInv, CountInv, Holding
<1>2. PICK l \in {"get", "free"} : Goto(Writer, l)
  BY DEF WriteEntry
<1>3. ThreadTypes' /\ InHand'
  <2> USE DEF IInv, TypeOK
  <2>1. pckFileIndex[Writer] \in Items /\ pckFileIndex[Writer].f \in Entries
    BY DEF WriteEntry, ThreadTypes, InHand, Working, Threads
  <2>2. CASE record.len = 0
    <3>1. Goto(Writer, "get") /\ UNCHANGED <<frees, ret>>
      BY <1>1, <2>2 DEF WriteEntry
    <3>2. pckFileIndex' = [pckFileIndex EXCEPT ![Writer] = pckFileIndex[Writer]]
      BY DEF WriteEntry, ThreadTypes
    <3>3. UNCHANGED <<next, want, retries>>
      BY DEF WriteEntry, fetchVars
    <3>. QED
      BY <2>1, <3>1, <3>2, <3>3, WriterMoves
         DEF WriterPlaces, Working, CompressorPlaces
  <2>3. CASE record.len # 0
    <3>1. /\ frees' = [frees EXCEPT ![Writer] = WriterFrees(entry)]
          /\ ret' = [ret EXCEPT ![Writer] = "get"] /\ Goto(Writer, "free")
          /\ UNCHANGED <<next, pckFileIndex, want, retries>>
      BY <1>1, <2>3 DEF WriteEntry, fetchVars
    <3>2. WriterFrees(entry) \in Seq(Frees) /\ WriterFrees(entry) # <<>>
      BY <2>1 DEF WriterFrees, Buffer, Frees, Kinds, Items
    <3>3. /\ frees' \in [Threads -> Seq(Frees)] /\ frees'[Writer] # <<>>
          /\ \A t \in Threads \ {Writer} : frees'[t] = frees[t]
      BY <3>1, <3>2 DEF ThreadTypes, Threads
    <3>4. ret' = ret
      BY <3>1 DEF ThreadTypes
    <3>5. /\ pc' \in [Threads -> CompressorPlaces \cup WriterPlaces]
          /\ \A t \in Threads \ {Writer} : pc'[t] = pc[t]
          /\ pc'[Writer] = "free"
      BY <3>1 DEF ThreadTypes, Goto, WriterPlaces, Threads
    <3>6. \A d \in Compressors : d \in Threads \ {Writer}
      BY ThreadsAssumption DEF Threads
    <3>7. ThreadTypes'
      BY <3>1, <3>3, <3>4, <3>5, <3>6 DEF ThreadTypes, WriterPlaces
    <3>8. InHand'
      BY <2>1, <3>1, <3>3, <3>5 DEF InHand
    <3>. QED
      BY <3>7, <3>8
  <2>. QED
    BY <2>2, <2>3
<1>4. WriterTypes'
  BY <1>1 DEF WriteEntry, IInv, TypeOK, WriterTypes, Records
<1>5. MemoryTypes' /\ FlagTypes' /\ (m_QueueContent \in Seq([f : Entries, malloc : Nat]))'
  BY Zenon DEF WriteEntry, IInv, TypeOK, MemoryTypes, FlagTypes, memoryVars, flagVars
<1>6. WriterInv'
  <2>1. pc'[Writer] = l
    BY <1>2 DEF Goto, IInv, TypeOK, ThreadTypes, Threads
  <2>2. /\ nWrite' = n /\ dwAddressDataAreaEndAt' = dwAddressDataAreaEndAt + record.len
        /\ UNCHANGED <<m_Index_Compress, mt_dwAddressQueue, dwFileCountOfWriteTarget>>
    BY <1>1 DEF WriteEntry
  <2>3. disk' = IF record.len = 0 THEN disk ELSE disk \cup {record}
    BY <1>1 DEF WriteEntry
  <2>4. RecordsInv'
    <3>1. /\ Laid(m_Index_Compress, n)
          /\ EndAt(m_Index_Compress, n) = dwAddressDataAreaEndAt'
          /\ disk' = Extents(m_Index_Compress, n)
      BY <1>1, <2>2, <2>3, RecordAdded DEF IInv, WriterInv, RecordsInv
    <3>2. Laid(m_Index_Compress, nWrite)'
      BY <2>2, <3>1 DEF Laid
    <3>3. (disk = Extents(m_Index_Compress, nWrite))'
      BY <2>2, <3>1 DEF Extents
    <3>4. (dwAddressDataAreaEndAt = EndAt(m_Index_Compress, nWrite))'
      BY <2>2, <3>1 DEF EndAt
    <3>. QED
      BY <3>2, <3>3, <3>4 DEF RecordsInv
  <2>5. CountInv'
    BY <1>1, <2>1, <2>2 DEF CountInv, Holding, Between, Over, IInv, TypeOK, WriterTypes
  <2>. QED
    BY <2>4, <2>5 DEF WriterInv
<1>. QED
  BY <1>3, <1>4, <1>5, <1>6 DEF WriterStep, WriteEntry

\* A failed write leaves its record for the failure branch.
LEMMA WriteFailsStep ==
  ASSUME IInv, WriteFails
  PROVE  WriterStep
<1>1. /\ Goto(Writer, "fail") /\ pc[Writer] = "write"
      /\ UNCHANGED <<next, threadVars, memoryVars, m_QueueContent, writerVars, mainVars>>
      /\ SetErrMsgFlag(PCK_ERR_VIEW)
  BY DEF WriteFails, HandleFailure, fetchVars, writerVars
<1>2. PICK item \in Items : pckFileIndex' = [pckFileIndex EXCEPT ![Writer] = item]
  BY <1>1, KeepItem DEF threadVars, IInv, TypeOK
<1>3. "fail" \in WriterPlaces \ {"free"} /\ "fail" \notin Working
  BY DEF WriterPlaces, Working, CompressorPlaces
<1>4. ThreadTypes' /\ InHand'
  BY <1>1, <1>2, <1>3, WriterMoves DEF threadVars, IInv, TypeOK
<1>5. FlagTypes'
  <2>1. (PCK_ERR_VIEW # PCK_OK) \in BOOLEAN
    BY Zenon
  <2>. QED
    BY <1>1, <2>1, Zenon DEF SetErrMsgFlag, FlagTypes, Errors
<1>6. MemoryTypes' /\ (m_QueueContent \in Seq([f : Entries, malloc : Nat]))'
  BY <1>1, Zenon DEF IInv, TypeOK, MemoryTypes, memoryVars
<1>7. WriterTypes'
  BY <1>1 DEF IInv, TypeOK, WriterTypes, writerVars
<1>8. WriterInv'
  <2>1. RecordsInv'
    BY <1>1, RecordsStay DEF IInv, TypeOK, WriterTypes, WriterInv, writerVars
  <2>2. pc'[Writer] = "fail"
    BY <1>1 DEF Goto, IInv, TypeOK, ThreadTypes, Threads
  <2>3. CountInv'
    BY <1>1, <2>2 DEF CountInv, Holding, Between, Over, writerVars, IInv, WriterInv
  <2>. QED
    BY <2>1, <2>3 DEF WriterInv
<1>. QED
  BY <1>1, <1>4, <1>5, <1>6, <1>7, <1>8 DEF WriterStep

\* The end of the loop, and the failure branch up to where it clears the queue: both
\* put the address at the end of what was written, and the target at its count.
LEMMA WindBackStep ==
  ASSUME IInv, WriterEnd \/ WriterFails1
  PROVE  WriterStep
<1>1. /\ mt_dwAddressQueue' = dwAddressDataAreaEndAt
      /\ UNCHANGED <<next, threadVars, dwMTMemoryUsed, m_memoryNotEnoughBlocked,
                     m_QueueContent, dwAddressDataAreaEndAt, nWrite,
                     m_Index_Compress, disk, flagVars, mainVars>>
      /\ heap' \subseteq heap
      /\ pc[Writer] # "done"
  BY DEF WriterEnd, WriterFails1, AddressAfterFailure, fetchVars, memoryVars
<1>2. PICK l \in {"done", "clear"} :
        /\ Goto(Writer, l)
        /\ Len(m_Index_Compress) = IF l \in Holding THEN nWrite + 1 ELSE nWrite
  BY DEF WriterEnd, WriterFails1, IInv, WriterInv, CountInv, Holding
<1>3. PICK item \in Items : pckFileIndex' = [pckFileIndex EXCEPT ![Writer] = item]
  BY <1>1, KeepItem DEF threadVars, IInv, TypeOK
<1>4. l \in WriterPlaces \ {"free"} /\ l \notin Working
  BY DEF WriterPlaces, Working, CompressorPlaces
<1>5. ThreadTypes' /\ InHand'
  BY <1>1, <1>2, <1>3, <1>4, WriterMoves DEF threadVars, IInv, TypeOK
<1>6. MemoryTypes'
  <2>1. heap' \subseteq [buf : Entries \X Kinds, size : Nat]
    BY <1>1 DEF IInv, TypeOK, MemoryTypes
  <2>. QED
    BY <1>1, <2>1, Zenon DEF IInv, TypeOK, MemoryTypes
<1>7. FlagTypes' /\ (m_QueueContent \in Seq([f : Entries, malloc : Nat]))'
  BY <1>1, Zenon DEF IInv, TypeOK, FlagTypes, flagVars
<1>8. dwFileCountOfWriteTarget' = nWrite
  BY DEF WriterEnd, WriterFails1, IInv, TypeOK, WriterTypes, WriterInv, CountInv
<1>9. WriterTypes'
  BY <1>1, <1>8 DEF IInv, TypeOK, WriterTypes
<1>10. WriterInv'
  <2>1. RecordsInv'
    BY <1>1, RecordsStay DEF IInv, TypeOK, WriterTypes, WriterInv
  <2>2. pc'[Writer] = l
    BY <1>2 DEF Goto, IInv, TypeOK, ThreadTypes, Threads
  <2>3. CountInv'
    BY <1>1, <1>2, <1>8, <2>2 DEF CountInv, Holding, Between, Over, IInv, TypeOK, WriterTypes
  <2>. QED
    BY <2>1, <2>3 DEF WriterInv
<1>. QED
  BY <1>1, <1>5, <1>6, <1>7, <1>9, <1>10 DEF WriterStep

\* The failure branch removes the record that was not written.
LEMMA WriterFails2Step ==
  ASSUME IInv, WriterFails2
  PROVE  WriterStep
<1>1. Writer \in Threads /\ Writer \notin Compressors
  BY ThreadsAssumption DEF Threads
<1>2. /\ pc' \in [Threads -> CompressorPlaces \cup WriterPlaces]
      /\ pc'[Writer] = "done"
      /\ \A t \in Threads \ {Writer} : \/ pc'[t] = pc[t]
                                       \/ pc[t] = "memWait" /\ pc'[t] = "check"
  BY <1>1 DEF WriterFails2, WakeMemoryWaiters, IInv, TypeOK, ThreadTypes,
     CompressorPlaces
<1>3. UNCHANGED <<next, threadVars>>
  BY DEF WriterFails2, fetchVars
<1>4. ThreadTypes'
  <2>1. \A c \in Compressors : pc'[c] \in CompressorPlaces
    BY <1>1, <1>2 DEF IInv, TypeOK, ThreadTypes, CompressorPlaces, Threads
  <2>. QED
    BY <1>2, <1>3, <2>1 DEF IInv, TypeOK, ThreadTypes, WriterPlaces, threadVars
<1>5. InHand'
  BY <1>2, <1>3 DEF IInv, InHand, Working, CompressorPlaces, threadVars
<1>6. MemoryTypes'
  <2>1. dwMTMemoryUsed' \in 0..(MemModulus - 1)
    BY LimitsAssumption DEF WriterFails2, IInv, TypeOK, MemoryTypes
  <2>2. UNCHANGED <<heap, m_memoryNotEnoughBlocked>>
    BY DEF WriterFails2
  <2>. QED
    BY <2>1, <2>2, Zenon DEF IInv, TypeOK, MemoryTypes
<1>7. FlagTypes' /\ UNCHANGED mainVars
  BY Zenon DEF WriterFails2, IInv, TypeOK, FlagTypes, flagVars
<1>8. (m_QueueContent \in Seq([f : Entries, malloc : Nat]))'
  BY DEF WriterFails2
<1>9. /\ pc[Writer] = "clear"
      /\ Len(m_Index_Compress) = nWrite + 1
      /\ mt_dwAddressQueue = dwAddressDataAreaEndAt
      /\ nWrite = dwFileCountOfWriteTarget
      /\ nWrite \in Nat /\ m_Index_Compress \in Seq(Records)
  BY DEF WriterFails2, IInv, WriterInv, CountInv, Holding, Over, TypeOK, WriterTypes
<1>10. m_Index_Compress' = SubSeq(m_Index_Compress, 1, nWrite)
  BY <1>9 DEF WriterFails2
<1>11. /\ m_Index_Compress' \in Seq(Records) /\ Len(m_Index_Compress') = nWrite
       /\ \A i \in 1..nWrite : m_Index_Compress'[i] = m_Index_Compress[i]
  BY <1>9, <1>10
<1>12. UNCHANGED <<mt_dwAddressQueue, dwAddressDataAreaEndAt, nWrite,
                   dwFileCountOfWriteTarget, disk>>
  BY DEF WriterFails2
<1>13. WriterTypes'
  BY <1>11, <1>12 DEF IInv, TypeOK, WriterTypes
<1>14. WriterInv'
  <2>1. RecordsInv'
    BY <1>9, <1>11, <1>12, RecordsStay DEF IInv, WriterInv
  <2>2. CountInv'
    BY <1>2, <1>9, <1>11, <1>12 DEF CountInv, Holding, Between, Over
  <2>. QED
    BY <2>1, <2>2 DEF WriterInv
<1>. QED
  BY <1>4, <1>5, <1>6, <1>7, <1>8, <1>9, <1>13, <1>14 DEF WriterStep

-----------------------------------------------------------------------------
(***************************************************************************)
(* start() and the user.                                                   *)
(***************************************************************************)
LEMMA MainStep ==
  ASSUME IInv, Main
  PROVE  IInv'
<1>1. /\ UNCHANGED <<fetchVars, pc, threadVars, heap, m_memoryNotEnoughBlocked,
                     m_QueueContent, writerVars>>
      /\ dwMTMemoryUsed' \in {0, dwMTMemoryUsed}
  BY DEF Main, JoinThreads, WriteIndex, ClearThreadFlag, memoryVars
<1>2. ThreadTypes' /\ InHand' /\ WriterTypes'
      /\ (m_QueueContent \in Seq([f : Entries, malloc : Nat]))'
  BY <1>1 DEF IInv, TypeOK, ThreadTypes, InHand, WriterTypes, fetchVars, threadVars,
     writerVars
<1>3. MemoryTypes'
  <2>1. dwMTMemoryUsed' \in 0..(MemModulus - 1)
    BY <1>1, LimitsAssumption DEF IInv, TypeOK, MemoryTypes
  <2>. QED
    BY <1>1, <2>1, Zenon DEF IInv, TypeOK, MemoryTypes
<1>4. FlagTypes'
  <2>1. UNCHANGED flagVars \/ SetErrMsgFlag(PCK_OK)
    BY DEF Main, JoinThreads, WriteIndex, ClearThreadFlag
  <2>2. (PCK_OK # PCK_OK) \in BOOLEAN
    BY Zenon
  <2>. QED
    BY <2>1, <2>2, Zenon DEF IInv, TypeOK, FlagTypes, flagVars, SetErrMsgFlag, Errors
<1>5. WriterInv'
  BY <1>1, WriterFrame DEF IInv
<1>6. MainTypes' /\ MainInv'
  <2>1. CASE JoinThreads
    <3>1. pc[Writer] = "done"
      BY <2>1 DEF JoinThreads, Threads
    <3>2. mt_dwAddressQueue = dwAddressDataAreaEndAt /\ nWrite = dwFileCountOfWriteTarget
      BY <3>1 DEF IInv, WriterInv, CountInv, Over
    <3>. QED
      BY <1>1, <2>1, <3>1, <3>2
         DEF JoinThreads, IInv, TypeOK, MainTypes, WriterTypes, MainInv, writerVars
  <2>2. CASE WriteIndex
    <3>1. /\ pc[Writer] = "done" /\ dwFileCountToAdd = nWrite
          /\ \A t \in Threads : pc[t] = "done"
          /\ dwAddressOfFileEntry = dwAddressDataAreaEndAt
      BY <2>2 DEF WriteIndex, IInv, MainInv
    <3>2. Len(m_Index_Compress) = nWrite
      BY <3>1 DEF IInv, WriterInv, CountInv, Holding
    <3>3. published' = m_Index_Compress
      BY <2>2, <3>1, <3>2, SubSeqFull DEF WriteIndex, IInv, TypeOK, WriterTypes
    <3>. QED
      BY <1>1, <2>2, <3>1, <3>3
         DEF WriteIndex, IInv, TypeOK, MainTypes, WriterTypes, MainInv, writerVars
  <2>3. CASE ClearThreadFlag
    BY <1>1, <2>3
       DEF ClearThreadFlag, IInv, TypeOK, MainTypes, MainInv, writerVars
  <2>. QED
    BY <2>1, <2>2, <2>3 DEF Main
<1>. QED
  BY <1>2, <1>3, <1>4, <1>5, <1>6 DEF IInv, TypeOK

LEMMA ForceBreakStep ==
  ASSUME IInv, ForceBreakThreadWorking
  PROVE  IInv'
<1>1. FlagTypes'
  BY Zenon DEF ForceBreakThreadWorking, IInv, TypeOK, FlagTypes
<1>2. UNCHANGED <<fetchVars, pc, threadVars, memoryVars, m_QueueContent, writerVars,
                  mainVars>>
  BY DEF ForceBreakThreadWorking
<1>3. ThreadTypes' /\ InHand' /\ WriterTypes' /\ MainTypes' /\ MainInv'
      /\ (m_QueueContent \in Seq([f : Entries, malloc : Nat]))'
  BY <1>2 DEF IInv, TypeOK, ThreadTypes, InHand, WriterTypes, MainTypes, MainInv,
     fetchVars, threadVars, writerVars, mainVars
<1>4. MemoryTypes'
  BY <1>2, Zenon DEF IInv, TypeOK, MemoryTypes, memoryVars
<1>5. WriterInv'
  BY <1>2, WriterFrame DEF IInv
<1>. QED
  BY <1>1, <1>3, <1>4, <1>5 DEF IInv, TypeOK

LEMMA StutterStep ==
  ASSUME IInv, UNCHANGED vars
  PROVE  IInv'
<1>1. UNCHANGED <<fetchVars, pc, threadVars, memoryVars, m_QueueContent, writerVars,
                  flagVars, mainVars>>
  BY DEF vars
<1>2. ThreadTypes' /\ InHand' /\ WriterTypes' /\ MainTypes' /\ MainInv'
      /\ (m_QueueContent \in Seq([f : Entries, malloc : Nat]))'
  BY <1>1 DEF IInv, TypeOK, ThreadTypes, InHand, WriterTypes, MainTypes, MainInv,
     fetchVars, threadVars, writerVars, mainVars
<1>3. MemoryTypes' /\ FlagTypes'
  BY <1>1, Zenon DEF IInv, TypeOK, MemoryTypes, FlagTypes, memoryVars, flagVars
<1>4. WriterInv'
  BY <1>1, WriterFrame DEF IInv
<1>. QED
  BY <1>2, <1>3, <1>4 DEF IInv, TypeOK

-----------------------------------------------------------------------------
LEMMA NextIInv ==
  ASSUME IInv, [Next]_vars
  PROVE  IInv'
<1>1. ASSUME NEW c \in Compressors, Compressor(c) PROVE IInv'
  BY <1>1, CompressorStep, QuietStepKeepsIInv DEF Threads
<1>2. ASSUME NEW t \in Threads, Freeing(t) PROVE IInv'
  BY <1>2, FreeingStep, QuietStepKeepsIInv
<1>3. ASSUME GetFindsEmpty \/ GetWaits \/ GetWakesSpuriously PROVE IInv'
  BY <1>3, WaitStep, QuietStepKeepsIInv DEF Threads
<1>4. ASSUME WriteThread, ~GetFindsEmpty, ~GetWaits PROVE IInv'
  BY <1>4, GetEntryStep, GetCancelledStep, WriteEntryStep, WriteFailsStep,
     WindBackStep, WriterFails2Step, WriterStepKeepsIInv DEF WriteThread
<1>. QED
  BY <1>1, <1>2, <1>3, <1>4, MainStep, ForceBreakStep, StutterStep
     DEF Next, WriteThread, Terminated

\* IInv is an invariant of the pipeline.
THEOREM Invariant == Spec => []IInv
BY InitIInv, NextIInv, PTL DEF Spec

\* Every variable keeps its type whatever the threads, entries, sizes and limits are;
\* above all the budget keeps to its 32 bits, though frees may exceed the charges.
THEOREM TypeCorrect == Spec => []TypeOK
<1>1. IInv => TypeOK
  BY DEF IInv
<1>. QED
  BY <1>1, Invariant, PTL

\* The address, the target and the last record are wound back by the failure branch
\* before start() reads them, so what it publishes is laid back to back, and the index
\* table follows it, after any cancellation and any failure.
THEOREM LayoutCorrect == Spec => []PublishedLaidOut
<1>1. IInv => PublishedLaidOut
  <2> SUFFICES ASSUME IInv, phase \in {"flag", "done"}
               PROVE  LaidOut(published) /\ dwAddressOfFileEntry = EndOf(published)
    BY DEF PublishedLaidOut
  <2>1. /\ published = m_Index_Compress /\ pc[Writer] = "done"
        /\ dwAddressOfFileEntry = dwAddressDataAreaEndAt
    BY DEF IInv, MainInv
  <2>2. Len(m_Index_Compress) = nWrite /\ m_Index_Compress \in Seq(Records)
    BY <2>1 DEF IInv, WriterInv, CountInv, Holding, TypeOK, WriterTypes
  <2>3. DOMAIN published = 1..nWrite /\ (published = <<>> <=> nWrite = 0)
    BY <2>1, <2>2
  <2>. QED
    BY <2>1, <2>2, <2>3
       DEF LaidOut, EndOf, IInv, WriterInv, RecordsInv, Laid, EndAt
<1>. QED
  BY <1>1, Invariant, PTL

\* Every record start() publishes has its data in the file and there is data for
\* nothing else, after any cancellation and any failure.
THEOREM StorageCorrect == Spec => []PublishedStored
<1>1. IInv => PublishedStored
  <2> SUFFICES ASSUME IInv, phase \in {"flag", "done"}
               PROVE  disk = {published[i] :
                                i \in {j \in DOMAIN published : published[j].len # 0}}
    BY DEF PublishedStored
  <2>1. published = m_Index_Compress /\ pc[Writer] = "done"
    BY DEF IInv, MainInv
  <2>2. Len(m_Index_Compress) = nWrite /\ m_Index_Compress \in Seq(Records)
    BY <2>1 DEF IInv, WriterInv, CountInv, Holding, TypeOK, WriterTypes
  <2>3. DOMAIN published = 1..nWrite
    BY <2>1, <2>2
  <2>. QED
    BY <2>1, <2>3 DEF IInv, WriterInv, RecordsInv, Extents
<1>. QED
  BY <1>1, Invariant, PTL

-----------------------------------------------------------------------------
(***************************************************************************)
(* Threads that wait for memory.                                           *)
(***************************************************************************)
\* A step that does not touch the flag, and neither starts a wait nor ends a
\* notification, keeps WaitersAnnounced.
LEMMA AnnouncedFrame ==
  ASSUME WaitersAnnounced, m_memoryNotEnoughBlocked => m_memoryNotEnoughBlocked',
         \A c \in Compressors : pc'[c] = "memWait" => pc[c] = "memWait",
         \A t \in Threads : pc[t] = "notify" => pc'[t] = "notify"
  PROVE  WaitersAnnounced'
BY Zenon DEF WaitersAnnounced

LEMMA CompressorAnnounces ==
  ASSUME ThreadTypes, WaitersAnnounced, NEW c \in Compressors, Compressor(c)
  PROVE  WaitersAnnounced'
<1>1. c \in Threads /\ c # Writer
  BY ThreadsAssumption DEF Threads
<1>2. CASE DetectFull(c) \/ MallocFails(c)
  BY <1>2, Zenon DEF DetectFull, MallocFails, AnnounceWait, WaitersAnnounced
<1>3. CASE ~DetectFull(c) /\ ~MallocFails(c)
  <2>1. m_memoryNotEnoughBlocked' = m_memoryNotEnoughBlocked
    BY <1>3, Zenon
       DEF Compressor, FetchEnd, FetchSkipInvalid, FetchEntry, OpenFile,
       DetectCancelled, DetectEnough, MemoryWaitTimeout, Allocate, MallocRetry,
       ViewSource, Shrink, Push, ThreadExit, memoryVars
  <2>2. pc[c] # "notify"
    BY DEF Compressor, FetchEnd, FetchSkipInvalid, FetchEntry, OpenFile,
       DetectCancelled, DetectFull, DetectEnough, MemoryWaitTimeout, Allocate,
       MallocFails, MallocRetry, ViewSource, Shrink, Push, ThreadExit
  <2>3. \E l : \/ pc' = pc
               \/ l # "memWait" /\ (Goto(c, l) \/ NotifyWriter(c, l))
    <3>1. CASE pc' = pc
      BY <3>1
    <3>2. CASE \E l \in {"exit", "put", "open", "check", "alloc", "view", "free",
                         "push"} : Goto(c, l)
      BY <3>2
    <3>3. CASE Push(c) \/ ThreadExit(c)
      BY <3>3 DEF Push, ThreadExit
    <3>. QED
      BY <1>3, <3>1, <3>2, <3>3
         DEF Compressor, FetchEnd, FetchSkipInvalid, FetchEntry, OpenFile,
         DetectCancelled, DetectEnough, MemoryWaitTimeout, Allocate, AfterBuffer,
         MallocRetry, ViewSource, Shrink
  <2>4. \A t \in Threads \ {c} : \/ pc'[t] = pc[t]
                                 \/ pc[t] = "waiting" /\ pc'[t] = "get"
    BY <2>3 DEF ThreadTypes, Goto, NotifyWriter
  <2>5. pc'[c] = pc[c] \/ pc'[c] # "memWait"
    BY <1>1, <2>3 DEF ThreadTypes, Goto, NotifyWriter
  <2>6. \A d \in Compressors : pc'[d] = "memWait" => pc[d] = "memWait"
    BY <2>4, <2>5 DEF Threads
  <2>7. \A t \in Threads : pc[t] = "notify" => pc'[t] = "notify"
    BY <2>2, <2>4
  <2>. QED
    BY <2>1, <2>6, <2>7, AnnouncedFrame
<1>. QED
  BY <1>2, <1>3

LEMMA FreeingAnnounces ==
  ASSUME ThreadTypes, MemoryTypes, WaitersAnnounced, NEW t \in Threads, Freeing(t)
  PROVE  WaitersAnnounced'
<1>1. ret[t] \in {"put", "push", "exit", "get"}
  BY DEF ThreadTypes
<1>2. AfterFree(t) \in {"put", "push", "exit", "get", "free"}
  BY <1>1 DEF AfterFree
<1>3. CASE FreeBuffer(t)
  <2>1. /\ \A u \in Threads \ {t} : pc'[u] = pc[u]
        /\ pc'[t] = "wake" /\ pc[t] = "free"
    BY <1>3 DEF FreeBuffer, Goto, ThreadTypes
  <2>2. m_memoryNotEnoughBlocked' = m_memoryNotEnoughBlocked
    BY <1>3, Zenon DEF FreeBuffer
  <2>. QED
    BY <2>1, <2>2, AnnouncedFrame DEF Threads
<1>4. CASE TestBlocked(t)
  <2>1. /\ pc[t] = "wake" /\ \A u \in Threads \ {t} : pc'[u] = pc[u]
        /\ pc'[t] # "memWait"
    BY <1>2, <1>4 DEF TestBlocked, Goto, ThreadTypes
  <2>2. m_memoryNotEnoughBlocked' = m_memoryNotEnoughBlocked
    BY <1>4 DEF TestBlocked, memoryVars
  <2>. QED
    BY <2>1, <2>2, AnnouncedFrame DEF Threads
<1>5. CASE ClearBlocked(t)
  <2>1. pc'[t] = "notify"
    BY <1>5 DEF ClearBlocked, Goto, ThreadTypes
  <2>. QED
    BY <2>1, Zenon DEF WaitersAnnounced
<1>6. CASE NotifyMemory(t)
  <2>1. \A u \in Threads : pc'[u] # "memWait"
    BY <1>2, <1>6 DEF NotifyMemory, WakeMemoryWaiters
  <2>. QED
    BY <2>1, Zenon DEF WaitersAnnounced, Threads
<1>. QED
  BY <1>3, <1>4, <1>5, <1>6 DEF Freeing

LEMMA WriterAnnounces ==
  ASSUME ThreadTypes, WaitersAnnounced, WriteThread \/ GetWakesSpuriously
  PROVE  WaitersAnnounced'
<1>1. Writer \in Threads /\ Writer \notin Compressors
  BY ThreadsAssumption DEF Threads
<1>2. CASE WriterFails2
  <2>1. \A u \in Threads : pc'[u] # "memWait"
    BY <1>2 DEF WriterFails2, WakeMemoryWaiters
  <2>. QED
    BY <2>1, Zenon DEF WaitersAnnounced, Threads
<1>3. CASE ~WriterFails2
  <2>1. m_memoryNotEnoughBlocked' = m_memoryNotEnoughBlocked
    BY <1>3, Zenon
       DEF WriteThread, GetEntry, GetFindsEmpty, GetWaits, GetCancelled, WriteEntry,
       WriteFails, WriterEnd, WriterFails1, GetWakesSpuriously, memoryVars
  <2>2. pc[Writer] # "notify" /\ \E l : Goto(Writer, l)
    BY <1>3
       DEF WriteThread, GetEntry, GetFindsEmpty, GetWaits, GetCancelled, WriteEntry,
       WriteFails, WriterEnd, WriterFails1, GetWakesSpuriously, Wants, HandleFailure
  <2>3. \A u \in Threads \ {Writer} : pc'[u] = pc[u]
    BY <2>2 DEF Goto, ThreadTypes
  <2>. QED
    BY <1>1, <2>1, <2>2, <2>3, AnnouncedFrame DEF Threads
<1>. QED
  BY <1>2, <1>3

\* A compressor that waits for memory is never forgotten: the next thread to free a
\* buffer finds the flag set, or another one is about to notify, though the flag is
\* tested and cleared outside the mutex it is set under.
THEOREM NoWaiterForgotten == Spec => []WaitersAnnounced
<1>1. Init => WaitersAnnounced
  BY DEF Init, WaitersAnnounced, Threads
<1>2. ASSUME IInv, WaitersAnnounced, [Next]_vars PROVE WaitersAnnounced'
  <2>1. CASE \E c \in Compressors : Compressor(c)
    BY <1>2, <2>1, CompressorAnnounces DEF IInv, TypeOK
  <2>2. CASE \E t \in Threads : Freeing(t)
    BY <1>2, <2>2, FreeingAnnounces DEF IInv, TypeOK
  <2>3. CASE WriteThread \/ GetWakesSpuriously
    BY <1>2, <2>3, WriterAnnounces DEF IInv, TypeOK
  <2>4. CASE Main \/ ForceBreakThreadWorking \/ Terminated \/ UNCHANGED vars
    <3>1. m_memoryNotEnoughBlocked' = m_memoryNotEnoughBlocked
      BY <2>4, Zenon DEF Main, JoinThreads, WriteIndex, ClearThreadFlag,
         ForceBreakThreadWorking, Terminated, vars, memoryVars
    <3>2. pc' = pc
      BY <2>4 DEF Main, JoinThreads, WriteIndex, ClearThreadFlag,
         ForceBreakThreadWorking, Terminated, vars
    <3>. QED
      BY <1>2, <3>1, <3>2, AnnouncedFrame
  <2>. QED
    BY <1>2, <2>1, <2>2, <2>3, <2>4 DEF Next
<1>. QED
  BY <1>1, <1>2, Invariant, PTL DEF Spec
=============================================================================
