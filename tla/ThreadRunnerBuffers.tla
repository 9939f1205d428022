------------------------ MODULE ThreadRunnerBuffers ------------------------
(***************************************************************************)
(* The memory of ThreadRunner.  No buffer is lost: as long as the writer   *)
(* has not failed, every allocated buffer belongs to a thread that still   *)
(* has to free it or to an entry in the queue, so a run that recorded      *)
(* every entry has freed everything.  And the budget is exact: what is     *)
(* charged is what the allocated buffers account for, and it exceeds the   *)
(* limit by one buffer for each compressor at most.                        *)
(***************************************************************************)
EXTENDS ThreadRunnerRefinement

(***************************************************************************)
(* The inductive invariant.                                                *)
(***************************************************************************)
GivingBack == {"free", "wake", "unblock", "notify"}
Asking == {"open", "check", "memWait", "alloc", "allocWait"}
\* Where a compressor needs only the compressed buffer, or is about to free the others.
Tidy == {"put", "push"} \cup GivingBack

\* An entry that needs no buffer but the one for the compressed data.
Alone(f) == Source = "DATA_FROM_FILE" \/ ~IsCompressed(f)

\* A thread has buffers to give back only while it does so; a compressor that fetches
\* has no entry, and one that asks for memory has one that is not empty.
PlaceOf(t) ==
  /\ pc[t] \notin GivingBack => frees[t] = <<>>
  /\ t \in Compressors /\ pc[t] = "fetch" => pckFileIndex[t].f = 0
  /\ t \in Compressors /\ pc[t] \in Asking =>
       /\ Clear[pckFileIndex[t].f] # 0
       /\ Alone(pckFileIndex[t].f) => want[t] = "compressed"
PlacesInv == \A t \in Threads : PlaceOf(t)

\* No empty entry has a buffer, and only recompression takes more than one.
Bufs == {b.buf : b \in heap}
HeapInv ==
  \A buf \in Bufs : Clear[buf[1]] # 0 /\ (Alone(buf[1]) => buf[2] = "compressed")

\* The writer writes the entry of the last record.
HeldInv ==
  pc[Writer] = "write" => pckFileIndex[Writer].f = m_Index_Compress[nWrite + 1].f

\* The target only shrinks, and has when the failure branch goes on.
TargetInv ==
  /\ dwFileCountOfWriteTarget <= Cardinality(Valid)
  /\ pc[Writer] = "clear" => WriterFailed

\* Who has to free a buffer.
ToFree(buf, t) == \E i \in DOMAIN frees[t] : frees[t][i].buf = buf
OfCompressor(buf, c) ==
  /\ pckFileIndex[c].f = buf[1]
  /\ pc[c] \in Tidy => buf[2] = "compressed" \/ ToFree(buf, c)
OfQueue(buf) ==
  buf[2] = "compressed" /\ \E i \in DOMAIN m_QueueContent : m_QueueContent[i].f = buf[1]
OfWriter(buf) ==
  \/ buf[2] = "compressed" /\ pc[Writer] = "write" /\ pckFileIndex[Writer].f = buf[1]
  \/ ToFree(buf, Writer)
Owned(buf) == (\E c \in Compressors : OfCompressor(buf, c)) \/ OfQueue(buf) \/ OfWriter(buf)

Succeeding == pc[Writer] \notin {"fail", "clear"} /\ ~WriterFailed
OwnInv == Succeeding => \A buf \in Bufs : Owned(buf)

Upkeep == PlacesInv /\ HeapInv /\ HeldInv /\ TargetInv /\ OwnInv

-----------------------------------------------------------------------------
(***************************************************************************)
(* What a step of one thread leaves alone.                                 *)
(***************************************************************************)
OthersStay(t) ==
  \A u \in Threads \ {t} :
    /\ pckFileIndex'[u] = pckFileIndex[u] /\ frees'[u] = frees[u]
    /\ u \in Compressors => want'[u] = want[u]
    /\ \/ pc'[u] = pc[u]
       \/ pc[u] = "memWait" /\ pc'[u] = "check"
       \/ pc[u] = "waiting" /\ pc'[u] = "get"

\* The types, as the steps below use them.
LEMMA BufferTypes ==
  ASSUME IInv
  PROVE  /\ pc \in [Threads -> CompressorPlaces \cup WriterPlaces]
         /\ pckFileIndex \in [Threads -> Items]
         /\ want \in [Compressors -> Kinds]
         /\ frees \in [Threads -> Seq(Frees)]
         /\ ret \in [Threads -> {"put", "push", "exit", "get"}]
         /\ ret[Writer] = "get"
         /\ \A buf \in Bufs :
              buf[1] \in Entries /\ buf[2] \in Kinds /\ buf = <<buf[1], buf[2]>>
         /\ 0 \notin Entries
<1>1. heap \subseteq [buf : Entries \X Kinds, size : Nat]
  BY DEF IInv, TypeOK, MemoryTypes
<1>2. \A buf \in Bufs :
        buf[1] \in Entries /\ buf[2] \in Kinds /\ buf = <<buf[1], buf[2]>>
  BY <1>1 DEF Bufs
<1>3. 0 \notin Entries
  BY SourceAssumption DEF Entries
<1>. QED
  BY <1>1, <1>2, <1>3 DEF IInv, TypeOK, ThreadTypes

LEMMA ThreadSets ==
  /\ Writer \in Threads /\ Writer \notin Compressors /\ Compressors \subseteq Threads
  /\ \A t \in Threads : t = Writer \/ t \in Compressors
BY ThreadsAssumption DEF Threads

LEMMA CompressorLeavesOthers ==
  ASSUME IInv, NEW c \in Compressors, Compressor(c)
  PROVE  OthersStay(c)
<1>1. /\ \A u \in Threads \ {c} : pckFileIndex'[u] = pckFileIndex[u]
      /\ \A u \in Threads \ {c} : frees'[u] = frees[u]
      /\ \A u \in Compressors \ {c} : want'[u] = want[u]
  BY BufferTypes, ThreadSets
     DEF Compressor, FetchEnd, FetchSkipInvalid, FetchEntry, OpenFile, DetectCancelled,
     DetectFull, DetectEnough, MemoryWaitTimeout, Allocate, MallocFails, MallocRetry,
     ViewSource, Shrink, Push, ThreadExit, threadVars
<1>2. CASE Push(c) \/ ThreadExit(c)
  BY <1>1, <1>2, BufferTypes, ThreadSets DEF OthersStay, Push, ThreadExit, NotifyWriter
<1>3. CASE ~Push(c) /\ ~ThreadExit(c)
  <2>1. pc' = pc \/ \E l : Goto(c, l)
    BY <1>3
       DEF Compressor, FetchEnd, FetchSkipInvalid, FetchEntry, OpenFile, DetectCancelled,
       DetectFull, DetectEnough, MemoryWaitTimeout, Allocate, MallocFails, MallocRetry,
       ViewSource, Shrink
  <2>. QED
    BY <1>1, <2>1, BufferTypes, ThreadSets DEF OthersStay, Goto
<1>. QED
  BY <1>2, <1>3

LEMMA FreeingLeavesOthers ==
  ASSUME IInv, NEW t \in Threads, Freeing(t)
  PROVE  OthersStay(t) /\ pckFileIndex' = pckFileIndex /\ want' = want
<1>1. /\ pckFileIndex' = pckFileIndex /\ want' = want
      /\ \A u \in Threads \ {t} : frees'[u] = frees[u]
  BY BufferTypes DEF Freeing, FreeBuffer, TestBlocked, ClearBlocked, NotifyMemory, threadVars
<1>2. (\E l : Goto(t, l)) \/ (\E l : WakeMemoryWaiters(t, l))
  BY DEF Freeing, FreeBuffer, TestBlocked, ClearBlocked, NotifyMemory
<1>. QED
  BY <1>1, <1>2, BufferTypes DEF OthersStay, Goto, WakeMemoryWaiters

LEMMA WriterLeavesOthers ==
  ASSUME IInv, WriteThread \/ GetWakesSpuriously
  PROVE  OthersStay(Writer) /\ want' = want
<1>1. /\ want' = want
      /\ \A u \in Threads \ {Writer} : pckFileIndex'[u] = pckFileIndex[u]
      /\ \A u \in Threads \ {Writer} : frees'[u] = frees[u]
  BY BufferTypes, ThreadSets
     DEF WriteThread, GetEntry, GetFindsEmpty, GetWaits, GetCancelled, WriteEntry,
     WriteFails, WriterEnd, WriterFails1, WriterFails2, GetWakesSpuriously, threadVars
<1>2. (\E l : Goto(Writer, l)) \/ (\E l : WakeMemoryWaiters(Writer, l))
  BY DEF WriteThread, GetEntry, GetFindsEmpty, GetWaits, GetCancelled, WriteEntry,
     WriteFails, HandleFailure, WriterEnd, WriterFails1, WriterFails2, GetWakesSpuriously
<1>. QED
  BY <1>1, <1>2, BufferTypes DEF OthersStay, Goto, WakeMemoryWaiters

\* The places of the others stay right.
LEMMA PlacesFrame ==
  ASSUME PlacesInv, NEW t \in Threads, OthersStay(t), PlaceOf(t)'
  PROVE  PlacesInv'
BY DEF PlacesInv, PlaceOf, OthersStay, GivingBack, Asking

-----------------------------------------------------------------------------
(***************************************************************************)
(* Places.                                                                 *)
(***************************************************************************)
LEMMA CompressorKeepsPlaces ==
  ASSUME IInv, PlacesInv, NEW c \in Compressors, Compressor(c)
  PROVE  PlacesInv'
<1> SUFFICES PlaceOf(c)'
  BY ThreadSets, CompressorLeavesOthers, PlacesFrame
<1>1. c \in Threads /\ c # Writer /\ PlaceOf(c)
  BY ThreadSets DEF PlacesInv
<1>2. CASE FetchEntry(c)
  <2>1. /\ pckFileIndex'[c].f = next /\ want'[c] = "compressed" /\ frees' = frees
        /\ pc[c] = "fetch"
        /\ pc'[c] = IF Clear[next] = 0 THEN "put"
                    ELSE IF Source = "DATA_FROM_FILE" THEN "open" ELSE "check"
    BY <1>1, <1>2, BufferTypes DEF FetchEntry, Goto
  <2>. QED
    BY <1>1, <2>1 DEF PlaceOf, GivingBack, Asking
<1>3. CASE Allocate(c)
  <2>1. frees' = frees /\ pckFileIndex' = pckFileIndex
    BY <1>3 DEF Allocate
  <2>2. pc'[c] = AfterBuffer(pckFileIndex[c].f, want[c]) /\ pc[c] = "alloc"
    BY <1>1, <1>3, BufferTypes DEF Allocate, Goto
  <2>3. /\ pc'[c] \in {"put", "view", "check"}
        /\ pc'[c] = "check" => ~Alone(pckFileIndex[c].f)
    BY <2>2 DEF AfterBuffer, Alone
  <2>. QED
    BY <1>1, <2>1, <2>2, <2>3 DEF PlaceOf, GivingBack, Asking
<1>4. CASE ViewSource(c) \/ Shrink(c)
  <2>1. pc[c] \in {"view", "put"}
    BY <1>4 DEF ViewSource, Shrink
  <2>2. \/ Goto(c, "free")
        \/ \E l \in {"put", "push", "exit"} : Goto(c, l) /\ frees' = frees
    BY <1>4 DEF ViewSource, Shrink
  <2>3. pc'[c] = "free" \/ (pc'[c] \in {"put", "push", "exit"} /\ frees' = frees)
    BY <1>1, <2>2, BufferTypes DEF Goto
  <2>. QED
    BY <1>1, <2>1, <2>3 DEF PlaceOf, GivingBack, Asking
<1>5. CASE Push(c) \/ ThreadExit(c)
  <2>1. /\ pc[c] \in {"push", "exit"} /\ frees' = frees
        /\ (pc'[c] = "fetch" /\ pckFileIndex'[c].f = 0) \/ pc'[c] = "done"
    BY <1>1, <1>5, BufferTypes DEF Push, ThreadExit, NotifyWriter, NoItem, threadVars
  <2>. QED
    BY <1>1, <2>1 DEF PlaceOf, GivingBack, Asking
<1>6. CASE FetchEnd(c) \/ FetchSkipInvalid(c) \/ OpenFile(c) \/ DetectCancelled(c)
             \/ DetectFull(c) \/ DetectEnough(c) \/ MemoryWaitTimeout(c)
             \/ MallocFails(c) \/ MallocRetry(c)
  <2>1. pckFileIndex' = pckFileIndex /\ want' = want /\ frees' = frees
    BY <1>6
       DEF FetchEnd, FetchSkipInvalid, OpenFile, DetectCancelled, DetectFull, DetectEnough,
       MemoryWaitTimeout, MallocFails, MallocRetry, threadVars
  <2>2. \/ Goto(c, "exit") /\ pc[c] \notin GivingBack
        \/ pc[c] \in Asking /\ \E l \in Asking : Goto(c, l)
        \/ pc' = pc
    BY <1>6
       DEF FetchEnd, FetchSkipInvalid, OpenFile, DetectCancelled, DetectFull, DetectEnough,
       MemoryWaitTimeout, MallocFails, MallocRetry, GivingBack, Asking
  <2>3. \/ pc'[c] = "exit" /\ pc[c] \notin GivingBack
        \/ pc[c] \in Asking /\ pc'[c] \in Asking
        \/ pc'[c] = pc[c]
    BY <1>1, <2>2, BufferTypes DEF Goto
  <2>. QED
    BY <1>1, <2>1, <2>3 DEF PlaceOf, GivingBack, Asking
<1>. QED
  BY <1>2, <1>3, <1>4, <1>5, <1>6 DEF Compressor

\* A thread that gives back goes on until nothing is left.
LEMMA FreeingGoes ==
  ASSUME IInv, NEW t \in Threads, Freeing(t)
  PROVE  /\ pc[t] \in GivingBack
         /\ pc'[t] \in GivingBack \/ (pc'[t] = ret[t] /\ frees'[t] = <<>>)
         /\ \/ frees' = frees /\ heap' = heap
            \/ /\ frees[t] # <<>> /\ frees'[t] = Tail(frees[t])
               /\ heap' = {b \in heap : b.buf # Head(frees[t]).buf}
BY BufferTypes
   DEF Freeing, FreeBuffer, TestBlocked, ClearBlocked, NotifyMemory, Goto, WakeMemoryWaiters, AfterFree,
   GivingBack, memoryVars, threadVars, IInv, InHand

LEMMA FreeingKeepsPlaces ==
  ASSUME IInv, PlacesInv, NEW t \in Threads, Freeing(t)
  PROVE  PlacesInv'
<1>1. PlaceOf(t)'
  <2>1. ret[t] \in {"put", "push", "exit", "get"}
    BY BufferTypes
  <2>. QED
    BY <2>1, FreeingGoes DEF PlaceOf, GivingBack, Asking
<1>. QED
  BY <1>1, FreeingLeavesOthers, PlacesFrame

LEMMA WriterKeepsPlaces ==
  ASSUME IInv, PlacesInv, WriteThread \/ GetWakesSpuriously
  PROVE  PlacesInv'
<1>1. PlaceOf(Writer)
  BY ThreadSets DEF PlacesInv
<1>2. pc'[Writer] = "free" \/ (pc[Writer] \notin GivingBack /\ frees' = frees)
  BY BufferTypes, ThreadSets
     DEF WriteThread, GetEntry, GetFindsEmpty, GetWaits, GetCancelled, WriteEntry,
     WriteFails, HandleFailure, WriterEnd, WriterFails1, WriterFails2, GetWakesSpuriously,
     Goto, Wants, GivingBack, threadVars
<1>3. PlaceOf(Writer)'
  BY <1>1, <1>2, ThreadSets DEF PlaceOf, GivingBack
<1>. QED
  BY <1>3, ThreadSets, WriterLeavesOthers, PlacesFrame

-----------------------------------------------------------------------------
(***************************************************************************)
(* Owners, over the steps of a compressor.                                 *)
(***************************************************************************)
\* What c does not change keeps the owners of a buffer.
LEMMA OwnersKept ==
  ASSUME IInv, NEW c \in Compressors, OthersStay(c),
         pc'[Writer] = "write" <=> pc[Writer] = "write",
         \/ m_QueueContent' = m_QueueContent
         \/ \E e \in [f : Entries, malloc : Nat] : m_QueueContent' = Append(m_QueueContent, e),
         NEW buf, Owned(buf), ~OfCompressor(buf, c)
  PROVE  Owned(buf)'
<1>1. \A d \in Compressors \ {c} : OfCompressor(buf, d) => OfCompressor(buf, d)'
  BY ThreadSets DEF OthersStay, OfCompressor, ToFree, Tidy, GivingBack
<1>2. OfQueue(buf) => OfQueue(buf)'
  <2>1. m_QueueContent \in Seq([f : Entries, malloc : Nat])
    BY CustodyTypes
  <2>2. \A i \in DOMAIN m_QueueContent :
          i \in DOMAIN m_QueueContent' /\ m_QueueContent'[i] = m_QueueContent[i]
    BY <2>1
  <2>. QED
    BY <2>2 DEF OfQueue
<1>3. OfWriter(buf) => OfWriter(buf)'
  BY ThreadSets DEF OthersStay, OfWriter, ToFree
<1>. QED
  BY <1>1, <1>2, <1>3 DEF Owned

\* A compressor that stays with its entry keeps what it owns.
LEMMA KeepsOwn ==
  ASSUME NEW c \in Compressors, NEW buf, OfCompressor(buf, c),
         pckFileIndex'[c].f = pckFileIndex[c].f,
         pc'[c] \in Tidy => buf[2] = "compressed"
  PROVE  Owned(buf)'
BY DEF Owned, OfCompressor

\* What a step of a compressor makes of the buffers.
LEMMA CompressorBuffers ==
  ASSUME IInv, NEW c \in Compressors, Compressor(c)
  PROVE  IF Allocate(c) THEN Bufs' = Bufs \cup {<<pckFileIndex[c].f, want[c]>>}
                        ELSE Bufs' = Bufs
<1>1. CASE Allocate(c)
  <2> DEFINE buf == <<pckFileIndex[c].f, want[c]>>
             new == Buffer(pckFileIndex[c].f, want[c],
                           BufferSize(pckFileIndex[c].f, want[c]))
  <2>1. heap' = heap \cup {new} /\ new.buf = buf
    BY <1>1 DEF Allocate, Buffer
  <2>. HIDE DEF new
  <2>2. Bufs' = {b.buf : b \in heap \cup {new}}
    BY <2>1 DEF Bufs
  <2>3. {b.buf : b \in heap \cup {new}} = Bufs \cup {buf}
    BY <2>1 DEF Bufs
  <2>. QED
    BY <1>1, <2>2, <2>3
<1>2. CASE Shrink(c)
  <2> DEFINE shrunk(b) == IF b.buf = <<pckFileIndex[c].f, "compressed">>
                            THEN [b EXCEPT !.size = CipherSize(pckFileIndex[c].f)] ELSE b
  <2>1. ~Allocate(c)
    BY <1>2 DEF Shrink, Allocate
  <2>2. heap \subseteq [buf : Entries \X Kinds, size : Nat]
    BY DEF IInv, TypeOK, MemoryTypes
  <2>3. \/ heap' = heap
        \/ heap' = {shrunk(b) : b \in heap}
    BY <1>2 DEF Shrink
  <2>4. \A b \in heap : shrunk(b).buf = b.buf
    BY <2>2
  <2>. HIDE DEF shrunk
  <2>5. ASSUME heap' = {shrunk(b) : b \in heap} PROVE Bufs' = Bufs
    <3>1. Bufs' = {b.buf : b \in {shrunk(b) : b \in heap}}
      BY <2>5 DEF Bufs
    <3>2. \A buf \in Bufs' : buf \in Bufs
      BY <2>4, <3>1 DEF Bufs
    <3>3. \A buf \in Bufs : buf \in Bufs'
      BY <2>4, <3>1 DEF Bufs
    <3>. QED
      BY <3>2, <3>3
  <2>. QED
    BY <2>1, <2>3, <2>5 DEF Bufs
<1>3. CASE ~Allocate(c) /\ ~Shrink(c)
  BY <1>3
     DEF Compressor, FetchEnd, FetchSkipInvalid, FetchEntry, OpenFile, DetectCancelled,
     DetectFull, DetectEnough, MemoryWaitTimeout, MallocFails, MallocRetry, ViewSource,
     Push, ThreadExit, memoryVars, Bufs
<1>. QED
  BY <1>1, <1>2, <1>3

LEMMA CompressorKeepsHeap ==
  ASSUME IInv, PlacesInv, HeapInv, NEW c \in Compressors, Compressor(c)
  PROVE  HeapInv'
<1>1. CASE Allocate(c)
  <2>1. pc[c] = "alloc" /\ PlaceOf(c)
    BY <1>1, ThreadSets DEF Allocate, PlacesInv
  <2>2. Bufs' = Bufs \cup {<<pckFileIndex[c].f, want[c]>>}
    BY <1>1, CompressorBuffers
  <2>. QED
    BY <2>1, <2>2 DEF PlaceOf, Asking, HeapInv, Alone, IsCompressed
<1>2. CASE ~Allocate(c)
  BY <1>2, CompressorBuffers DEF HeapInv, Alone, IsCompressed
<1>. QED
  BY <1>1, <1>2

\* The buffer a compressor has just allocated is its own.
LEMMA AllocatedIsOwned ==
  ASSUME IInv, PlacesInv, HeapInv, NEW c \in Compressors, Allocate(c)
  PROVE  \A buf \in Bufs' : buf[1] = pckFileIndex[c].f => OfCompressor(buf, c)'
<1> DEFINE f == pckFileIndex[c].f
<1>1. pc[c] = "alloc" /\ PlaceOf(c) /\ pc'[c] = AfterBuffer(f, want[c])
  BY BufferTypes, ThreadSets DEF Allocate, PlacesInv, Goto
<1>2. Bufs' = Bufs \cup {<<f, want[c]>>}
  BY CompressorBuffers DEF Compressor
<1>3. pckFileIndex' = pckFileIndex
  BY DEF Allocate
<1>4. CASE Source = "DATA_FROM_FILE"
  <2>1. \A buf \in Bufs' : buf[2] = "compressed"
    BY <1>1, <1>2, <1>4 DEF HeapInv, Alone, PlaceOf, Asking
  <2>. QED
    BY <1>3, <2>1 DEF OfCompressor
<1>5. CASE Source # "DATA_FROM_FILE"
  <2>1. pc'[c] \notin Tidy
    BY <1>1, <1>5 DEF AfterBuffer, Tidy, GivingBack
  <2>. QED
    BY <1>3, <2>1 DEF OfCompressor
<1>. QED
  BY <1>4, <1>5

LEMMA CompressorKeepsOwn ==
  ASSUME IInv, PlacesInv, HeapInv, NEW c \in Compressors, Compressor(c),
         NEW buf \in Bufs, Owned(buf)
  PROVE  Owned(buf)'
<1> DEFINE f == pckFileIndex[c].f
<1>1. /\ c \in Threads /\ c # Writer /\ PlaceOf(c) /\ buf[1] # 0 /\ buf[2] \in Kinds
      /\ buf = <<buf[1], buf[2]>> /\ OthersStay(c)
      /\ buf \in Bufs'
  BY ThreadSets, BufferTypes, CompressorLeavesOthers, CompressorBuffers DEF PlacesInv
<1>2. pc'[Writer] = "write" <=> pc[Writer] = "write"
  BY CompressorStep DEF QuietStep, Between
<1>3. \/ m_QueueContent' = m_QueueContent
      \/ \E e \in [f : Entries, malloc : Nat] : m_QueueContent' = Append(m_QueueContent, e)
  <2>1. pckFileIndex[c] \in [f : 0..NEntries, malloc : Nat]
    BY <1>1, BufferTypes DEF Items
  <2>2. pckFileIndex[c].f \in Entries => pckFileIndex[c] \in [f : Entries, malloc : Nat]
    BY <2>1
  <2>. QED
    BY <2>2, CompressorMovesEntry DEF NothingMoves, Takes, Queues
<1>4. CASE ~OfCompressor(buf, c)
  BY <1>1, <1>2, <1>3, <1>4, OwnersKept
<1>5. CASE OfCompressor(buf, c)
  <2>1. CASE FetchEnd(c) \/ FetchSkipInvalid(c) \/ FetchEntry(c)
    BY <1>1, <1>5, <2>1 DEF FetchEnd, FetchSkipInvalid, FetchEntry, PlaceOf, OfCompressor
  <2>2. CASE Allocate(c)
    BY <1>1, <1>5, <2>2, AllocatedIsOwned DEF Owned, OfCompressor
  <2>3. CASE ViewSource(c)
    <3>1. pckFileIndex' = pckFileIndex
      BY <2>3 DEF ViewSource
    <3>2. CASE IsCompressed(f)
      <4>1. PICK size : frees'[c] = ScratchBuffers(f, size) /\ pc'[c] = "free"
        BY <1>1, <2>3, <3>2, BufferTypes DEF ViewSource, Goto, f
      <4>2. /\ 1 \in DOMAIN frees'[c] /\ frees'[c][1].buf = <<f, "source">>
            /\ 2 \in DOMAIN frees'[c] /\ frees'[c][2].buf = <<f, "decompress">>
        BY <4>1 DEF ScratchBuffers, Buffer
      <4>3. buf[2] = "compressed" \/ ToFree(buf, c)'
        BY <1>1, <1>5, <4>2 DEF ToFree, Kinds, OfCompressor, f
      <4>. QED
        BY <1>5, <3>1, <4>3 DEF Owned, OfCompressor
    <3>3. CASE ~IsCompressed(f)
      <4>1. buf[2] = "compressed"
        BY <1>5, <3>3 DEF HeapInv, Alone, OfCompressor, f
      <4>. QED
        BY <1>5, <3>1, <4>1, KeepsOwn
    <3>. QED
      BY <3>2, <3>3
  <2>4. CASE Shrink(c)
    <3>1. buf[2] = "compressed"
      BY <1>1, <1>5, <2>4 DEF Shrink, PlaceOf, GivingBack, OfCompressor, Tidy, ToFree
    <3>2. pckFileIndex'[c].f = pckFileIndex[c].f
      BY <1>1, <2>4, BufferTypes DEF Shrink, Items
    <3>. QED
      BY <1>5, <3>1, <3>2, KeepsOwn
  <2>5. CASE Push(c)
    <3>1. buf[2] = "compressed"
      BY <1>1, <1>5, <2>5 DEF Push, PlaceOf, GivingBack, OfCompressor, Tidy, ToFree
    <3>2. /\ m_QueueContent \in Seq([f : Entries, malloc : Nat])
          /\ m_QueueContent' \in Seq([f : Entries, malloc : Nat])
          /\ m_QueueContent' = Append(m_QueueContent, pckFileIndex[c])
      BY <2>5, CustodyTypes, CompressorStep DEF Push, QuietStep
    <3>3. /\ Len(m_QueueContent) + 1 \in DOMAIN m_QueueContent'
          /\ m_QueueContent'[Len(m_QueueContent) + 1] = pckFileIndex[c]
      BY <3>2
    <3>. QED
      BY <1>5, <3>1, <3>3 DEF Owned, OfQueue, OfCompressor
  <2>6. CASE ThreadExit(c)
    <3>1. pckFileIndex' = pckFileIndex /\ pc'[c] = "done"
      BY <1>1, <2>6, BufferTypes DEF ThreadExit, NotifyWriter, threadVars
    <3>. QED
      BY <1>5, <3>1, KeepsOwn DEF Tidy, GivingBack
  <2>7. CASE OpenFile(c) \/ DetectCancelled(c) \/ DetectFull(c) \/ DetectEnough(c)
             \/ MemoryWaitTimeout(c) \/ MallocFails(c) \/ MallocRetry(c)
    <3>1. pckFileIndex' = pckFileIndex
      BY <2>7 DEF OpenFile, DetectCancelled, DetectFull, DetectEnough, MemoryWaitTimeout,
         MallocFails, MallocRetry, threadVars
    <3>2. \E l \in Asking \cup {"exit"} : Goto(c, l)
      BY <2>7 DEF OpenFile, DetectCancelled, DetectFull, DetectEnough, MemoryWaitTimeout,
         MallocFails, MallocRetry, Asking
    <3>3. pc'[c] \notin Tidy
      BY <1>1, <3>2, BufferTypes DEF Goto, Asking, Tidy, GivingBack
    <3>. QED
      BY <1>5, <3>1, <3>3, KeepsOwn DEF OfCompressor
  <2>. QED
    BY <2>1, <2>2, <2>3, <2>4, <2>5, <2>6, <2>7 DEF Compressor
<1>. QED
  BY <1>4, <1>5

-----------------------------------------------------------------------------
(***************************************************************************)
(* Owners, over a step that gives a buffer back.                           *)
(***************************************************************************)
LEMMA FreeingKeepsOwn ==
  ASSUME IInv, NEW t \in Threads, Freeing(t), NEW buf \in Bufs', Owned(buf)
  PROVE  Owned(buf)'
<1>1. /\ OthersStay(t) /\ pckFileIndex' = pckFileIndex /\ m_QueueContent' = m_QueueContent
      /\ pc[t] \in GivingBack
  BY FreeingLeavesOthers, FreeingGoes DEF Freeing, FreeBuffer, TestBlocked, ClearBlocked, NotifyMemory
<1>2. pc'[Writer] = "write" <=> pc[Writer] = "write"
  BY FreeingStep DEF QuietStep, Between
<1>3. \A u \in Threads \ {t} : ToFree(buf, u) => ToFree(buf, u)'
  BY <1>1 DEF OthersStay, ToFree
<1>4. ToFree(buf, t) => ToFree(buf, t)'
  <2>1. CASE frees' = frees
    BY <2>1 DEF ToFree
  <2>2. CASE frees' # frees
    <3>1. /\ frees[t] # <<>> /\ frees'[t] = Tail(frees[t])
          /\ heap' = {b \in heap : b.buf # Head(frees[t]).buf}
      BY <2>2, FreeingGoes
    <3>2. buf # Head(frees[t]).buf
      BY <3>1 DEF Bufs
    <3>3. frees[t] \in Seq(Frees)
      BY BufferTypes
    <3>4. \A i \in DOMAIN frees[t] :
            frees[t][i].buf = buf => i - 1 \in DOMAIN frees'[t] /\ frees'[t][i - 1] = frees[t][i]
      BY <3>1, <3>2, <3>3
    <3>. QED
      BY <3>4 DEF ToFree
  <2>. QED
    BY <2>1, <2>2
<1>5. \A c \in Compressors : OfCompressor(buf, c) => OfCompressor(buf, c)'
  BY <1>1, <1>3, <1>4, ThreadSets DEF OthersStay, OfCompressor, Tidy, GivingBack
<1>. QED
  BY <1>1, <1>2, <1>3, <1>4, <1>5, ThreadSets DEF Owned, OfQueue, OfWriter

LEMMA FreeingKeepsHeap ==
  ASSUME IInv, HeapInv, NEW t \in Threads, Freeing(t)
  PROVE  HeapInv' /\ Bufs' \subseteq Bufs
<1>1. heap' \subseteq heap
  BY FreeingGoes
<1>. QED
  BY <1>1 DEF HeapInv, Bufs, Alone, IsCompressed

-----------------------------------------------------------------------------
(***************************************************************************)
(* Owners, over the steps of the writer.                                   *)
(***************************************************************************)
\* An entry with something in it is also written with something in it.
SomethingIsWritten == \A f \in Valid : CipherSize(f) = 0 => Clear[f] = 0

LEMMA WriterKeepsHeap ==
  ASSUME IInv, HeapInv, WriteThread \/ GetWakesSpuriously
  PROVE  HeapInv' /\ Bufs' \subseteq Bufs
<1>1. heap' \subseteq heap
  BY DEF WriteThread, GetEntry, GetFindsEmpty, GetWaits, GetCancelled, WriteEntry,
     WriteFails, WriterEnd, WriterFails1, WriterFails2, GetWakesSpuriously, memoryVars
<1>. QED
  BY <1>1 DEF HeapInv, Bufs, Alone, IsCompressed

LEMMA WriterKeepsHeld ==
  ASSUME IInv, HeldInv, TargetInv, WriteThread \/ GetWakesSpuriously
  PROVE  HeldInv' /\ TargetInv'
<1>1. /\ Writer \in Threads /\ pckFileIndex \in [Threads -> Items]
      /\ pc \in [Threads -> CompressorPlaces \cup WriterPlaces]
  BY BufferTypes, ThreadSets
<1>2. CASE GetEntry
  <2>1. Len(m_Index_Compress) = nWrite /\ m_Index_Compress \in Seq(Records) /\ nWrite \in Nat
    BY <1>2, CustodyTypes DEF GetEntry, Wants, IInv, WriterInv, CountInv, Holding
  <2>2. /\ m_Index_Compress' = Append(m_Index_Compress, RecordOf(Head(m_QueueContent)))
        /\ m_Index_Compress' \in Seq(Records)
        /\ nWrite' = nWrite
    BY <1>2, GetEntryStep DEF GetEntry, RecordOf, WriterStep, WriterTypes
  <2>3. m_Index_Compress'[nWrite + 1] = RecordOf(Head(m_QueueContent))
    BY <2>1, <2>2
  <2>4. pckFileIndex'[Writer] = Head(m_QueueContent)
    <3>1. pckFileIndex' = [pckFileIndex EXCEPT ![Writer] = Head(m_QueueContent)]
      BY <1>2 DEF GetEntry
    <3>. QED
      BY <1>1, <3>1
  <2>5. HeldInv'
    <3>1. nWrite' = nWrite /\ RecordOf(Head(m_QueueContent)).f = Head(m_QueueContent).f
      BY <2>2 DEF RecordOf
    <3>. QED
      BY <2>3, <2>4, <3>1, Zenon DEF HeldInv
  <2>6. TargetInv'
    BY <1>1, <1>2 DEF GetEntry, Goto, TargetInv
  <2>. QED
    BY <2>5, <2>6
<1>3. CASE WriterFails1
  <2>1. /\ nWrite < dwFileCountOfWriteTarget /\ nWrite \in Nat
        /\ dwFileCountOfWriteTarget \in Nat
    BY <1>3 DEF WriterFails1, IInv, WriterInv, CountInv, TypeOK, WriterTypes
  <2>2. pc'[Writer] = "clear" /\ dwFileCountOfWriteTarget' = nWrite
    BY <1>1, <1>3 DEF WriterFails1, Goto
  <2>3. TargetInv'
    BY <2>1, <2>2, NumberOfEntries DEF TargetInv, WriterFailed
  <2>. QED
    BY <2>2, <2>3 DEF HeldInv
<1>4. CASE ~GetEntry /\ ~WriterFails1
  <2>1. pc'[Writer] \notin {"write", "clear"} /\ dwFileCountOfWriteTarget' = dwFileCountOfWriteTarget
    BY <1>1, <1>4
       DEF WriteThread, GetFindsEmpty, GetWaits, GetCancelled, WriteEntry, WriteFails,
       HandleFailure, WriterEnd, WriterFails2, GetWakesSpuriously, Goto, WakeMemoryWaiters,
       writerVars
  <2>. QED
    BY <2>1 DEF HeldInv, TargetInv
<1>. QED
  BY <1>2, <1>3, <1>4

LEMMA WriterKeepsOwn ==
  ASSUME IInv, Promise, PlacesInv, HeapInv, HeldInv, OwnInv, SomethingIsWritten,
         TargetInv, WriteThread \/ GetWakesSpuriously
  PROVE  OwnInv'
<1> SUFFICES ASSUME Succeeding', NEW buf \in Bufs'
             PROVE  Owned(buf)'
  BY DEF OwnInv
<1>1. /\ Writer \in Threads /\ PlaceOf(Writer) /\ OthersStay(Writer)
      /\ pckFileIndex \in [Threads -> Items] /\ frees \in [Threads -> Seq(Frees)]
      /\ ret \in [Threads -> {"put", "push", "exit", "get"}]
      /\ pc \in [Threads -> CompressorPlaces \cup WriterPlaces]
  BY BufferTypes, ThreadSets, WriterLeavesOthers DEF PlacesInv
<1>2. buf \in Bufs /\ Clear[buf[1]] # 0 /\ buf = <<buf[1], buf[2]>>
  BY WriterKeepsHeap, BufferTypes DEF HeapInv
<1>3. /\ ~WriteFails /\ ~GetCancelled /\ ~WriterFails1 /\ ~WriterFails2
      /\ dwFileCountOfWriteTarget' = dwFileCountOfWriteTarget
  <2>1. ~WriteFails /\ ~GetCancelled /\ ~WriterFails1
    BY <1>1 DEF Succeeding, WriteFails, HandleFailure, GetCancelled, WriterFails1, Goto
  <2>2. ~WriterFails2
    BY DEF Succeeding, WriterFails2, TargetInv, WriterFailed
  <2>. QED
    BY <2>1, <2>2
       DEF WriteThread, GetEntry, GetFindsEmpty, GetWaits, WriteEntry, WriterEnd,
       GetWakesSpuriously, writerVars
<1>4. pc[Writer] \notin {"fail", "clear"}
  BY <1>3 DEF WriteThread, GetEntry, GetFindsEmpty, GetWaits, WriteEntry, WriterEnd,
     GetWakesSpuriously, Wants
<1>5. Owned(buf)
  BY <1>2, <1>3, <1>4 DEF OwnInv, Succeeding, WriterFailed
<1>6. \A c \in Compressors : OfCompressor(buf, c) => OfCompressor(buf, c)'
  BY <1>1, ThreadSets DEF OthersStay, OfCompressor, ToFree, Tidy, GivingBack
<1>7. CASE GetEntry
  <2>1. /\ m_QueueContent' = Tail(m_QueueContent) /\ m_QueueContent # <<>>
        /\ pckFileIndex' = [pckFileIndex EXCEPT ![Writer] = Head(m_QueueContent)]
        /\ pc[Writer] = "get" /\ pc'[Writer] = "write"
    BY <1>1, <1>7 DEF GetEntry, QueueAfterGet, Wants, Goto
  <2>2. pckFileIndex'[Writer] = Head(m_QueueContent)
    BY <1>1, <2>1
  <2>3. \A i \in DOMAIN m_QueueContent :
          \/ m_QueueContent[i] = Head(m_QueueContent)
          \/ i - 1 \in DOMAIN m_QueueContent' /\ m_QueueContent'[i - 1] = m_QueueContent[i]
    <3>1. /\ m_QueueContent \in Seq([f : Entries, malloc : Nat])
          /\ m_QueueContent # <<>> /\ m_QueueContent' = Tail(m_QueueContent)
      BY <2>1, CustodyTypes
    <3>2. /\ Len(m_QueueContent) \in Nat /\ DOMAIN m_QueueContent = 1..Len(m_QueueContent)
          /\ Head(m_QueueContent) = m_QueueContent[1]
          /\ DOMAIN m_QueueContent' = 1..(Len(m_QueueContent) - 1)
          /\ \A i \in 1..(Len(m_QueueContent) - 1) : m_QueueContent'[i] = m_QueueContent[i + 1]
      BY <3>1
    <3>3. \A i \in DOMAIN m_QueueContent :
            i = 1 \/ (i - 1 \in 1..(Len(m_QueueContent) - 1) /\ i - 1 + 1 = i)
      BY <3>2
    <3>. QED
      BY <3>2, <3>3
  <2>4. OfQueue(buf) => OfQueue(buf)' \/ OfWriter(buf)'
    BY <2>1, <2>2, <2>3 DEF OfQueue, OfWriter
  <2>5. ~OfWriter(buf)
    BY <1>1, <2>1 DEF OfWriter, ToFree, PlaceOf, GivingBack
  <2>. QED
    BY <1>5, <1>6, <2>4, <2>5 DEF Owned
<1>8. CASE WriteEntry
  <2> DEFINE entry == pckFileIndex[Writer]
             record == m_Index_Compress[nWrite + 1]
  <2>1. pc[Writer] = "write" /\ Len(m_Index_Compress) = nWrite + 1 /\ nWrite \in Nat
    BY <1>8, CustodyTypes DEF WriteEntry, IInv, WriterInv, CountInv, Holding
  <2>2. /\ entry.f = record.f /\ record.f \in Valid /\ record.len = CipherSize(record.f)
    <3>1. Settled = nWrite + 1 /\ nWrite + 1 \in 1..Settled
      BY <2>1 DEF Settled
    <3>. QED
      BY <2>1, <3>1 DEF HeldInv, Promise, Custody, Fetched
  <2>3. OfWriter(buf) => OfWriter(buf)'
    <3>1. SUFFICES ASSUME buf[1] = entry.f, buf[2] = "compressed" PROVE OfWriter(buf)'
      BY <1>1, <2>1 DEF OfWriter, ToFree, PlaceOf, GivingBack
    <3>2. record.len # 0
      BY <1>2, <2>2, <3>1 DEF SomethingIsWritten
    <3>3. frees'[Writer] = WriterFrees(entry)
      BY <1>1, <1>8, <2>1, <3>2 DEF WriteEntry
    <3>4. 1 \in DOMAIN frees'[Writer] /\ frees'[Writer][1].buf = buf
      BY <1>2, <3>1, <3>3 DEF WriterFrees, Buffer
    <3>. QED
      BY <3>4 DEF OfWriter, ToFree
  <2>4. OfQueue(buf) => OfQueue(buf)'
    BY <1>8 DEF WriteEntry, OfQueue
  <2>. QED
    BY <1>5, <1>6, <2>3, <2>4 DEF Owned
<1>9. CASE GetFindsEmpty \/ GetWaits \/ WriterEnd \/ GetWakesSpuriously
  <2>1. /\ m_QueueContent' = m_QueueContent /\ frees' = frees /\ pc[Writer] # "write"
    BY <1>9 DEF GetFindsEmpty, GetWaits, WriterEnd, GetWakesSpuriously, Wants, threadVars
  <2>2. (OfQueue(buf) => OfQueue(buf)') /\ (OfWriter(buf) => OfWriter(buf)')
    BY <2>1 DEF OfQueue, OfWriter, ToFree
  <2>. QED
    BY <1>5, <1>6, <2>2 DEF Owned
<1>. QED
  BY <1>3, <1>7, <1>8, <1>9 DEF WriteThread

-----------------------------------------------------------------------------
LEMMA InitUpkeep == Init => Upkeep
<1> SUFFICES ASSUME Init PROVE Upkeep
  OBVIOUS
<1>1. PlacesInv
  BY ThreadSets DEF Init, PlacesInv, PlaceOf, NoItem, Asking, GivingBack
<1>2. Bufs = {}
  BY DEF Init, Bufs
<1>3. HeldInv /\ TargetInv
  BY NumberOfEntries, ThreadSets DEF Init, HeldInv, TargetInv
<1>. QED
  BY <1>1, <1>2, <1>3 DEF Upkeep, HeapInv, OwnInv

\* A step that is not the writer's leaves what the writer holds.
LEMMA WriterLeftAlone ==
  ASSUME HeldInv, TargetInv, UNCHANGED writerVars, pckFileIndex'[Writer] = pckFileIndex[Writer],
         \/ pc'[Writer] = pc[Writer]
         \/ pc[Writer] \in Between /\ pc'[Writer] \in Between
  PROVE  HeldInv' /\ TargetInv' /\ (Succeeding' => Succeeding)
BY DEF HeldInv, TargetInv, Succeeding, WriterFailed, writerVars, Between

LEMMA NextUpkeep ==
  ASSUME IInv, Promise, Upkeep, SomethingIsWritten, [Next]_vars
  PROVE  Upkeep'
<1> USE DEF Upkeep
<1>1. CASE \E c \in Compressors : Compressor(c)
  <2>1. PICK c \in Compressors : Compressor(c)
    BY <1>1
  <2>2. PlacesInv' /\ HeapInv'
    BY <2>1, CompressorKeepsPlaces, CompressorKeepsHeap
  <2>3. HeldInv' /\ TargetInv' /\ (Succeeding' => Succeeding)
    BY <2>1, CompressorStep, CompressorLeavesOthers, ThreadSets, WriterLeftAlone
       DEF QuietStep, OthersStay
  <2>4. \A buf \in Bufs : Owned(buf) => Owned(buf)'
    BY <2>1, CompressorKeepsOwn
  <2>5. \A buf \in Bufs' : buf \in Bufs \/ Owned(buf)'
    <3>1. CASE Allocate(c)
      BY <2>1, <3>1, CompressorBuffers, AllocatedIsOwned DEF Owned
    <3>2. CASE ~Allocate(c)
      BY <2>1, <3>2, CompressorBuffers
    <3>. QED
      BY <3>1, <3>2
  <2>6. OwnInv'
    BY <2>3, <2>4, <2>5 DEF OwnInv
  <2>. QED
    BY <2>2, <2>3, <2>6
<1>2. CASE \E t \in Threads : Freeing(t)
  <2>1. PICK t \in Threads : Freeing(t)
    BY <1>2
  <2>2. PlacesInv' /\ HeapInv' /\ Bufs' \subseteq Bufs
    BY <2>1, FreeingKeepsPlaces, FreeingKeepsHeap
  <2>3. HeldInv' /\ TargetInv' /\ (Succeeding' => Succeeding)
    BY <2>1, FreeingStep, FreeingLeavesOthers, WriterLeftAlone DEF QuietStep
  <2>4. \A buf \in Bufs' : Owned(buf) => Owned(buf)'
    BY <2>1, FreeingKeepsOwn
  <2>5. OwnInv'
    BY <2>2, <2>3, <2>4 DEF OwnInv
  <2>. QED
    BY <2>2, <2>3, <2>5
<1>3. CASE WriteThread \/ GetWakesSpuriously
  BY <1>3, WriterKeepsPlaces, WriterKeepsHeap, WriterKeepsHeld, WriterKeepsOwn
<1>4. CASE Main \/ ForceBreakThreadWorking \/ Terminated \/ UNCHANGED vars
  <2>1. UNCHANGED <<pc, pckFileIndex, want, frees, heap, m_QueueContent, m_Index_Compress,
                    nWrite, dwFileCountOfWriteTarget>>
    BY <1>4 DEF Main, JoinThreads, WriteIndex, ClearThreadFlag, ForceBreakThreadWorking,
       Terminated, vars, threadVars, memoryVars, writerVars
  <2>2. PlacesInv' /\ HeapInv' /\ HeldInv' /\ TargetInv'
    BY <2>1 DEF PlacesInv, PlaceOf, HeapInv, Bufs, HeldInv, TargetInv, WriterFailed, Alone,
       IsCompressed
  <2>3. OwnInv'
    BY <2>1 DEF OwnInv, Succeeding, WriterFailed, Bufs, Owned, OfCompressor, OfQueue,
       OfWriter, ToFree
  <2>. QED
    BY <2>2, <2>3
<1>. QED
  BY <1>1, <1>2, <1>3, <1>4 DEF Next

\* Nothing is left once every entry is recorded: an owner would have to be at work.
LEMMA NothingLeft ==
  ASSUME IInv, Promise, Upkeep, phase # "threads", ~WriterFailed
  PROVE  heap = {}
<1>1. \A t \in Threads : pc[t] = "done"
  BY DEF IInv, MainInv
<1>2. pc[Writer] = "done" /\ Settled = nWrite
  BY RecordsAtEnd
<1>3. nWrite = Cardinality(Valid)
  BY <1>2 DEF IInv, WriterInv, CountInv, Over, WriterFailed
<1>4. \A f \in Valid : \E i \in 1..Settled : m_Index_Compress[i].f = f
  BY <1>2, <1>3, CountedRecords
<1>5. ASSUME NEW buf \in Bufs PROVE FALSE
  <2>1. Owned(buf)
    BY <1>2, <1>5 DEF Upkeep, OwnInv, Succeeding
  <2>2. buf[1] # 0
    BY <1>5, BufferTypes
  <2>3. ~\E c \in Compressors : OfCompressor(buf, c)
    BY <1>4, <2>2 DEF OfCompressor, Promise, Custody, Fetched, Apart, HandOrRecord
  <2>4. ~OfQueue(buf)
    BY <1>4 DEF OfQueue, Promise, Custody, Fetched, Apart, QueueOrRecord
  <2>5. ~OfWriter(buf)
    BY <1>1, <1>2, ThreadSets DEF OfWriter, ToFree, Upkeep, PlacesInv, PlaceOf, GivingBack
  <2>. QED
    BY <2>1, <2>3, <2>4, <2>5 DEF Owned
<1>. QED
  BY <1>5 DEF Bufs

\* A job that recorded every entry has freed every buffer, whichever thread allocated it
\* and whichever had to free it.  The writer frees a buffer only with the data it writes,
\* so an entry that is not empty must not be written as nothing.
THEOREM NothingLeaks == SomethingIsWritten => (Spec => []NoLeakOnSuccess)
<1>1. Init => IInv /\ Promise /\ Upkeep
  BY InitIInv, InitPromise, InitUpkeep
<1>2. SomethingIsWritten /\ IInv /\ Promise /\ Upkeep /\ [Next]_vars =>
        (IInv /\ Promise /\ Upkeep)'
  BY NextIInv, NextPromise, NextUpkeep
<1>3. IInv /\ Promise /\ Upkeep => NoLeakOnSuccess
  BY NothingLeft DEF NoLeakOnSuccess
<1>4. SomethingIsWritten => []SomethingIsWritten
  OBVIOUS
<1>. QED
  BY <1>1, <1>2, <1>3, <1>4, PTL DEF Spec
-----------------------------------------------------------------------------
(***************************************************************************)
(* Sums over finite sets.  An induction over the subsets of a finite set   *)
(* that needs no operator: the subsets it is about are themselves a set.   *)
(***************************************************************************)
LEMMA SubsetInduction ==
  ASSUME NEW S, IsFiniteSet(S), NEW G,
         \A T \in SUBSET S : (\A U \in SUBSET T : U # T => U \in G) => T \in G
  PROVE  \A T \in SUBSET S : T \in G
<1> DEFINE bad == {T \in SUBSET S : T \notin G}
<1>1. IsWellFoundedOn(StrictSubsetOrdering(S), SUBSET S)
  BY FS_StrictSubsetOrderingWellFounded, FS_FiniteSubsetsOfFinite
<1>2. ASSUME bad # {} PROVE FALSE
  <2>1. bad \subseteq SUBSET S
    OBVIOUS
  <2>. HIDE DEF bad
  <2>2. PICK T \in bad : \A U \in bad : ~(<<U, T>> \in StrictSubsetOrdering(S))
    BY <1>1, <1>2, <2>1, WFMin
  <2>. USE DEF bad
  <2>3. \A U \in SUBSET T : U # T => U \in G
    BY <2>2 DEF StrictSubsetOrdering
  <2>. QED
    BY <2>2, <2>3
<1>. QED
  BY <1>2

\* The recursion that defines a sum: one element is taken out at a time.
First(T) == CHOOSE x \in T : TRUE
Sums(g, w, S) ==
  g = [T \in SUBSET S |-> IF T = {} THEN 0 ELSE w[First(T)] + g[T \ {First(T)}]]

LEMMA FirstIn == \A T : T # {} => First(T) \in T
BY DEF First

LEMMA SumsStep ==
  ASSUME NEW g, NEW w, NEW S, Sums(g, w, S), NEW T \in SUBSET S
  PROVE  g[T] = IF T = {} THEN 0 ELSE w[First(T)] + g[T \ {First(T)}]
BY DEF Sums

\* It has one solution, which does not depend on the set it is defined over.
LEMMA SumsAgree ==
  ASSUME NEW S, IsFiniteSet(S), NEW g, NEW w, Sums(g, w, S),
         NEW R, NEW h, NEW v, Sums(h, v, R),
         NEW V, V \subseteq S, V \subseteq R, \A x \in V : w[x] = v[x]
  PROVE  g[V] = h[V]
<1> DEFINE G == {T \in SUBSET V : g[T] = h[T]}
<1>1. IsFiniteSet(V)
  BY FS_Subset
<1>2. ASSUME NEW T \in SUBSET V, \A U \in SUBSET T : U # T => U \in G
      PROVE  T \in G
  <2>1. /\ g[T] = IF T = {} THEN 0 ELSE w[First(T)] + g[T \ {First(T)}]
        /\ h[T] = IF T = {} THEN 0 ELSE v[First(T)] + h[T \ {First(T)}]
    <3>1. T \in SUBSET S /\ T \in SUBSET R
      OBVIOUS
    <3>2. g[T] = IF T = {} THEN 0 ELSE w[First(T)] + g[T \ {First(T)}]
      BY <3>1 DEF Sums
    <3>3. h[T] = IF T = {} THEN 0 ELSE v[First(T)] + h[T \ {First(T)}]
      BY <3>1 DEF Sums
    <3>. QED
      BY <3>2, <3>3
  <2>2. CASE T = {}
    BY <2>1, <2>2
  <2>3. CASE T # {}
    <3>1. First(T) \in T
      BY <2>3, FirstIn
    <3>2. T \ {First(T)} \in G
      BY <1>2, <3>1
    <3>3. g[T \ {First(T)}] = h[T \ {First(T)}] /\ w[First(T)] = v[First(T)]
      BY <3>1, <3>2
    <3>. QED
      BY <2>1, <2>3, <3>3
  <2>. QED
    BY <2>2, <2>3
<1>. HIDE DEF G
<1>3. \A T \in SUBSET V : T \in G
  BY <1>1, <1>2, SubsetInduction
<1>. QED
  BY <1>3 DEF G

LEMMA SumsExist ==
  ASSUME NEW S, IsFiniteSet(S), NEW w
  PROVE  \E g : Sums(g, w, S)
<1> DEFINE G == {T \in SUBSET S : \E g : Sums(g, w, T)}
<1>1. ASSUME NEW T \in SUBSET S, \A U \in SUBSET T : U # T => U \in G
      PROVE  T \in G
  <2> DEFINE of(U) == CHOOSE g : Sums(g, w, U)
             rest(U) == U \ {First(U)}
             h == [U \in SUBSET T |-> IF U = {} THEN 0
                                      ELSE w[First(U)] + of(rest(U))[rest(U)]]
  <2>1. \A U \in SUBSET T : U # {} => rest(U) \in SUBSET T /\ rest(U) # T /\ rest(U) \subseteq U
    BY FirstIn
  <2>2. \A U \in SUBSET T : U # {} => Sums(of(rest(U)), w, rest(U))
    BY <1>1, <2>1
  <2>3. ASSUME NEW U \in SUBSET T, U # {}
        PROVE  h[rest(U)] = of(rest(U))[rest(U)]
    <3> DEFINE V == rest(U)
               k == of(V)
    <3>1. V \in SUBSET T /\ Sums(k, w, V) /\ V \in SUBSET V
      BY <2>1, <2>2, <2>3
    <3>2. CASE V = {}
      BY <3>1, <3>2, SumsStep
    <3>3. CASE V # {}
      <4>1. Sums(of(rest(V)), w, rest(V)) /\ rest(V) \subseteq V /\ rest(V) \subseteq rest(V)
        BY <2>2, <2>1, <3>1, <3>3
      <4>2. IsFiniteSet(V)
        BY <3>1, FS_Subset
      <4>. HIDE DEF V, k, of, rest
      <4>3. k[rest(V)] = of(rest(V))[rest(V)]
        BY <3>1, <4>1, <4>2, SumsAgree
      <4>4. h[V] = w[First(V)] + of(rest(V))[rest(V)]
        BY <3>1, <3>3
      <4>5. k[V] = w[First(V)] + k[rest(V)]
        BY <3>1, <3>3, SumsStep DEF rest
      <4>. QED
        BY <4>3, <4>4, <4>5 DEF V, k
    <3>. QED
      BY <3>2, <3>3
  <2>4. Sums(h, w, T)
    <3>1. \A U \in SUBSET T : U # {} => h[rest(U)] = of(rest(U))[rest(U)]
      BY <2>3
    <3>. HIDE DEF of
    <3>2. h = [U \in SUBSET T |-> IF U = {} THEN 0 ELSE w[First(U)] + h[rest(U)]]
      <4>1. \A U \in SUBSET T : h[U] = IF U = {} THEN 0 ELSE w[First(U)] + h[rest(U)]
        BY <3>1
      <4>2. h = [U \in SUBSET T |-> h[U]]
        OBVIOUS
      <4>. HIDE DEF h
      <4>. QED
        BY <4>1, <4>2
    <3>. QED
      BY <3>2 DEF Sums
  <2>. HIDE DEF h
  <2>. QED
    BY <2>4
<1>. HIDE DEF G
<1>2. \A T \in SUBSET S : T \in G
  BY <1>1, SubsetInduction
<1>3. S \in G
  BY <1>2
<1>. QED
  BY <1>3 DEF G

\* The sum of w over S.
SumOf(w, S) == MapThenSumSet(LAMBDA x : w[x], S)

LEMMA SumIs ==
  ASSUME NEW S, IsFiniteSet(S), NEW w
  PROVE  \E g : Sums(g, w, S) /\ SumOf(w, S) = g[S]
<1>1. \E g : Sums(g, w, S)
  BY SumsExist
<1>2. SumOf(w, S)
        = (CHOOSE g : g = [s \in SUBSET S |->
             IF s = {} THEN 0
             ELSE w[CHOOSE x \in s : TRUE] + g[s \ {CHOOSE x \in s : TRUE}]])[S]
  BY DEF SumOf, MapThenSumSet, MapThenFoldSet
<1>3. SumOf(w, S) = (CHOOSE g : Sums(g, w, S))[S]
  BY <1>2 DEF Sums, First
<1>. QED
  BY <1>1, <1>3

\* A solution gives the sum over every subset.
LEMMA SumOfSubset ==
  ASSUME NEW S, IsFiniteSet(S), NEW g, NEW w, Sums(g, w, S), NEW T \in SUBSET S
  PROVE  SumOf(w, T) = g[T]
<1>1. IsFiniteSet(T)
  BY FS_Subset
<1>2. PICK h : Sums(h, w, T) /\ SumOf(w, T) = h[T]
  BY <1>1, SumIs
<1>. QED
  BY <1>1, <1>2, SumsAgree

LEMMA SumSame ==
  ASSUME NEW S, IsFiniteSet(S), NEW w, NEW v, \A x \in S : w[x] = v[x]
  PROVE  SumOf(w, S) = SumOf(v, S)
<1>1. PICK g : Sums(g, w, S) /\ SumOf(w, S) = g[S]
  BY SumIs
<1>2. PICK h : Sums(h, v, S) /\ SumOf(v, S) = h[S]
  BY SumIs
<1>3. g[S] = h[S]
  BY <1>1, <1>2, SumsAgree
<1>. QED
  BY <1>1, <1>2, <1>3

LEMMA SumUnfolds ==
  ASSUME NEW S, IsFiniteSet(S), NEW w
  PROVE  SumOf(w, S) = IF S = {} THEN 0 ELSE w[First(S)] + SumOf(w, S \ {First(S)})
<1>1. PICK g : Sums(g, w, S) /\ SumOf(w, S) = g[S]
  BY SumIs
<1>2. SumOf(w, S \ {First(S)}) = g[S \ {First(S)}]
  BY <1>1, SumOfSubset
<1>. QED
  BY <1>1, <1>2, SumsStep

LEMMA SumType ==
  ASSUME NEW S, IsFiniteSet(S), NEW w, NEW N \in {Nat, Int}, \A x \in S : w[x] \in N
  PROVE  SumOf(w, S) \in N
<1> DEFINE G == {T \in SUBSET S : SumOf(w, T) \in N}
<1>1. ASSUME NEW T \in SUBSET S, \A U \in SUBSET T : U # T => U \in G
      PROVE  T \in G
  <2>1. IsFiniteSet(T)
    BY FS_Subset
  <2>2. CASE T = {}
    BY <2>1, <2>2, SumUnfolds
  <2>3. CASE T # {}
    <3>1. First(T) \in T
      BY <2>3, FirstIn
    <3>2. SumOf(w, T \ {First(T)}) \in N
      BY <1>1, <3>1
    <3>3. SumOf(w, T) = w[First(T)] + SumOf(w, T \ {First(T)})
      BY <2>1, <2>3, SumUnfolds
    <3>. QED
      BY <3>1, <3>2, <3>3
  <2>. QED
    BY <2>2, <2>3
<1>. HIDE DEF G
<1>2. \A T \in SUBSET S : T \in G
  BY <1>1, SubsetInduction
<1>3. S \in G
  BY <1>2
<1>. QED
  BY <1>3 DEF G

\* Any element can be taken out of a sum.
LEMMA SumWithout ==
  ASSUME NEW S, IsFiniteSet(S), NEW w, \A x \in S : w[x] \in Int, NEW x \in S
  PROVE  SumOf(w, S) = w[x] + SumOf(w, S \ {x})
<1> DEFINE G == {T \in SUBSET S : \A y \in T : SumOf(w, T) = w[y] + SumOf(w, T \ {y})}
<1>1. ASSUME NEW T \in SUBSET S, \A U \in SUBSET T : U # T => U \in G
      PROVE  T \in G
  <2>. SUFFICES ASSUME NEW y \in T PROVE SumOf(w, T) = w[y] + SumOf(w, T \ {y})
    OBVIOUS
  <2> DEFINE c == First(T)
             R == T \ {c, y}
  <2>1. IsFiniteSet(T) /\ IsFiniteSet(T \ {y}) /\ IsFiniteSet(R)
    BY FS_Subset
  <2>2. c \in T
    BY FirstIn
  <2>3. SumOf(w, T) = w[c] + SumOf(w, T \ {c})
    BY <2>1, SumUnfolds
  <2>. HIDE DEF c
  <2>4. CASE c = y
    BY <2>3, <2>4
  <2>5. CASE c # y
    <3>1. SumOf(w, T \ {c}) = w[y] + SumOf(w, R)
      <4>1. T \ {c} \in G /\ y \in T \ {c}
        BY <1>1, <2>2, <2>5
      <4>2. (T \ {c}) \ {y} = R
        OBVIOUS
      <4>. HIDE DEF R
      <4>. QED
        BY <4>1, <4>2
    <3>2. SumOf(w, T \ {y}) = w[c] + SumOf(w, R)
      <4>1. T \ {y} \in G /\ c \in T \ {y}
        BY <1>1, <2>2, <2>5
      <4>2. (T \ {y}) \ {c} = R
        OBVIOUS
      <4>. HIDE DEF R
      <4>. QED
        BY <4>1, <4>2
    <3>3. w[c] \in Int /\ w[y] \in Int /\ SumOf(w, R) \in Int
      <4>1. \A z \in R : w[z] \in Int
        OBVIOUS
      <4>. HIDE DEF R
      <4>2. SumOf(w, R) \in Int
        BY <2>1, <4>1, SumType
      <4>. QED
        BY <2>2, <4>2
    <3>. HIDE DEF R
    <3>. QED
      BY <2>3, <3>1, <3>2, <3>3
  <2>. QED
    BY <2>4, <2>5
<1>. HIDE DEF G
<1>2. \A T \in SUBSET S : T \in G
  BY <1>1, SubsetInduction
<1>3. S \in G
  BY <1>2
<1>. QED
  BY <1>3 DEF G
-----------------------------------------------------------------------------
\* Remainders.
LEMMA Remainder ==
  ASSUME NEW M \in Nat \ {0}, NEW a \in Int
  PROVE  a % M \in 0..(M - 1) /\ a \div M \in Int /\ a = M * (a \div M) + (a % M)
OBVIOUS

LEMMA RemainderUnique ==
  ASSUME NEW M \in Nat \ {0}, NEW q \in Int, NEW p \in Int,
         NEW r \in 0..(M - 1), NEW s \in 0..(M - 1), M * q + r = M * p + s
  PROVE  r = s
<1>1. M * (q - p) = s - r
  OBVIOUS
<1>2. CASE q - p >= 1
  BY <1>1, <1>2
<1>3. CASE q - p <= -1
  BY <1>1, <1>3
<1>. QED
  BY <1>1, <1>2, <1>3

LEMMA RemainderShift ==
  ASSUME NEW M \in Nat \ {0}, NEW q \in Int, NEW a \in Int, NEW b \in Int, a = b + M * q
  PROVE  a % M = b % M
<1> DEFINE p == a \div M
           o == b \div M
<1>1. a % M \in 0..(M - 1) /\ p \in Int /\ a = M * p + (a % M)
  BY Remainder
<1>2. b % M \in 0..(M - 1) /\ o \in Int /\ b = M * o + (b % M)
  BY Remainder
<1>3. M * o + M * q = M * (o + q) /\ o + q \in Int
  BY <1>2
<1>. HIDE DEF p, o
<1>4. M * p + (a % M) = M * (o + q) + (b % M)
  BY <1>1, <1>2, <1>3
<1>. QED
  BY <1>1, <1>2, <1>3, <1>4, RemainderUnique

\* A charge that moves with the counter.
LEMMA RemainderMoves ==
  ASSUME NEW M \in Nat \ {0}, NEW a \in Int, NEW d \in Int
  PROVE  ((a % M) + d) % M = (a + d) % M
<1> DEFINE p == a \div M
           r == a % M
<1>1. r \in Int /\ p \in Int /\ a = M * p + r
  BY Remainder
<1>. HIDE DEF p, r
<1>2. -p \in Int /\ M * (-p) = -(M * p) /\ M * p \in Int
  BY <1>1
<1>3. r + d = (a + d) + M * (-p) /\ r + d \in Int /\ a + d \in Int
  BY <1>1, <1>2
<1>4. (r + d) % M = (a + d) % M
  BY <1>2, <1>3, RemainderShift
<1>. QED
  BY <1>4 DEF r
-----------------------------------------------------------------------------
(***************************************************************************)
(* The inductive invariant.                                                *)
(***************************************************************************)
\* The budget is compared with the buffers as long as the threads run and the writer
\* has not failed.
Counting == phase = "threads" /\ ~WriterFailed

\* What a compressor has allocated for its entry and not yet passed on: the buffer for
\* the compressed data, and until they are to be freed the two others.
HasCompressed(c) ==
  /\ pckFileIndex[c].f # 0 /\ Clear[pckFileIndex[c].f] # 0
  /\ \/ pc[c] \in Asking /\ want[c] # "compressed"
     \/ pc[c] \in {"view", "put", "push"}
     \/ pc[c] \in GivingBack /\ ret[c] # "exit"
Recompresses(c) == pc[c] = "view" /\ IsCompressed(pckFileIndex[c].f)
HasSource(c) == (pc[c] \in Asking /\ want[c] = "decompress") \/ Recompresses(c)

ItemBuffer(e) == Buffer(e.f, "compressed", e.malloc)
SourceBuffer(f) == Buffer(f, "source", Stored[f])
DecompressBuffer(f) == Buffer(f, "decompress", Clear[f])

\* These buffers are there, with the sizes they were charged with.
HandThere(c) ==
  /\ HasCompressed(c) => ItemBuffer(pckFileIndex[c]) \in heap
  /\ HasSource(c) => SourceBuffer(pckFileIndex[c].f) \in heap
  /\ Recompresses(c) => DecompressBuffer(pckFileIndex[c].f) \in heap

\* So are those to be freed; only for the decompressed data the size may be another.
GivesScratch(c, g) ==
  LET f == pckFileIndex[c].f
  IN \/ g = SourceBuffer(f) /\ g \in heap
     \/ /\ g.buf = <<f, "decompress">> /\ DecompressBuffer(f) \in heap
        /\ g.size \in {Clear[f], InflatedSize(f)}
GivesSlack(c, g) == g.buf = NoBuffer /\ Len(frees[c]) = 1
GiveThere(c) ==
  /\ \A i \in DOMAIN frees[c] :
       /\ pckFileIndex[c].f # 0
       /\ GivesScratch(c, frees[c][i]) \/ GivesSlack(c, frees[c][i])
  /\ \A i, j \in DOMAIN frees[c] : frees[c][i].buf = frees[c][j].buf => i = j

\* What it is about to allocate is not there: no entry has two buffers of a kind.
Missing(c) ==
  CASE want[c] = "compressed" -> Kinds
    [] want[c] = "source"     -> {"source", "decompress"}
    [] want[c] = "decompress" -> {"decompress"}
MissesThese(c) ==
  pc[c] \in Asking => \A kind \in Missing(c) : <<pckFileIndex[c].f, kind>> \notin Bufs

\* The size of a compressed buffer is that of its entry until it is shrunk.
MallocOf(c) ==
  (\/ pc[c] \in Asking \cup {"view", "put"}
   \/ pc[c] \in GivingBack /\ ret[c] = "put")
  => pckFileIndex[c].malloc = MallocSize(pckFileIndex[c].f)

HandInv(c) == HandThere(c) /\ GiveThere(c) /\ MissesThese(c) /\ MallocOf(c)

\* An entry in the queue, and the one the writer writes, has its compressed buffer; the
\* buffer the writer frees is that of the last entry it wrote.
QueueThere ==
  \A i \in DOMAIN m_QueueContent :
    Clear[m_QueueContent[i].f] # 0 => ItemBuffer(m_QueueContent[i]) \in heap
WriterThere ==
  pc[Writer] = "write" /\ Clear[pckFileIndex[Writer].f] # 0 =>
    ItemBuffer(pckFileIndex[Writer]) \in heap
WriterGives ==
  frees[Writer] # <<>> =>
    /\ nWrite # 0 /\ Len(frees[Writer]) = 1 /\ frees[Writer][1] \in heap
    /\ frees[Writer][1].buf = <<m_Index_Compress[nWrite].f, "compressed">>

\* Only entries that were fetched have buffers, and no two of a kind.
KnownBufs == \A buf \in Bufs : Fetched(buf[1])
OneEach ==
  /\ IsFiniteSet(heap)
  /\ \A a, b \in heap : a.buf = b.buf => a = b

There ==
  /\ \A c \in Compressors : HandInv(c)
  /\ QueueThere /\ WriterThere /\ WriterGives
  /\ KnownBufs /\ OneEach

\* The charge that the buffers account for, and the entries that have given back less
\* than their decompress buffer was charged with.
Charge(lost) ==
  MapThenSumSet(LAMBDA b : b.size, heap)
    + MapThenSumSet(LAMBDA t : Head(frees[t]).size, SlackToGiveBack)
    + MapThenSumSet(LAMBDA f : Clear[f] - InflatedSize(f), lost)
GaveLess(f) ==
  /\ <<f, "decompress">> \notin Bufs
  /\ \A c \in Compressors : pckFileIndex[c].f = f => pc[c] \notin Asking

\* Sizes that keep to the 32 bits of the counter.
SizesFit ==
  /\ MaxMemory + Cardinality(Compressors) * LargestBuffer <= MemModulus
  /\ \A f \in Entries : InflatedSize(f) <= Clear[f] /\ CipherSize(f) <= MallocSize(f)

\* Every thread that has passed the check and not yet allocated may add a buffer.
Cleared == {c \in Compressors : pc[c] \in {"alloc", "allocWait"}}
Limit == MaxMemory - 1 + (Cardinality(Compressors) - Cardinality(Cleared)) * LargestBuffer

BudgetInv ==
  \E lost \in SUBSET Damaged :
    /\ \A f \in lost : GaveLess(f)
    /\ dwMTMemoryUsed = Charge(lost) % MemModulus
    /\ SizesFit => Charge(lost) <= Limit

Charges == Counting => There /\ BudgetInv

-----------------------------------------------------------------------------
(***************************************************************************)
(* The three sums of the charge.                                           *)
(***************************************************************************)
\* An element that joins the sum.
LEMMA SumWith ==
  ASSUME NEW S, IsFiniteSet(S), NEW x, x \notin S, NEW w, \A y \in S \cup {x} : w[y] \in Int
  PROVE  /\ IsFiniteSet(S \cup {x})
         /\ SumOf(w, S \cup {x}) = w[x] + SumOf(w, S)
<1>1. IsFiniteSet(S \cup {x})
  BY FS_AddElement
<1>2. x \in S \cup {x} /\ (S \cup {x}) \ {x} = S
  OBVIOUS
<1>3. SumOf(w, S \cup {x}) = w[x] + SumOf(w, (S \cup {x}) \ {x})
  BY <1>1, <1>2, SumWithout
<1>. QED
  BY <1>1, <1>2, <1>3

HeapSum(h) == MapThenSumSet(LAMBDA b : b.size, h)
SlackSum(fr, T) == MapThenSumSet(LAMBDA t : Head(fr[t]).size, T)
LostSum(l) == MapThenSumSet(LAMBDA f : Clear[f] - InflatedSize(f), l)

LEMMA HeapSumIs ==
  ASSUME NEW h, IsFiniteSet(h), NEW w, \A b \in h : w[b] = b.size
  PROVE  HeapSum(h) = SumOf(w, h)
<1>1. PICK g : Sums(g, w, h) /\ SumOf(w, h) = g[h]
  BY SumIs
<1>2. g = [s \in SUBSET h |-> IF s = {} THEN 0
             ELSE (CHOOSE b \in s : TRUE).size + g[s \ {CHOOSE b \in s : TRUE}]]
  <2>1. \A s \in SUBSET h : s # {} => w[First(s)] = First(s).size
    BY FirstIn
  <2>. QED
    BY <1>1, <2>1 DEF Sums, First
<1>3. PICK k :
        /\ k = [s \in SUBSET h |-> IF s = {} THEN 0
                  ELSE (CHOOSE b \in s : TRUE).size + k[s \ {CHOOSE b \in s : TRUE}]]
        /\ k[h] = HeapSum(h)
  BY <1>2 DEF HeapSum, MapThenSumSet, MapThenFoldSet
<1>4. Sums(k, w, h)
  <2>1. \A s \in SUBSET h : s # {} => w[First(s)] = First(s).size
    BY FirstIn
  <2>. QED
    BY <1>3, <2>1 DEF Sums, First
<1>5. g[h] = k[h]
  BY <1>1, <1>4, SumsAgree
<1>. QED
  BY <1>1, <1>3, <1>5

LEMMA SlackSumIs ==
  ASSUME NEW T, IsFiniteSet(T), NEW fr, NEW w, \A t \in T : w[t] = Head(fr[t]).size
  PROVE  SlackSum(fr, T) = SumOf(w, T)
<1>1. PICK g : Sums(g, w, T) /\ SumOf(w, T) = g[T]
  BY SumIs
<1>2. g = [s \in SUBSET T |-> IF s = {} THEN 0
             ELSE Head(fr[CHOOSE t \in s : TRUE]).size + g[s \ {CHOOSE t \in s : TRUE}]]
  <2>1. \A s \in SUBSET T : s # {} => w[First(s)] = Head(fr[First(s)]).size
    BY FirstIn
  <2>. QED
    BY <1>1, <2>1 DEF Sums, First
<1>3. PICK k :
        /\ k = [s \in SUBSET T |-> IF s = {} THEN 0
                  ELSE Head(fr[CHOOSE t \in s : TRUE]).size + k[s \ {CHOOSE t \in s : TRUE}]]
        /\ k[T] = SlackSum(fr, T)
  BY <1>2 DEF SlackSum, MapThenSumSet, MapThenFoldSet
<1>4. Sums(k, w, T)
  <2>1. \A s \in SUBSET T : s # {} => w[First(s)] = Head(fr[First(s)]).size
    BY FirstIn
  <2>. QED
    BY <1>3, <2>1 DEF Sums, First
<1>5. g[T] = k[T]
  BY <1>1, <1>4, SumsAgree
<1>. QED
  BY <1>1, <1>3, <1>5

LEMMA LostSumIs ==
  ASSUME NEW l, IsFiniteSet(l), NEW w, \A f \in l : w[f] = Clear[f] - InflatedSize(f)
  PROVE  LostSum(l) = SumOf(w, l)
<1> DEFINE less(f) == Clear[f] - InflatedSize(f)
<1>1. PICK g : Sums(g, w, l) /\ SumOf(w, l) = g[l]
  BY SumIs
<1>2. g = [s \in SUBSET l |-> IF s = {} THEN 0
             ELSE less(CHOOSE f \in s : TRUE) + g[s \ {CHOOSE f \in s : TRUE}]]
  <2>1. \A s \in SUBSET l : s # {} => w[First(s)] = less(First(s))
    BY FirstIn
  <2>. HIDE DEF less
  <2>. QED
    BY <1>1, <2>1 DEF Sums, First
<1>3. PICK k :
        /\ k = [s \in SUBSET l |-> IF s = {} THEN 0
                  ELSE less(CHOOSE f \in s : TRUE) + k[s \ {CHOOSE f \in s : TRUE}]]
        /\ k[l] = LostSum(l)
  BY <1>2 DEF LostSum, MapThenSumSet, MapThenFoldSet
<1>4. Sums(k, w, l)
  <2>1. \A s \in SUBSET l : s # {} => w[First(s)] = less(First(s))
    BY FirstIn
  <2>. HIDE DEF less
  <2>. QED
    BY <1>3, <2>1 DEF Sums, First
<1>5. g[l] = k[l]
  BY <1>1, <1>4, SumsAgree
<1>. QED
  BY <1>1, <1>3, <1>5

\* What joins or leaves the heap joins or leaves the sum.
LEMMA HeapSumMoves ==
  ASSUME NEW h, IsFiniteSet(h), \A b \in h : b.size \in Nat
  PROVE  /\ HeapSum(h) \in Nat
         /\ \A b : b \notin h /\ b.size \in Nat =>
              IsFiniteSet(h \cup {b}) /\ HeapSum(h \cup {b}) = b.size + HeapSum(h)
         /\ \A b \in h :
              /\ IsFiniteSet(h \ {b}) /\ HeapSum(h) = b.size + HeapSum(h \ {b})
              /\ HeapSum(h \ {b}) \in Nat
<1>1. HeapSum(h) \in Nat
  <2> DEFINE w == [b \in h |-> b.size]
  <2>1. \A b \in h : w[b] = b.size /\ w[b] \in Nat
    OBVIOUS
  <2>. HIDE DEF w
  <2>2. HeapSum(h) = SumOf(w, h)
    BY <2>1, HeapSumIs
  <2>3. SumOf(w, h) \in Nat
    BY <2>1, SumType
  <2>. QED
    BY <2>2, <2>3
<1>2. ASSUME NEW b, b \notin h, b.size \in Nat
      PROVE  IsFiniteSet(h \cup {b}) /\ HeapSum(h \cup {b}) = b.size + HeapSum(h)
  <2> DEFINE w == [x \in h \cup {b} |-> x.size]
  <2>1. \A x \in h \cup {b} : w[x] = x.size /\ w[x] \in Int
    BY <1>2
  <2>. HIDE DEF w
  <2>2. IsFiniteSet(h \cup {b}) /\ SumOf(w, h \cup {b}) = w[b] + SumOf(w, h)
    BY <1>2, <2>1, SumWith
  <2>3. HeapSum(h \cup {b}) = SumOf(w, h \cup {b})
    BY <2>1, <2>2, HeapSumIs
  <2>4. HeapSum(h) = SumOf(w, h)
    BY <2>1, HeapSumIs
  <2>. QED
    BY <2>1, <2>2, <2>3, <2>4
<1>3. ASSUME NEW b \in h
      PROVE  /\ IsFiniteSet(h \ {b}) /\ HeapSum(h) = b.size + HeapSum(h \ {b})
             /\ HeapSum(h \ {b}) \in Nat
  <2> DEFINE w == [x \in h |-> x.size]
  <2>1. /\ \A x \in h : w[x] = x.size /\ w[x] \in Nat /\ w[x] \in Int
        /\ \A x \in h \ {b} : w[x] = x.size /\ w[x] \in Nat
    OBVIOUS
  <2>. HIDE DEF w
  <2>2. IsFiniteSet(h \ {b})
    BY FS_Subset
  <2>3. SumOf(w, h) = w[b] + SumOf(w, h \ {b})
    BY <2>1, SumWithout
  <2>4. HeapSum(h) = SumOf(w, h)
    BY <2>1, HeapSumIs
  <2>5. HeapSum(h \ {b}) = SumOf(w, h \ {b})
    BY <2>1, <2>2, HeapSumIs
  <2>6. SumOf(w, h \ {b}) \in Nat
    BY <2>1, <2>2, SumType
  <2>. QED
    BY <2>1, <2>2, <2>3, <2>4, <2>5, <2>6
<1>. QED
  BY <1>1, <1>2, <1>3

\* The same for the slack: of a thread that gets some to give back, and of one that has
\* given it back.
LEMMA SlackSumMoves ==
  ASSUME NEW T, IsFiniteSet(T), NEW fr, \A t \in T : Head(fr[t]).size \in Nat
  PROVE  /\ SlackSum(fr, T) \in Nat
         /\ \A gr : (\A t \in T : gr[t] = fr[t]) => SlackSum(gr, T) = SlackSum(fr, T)
         /\ \A t : t \notin T /\ Head(fr[t]).size \in Nat =>
              SlackSum(fr, T \cup {t}) = Head(fr[t]).size + SlackSum(fr, T)
<1>1. SlackSum(fr, T) \in Nat
  <2> DEFINE w == [t \in T |-> Head(fr[t]).size]
  <2>1. \A t \in T : w[t] = Head(fr[t]).size /\ w[t] \in Nat
    OBVIOUS
  <2>. HIDE DEF w
  <2>2. SlackSum(fr, T) = SumOf(w, T)
    BY <2>1, SlackSumIs
  <2>3. SumOf(w, T) \in Nat
    BY <2>1, SumType
  <2>. QED
    BY <2>2, <2>3
<1>2. ASSUME NEW gr, \A t \in T : gr[t] = fr[t]
      PROVE  SlackSum(gr, T) = SlackSum(fr, T)
  <2> DEFINE w == [t \in T |-> Head(fr[t]).size]
  <2>1. \A t \in T : w[t] = Head(fr[t]).size
    OBVIOUS
  <2>2. \A t \in T : w[t] = Head(gr[t]).size
    BY <1>2
  <2>. HIDE DEF w
  <2>3. SlackSum(fr, T) = SumOf(w, T)
    BY <2>1, SlackSumIs
  <2>4. SlackSum(gr, T) = SumOf(w, T)
    BY <2>2, SlackSumIs
  <2>. QED
    BY <2>3, <2>4
<1>3. ASSUME NEW t, t \notin T, Head(fr[t]).size \in Nat
      PROVE  SlackSum(fr, T \cup {t}) = Head(fr[t]).size + SlackSum(fr, T)
  <2> DEFINE w == [u \in T \cup {t} |-> Head(fr[u]).size]
  <2>1. \A u \in T \cup {t} : w[u] = Head(fr[u]).size /\ w[u] \in Int
    BY <1>3
  <2>. HIDE DEF w
  <2>2. IsFiniteSet(T \cup {t}) /\ SumOf(w, T \cup {t}) = w[t] + SumOf(w, T)
    BY <1>3, <2>1, SumWith
  <2>3. SlackSum(fr, T \cup {t}) = SumOf(w, T \cup {t})
    BY <2>1, <2>2, SlackSumIs
  <2>4. SlackSum(fr, T) = SumOf(w, T)
    BY <2>1, SlackSumIs
  <2>. QED
    BY <2>1, <2>2, <2>3, <2>4
<1>. QED
  BY <1>1, <1>2, <1>3

LEMMA LostSumMoves ==
  ASSUME NEW l \in SUBSET Entries
  PROVE  /\ IsFiniteSet(l) /\ LostSum(l) \in Int
         /\ SizesFit => LostSum(l) \in Nat
         /\ \A f \in Entries \ l : LostSum(l \cup {f}) = (Clear[f] - InflatedSize(f)) + LostSum(l)
<1> DEFINE less(f) == Clear[f] - InflatedSize(f)
           w == [f \in Entries |-> less(f)]
<1>1. IsFiniteSet(Entries) /\ IsFiniteSet(l)
  <2>1. IsFiniteSet(Entries)
    BY SourceAssumption, FS_Interval DEF Entries
  <2>. QED
    BY <2>1, FS_Subset
<1>2. \A f \in Entries : w[f] = less(f) /\ less(f) \in Int
  BY Sizes
<1>3. SizesFit => \A f \in Entries : less(f) \in Nat
  BY Sizes DEF SizesFit
<1>. HIDE DEF less, w
<1>4. LostSum(l) = SumOf(w, l)
  BY <1>1, <1>2, LostSumIs DEF less
<1>5. SumOf(w, l) \in Int
  BY <1>1, <1>2, SumType
<1>6. SizesFit => SumOf(w, l) \in Nat
  BY <1>1, <1>2, <1>3, SumType
<1>7. ASSUME NEW f \in Entries \ l
      PROVE  LostSum(l \cup {f}) = less(f) + LostSum(l)
  <2>1. IsFiniteSet(l \cup {f}) /\ SumOf(w, l \cup {f}) = w[f] + SumOf(w, l)
    BY <1>1, <1>2, SumWith
  <2>2. LostSum(l \cup {f}) = SumOf(w, l \cup {f})
    BY <1>2, <2>1, LostSumIs DEF less
  <2>. QED
    BY <1>2, <1>4, <2>1, <2>2
<1>. QED
  BY <1>1, <1>4, <1>5, <1>6, <1>7 DEF less

-----------------------------------------------------------------------------
(***************************************************************************)
(* The limit.                                                              *)
(***************************************************************************)
LEMMA LargestOf ==
  ASSUME NEW S, IsFiniteSet(S), S # {}, S \subseteq Nat
  PROVE  Max(S) \in S /\ \A y \in S : y <= Max(S)
<1> DEFINE G == {T \in SUBSET S : T # {} => \E x \in T : \A y \in T : x >= y}
<1>1. ASSUME NEW T \in SUBSET S, \A U \in SUBSET T : U # T => U \in G
      PROVE  T \in G
  <2>. SUFFICES ASSUME T # {} PROVE \E x \in T : \A y \in T : x >= y
    OBVIOUS
  <2>1. PICK z \in T : TRUE
    OBVIOUS
  <2>2. CASE T = {z}
    BY <2>2
  <2>3. CASE T # {z}
    <3>1. T \ {z} \in G /\ T \ {z} # {}
      BY <1>1, <2>1, <2>3
    <3>2. PICK x \in T \ {z} : \A y \in T \ {z} : x >= y
      BY <3>1
    <3>3. x \in Nat /\ z \in Nat /\ \A y \in T : y \in Nat
      BY <2>1, <3>2
    <3>4. CASE x >= z
      BY <3>2, <3>4
    <3>5. CASE z >= x
      BY <3>2, <3>3, <3>5
    <3>. QED
      BY <3>3, <3>4, <3>5
  <2>. QED
    BY <2>2, <2>3
<1>. HIDE DEF G
<1>2. \A T \in SUBSET S : T \in G
  BY <1>1, SubsetInduction
<1>3. S \in G
  BY <1>2
<1>4. \E x \in S : \A y \in S : x >= y
  BY <1>3 DEF G
<1>5. Max(S) \in S /\ \A y \in S : Max(S) >= y
  BY <1>4 DEF Max
<1>. QED
  BY <1>5

LEMMA LargestIs ==
  /\ LargestBuffer \in Nat
  /\ \A f \in Entries, kind \in Kinds : BufferSize(f, kind) \in Nat /\ BufferSize(f, kind) <= LargestBuffer
<1> DEFINE P == Entries \X Kinds
           size == [p \in P |-> BufferSize(p[1], p[2])]
           S == {size[p] : p \in P}
           R == {BufferSize(f, kind) : f \in Entries, kind \in Kinds}
<1>1. \A f \in Entries, kind \in Kinds : BufferSize(f, kind) \in Nat
  BY Sizes
<1>2. IsFiniteSet(P)
  <2>1. IsFiniteSet(Entries)
    BY SourceAssumption, FS_Interval DEF Entries
  <2>2. IsFiniteSet(Kinds)
    <3>1. IsFiniteSet({"compressed"}) /\ IsFiniteSet({"compressed"} \cup {"source"})
      BY FS_EmptySet, FS_Singleton, FS_AddElement
    <3>2. IsFiniteSet({"compressed"} \cup {"source"} \cup {"decompress"})
      BY <3>1, FS_AddElement
    <3>3. Kinds = {"compressed"} \cup {"source"} \cup {"decompress"}
      BY DEF Kinds
    <3>. QED
      BY <3>2, <3>3
  <2>. QED
    BY <2>1, <2>2, FS_Product
<1>3. IsFiniteSet(S)
  <2>1. size \in Surjection(P, S)
    BY DEF Surjection
  <2>. HIDE DEF size, S, P
  <2>. QED
    BY <1>2, <2>1, FS_Surjection
<1>4. S = R
  <2>1. \A f \in Entries, kind \in Kinds : <<f, kind>> \in P /\ size[<<f, kind>>] = BufferSize(f, kind)
    OBVIOUS
  <2>2. \A p \in P : p[1] \in Entries /\ p[2] \in Kinds /\ size[p] = BufferSize(p[1], p[2])
    OBVIOUS
  <2>. HIDE DEF P, size
  <2>3. \A x \in S : x \in R
    BY <2>2
  <2>4. \A x \in R : x \in S
    <3>. SUFFICES ASSUME NEW x \in R PROVE x \in S
      OBVIOUS
    <3>1. PICK f \in Entries, kind \in Kinds : x = BufferSize(f, kind)
      OBVIOUS
    <3>2. <<f, kind>> \in P /\ x = size[<<f, kind>>]
      BY <2>1, <3>1
    <3>. QED
      BY <3>2
  <2>. QED
    BY <2>3, <2>4
<1>. HIDE DEF S, P, size
<1>5. IsFiniteSet({0} \cup R) /\ {0} \cup R # {}
  <2>1. IsFiniteSet(R)
    BY <1>3, <1>4
  <2>2. IsFiniteSet(R \cup {0}) /\ R \cup {0} = {0} \cup R
    BY <2>1, FS_AddElement
  <2>. QED
    BY <2>2
<1>6. {0} \cup R \subseteq Nat
  BY <1>1
<1>7. \A f \in Entries, kind \in Kinds : BufferSize(f, kind) \in {0} \cup R
  OBVIOUS
<1>8. LargestBuffer = Max({0} \cup R)
  BY DEF LargestBuffer
<1>. HIDE DEF R
<1>9. Max({0} \cup R) \in {0} \cup R /\ \A y \in {0} \cup R : y <= Max({0} \cup R)
  BY <1>5, <1>6, LargestOf
<1>. QED
  BY <1>1, <1>6, <1>7, <1>8, <1>9

LEMMA LimitOf ==
  ASSUME NEW S \in SUBSET Compressors,
         NEW most, most = MaxMemory - 1 + (Cardinality(Compressors) - Cardinality(S)) * LargestBuffer
  PROVE  /\ most \in Nat
         /\ SizesFit => most < MemModulus
         /\ most < MaxMemory + Cardinality(Compressors) * LargestBuffer
         /\ MaxMemory - 1 <= most
<1> DEFINE n == Cardinality(Compressors)
           k == Cardinality(S)
           L == LargestBuffer
<1>1. n \in Nat /\ k \in Nat /\ k <= n
  <2>1. IsFiniteSet(Compressors)
    BY ThreadsAssumption
  <2>. QED
    BY <2>1, FS_Subset, FS_CardinalityType
<1>2. L \in Nat /\ MaxMemory \in Nat /\ MaxMemory # 0 /\ MemModulus \in Nat
  BY LargestIs, LimitsAssumption
<1>3. most = MaxMemory - 1 + (n - k) * L
  OBVIOUS
<1>4. SizesFit => MaxMemory + n * L <= MemModulus
  BY DEF SizesFit
<1>. HIDE DEF n, k, L
<1>5. n - k \in Nat /\ (n - k) * L \in Nat /\ n * L \in Nat /\ k * L \in Nat /\ (n - k) * L = n * L - k * L
  BY <1>1, <1>2
<1>6. (n - k) * L <= n * L
  BY <1>5
<1>. QED
  BY <1>2, <1>3, <1>4, <1>5, <1>6 DEF n, L

LEMMA LimitIs ==
  /\ Limit \in Nat /\ Limit' \in Nat
  /\ SizesFit => Limit < MemModulus
  /\ Limit < MaxMemory + Cardinality(Compressors) * LargestBuffer
  /\ MaxMemory - 1 <= Limit /\ MaxMemory - 1 <= Limit'
<1>1. Cleared \in SUBSET Compressors /\ Cleared' \in SUBSET Compressors
  BY DEF Cleared
<1>2. /\ Limit = MaxMemory - 1 + (Cardinality(Compressors) - Cardinality(Cleared)) * LargestBuffer
      /\ Limit' = MaxMemory - 1 + (Cardinality(Compressors) - Cardinality(Cleared')) * LargestBuffer
  BY DEF Limit
<1>. QED
  BY <1>1, <1>2, LimitOf

\* The limit does not fall unless a thread passes the check, and rises by a buffer when
\* one that has passed it goes on.
LEMMA LimitMoves ==
  /\ Cleared' \subseteq Cleared => Limit' >= Limit
  /\ \A c \in Cleared : Cleared' = Cleared \ {c} => Limit' = Limit + LargestBuffer
<1> DEFINE n == Cardinality(Compressors)
           k == Cardinality(Cleared)
           L == LargestBuffer
           m == Cardinality(Cleared')
<1>1. IsFiniteSet(Cleared) /\ n \in Nat /\ k \in Nat
  <2>1. IsFiniteSet(Compressors) /\ Cleared \in SUBSET Compressors
    BY ThreadsAssumption DEF Cleared
  <2>2. IsFiniteSet(Cleared)
    BY <2>1, FS_Subset
  <2>. QED
    BY <2>1, <2>2, FS_CardinalityType
<1>2. L \in Nat /\ MaxMemory \in Nat
  BY LargestIs, LimitsAssumption
<1>3. Limit = MaxMemory - 1 + (n - k) * L /\ Limit' = MaxMemory - 1 + (n - m) * L
  BY DEF Limit
<1>4. Cleared' \subseteq Cleared => m \in Nat /\ m <= k
  BY <1>1, FS_Subset, FS_CardinalityType
<1>5. \A c \in Cleared : Cleared' = Cleared \ {c} => m = k - 1
  BY <1>1, FS_RemoveElement
<1>. HIDE DEF n, k, L, m
<1>6. ASSUME Cleared' \subseteq Cleared PROVE Limit' >= Limit
  <2>1. m \in Nat /\ m <= k /\ k - m \in Nat
    BY <1>1, <1>4, <1>6
  <2>2. (n - m) * L = (n - k) * L + (k - m) * L /\ (k - m) * L \in Nat /\ (n - k) * L \in Int
    BY <1>1, <1>2, <2>1
  <2>. QED
    BY <1>2, <1>3, <2>2
<1>7. ASSUME NEW c \in Cleared, Cleared' = Cleared \ {c} PROVE Limit' = Limit + LargestBuffer
  <2>1. m = k - 1
    BY <1>5, <1>7
  <2>2. (n - m) * L = (n - k) * L + L /\ (n - k) * L \in Int
    BY <1>1, <1>2, <2>1
  <2>. QED
    BY <1>2, <1>3, <2>2 DEF L
<1>. QED
  BY <1>6, <1>7

-----------------------------------------------------------------------------
(***************************************************************************)
(* What a step of a compressor leaves where it is.                         *)
(***************************************************************************)
\* The step frees or resizes buffers of this entry only.
OnlyOf(f) == \A b \in heap : b.buf[1] # f => b \in heap'

LEMMA ReturnsStay ==
  ASSUME IInv
  PROVE  /\ \A c \in Compressors : Compressor(c) => \A u \in Threads \ {c} : ret'[u] = ret[u]
         /\ \A t \in Threads : Freeing(t) => ret' = ret
         /\ WriteThread \/ GetWakesSpuriously => \A u \in Compressors : ret'[u] = ret[u]
<1>1. ASSUME NEW c \in Compressors, Compressor(c)
      PROVE  \A u \in Threads \ {c} : ret'[u] = ret[u]
  BY <1>1, BufferTypes, ThreadSets
     DEF Compressor, FetchEnd, FetchSkipInvalid, FetchEntry, OpenFile, DetectCancelled,
     DetectFull, DetectEnough, MemoryWaitTimeout, Allocate, MallocFails, MallocRetry,
     ViewSource, Shrink, Push, ThreadExit, threadVars
<1>2. ASSUME NEW t \in Threads, Freeing(t)
      PROVE  ret' = ret
  BY <1>2 DEF Freeing, FreeBuffer, TestBlocked, ClearBlocked, NotifyMemory, threadVars
<1>3. ASSUME WriteThread \/ GetWakesSpuriously
      PROVE  \A u \in Compressors : ret'[u] = ret[u]
  BY <1>3, BufferTypes, ThreadSets
     DEF WriteThread, GetEntry, GetFindsEmpty, GetWaits, GetCancelled, WriteEntry,
     WriteFails, WriterEnd, WriterFails1, WriterFails2, GetWakesSpuriously, threadVars
<1>. QED
  BY <1>1, <1>2, <1>3

\* A compressor that is not at work, while buffers of another entry change, keeps its own.
LEMMA HandStays ==
  ASSUME IInv, NEW t \in Threads, OthersStay(t), NEW d \in Compressors \ {t}, HandInv(d),
         ret'[d] = ret[d], NEW f, pckFileIndex[d].f = 0 \/ pckFileIndex[d].f # f, OnlyOf(f),
         \A buf \in Bufs' : buf \in Bufs \/ buf[1] = f
  PROVE  HandInv(d)'
<1> DEFINE e == pckFileIndex[d]
<1>1. /\ pckFileIndex'[d] = e /\ frees'[d] = frees[d] /\ want'[d] = want[d]
      /\ \/ pc'[d] = pc[d]
         \/ pc[d] = "memWait" /\ pc'[d] = "check"
  BY ThreadSets DEF OthersStay, IInv, TypeOK, ThreadTypes, CompressorPlaces
<1>2. pc[d] \in Asking \cup {"view"} => e.f # 0 /\ e.f \in Entries
  BY BufferTypes, ThreadSets DEF IInv, InHand, Working, CompressorPlaces, Asking
<1>3. HandThere(d)'
  <2>1. /\ HasCompressed(d)' => HasCompressed(d)
        /\ HasSource(d)' => HasSource(d)
        /\ Recompresses(d)' => Recompresses(d)
    BY <1>1 DEF HasCompressed, HasSource, Recompresses, IsCompressed, Asking, GivingBack
  <2>2. /\ HasCompressed(d) => e.f # 0
        /\ HasSource(d) => e.f # 0
        /\ Recompresses(d) => e.f # 0
    BY <1>2 DEF HasCompressed, HasSource, Recompresses
  <2>3. /\ ItemBuffer(e).buf[1] = e.f /\ SourceBuffer(e.f).buf[1] = e.f
        /\ DecompressBuffer(e.f).buf[1] = e.f
    BY DEF ItemBuffer, SourceBuffer, DecompressBuffer, Buffer
  <2>4. /\ HasCompressed(d) => ItemBuffer(e) \in heap'
        /\ HasSource(d) => SourceBuffer(e.f) \in heap'
        /\ Recompresses(d) => DecompressBuffer(e.f) \in heap'
    BY <2>2, <2>3 DEF HandInv, HandThere, OnlyOf
  <2>. QED
    BY <1>1, <2>1, <2>4 DEF HandThere, ItemBuffer, SourceBuffer, DecompressBuffer
<1>4. GiveThere(d)'
  <2>1. ASSUME NEW i \in DOMAIN frees[d]
        PROVE  e.f # 0 /\ (GivesScratch(d, frees[d][i]) \/ GivesSlack(d, frees[d][i]))'
    <3>1. e.f # 0 /\ (GivesScratch(d, frees[d][i]) \/ GivesSlack(d, frees[d][i]))
      BY <2>1 DEF HandInv, GiveThere
    <3>2. CASE GivesSlack(d, frees[d][i])
      BY <1>1, <3>1, <3>2 DEF GivesSlack
    <3>3. CASE GivesScratch(d, frees[d][i])
      <4>1. /\ SourceBuffer(e.f) \in heap => SourceBuffer(e.f) \in heap'
            /\ DecompressBuffer(e.f) \in heap => DecompressBuffer(e.f) \in heap'
        BY <3>1 DEF SourceBuffer, DecompressBuffer, Buffer, OnlyOf
      <4>. QED
        BY <1>1, <3>1, <3>3, <4>1 DEF GivesScratch, SourceBuffer, DecompressBuffer, InflatedSize
    <3>. QED
      BY <3>1, <3>2, <3>3
  <2>. QED
    BY <1>1, <2>1 DEF HandInv, GiveThere
<1>5. MissesThese(d)'
  BY <1>1, <1>2 DEF HandInv, MissesThese, Missing, Asking
<1>6. MallocOf(d)'
  BY <1>1 DEF HandInv, MallocOf, MallocSize, IsCompressed, Asking, GivingBack
<1>. QED
  BY <1>3, <1>4, <1>5, <1>6 DEF HandInv

LEMMA QueueStays ==
  ASSUME QueueThere, NEW f, \A i \in DOMAIN m_QueueContent : m_QueueContent[i].f # f, OnlyOf(f),
         m_QueueContent' = m_QueueContent
  PROVE  QueueThere'
<1>1. ASSUME NEW i \in DOMAIN m_QueueContent, Clear[m_QueueContent[i].f] # 0
      PROVE  ItemBuffer(m_QueueContent[i]) \in heap'
  BY <1>1 DEF QueueThere, OnlyOf, ItemBuffer, Buffer
<1>. QED
  BY <1>1 DEF QueueThere, ItemBuffer

\* All that is left to show of a step of a compressor is about the entry it works on.
LEMMA CompressorFrame ==
  ASSUME IInv, Promise, HeldInv, There, NEW c \in Compressors, Compressor(c),
         OnlyOf(pckFileIndex[c].f), HandInv(c)', QueueThere', OneEach',
         Fetched(pckFileIndex[c].f) \/ Bufs' \subseteq Bufs
  PROVE  There'
<1> DEFINE f == pckFileIndex[c].f
<1>1. /\ OthersStay(c) /\ c \in Threads /\ c # Writer /\ Writer \in Threads
      /\ \A u \in Threads \ {c} : ret'[u] = ret[u]
  BY CompressorLeavesOthers, ThreadSets, ReturnsStay
<1>2. \A buf \in Bufs' : buf \in Bufs \/ buf[1] = f
  BY CompressorBuffers
<1>3. ASSUME NEW d \in Compressors \ {c} PROVE HandInv(d)'
  <2>1. pckFileIndex[d].f = 0 \/ pckFileIndex[d].f # f
    BY DEF Promise, Apart, OneHand
  <2>2. HandInv(d) /\ ret'[d] = ret[d]
    BY <1>1, ThreadSets DEF There
  <2>. QED
    BY <1>1, <1>2, <2>1, <2>2, HandStays
<1>4. UNCHANGED writerVars /\ (pc'[Writer] = "write" => pc[Writer] = "write")
  BY CompressorStep DEF QuietStep, Between
<1>5. WriterThere'
  <2>1. pckFileIndex'[Writer] = pckFileIndex[Writer]
    BY <1>1 DEF OthersStay
  <2>2. pc[Writer] = "write" => pckFileIndex[Writer].f # f
    <3>1. pc[Writer] = "write" => nWrite + 1 \in 1..Settled
      BY CustodyTypes DEF Settled
    <3>. QED
      BY <3>1 DEF HeldInv, Promise, Apart, HandOrRecord
  <2>3. ItemBuffer(pckFileIndex[Writer]).buf[1] = pckFileIndex[Writer].f
    BY DEF ItemBuffer, Buffer
  <2>. QED
    BY <1>4, <2>1, <2>2, <2>3 DEF There, WriterThere, OnlyOf, ItemBuffer
<1>6. WriterGives'
  <2>1. frees'[Writer] = frees[Writer]
    BY <1>1 DEF OthersStay
  <2>2. nWrite # 0 => m_Index_Compress[nWrite].f # f
    <3>1. nWrite # 0 => nWrite \in 1..Settled
      BY CustodyTypes DEF Settled
    <3>. QED
      BY <3>1 DEF Promise, Apart, HandOrRecord
  <2>. QED
    BY <1>4, <2>1, <2>2 DEF There, WriterGives, OnlyOf, writerVars
<1>7. KnownBufs'
  <2>1. \A g : Fetched(g) => Fetched(g)'
    <3>1. next' \in {next, next + 1} /\ next \in Nat
      BY CompressorMovesEntry, CustodyTypes DEF NothingMoves, Takes, Queues
    <3>. QED
      BY <3>1, NoEntryZero DEF Fetched
  <2>. QED
    BY <1>2, <2>1 DEF There, KnownBufs
<1>. QED
  BY <1>3, <1>5, <1>6, <1>7 DEF There

-----------------------------------------------------------------------------
(***************************************************************************)
(* The steps of a compressor, and what they do to its own entry.           *)
(***************************************************************************)
\* The steps that change no buffer.
Walks(c) ==
  \/ FetchEnd(c) \/ FetchSkipInvalid(c) \/ OpenFile(c) \/ DetectCancelled(c) \/ DetectFull(c)
  \/ DetectEnough(c) \/ MemoryWaitTimeout(c) \/ MallocFails(c) \/ MallocRetry(c) \/ ThreadExit(c)

LEMMA WalksGoes ==
  ASSUME IInv, NEW c \in Compressors, Walks(c)
  PROVE  /\ UNCHANGED <<pckFileIndex, want, frees, ret, heap, dwMTMemoryUsed, m_QueueContent>>
         /\ pc'[c] = pc[c] \/ pc'[c] \in {"exit", "done"} \/ (pc[c] \in Asking /\ pc'[c] \in Asking)
<1>1. UNCHANGED <<pckFileIndex, want, frees, ret, heap, dwMTMemoryUsed, m_QueueContent>>
  BY DEF Walks, FetchEnd, FetchSkipInvalid, OpenFile, DetectCancelled, DetectFull, DetectEnough,
     MemoryWaitTimeout, MallocFails, MallocRetry, ThreadExit, threadVars, memoryVars
<1>2. \/ Goto(c, "exit") \/ NotifyWriter(c, "done") \/ pc' = pc
      \/ pc[c] \in Asking /\ \E l \in Asking : Goto(c, l)
  BY DEF Walks, FetchEnd, FetchSkipInvalid, OpenFile, DetectCancelled, DetectFull, DetectEnough,
     MemoryWaitTimeout, MallocFails, MallocRetry, ThreadExit, Asking
<1>3. pc \in [Threads -> CompressorPlaces \cup WriterPlaces] /\ c \in Threads /\ c # Writer
  BY BufferTypes, ThreadSets
<1>4. pc'[c] = pc[c] \/ pc'[c] \in {"exit", "done"} \/ (pc[c] \in Asking /\ pc'[c] \in Asking)
  BY <1>2, <1>3 DEF Goto, NotifyWriter
<1>. QED
  BY <1>1, <1>4

LEMMA WalksThere ==
  ASSUME IInv, Promise, There, NEW c \in Compressors, Walks(c)
  PROVE  OnlyOf(pckFileIndex[c].f) /\ HandInv(c)' /\ QueueThere' /\ OneEach' /\ Bufs' = Bufs
<1>1. HandInv(c) /\ QueueThere /\ OneEach
  BY DEF There
<1>2. HandThere(c)'
  BY <1>1, WalksGoes DEF HandInv, HandThere, HasCompressed, HasSource, Recompresses, IsCompressed,
     ItemBuffer, SourceBuffer, DecompressBuffer, Asking, GivingBack
<1>3. GiveThere(c)'
  BY <1>1, WalksGoes DEF HandInv, GiveThere, GivesScratch, GivesSlack, SourceBuffer,
     DecompressBuffer, InflatedSize
<1>4. MissesThese(c)' /\ MallocOf(c)'
  BY <1>1, WalksGoes DEF HandInv, MissesThese, Missing, MallocOf, MallocSize, IsCompressed, Bufs,
     Asking, GivingBack
<1>5. QueueThere' /\ OneEach' /\ Bufs' = Bufs /\ OnlyOf(pckFileIndex[c].f)
  BY <1>1, WalksGoes DEF QueueThere, OneEach, Bufs, OnlyOf, ItemBuffer
<1>. QED
  BY <1>2, <1>3, <1>4, <1>5 DEF HandInv

\* An entry just taken has no buffer yet.
LEMMA FetchThere ==
  ASSUME IInv, Promise, PlacesInv, There, NEW c \in Compressors, FetchEntry(c)
  PROVE  OnlyOf(pckFileIndex[c].f) /\ HandInv(c)' /\ QueueThere' /\ OneEach' /\ Bufs' = Bufs
<1>1. /\ UNCHANGED <<heap, dwMTMemoryUsed, m_QueueContent, frees, ret>>
      /\ pc[c] = "fetch" /\ next \in Valid
  BY DEF FetchEntry, memoryVars
<1>2. /\ pckFileIndex'[c] = [f |-> next, malloc |-> MallocSize(next)]
      /\ want'[c] = "compressed"
      /\ pc'[c] = IF Clear[next] = 0 THEN "put"
                  ELSE IF Source = "DATA_FROM_FILE" THEN "open" ELSE "check"
  BY BufferTypes, ThreadSets DEF FetchEntry, Goto
<1>3. frees[c] = <<>>
  BY <1>1, ThreadSets DEF PlacesInv, PlaceOf, GivingBack
<1>4. HandThere(c)' /\ GiveThere(c)'
  BY <1>1, <1>2, <1>3 DEF HandThere, GiveThere, HasCompressed, HasSource, Recompresses,
     Asking, GivingBack
<1>5. MissesThese(c)'
  <2>1. next \in Nat
    BY CustodyTypes
  <2>2. \A buf \in Bufs : buf[1] # next
    BY <2>1 DEF There, KnownBufs, Fetched
  <2>. QED
    BY <1>1, <1>2, <2>2 DEF MissesThese, Bufs
<1>6. MallocOf(c)'
  BY <1>1, <1>2 DEF MallocOf, MallocSize, IsCompressed
<1>7. QueueThere' /\ OneEach' /\ Bufs' = Bufs /\ OnlyOf(pckFileIndex[c].f)
  BY <1>1 DEF There, QueueThere, OneEach, Bufs, OnlyOf, ItemBuffer
<1>. QED
  BY <1>4, <1>5, <1>6, <1>7 DEF HandInv

\* The buffer of its kind joins those the entry has.
NewBuffer(c) ==
  Buffer(pckFileIndex[c].f, want[c], BufferSize(pckFileIndex[c].f, want[c]))

LEMMA AllocateGoes ==
  ASSUME IInv, Promise, PlacesInv, There, NEW c \in Compressors, Allocate(c)
  PROVE  /\ heap' = heap \cup {NewBuffer(c)} /\ NewBuffer(c) \notin heap
         /\ NewBuffer(c).buf \notin Bufs
         /\ NewBuffer(c).size \in Nat /\ NewBuffer(c).size <= LargestBuffer
         /\ dwMTMemoryUsed' = Memory(dwMTMemoryUsed + NewBuffer(c).size)
         /\ UNCHANGED <<pckFileIndex, frees, ret, m_QueueContent>>
         /\ pc[c] = "alloc" /\ pckFileIndex[c].f \in Entries
         /\ want'[c] = IF want[c] = "compressed" THEN "source" ELSE "decompress"
         /\ pc'[c] = AfterBuffer(pckFileIndex[c].f, want[c])
<1> DEFINE f == pckFileIndex[c].f
<1>1. /\ pc[c] = "alloc" /\ UNCHANGED <<pckFileIndex, frees, ret, m_QueueContent>>
      /\ heap' = heap \cup {NewBuffer(c)}
  BY DEF Allocate, NewBuffer
<1>2. f \in Entries /\ want[c] \in Kinds
  BY <1>1, BufferTypes, ThreadSets DEF IInv, InHand, Working, CompressorPlaces
<1>3. /\ want'[c] = IF want[c] = "compressed" THEN "source" ELSE "decompress"
      /\ pc'[c] = AfterBuffer(f, want[c])
  BY BufferTypes, ThreadSets DEF Allocate, Goto
<1>4. /\ NewBuffer(c).buf = <<f, want[c]>>
      /\ NewBuffer(c).size = BufferSize(f, want[c])
  BY DEF NewBuffer, Buffer
<1>5. NewBuffer(c).size \in Nat /\ NewBuffer(c).size <= LargestBuffer
  BY <1>2, <1>4, LargestIs
<1>6. dwMTMemoryUsed' = Memory(dwMTMemoryUsed + NewBuffer(c).size)
  BY <1>4 DEF Allocate
<1>7. NewBuffer(c).buf \notin Bufs
  <2>1. want[c] \in Missing(c)
    BY <1>2 DEF Kinds, Missing
  <2>. QED
    BY <1>1, <1>4, <2>1 DEF There, HandInv, MissesThese, Asking
<1>8. NewBuffer(c) \notin heap
  BY <1>7 DEF Bufs
<1>. QED
  BY <1>1, <1>2, <1>3, <1>5, <1>6, <1>7, <1>8

LEMMA AllocateThere ==
  ASSUME IInv, Promise, PlacesInv, There, NEW c \in Compressors, Allocate(c)
  PROVE  OnlyOf(pckFileIndex[c].f) /\ HandInv(c)' /\ QueueThere' /\ OneEach'
<1> DEFINE f == pckFileIndex[c].f
<1>1. HandInv(c) /\ QueueThere /\ OneEach
  BY DEF There
<1>2. /\ pc[c] = "alloc" /\ UNCHANGED <<pckFileIndex, frees, ret, m_QueueContent>> /\ f \in Entries
      /\ want'[c] = IF want[c] = "compressed" THEN "source" ELSE "decompress"
      /\ pc'[c] = AfterBuffer(f, want[c])
      /\ heap' = heap \cup {NewBuffer(c)} /\ NewBuffer(c).buf \notin Bufs
  BY AllocateGoes
<1>3. /\ frees[c] = <<>> /\ Clear[f] # 0 /\ f # 0
      /\ Source = "DATA_FROM_FILE" \/ ~IsCompressed(f) => want[c] = "compressed"
  BY <1>2, BufferTypes, ThreadSets DEF PlacesInv, PlaceOf, GivingBack, Asking, Alone
<1>4. want[c] \in Kinds /\ NewBuffer(c).buf = <<f, want[c]>>
  BY BufferTypes DEF NewBuffer, Buffer
<1>5. MallocOf(c)'
  BY <1>1, <1>2 DEF HandInv, MallocOf, Asking, MallocSize, IsCompressed
<1>6. pckFileIndex[c].malloc = MallocSize(f)
  BY <1>1, <1>2 DEF HandInv, MallocOf, Asking
<1>7. HandThere(c)'
  <2>1. CASE want[c] = "compressed"
    <3>1. NewBuffer(c) = ItemBuffer(pckFileIndex[c])
      BY <1>6, <2>1 DEF NewBuffer, ItemBuffer, BufferSize
    <3>2. ItemBuffer(pckFileIndex[c])' \in heap'
      BY <1>2, <3>1 DEF ItemBuffer
    <3>3. want'[c] = "source" /\ pc'[c] \in {"put", "view", "check"} /\
          (pc'[c] = "view" => ~IsCompressed(f))
      BY <1>2, <2>1 DEF AfterBuffer
    <3>4. ~HasSource(c)' /\ ~Recompresses(c)'
      BY <1>2, <3>3 DEF HasSource, Recompresses, IsCompressed
    <3>. QED
      BY <3>2, <3>4 DEF HandThere
  <2>2. CASE want[c] # "compressed"
    <3>1. Source # "DATA_FROM_FILE" /\ IsCompressed(f) /\ want[c] \in {"source", "decompress"}
      BY <1>3, <1>4, <2>2 DEF Kinds
    <3>2. HasCompressed(c)
      BY <1>2, <1>3, <2>2 DEF HasCompressed, Asking
    <3>3. ItemBuffer(pckFileIndex[c]) \in heap
      BY <1>1, <3>2 DEF HandInv, HandThere
    <3>4. CASE want[c] = "source"
      <4>1. NewBuffer(c) = SourceBuffer(f)
        BY <3>4 DEF NewBuffer, SourceBuffer, BufferSize
      <4>2. pc'[c] = "check"
        BY <1>2, <3>1, <3>4 DEF AfterBuffer
      <4>. QED
        BY <1>2, <3>3, <4>1, <4>2 DEF HandThere, Recompresses, ItemBuffer, SourceBuffer
    <3>5. CASE want[c] = "decompress"
      <4>1. NewBuffer(c) = DecompressBuffer(f)
        BY <3>5 DEF NewBuffer, DecompressBuffer, BufferSize
      <4>2. SourceBuffer(f) \in heap
        BY <1>1, <1>2, <3>5 DEF HandInv, HandThere, HasSource, Asking
      <4>. QED
        BY <1>2, <3>3, <4>1, <4>2 DEF HandThere, ItemBuffer, SourceBuffer, DecompressBuffer
    <3>. QED
      BY <3>1, <3>4, <3>5
  <2>. QED
    BY <2>1, <2>2
<1>8. GiveThere(c)'
  BY <1>2, <1>3 DEF GiveThere
<1>9. MissesThese(c)'
  <2>1. Bufs' = Bufs \cup {<<f, want[c]>>}
    BY CompressorBuffers DEF Compressor
  <2>2. \A kind \in Missing(c) : <<f, kind>> \notin Bufs
    BY <1>1, <1>2 DEF HandInv, MissesThese, Asking
  <2>3. CASE want[c] = "compressed"
    <3>1. Missing(c)' = {"source", "decompress"} /\ Missing(c) = Kinds
      BY <1>2, <2>3 DEF Missing
    <3>. QED
      BY <1>2, <2>1, <2>2, <2>3, <3>1 DEF MissesThese, Kinds
  <2>4. CASE want[c] = "source"
    <3>1. Missing(c)' = {"decompress"} /\ Missing(c) = {"source", "decompress"}
      BY <1>2, <2>4 DEF Missing
    <3>. QED
      BY <1>2, <2>1, <2>2, <2>4, <3>1 DEF MissesThese
  <2>5. CASE want[c] = "decompress"
    <3>1. pc'[c] \in {"put", "view"}
      BY <1>2, <2>5 DEF AfterBuffer
    <3>. QED
      BY <3>1 DEF MissesThese, Asking
  <2>. QED
    BY <1>4, <2>3, <2>4, <2>5 DEF Kinds
<1>10. OneEach'
  <2>1. IsFiniteSet(heap')
    BY <1>1, <1>2, FS_AddElement DEF OneEach
  <2>2. \A a, b \in heap' : a.buf = b.buf => a = b
    BY <1>1, <1>2 DEF OneEach, Bufs
  <2>. QED
    BY <2>1, <2>2 DEF OneEach
<1>11. OnlyOf(f) /\ QueueThere'
  BY <1>1, <1>2 DEF OnlyOf, QueueThere, ItemBuffer
<1>. QED
  BY <1>5, <1>7, <1>8, <1>9, <1>10, <1>11 DEF HandInv

\* The two buffers an entry no longer needs are there, and are freed one after the other.
LEMMA ViewThere ==
  ASSUME IInv, Promise, PlacesInv, There, NEW c \in Compressors, ViewSource(c)
  PROVE  /\ OnlyOf(pckFileIndex[c].f) /\ HandInv(c)' /\ QueueThere' /\ OneEach' /\ Bufs' = Bufs
         /\ c \notin SlackToGiveBack /\ (c \notin SlackToGiveBack)'
         /\ pc'[c] \notin Asking
<1> DEFINE e == pckFileIndex[c]
<1>1. /\ pc[c] = "view" /\ UNCHANGED <<pckFileIndex, want, heap, m_QueueContent>>
      /\ e.f \in Entries /\ e.f # 0
      /\ HandInv(c) /\ QueueThere /\ OneEach
  BY BufferTypes, ThreadSets
     DEF ViewSource, memoryVars, There, IInv, InHand, Working, CompressorPlaces
<1>2. frees[c] = <<>>
  BY <1>1, ThreadSets DEF PlacesInv, PlaceOf, GivingBack
<1>3. QueueThere' /\ OneEach' /\ Bufs' = Bufs /\ OnlyOf(e.f)
  BY <1>1 DEF QueueThere, OneEach, Bufs, OnlyOf, ItemBuffer
<1>4. PICK ok \in BOOLEAN :
        IF IsCompressed(e.f)
        THEN /\ frees' = [frees EXCEPT ![c] =
                  ScratchBuffers(e.f, IF ok THEN InflatedSize(e.f) ELSE Clear[e.f])]
             /\ ret' = [ret EXCEPT ![c] = IF ok THEN "put" ELSE "exit"]
             /\ Goto(c, "free")
        ELSE Goto(c, IF ok THEN "put" ELSE "exit") /\ UNCHANGED <<frees, ret>>
  BY DEF ViewSource
<1>5. CASE IsCompressed(e.f)
  <2> DEFINE size == IF ok THEN InflatedSize(e.f) ELSE Clear[e.f]
  <2>1. /\ frees'[c] = ScratchBuffers(e.f, size) /\ pc'[c] = "free"
        /\ ret'[c] \in {"put", "exit"}
    BY <1>4, <1>5, BufferTypes, ThreadSets DEF Goto
  <2>2. size \in {Clear[e.f], InflatedSize(e.f)}
    OBVIOUS
  <2>. HIDE DEF size
  <2>3. /\ DOMAIN frees'[c] = {1, 2}
        /\ frees'[c][1] = SourceBuffer(e.f)
        /\ frees'[c][2] = Buffer(e.f, "decompress", size)
        /\ frees'[c] # <<>> /\ Head(frees'[c]) = SourceBuffer(e.f)
    BY <2>1 DEF ScratchBuffers, SourceBuffer
  <2>4. /\ SourceBuffer(e.f) \in heap' /\ DecompressBuffer(e.f) \in heap'
        /\ SourceBuffer(e.f).buf = <<e.f, "source">>
        /\ Buffer(e.f, "decompress", size).buf = <<e.f, "decompress">>
        /\ Buffer(e.f, "decompress", size).size = size
    BY <1>1, <1>5 DEF HandInv, HandThere, HasSource, Recompresses, SourceBuffer, Buffer
  <2>5. GiveThere(c)'
    <3>1. GivesScratch(c, frees[c][1])' /\ GivesScratch(c, frees[c][2])'
      BY <1>1, <2>2, <2>3, <2>4
         DEF GivesScratch, SourceBuffer, DecompressBuffer, InflatedSize
    <3>2. frees'[c][1].buf # frees'[c][2].buf
      BY <2>3, <2>4
    <3>. QED
      BY <1>1, <2>3, <3>1, <3>2 DEF GiveThere
  <2>6. HandThere(c)'
    <3>1. HasCompressed(c)' => HasCompressed(c)
      BY <1>1 DEF HasCompressed
    <3>2. ~HasSource(c)' /\ ~Recompresses(c)'
      BY <2>1 DEF HasSource, Recompresses, Asking
    <3>. QED
      BY <1>1, <3>1, <3>2 DEF HandInv, HandThere, ItemBuffer
  <2>7. MissesThese(c)' /\ MallocOf(c)' /\ pc'[c] \notin Asking
    BY <1>1, <2>1 DEF HandInv, MissesThese, MallocOf, MallocSize, IsCompressed, Asking
  <2>8. c \notin SlackToGiveBack /\ (c \notin SlackToGiveBack)'
    BY <1>1, <1>2, <2>3, <2>4 DEF SlackToGiveBack, NoBuffer
  <2>. QED
    BY <1>3, <2>5, <2>6, <2>7, <2>8 DEF HandInv
<1>6. CASE ~IsCompressed(e.f)
  <2>1. pc'[c] \in {"put", "exit"} /\ UNCHANGED <<frees, ret>>
    BY <1>4, <1>6, BufferTypes, ThreadSets DEF Goto
  <2>2. HandThere(c)'
    <3>1. HasCompressed(c)' => HasCompressed(c)
      BY <1>1 DEF HasCompressed
    <3>2. ~HasSource(c)' /\ ~Recompresses(c)'
      BY <2>1 DEF HasSource, Recompresses, Asking
    <3>. QED
      BY <1>1, <3>1, <3>2 DEF HandInv, HandThere, ItemBuffer
  <2>3. GiveThere(c)' /\ MissesThese(c)' /\ MallocOf(c)' /\ pc'[c] \notin Asking
    BY <1>1, <1>2, <2>1
       DEF GiveThere, HandInv, MissesThese, MallocOf, MallocSize, IsCompressed, Asking, GivingBack
  <2>4. c \notin SlackToGiveBack /\ (c \notin SlackToGiveBack)'
    BY <1>2, <2>1 DEF SlackToGiveBack
  <2>. QED
    BY <1>3, <2>2, <2>3, <2>4 DEF HandInv
<1>. QED
  BY <1>5, <1>6

\* An entry passes its buffer on to the queue.
LEMMA PushThere ==
  ASSUME IInv, Promise, PlacesInv, There, NEW c \in Compressors, Push(c)
  PROVE  OnlyOf(pckFileIndex[c].f) /\ HandInv(c)' /\ QueueThere' /\ OneEach' /\ Bufs' = Bufs
<1> DEFINE e == pckFileIndex[c]
<1>1. /\ pc[c] = "push" /\ UNCHANGED <<want, heap, frees, ret>>
      /\ pckFileIndex'[c].f = 0 /\ pc'[c] = "fetch"
      /\ e.f \in Entries /\ e.f # 0 /\ frees[c] = <<>>
      /\ HandInv(c) /\ QueueThere /\ OneEach
  BY BufferTypes, ThreadSets
     DEF Push, NotifyWriter, NoItem, memoryVars, There, IInv, InHand, Working, CompressorPlaces,
     PlacesInv, PlaceOf, GivingBack
<1>2. HandInv(c)'
  BY <1>1 DEF HandInv, HandThere, HasCompressed, HasSource, Recompresses, GiveThere,
     MissesThese, MallocOf, Asking, GivingBack
<1>3. QueueThere'
  <2>1. Clear[e.f] # 0 => ItemBuffer(e) \in heap
    BY <1>1 DEF HandInv, HandThere, HasCompressed
  <2>2. m_QueueContent' = Append(m_QueueContent, e) /\ m_QueueContent \in Seq([f : Entries, malloc : Nat])
    BY CustodyTypes DEF Push
  <2>3. \A i \in DOMAIN m_QueueContent' :
          m_QueueContent'[i] = e \/ (i \in DOMAIN m_QueueContent /\ m_QueueContent'[i] = m_QueueContent[i])
    BY <2>2
  <2>. QED
    BY <1>1, <2>1, <2>3 DEF QueueThere, ItemBuffer
<1>4. OneEach' /\ Bufs' = Bufs /\ OnlyOf(e.f)
  BY <1>1 DEF OneEach, Bufs, OnlyOf
<1>. QED
  BY <1>2, <1>3, <1>4

\* An entry without data has nothing to shrink.
LEMMA EmptyEntry ==
  ASSUME NEW f \in Entries, Clear[f] = 0
  PROVE  MallocSize(f) = 0 /\ CipherSize(f) = 0 /\ Memory(MallocSize(f) - CipherSize(f)) = 0
<1>1. ~IsCompressed(f)
  BY LimitsAssumption DEF IsCompressed
<1>2. MallocSize(f) = 0 /\ CipherSize(f) = 0
  BY <1>1 DEF MallocSize, CipherSize
<1>3. 0 % MemModulus = 0
  BY LimitsAssumption
<1>. QED
  BY <1>2, <1>3 DEF Memory

\* A shrunk buffer takes the place of the old one, and the slack is to be given back.
Slack(c) == Memory(pckFileIndex[c].malloc - CipherSize(pckFileIndex[c].f))
ShrunkBuffer(c) ==
  Buffer(pckFileIndex[c].f, "compressed", CipherSize(pckFileIndex[c].f))
Shrinks(c) ==
  /\ pckFileIndex[c].malloc = MallocSize(pckFileIndex[c].f)
  /\ pckFileIndex'[c] = [pckFileIndex[c] EXCEPT !.malloc = CipherSize(pckFileIndex[c].f)]
  /\ ItemBuffer(pckFileIndex[c]) \in heap
  /\ heap' = (heap \ {ItemBuffer(pckFileIndex[c])}) \cup {ShrunkBuffer(c)}
  /\ ShrunkBuffer(c) \notin heap \ {ItemBuffer(pckFileIndex[c])}
  /\ frees'[c] = <<[buf |-> NoBuffer, size |-> Slack(c)]>>
  /\ ret'[c] = "push" /\ pc'[c] = "free"
ShrinksNot(c) ==
  /\ UNCHANGED <<pckFileIndex, heap, frees, ret>>
  /\ pc'[c] = "push"

LEMMA ShrinkGoes ==
  ASSUME IInv, Promise, PlacesInv, There, NEW c \in Compressors, Shrink(c)
  PROVE  /\ pc[c] = "put" /\ UNCHANGED <<want, dwMTMemoryUsed, m_QueueContent>>
         /\ pckFileIndex[c].f \in Entries /\ pckFileIndex[c].f # 0
         /\ frees[c] = <<>>
         /\ Shrinks(c) \/ ShrinksNot(c)
<1> DEFINE e == pckFileIndex[c]
           f == e.f
           old == ItemBuffer(e)
           new == ShrunkBuffer(c)
<1>1. /\ pc[c] = "put" /\ UNCHANGED <<want, dwMTMemoryUsed, m_QueueContent>>
      /\ f \in Entries /\ f # 0 /\ frees[c] = <<>> /\ e \in Items /\ HandInv(c)
  BY BufferTypes, ThreadSets
     DEF Shrink, There, IInv, InHand, Working, CompressorPlaces, PlacesInv, PlaceOf, GivingBack
<1>2. \/ /\ ShrinkLimit < Slack(c)
         /\ pckFileIndex' = [pckFileIndex EXCEPT ![c].malloc = CipherSize(f)]
         /\ heap' = {IF b.buf = <<f, "compressed">>
                       THEN [b EXCEPT !.size = CipherSize(f)] ELSE b : b \in heap}
         /\ frees' = [frees EXCEPT ![c] = <<[buf |-> NoBuffer, size |-> Slack(c)]>>]
         /\ ret' = [ret EXCEPT ![c] = "push"]
         /\ Goto(c, "free")
      \/ Goto(c, "push") /\ UNCHANGED <<pckFileIndex, heap, frees, ret>>
  BY DEF Shrink, Slack
<1>3. CASE Goto(c, "push") /\ UNCHANGED <<pckFileIndex, heap, frees, ret>>
  BY <1>1, <1>3, BufferTypes, ThreadSets DEF Goto, ShrinksNot
<1>4. CASE /\ ShrinkLimit < Slack(c)
           /\ pckFileIndex' = [pckFileIndex EXCEPT ![c].malloc = CipherSize(f)]
           /\ heap' = {IF b.buf = <<f, "compressed">>
                         THEN [b EXCEPT !.size = CipherSize(f)] ELSE b : b \in heap}
           /\ frees' = [frees EXCEPT ![c] = <<[buf |-> NoBuffer, size |-> Slack(c)]>>]
           /\ ret' = [ret EXCEPT ![c] = "push"]
           /\ Goto(c, "free")
  <2>1. e.malloc = MallocSize(f)
    BY <1>1 DEF HandInv, MallocOf
  <2>2. /\ pckFileIndex'[c] = [e EXCEPT !.malloc = CipherSize(f)]
        /\ frees'[c] = <<[buf |-> NoBuffer, size |-> Slack(c)]>>
        /\ ret'[c] = "push" /\ pc'[c] = "free"
    BY <1>4, BufferTypes, ThreadSets DEF Goto
  <2>3. Clear[f] # 0
    BY <1>1, <1>4, <2>1, EmptyEntry, LimitsAssumption DEF Slack
  <2>4. old \in heap
    BY <1>1, <2>3 DEF HandInv, HandThere, HasCompressed
  <2>5. /\ old = [buf |-> <<f, "compressed">>, size |-> e.malloc]
        /\ new = [buf |-> <<f, "compressed">>, size |-> CipherSize(f)]
    BY DEF ItemBuffer, ShrunkBuffer, Buffer
  <2>6. \A b \in heap : b.buf = <<f, "compressed">> <=> b = old
    BY <2>4, <2>5 DEF There, OneEach
  <2>7. [old EXCEPT !.size = CipherSize(f)] = new
    BY <2>5
  <2>. HIDE DEF old, new
  <2>8. heap' = {IF b = old THEN new ELSE b : b \in heap}
    <3>1. \A b \in heap : (IF b.buf = <<f, "compressed">> THEN [b EXCEPT !.size = CipherSize(f)] ELSE b)
                            = (IF b = old THEN new ELSE b)
      BY <2>6, <2>7
    <3>. QED
      BY <1>4, <3>1
  <2>9. heap' = (heap \ {old}) \cup {new}
    <3>1. \A b \in heap' : b \in (heap \ {old}) \cup {new}
      BY <2>8
    <3>2. \A b \in (heap \ {old}) \cup {new} : b \in heap'
      BY <2>4, <2>8
    <3>. QED
      BY <3>1, <3>2
  <2>10. new \notin heap \ {old}
    BY <2>5, <2>6 DEF new
  <2>. QED
    BY <1>1, <2>1, <2>2, <2>4, <2>9, <2>10 DEF Shrinks, old, new
<1>. QED
  BY <1>2, <1>3, <1>4

LEMMA ShrinkThere ==
  ASSUME IInv, Promise, PlacesInv, There, NEW c \in Compressors, Shrink(c)
  PROVE  OnlyOf(pckFileIndex[c].f) /\ HandInv(c)' /\ QueueThere' /\ OneEach' /\ Bufs' = Bufs
<1> DEFINE e == pckFileIndex[c]
           old == ItemBuffer(e)
           new == ShrunkBuffer(c)
<1>1. /\ pc[c] = "put" /\ UNCHANGED <<want, m_QueueContent>>
      /\ e.f \in Entries /\ e.f # 0 /\ frees[c] = <<>>
      /\ HandInv(c) /\ QueueThere /\ OneEach
  BY ShrinkGoes DEF There
<1>2. OnlyOf(e.f)
  <2>1. old.buf[1] = e.f
    BY DEF ItemBuffer, Buffer
  <2>. HIDE DEF old
  <2>2. heap \ {old} \subseteq heap'
    BY ShrinkGoes DEF Shrinks, ShrinksNot, old
  <2>. QED
    BY <2>1, <2>2 DEF OnlyOf
<1>3. QueueThere'
  <2>1. \A i \in DOMAIN m_QueueContent : m_QueueContent[i].f # e.f
    BY DEF Promise, Apart, HandOrQueue
  <2>. QED
    BY <1>1, <1>2, <2>1, QueueStays
<1>4. Bufs' = Bufs
  BY CompressorBuffers DEF Compressor, Shrink, Allocate
<1>5. CASE Shrinks(c)
  <2>1. /\ pckFileIndex'[c].f = e.f /\ pckFileIndex'[c].malloc = CipherSize(e.f)
        /\ heap' = (heap \ {old}) \cup {new} /\ old \in heap
        /\ frees'[c] = <<[buf |-> NoBuffer, size |-> Slack(c)]>>
        /\ ret'[c] = "push" /\ pc'[c] = "free"
    BY <1>5, BufferTypes, ThreadSets DEF Shrinks, Items
  <2>2. OneEach'
    <3>1. IsFiniteSet(heap \ {old})
      BY <1>1, FS_Subset DEF OneEach
    <3>2. IsFiniteSet(heap')
      BY <2>1, <3>1, FS_AddElement
    <3>3. old.buf = new.buf
      BY DEF ItemBuffer, ShrunkBuffer, Buffer
    <3>. HIDE DEF old, new
    <3>4. \A a, b \in heap' : a.buf = b.buf => a = b
      BY <1>1, <2>1, <3>3 DEF OneEach
    <3>. QED
      BY <3>2, <3>4 DEF OneEach
  <2>3. HandThere(c)'
    <3>1. ItemBuffer(pckFileIndex[c])' = new
      BY <2>1 DEF ItemBuffer, ShrunkBuffer
    <3>2. ~HasSource(c)' /\ ~Recompresses(c)'
      BY <2>1 DEF HasSource, Recompresses, Asking
    <3>. QED
      BY <2>1, <3>1, <3>2 DEF HandThere
  <2>4. GiveThere(c)'
    <3>1. DOMAIN frees'[c] = {1} /\ frees'[c][1].buf = NoBuffer /\ Len(frees'[c]) = 1
      BY <2>1
    <3>. QED
      BY <1>1, <2>1, <3>1 DEF GiveThere, GivesSlack
  <2>5. MissesThese(c)' /\ MallocOf(c)'
    BY <2>1 DEF MissesThese, MallocOf, Asking
  <2>. QED
    BY <1>2, <1>3, <1>4, <2>2, <2>3, <2>4, <2>5 DEF HandInv
<1>6. CASE ShrinksNot(c)
  <2>1. OneEach'
    BY <1>1, <1>6 DEF OneEach, ShrinksNot
  <2>2. HandThere(c)'
    <3>1. HasCompressed(c)' => HasCompressed(c)
      BY <1>1, <1>6 DEF HasCompressed, ShrinksNot
    <3>2. ~HasSource(c)' /\ ~Recompresses(c)'
      BY <1>6 DEF HasSource, Recompresses, Asking, ShrinksNot
    <3>. QED
      BY <1>1, <1>6, <3>1, <3>2 DEF HandInv, HandThere, ItemBuffer, ShrinksNot
  <2>3. GiveThere(c)' /\ MissesThese(c)' /\ MallocOf(c)'
    BY <1>1, <1>6 DEF GiveThere, MissesThese, MallocOf, Asking, GivingBack, ShrinksNot
  <2>. QED
    BY <1>2, <1>3, <1>4, <2>1, <2>2, <2>3 DEF HandInv
<1>. QED
  BY <1>5, <1>6, ShrinkGoes

-----------------------------------------------------------------------------
(***************************************************************************)
(* The charge, over a step.                                                *)
(***************************************************************************)
LEMMA ChargeIs ==
  ASSUME IInv, OneEach, NEW l \in SUBSET Damaged
  PROVE  /\ \A b \in heap : b.size \in Nat
         /\ IsFiniteSet(SlackToGiveBack)
         /\ \A t \in SlackToGiveBack : Head(frees[t]).size \in Nat
         /\ HeapSum(heap) \in Nat
         /\ SlackSum(frees, SlackToGiveBack) \in Nat
         /\ l \in SUBSET Entries /\ LostSum(l) \in Int
         /\ Charge(l) = HeapSum(heap) + SlackSum(frees, SlackToGiveBack) + LostSum(l)
         /\ Charge(l) \in Int
         /\ SizesFit => Charge(l) \in Nat
<1>1. \A b \in heap : b.size \in Nat
  BY DEF IInv, TypeOK, MemoryTypes
<1>2. HeapSum(heap) \in Nat
  <2>1. IsFiniteSet(heap)
    BY DEF OneEach
  <2>. QED
    BY <1>1, <2>1, HeapSumMoves
<1>3. IsFiniteSet(SlackToGiveBack)
  <2>1. IsFiniteSet(Compressors) /\ Threads = Compressors \cup {Writer}
    BY ThreadsAssumption DEF Threads
  <2>2. IsFiniteSet(Threads)
    BY <2>1, FS_AddElement
  <2>3. SlackToGiveBack \in SUBSET Threads
    BY DEF SlackToGiveBack
  <2>. QED
    BY <2>2, <2>3, FS_Subset
<1>4. \A t \in SlackToGiveBack : Head(frees[t]).size \in Nat
  <2>1. \A t \in Threads : frees[t] \in Seq(Frees)
    BY BufferTypes
  <2>2. \A t \in Threads : frees[t] # <<>> => Head(frees[t]) \in Frees
    BY <2>1
  <2>. QED
    BY <2>2 DEF SlackToGiveBack, Frees
<1>5. SlackSum(frees, SlackToGiveBack) \in Nat
  BY <1>3, <1>4, SlackSumMoves
<1>6. l \in SUBSET Entries
  BY NumberOfEntries DEF Damaged
<1>7. LostSum(l) \in Int /\ (SizesFit => LostSum(l) \in Nat)
  BY <1>6, LostSumMoves
<1>8. Charge(l) = HeapSum(heap) + SlackSum(frees, SlackToGiveBack) + LostSum(l)
  BY DEF Charge, HeapSum, SlackSum, LostSum
<1>. QED
  BY <1>1, <1>2, <1>3, <1>4, <1>5, <1>6, <1>7, <1>8

LEMMA ChargeNext ==
  ASSUME NEW l
  PROVE  Charge(l)' = HeapSum(heap') + SlackSum(frees', SlackToGiveBack') + LostSum(l)
BY DEF Charge, HeapSum, SlackSum, LostSum, MapThenSumSet, MapThenFoldSet

\* The slack that is to be given back does not change.
SlackSame ==
  SlackToGiveBack' = SlackToGiveBack /\ \A t \in SlackToGiveBack : frees'[t] = frees[t]

LEMMA SlackStays ==
  ASSUME NEW t \in Threads, OthersStay(t), t \notin SlackToGiveBack, (t \notin SlackToGiveBack)'
  PROVE  SlackSame
<1>1. \A u \in Threads \ {t} : frees'[u] = frees[u]
  BY DEF OthersStay
<1>2. \A u \in Threads \ {t} : u \in SlackToGiveBack' <=> u \in SlackToGiveBack
  BY <1>1 DEF SlackToGiveBack
<1>3. SlackToGiveBack \subseteq Threads /\ SlackToGiveBack' \subseteq Threads
  BY DEF SlackToGiveBack
<1>. QED
  BY <1>1, <1>2, <1>3 DEF SlackSame

LEMMA SlackSumSame ==
  ASSUME IInv, OneEach, SlackSame
  PROVE  SlackSum(frees', SlackToGiveBack') = SlackSum(frees, SlackToGiveBack)
<1>1. {} \in SUBSET Damaged
  OBVIOUS
<1>2. IsFiniteSet(SlackToGiveBack) /\ \A t \in SlackToGiveBack : Head(frees[t]).size \in Nat
  BY <1>1, ChargeIs
<1>. QED
  BY <1>2, SlackSumMoves DEF SlackSame

\* The budget and the charge change by the same amount, up to a multiple of the range of
\* the counter, and the charge stays below the limit.
LEMMA BudgetMoves ==
  ASSUME IInv, OneEach, NEW l \in SUBSET Damaged, dwMTMemoryUsed = Charge(l) % MemModulus,
         NEW m \in SUBSET Damaged, (m \in SUBSET Damaged)', (\A f \in m : GaveLess(f))',
         NEW d \in Int, NEW q \in Int, Charge(m)' = Charge(l) + d + MemModulus * q,
         dwMTMemoryUsed' = Memory(dwMTMemoryUsed + d),
         SizesFit => Charge(m)' <= Limit'
  PROVE  BudgetInv'
<1>1. Charge(l) \in Int /\ MemModulus \in Nat \ {0}
  BY ChargeIs, LimitsAssumption
<1> DEFINE a == Charge(l)
           b == a + d + MemModulus * q
<1>2. dwMTMemoryUsed' = (a + d) % MemModulus
  <2>1. dwMTMemoryUsed = a % MemModulus /\ dwMTMemoryUsed' = (dwMTMemoryUsed + d) % MemModulus
    BY DEF Memory
  <2>. HIDE DEF a
  <2>2. ((a % MemModulus) + d) % MemModulus = (a + d) % MemModulus
    BY <1>1, RemainderMoves DEF a
  <2>. QED
    BY <2>1, <2>2
<1>3. b % MemModulus = (a + d) % MemModulus
  <2>. HIDE DEF a
  <2>1. a \in Int /\ a + d \in Int /\ b \in Int /\ b = (a + d) + MemModulus * q
    BY <1>1 DEF a
  <2>. HIDE DEF b
  <2>. QED
    BY <1>1, <2>1, RemainderShift
<1>4. dwMTMemoryUsed' = Charge(m)' % MemModulus
  BY <1>2, <1>3
<1>5. SizesFit' => SizesFit
  OBVIOUS
<1>. QED
  BY <1>4, <1>5 DEF BudgetInv

\* Fewer threads that have passed the check, if the one at work has not.
LEMMA ClearedStays ==
  ASSUME IInv, NEW t \in Threads, OthersStay(t),
         t \in Compressors /\ pc'[t] \in {"alloc", "allocWait"} => pc[t] \in {"alloc", "allocWait"}
  PROVE  Cleared' \subseteq Cleared /\ Limit' >= Limit
<1>1. \A u \in Compressors : u \in Cleared' => u \in Cleared
  BY ThreadSets DEF OthersStay, Cleared
<1>2. Cleared' \subseteq Cleared
  BY <1>1 DEF Cleared
<1>. QED
  BY <1>2, LimitMoves

\* An entry that has given back less than it was charged is past its allocations.
LEMMA GaveLessStays ==
  ASSUME IInv, NEW t \in Threads, OthersStay(t),
         t \in Compressors /\ pc'[t] \in Asking =>
           \/ pc[t] \in Asking /\ pckFileIndex'[t].f = pckFileIndex[t].f
           \/ ~Fetched(pckFileIndex'[t].f),
         NEW f, Fetched(f), GaveLess(f), <<f, "decompress">> \notin Bufs'
  PROVE  GaveLess(f)'
<1>1. ASSUME NEW c \in Compressors, pckFileIndex'[c].f = f
      PROVE  pc'[c] \notin Asking
  <2>1. CASE c = t
    BY <1>1, <2>1 DEF GaveLess
  <2>2. CASE c # t
    BY <1>1, <2>2, ThreadSets DEF GaveLess, OthersStay, Asking
  <2>. QED
    BY <2>1, <2>2
<1>. QED
  BY <1>1 DEF GaveLess

LEMMA DamagedFetched ==
  ASSUME IInv, next' \in {next, next + 1}
  PROVE  /\ \A f \in Damaged : Fetched(f)
         /\ Damaged \subseteq Damaged'
<1>1. next \in Nat /\ next' \in Nat /\ next <= next'
  BY CustodyTypes
<1>2. \A f \in Damaged : f \in Nat
  BY NoEntryZero DEF Damaged
<1>. QED
  BY <1>1, <1>2 DEF Damaged, Fetched, InflatedSize

\* No buffer changes, and the limit does not fall.
LEMMA BudgetStays ==
  ASSUME IInv, OneEach, BudgetInv, UNCHANGED <<heap, dwMTMemoryUsed>>, SlackSame,
         next' \in {next, next + 1}, Limit' >= Limit,
         \A f \in Damaged : GaveLess(f) => GaveLess(f)'
  PROVE  BudgetInv'
<1>1. PICK l \in SUBSET Damaged :
        /\ \A f \in l : GaveLess(f)
        /\ dwMTMemoryUsed = Charge(l) % MemModulus
        /\ SizesFit => Charge(l) <= Limit
  BY DEF BudgetInv
<1>2. Charge(l)' = Charge(l)
  <2>1. SlackSum(frees', SlackToGiveBack') = SlackSum(frees, SlackToGiveBack)
    BY SlackSumSame
  <2>. QED
    BY <2>1, ChargeIs, ChargeNext
<1>3. Charge(l)' <= Limit' \/ ~SizesFit
  BY <1>1, <1>2, ChargeIs, LimitIs, LimitMoves
<1>4. l \in SUBSET Damaged' /\ \A f \in l : GaveLess(f)'
  BY <1>1, DamagedFetched
<1>5. dwMTMemoryUsed' = Charge(l)' % MemModulus
  BY <1>1, <1>2
<1>. QED
  BY <1>3, <1>4, <1>5 DEF BudgetInv, SizesFit

\* A number within the range of the counter is what the counter holds.
LEMMA RemainderSmall ==
  ASSUME NEW M \in Nat \ {0}, NEW a \in Nat, a < M
  PROVE  a % M = a
<1>1. a % M \in 0..(M - 1) /\ a \div M \in Int /\ a = M * (a \div M) + (a % M)
  BY Remainder
<1>2. a \in 0..(M - 1) /\ a = M * 0 + a
  OBVIOUS
<1>. QED
  BY <1>1, <1>2, RemainderUnique

LEMMA LargestFits == SizesFit => LargestBuffer < MemModulus
<1> DEFINE n == Cardinality(Compressors)
           L == LargestBuffer
<1>1. n \in Nat /\ n # 0
  BY ThreadsAssumption, FS_CardinalityType, FS_EmptySet
<1>2. L \in Nat /\ MaxMemory \in Nat \ {0} /\ MemModulus \in Nat
  BY LargestIs, LimitsAssumption
<1>3. SizesFit => MaxMemory + n * L <= MemModulus
  BY DEF SizesFit
<1>. HIDE DEF n, L
<1>4. n * L = L + (n - 1) * L /\ (n - 1) * L \in Nat
  BY <1>1, <1>2
<1>. QED
  BY <1>2, <1>3, <1>4 DEF L

\* The check passes only while the buffers leave room.
LEMMA PassKeepsBudget ==
  ASSUME IInv, OneEach, BudgetInv, BudgetLeft, UNCHANGED <<heap, dwMTMemoryUsed>>, SlackSame,
         next' \in {next, next + 1}, \A f \in Damaged : GaveLess(f) => GaveLess(f)'
  PROVE  BudgetInv'
<1>1. PICK l \in SUBSET Damaged :
        /\ \A f \in l : GaveLess(f)
        /\ dwMTMemoryUsed = Charge(l) % MemModulus
        /\ SizesFit => Charge(l) <= Limit
  BY DEF BudgetInv
<1>2. Charge(l)' = Charge(l)
  <2>1. SlackSum(frees', SlackToGiveBack') = SlackSum(frees, SlackToGiveBack)
    BY SlackSumSame
  <2>. QED
    BY <2>1, ChargeIs, ChargeNext
<1>3. ASSUME SizesFit PROVE Charge(l)' <= Limit'
  <2>1. Charge(l) \in Nat /\ Charge(l) < MemModulus
    BY <1>1, <1>3, ChargeIs, LimitIs, LimitsAssumption
  <2>2. dwMTMemoryUsed = Charge(l)
    BY <1>1, <2>1, RemainderSmall, LimitsAssumption
  <2>3. Charge(l) <= MaxMemory - 1
    BY <2>1, <2>2, LimitsAssumption DEF BudgetLeft
  <2>. QED
    BY <1>2, <2>1, <2>3, LimitIs, LimitsAssumption
<1>4. l \in SUBSET Damaged' /\ \A f \in l : GaveLess(f)'
  BY <1>1, DamagedFetched
<1>5. dwMTMemoryUsed' = Charge(l)' % MemModulus
  BY <1>1, <1>2
<1>. QED
  BY <1>3, <1>4, <1>5 DEF BudgetInv, SizesFit

\* A buffer is charged with its size.
LEMMA AllocateKeepsBudget ==
  ASSUME IInv, Promise, PlacesInv, There, BudgetInv, NEW c \in Compressors, Allocate(c)
  PROVE  BudgetInv'
<1> DEFINE new == NewBuffer(c)
           f == pckFileIndex[c].f
<1>1. PICK l \in SUBSET Damaged :
        /\ \A g \in l : GaveLess(g)
        /\ dwMTMemoryUsed = Charge(l) % MemModulus
        /\ SizesFit => Charge(l) <= Limit
  BY DEF BudgetInv
<1>2. /\ heap' = heap \cup {new} /\ new \notin heap /\ new.size \in Nat /\ new.size <= LargestBuffer
      /\ dwMTMemoryUsed' = Memory(dwMTMemoryUsed + new.size) /\ frees' = frees
      /\ pckFileIndex' = pckFileIndex /\ pc[c] = "alloc" /\ pc'[c] = AfterBuffer(f, want[c])
      /\ next' = next
  BY AllocateGoes DEF Allocate, fetchVars
<1>3. OneEach
  BY DEF There
<1>. HIDE DEF new
<1>4. Charge(l)' = Charge(l) + new.size
  <2>1. SlackSame
    BY <1>2 DEF SlackSame, SlackToGiveBack
  <2>2. SlackSum(frees', SlackToGiveBack') = SlackSum(frees, SlackToGiveBack)
    BY <1>3, <2>1, SlackSumSame
  <2>3. HeapSum(heap') = new.size + HeapSum(heap)
    BY <1>2, <1>3, ChargeIs, HeapSumMoves DEF OneEach
  <2>4. /\ HeapSum(heap) \in Nat /\ SlackSum(frees, SlackToGiveBack) \in Nat /\ LostSum(l) \in Int
        /\ Charge(l) = HeapSum(heap) + SlackSum(frees, SlackToGiveBack) + LostSum(l)
    BY <1>3, ChargeIs
  <2>5. Charge(l)' = HeapSum(heap') + SlackSum(frees', SlackToGiveBack') + LostSum(l)
    BY ChargeNext
  <2>. QED
    BY <1>2, <2>2, <2>3, <2>4, <2>5
<1>5. Limit' = Limit + LargestBuffer
  <2>1. pc'[c] \notin {"alloc", "allocWait"}
    BY <1>2 DEF AfterBuffer
  <2>2. \A d \in Compressors \ {c} : pc'[d] = pc[d]
    BY BufferTypes, ThreadSets DEF Allocate, Goto
  <2>3. c \in Cleared /\ Cleared' = Cleared \ {c}
    BY <1>2, <2>1, <2>2 DEF Cleared
  <2>. QED
    BY <2>3, LimitMoves
<1>6. (\A g \in l : GaveLess(g))'
  <2>. SUFFICES ASSUME NEW g \in l PROVE GaveLess(g)'
    OBVIOUS
  <2>1. GaveLess(g) /\ Fetched(g)
    BY <1>1, <1>2, DamagedFetched
  <2>2. g # f
    BY <1>2, <2>1 DEF GaveLess, Asking
  <2>3. <<g, "decompress">> \notin Bufs'
    <3>1. Bufs' = Bufs \cup {<<f, want[c]>>}
      BY CompressorBuffers DEF Compressor
    <3>. QED
      BY <2>1, <2>2, <3>1 DEF GaveLess
  <2>4. OthersStay(c) /\ c \in Threads
    BY CompressorLeavesOthers, ThreadSets DEF Compressor
  <2>5. pc[c] \in Asking /\ pckFileIndex'[c].f = f
    BY <1>2 DEF Asking
  <2>. QED
    BY <2>1, <2>3, <2>4, <2>5, GaveLessStays
<1>7. (l \in SUBSET Damaged)'
  BY <1>2, DamagedFetched
<1>8. SizesFit => Charge(l)' <= Limit'
  BY <1>1, <1>2, <1>3, <1>4, <1>5, ChargeIs, LimitIs, LargestIs
<1>9. Charge(l)' = Charge(l) + new.size + MemModulus * 0
  BY <1>2, <1>3, <1>4, ChargeIs, LimitsAssumption
<1>10. new.size \in Int /\ 0 \in Int
  BY <1>2
<1>. QED
  BY <1>1, <1>2, <1>3, <1>6, <1>7, <1>8, <1>9, <1>10, BudgetMoves

\* What a shrunk buffer is smaller is slack that is still charged.
LEMMA ShrinkKeepsBudget ==
  ASSUME IInv, Promise, PlacesInv, There, BudgetInv, NEW c \in Compressors, Shrink(c)
  PROVE  BudgetInv'
<1> DEFINE e == pckFileIndex[c]
           old == ItemBuffer(e)
           new == ShrunkBuffer(c)
<1>1. /\ OneEach /\ c \in Threads /\ OthersStay(c) /\ next' = next
      /\ pc[c] = "put" /\ dwMTMemoryUsed' = dwMTMemoryUsed /\ frees[c] = <<>>
      /\ e.f \in Entries /\ Bufs' = Bufs
      /\ Shrinks(c) \/ ShrinksNot(c)
  BY ShrinkGoes, ShrinkThere, CompressorLeavesOthers, ThreadSets
     DEF There, Compressor, Shrink, fetchVars
<1>2. c \notin SlackToGiveBack
  BY <1>1 DEF SlackToGiveBack
<1>3. pc'[c] \in {"free", "push"}
  BY <1>1 DEF Shrinks, ShrinksNot
<1>4. Limit' >= Limit
  BY <1>1, <1>3, ClearedStays
<1>5. \A f \in Damaged : GaveLess(f) => GaveLess(f)'
  <2>. SUFFICES ASSUME NEW f \in Damaged, GaveLess(f) PROVE GaveLess(f)'
    OBVIOUS
  <2>1. Fetched(f) /\ <<f, "decompress">> \notin Bufs'
    BY <1>1, DamagedFetched DEF GaveLess
  <2>2. pc'[c] \notin Asking
    BY <1>3 DEF Asking
  <2>. QED
    BY <1>1, <2>1, <2>2, GaveLessStays
<1>6. CASE ShrinksNot(c)
  <2>1. SlackSame /\ heap' = heap
    BY <1>6 DEF ShrinksNot, SlackSame, SlackToGiveBack
  <2>. QED
    BY <1>1, <1>4, <1>5, <2>1, BudgetStays
<1>7. CASE Shrinks(c)
  <2>1. PICK l \in SUBSET Damaged :
          /\ \A f \in l : GaveLess(f)
          /\ dwMTMemoryUsed = Charge(l) % MemModulus
          /\ SizesFit => Charge(l) <= Limit
    BY DEF BudgetInv
  <2> DEFINE T == SlackToGiveBack
             less == e.malloc - CipherSize(e.f)
             p == less \div MemModulus
  <2>2. /\ e.malloc = MallocSize(e.f) /\ e.malloc \in Nat /\ CipherSize(e.f) \in Nat
        /\ e.malloc <= LargestBuffer
    <3>1. e.malloc = MallocSize(e.f)
      BY <1>7 DEF Shrinks
    <3>2. BufferSize(e.f, "compressed") = MallocSize(e.f) /\ "compressed" \in Kinds
      BY DEF BufferSize, Kinds
    <3>. QED
      BY <1>1, <3>1, <3>2, LargestIs, Sizes
  <2>3. /\ less \in Int /\ p \in Int /\ Slack(c) \in 0..(MemModulus - 1)
        /\ less = MemModulus * p + Slack(c)
    <3>1. less \in Int
      BY <2>2
    <3>. HIDE DEF less
    <3>2. less % MemModulus \in 0..(MemModulus - 1) /\ p \in Int /\ less = MemModulus * p + (less % MemModulus)
      BY <3>1, Remainder, LimitsAssumption
    <3>3. Slack(c) = less % MemModulus
      BY DEF Slack, Memory, less
    <3>. QED
      BY <3>1, <3>2, <3>3
  <2>4. HeapSum(heap') = HeapSum(heap) - less /\ HeapSum(heap) \in Nat
    <3>1. old \in heap /\ heap' = (heap \ {old}) \cup {new} /\ new \notin heap \ {old}
      BY <1>7 DEF Shrinks
    <3>2. old.size = e.malloc /\ new.size = CipherSize(e.f)
      BY DEF ItemBuffer, ShrunkBuffer, Buffer
    <3>. HIDE DEF old, new
    <3>3. IsFiniteSet(heap) /\ \A b \in heap : b.size \in Nat
      BY <1>1, ChargeIs DEF OneEach
    <3>4. /\ IsFiniteSet(heap \ {old}) /\ HeapSum(heap) = old.size + HeapSum(heap \ {old})
          /\ HeapSum(heap \ {old}) \in Nat /\ HeapSum(heap) \in Nat
      BY <3>1, <3>3, HeapSumMoves
    <3>5. HeapSum((heap \ {old}) \cup {new}) = new.size + HeapSum(heap \ {old})
      BY <2>2, <3>1, <3>2, <3>3, <3>4, HeapSumMoves
    <3>. QED
      BY <2>2, <3>1, <3>2, <3>4, <3>5
  <2>5. SlackSum(frees', SlackToGiveBack') = Slack(c) + SlackSum(frees, T)
    <3>1. IsFiniteSet(T) /\ \A t \in T : Head(frees[t]).size \in Nat
      BY <1>1, ChargeIs
    <3>2. \A t \in Threads \ {c} : frees'[t] = frees[t]
      BY <1>1 DEF OthersStay
    <3>3. /\ frees'[c] # <<>> /\ Head(frees'[c]).buf = NoBuffer /\ Head(frees'[c]).size = Slack(c)
      BY <1>7 DEF Shrinks
    <3>4. SlackToGiveBack' = T \cup {c}
      BY <1>1, <3>2, <3>3 DEF SlackToGiveBack
    <3>5. \A t \in T : frees'[t] = frees[t]
      BY <1>2, <3>2 DEF SlackToGiveBack
    <3>. HIDE DEF T
    <3>6. SlackSum(frees', T) = SlackSum(frees, T)
      BY <3>1, <3>5, SlackSumMoves
    <3>7. SlackSum(frees', T \cup {c}) = Head(frees'[c]).size + SlackSum(frees', T)
      <4>1. \A t \in T : Head(frees'[t]).size \in Nat
        BY <3>1, <3>5
      <4>2. c \notin T
        BY <1>2 DEF T
      <4>3. Slack(c) \in Nat
        BY <2>3, LimitsAssumption
      <4>. QED
        BY <3>1, <3>3, <4>1, <4>2, <4>3, SlackSumMoves
    <3>. QED
      BY <3>3, <3>4, <3>6, <3>7
  <2>. HIDE DEF less, p, T, old, new, e
  <2>6. Charge(l)' = Charge(l) - less + Slack(c) /\ Charge(l) \in Int /\ (SizesFit => Charge(l) \in Nat)
    <3>1. /\ HeapSum(heap) \in Nat /\ SlackSum(frees, T) \in Nat /\ LostSum(l) \in Int
          /\ Charge(l) = HeapSum(heap) + SlackSum(frees, T) + LostSum(l)
          /\ Charge(l) \in Int /\ (SizesFit => Charge(l) \in Nat)
      BY <1>1, ChargeIs DEF T
    <3>2. Charge(l)' = HeapSum(heap') + SlackSum(frees', SlackToGiveBack') + LostSum(l)
      BY ChargeNext
    <3>. QED
      BY <2>3, <2>4, <2>5, <3>1, <3>2, LimitsAssumption
  <2>7. Charge(l)' = Charge(l) + 0 + MemModulus * (-p) /\ -p \in Int
    <3>1. -p \in Int /\ MemModulus * (-p) = -(MemModulus * p) /\ MemModulus * p \in Int
      BY <2>3, LimitsAssumption
    <3>. QED
      BY <2>3, <2>6, <3>1, LimitsAssumption
  <2>8. SizesFit => Charge(l)' <= Limit'
    <3>. SUFFICES ASSUME SizesFit PROVE Charge(l)' <= Limit'
      OBVIOUS
    <3>1. less \in Nat /\ less < MemModulus
      BY <1>1, <2>2, LargestIs, LargestFits, LimitsAssumption DEF SizesFit, less, e
    <3>2. Slack(c) = less
      BY <3>1, RemainderSmall, LimitsAssumption DEF Slack, Memory, less, e
    <3>. QED
      BY <1>4, <2>1, <2>3, <2>6, <3>1, <3>2, LimitIs
  <2>9. dwMTMemoryUsed' = Memory(dwMTMemoryUsed + 0)
    <3>1. dwMTMemoryUsed \in 0..(MemModulus - 1)
      BY DEF IInv, TypeOK, MemoryTypes
    <3>. QED
      BY <1>1, <3>1, RemainderSmall, LimitsAssumption DEF Memory
  <2>10. (l \in SUBSET Damaged)' /\ (\A f \in l : GaveLess(f))'
    BY <1>1, <1>5, <2>1, DamagedFetched
  <2>11. 0 \in Int
    OBVIOUS
  <2>. QED
    BY <1>1, <2>1, <2>7, <2>8, <2>9, <2>10, <2>11, BudgetMoves
<1>. QED
  BY <1>1, <1>6, <1>7

-----------------------------------------------------------------------------
(***************************************************************************)
(* A thread that gives back.                                               *)
(***************************************************************************)
\* The entry whose buffers it frees, if it frees one.
FreesOf(t) ==
  IF t # Writer THEN pckFileIndex[t].f
  ELSE IF frees[Writer] = <<>> THEN 0 ELSE m_Index_Compress[nWrite].f

\* The buffer it frees, unless it only gives back slack.
Frees1(t) == {b \in heap : b.buf = Head(frees[t]).buf}

\* The buffer to be freed is there, and was charged with what is subtracted, if it is not
\* one for decompressed data.
LEMMA FreeTakes ==
  ASSUME IInv, There, NEW t \in Threads, FreeBuffer(t)
  PROVE  /\ frees[t] # <<>> /\ heap' = heap \ Frees1(t)
         /\ t \in SlackToGiveBack => Frees1(t) = {}
         /\ t \notin SlackToGiveBack =>
              \E b \in heap :
                /\ Frees1(t) = {b} /\ b.buf[1] = FreesOf(t)
                /\ \/ b.size = Head(frees[t]).size
                   \/ /\ t \in Compressors /\ b = DecompressBuffer(FreesOf(t))
                      /\ Head(frees[t]).size = InflatedSize(FreesOf(t))
                /\ t \in Compressors => b.buf[2] # "compressed" /\ FreesOf(t) # 0
<1> DEFINE g == Head(frees[t])
<1>1. frees[t] # <<>> /\ frees[t] \in Seq(Frees) /\ g = frees[t][1] /\ 1 \in DOMAIN frees[t]
  BY BufferTypes DEF FreeBuffer, IInv, InHand
<1>2. heap' = heap \ Frees1(t)
  BY DEF FreeBuffer, Frees1
<1>3. \A b, d \in heap : b.buf = d.buf => b = d
  BY DEF There, OneEach
<1>4. t \in SlackToGiveBack => Frees1(t) = {}
  <2>1. \A b \in heap : b.buf # NoBuffer
    <3>1. \A b \in heap : b.buf[1] \in Entries /\ 0 \notin Entries
      BY BufferTypes DEF Bufs
    <3>2. NoBuffer[1] = 0
      BY DEF NoBuffer
    <3>. QED
      BY <3>1, <3>2
  <2>. QED
    BY <2>1 DEF Frees1, SlackToGiveBack
<1>5. ASSUME t \notin SlackToGiveBack
      PROVE  \E b \in heap :
                /\ Frees1(t) = {b} /\ b.buf[1] = FreesOf(t)
                /\ \/ b.size = g.size
                   \/ /\ t \in Compressors /\ b = DecompressBuffer(FreesOf(t))
                      /\ g.size = InflatedSize(FreesOf(t))
                /\ t \in Compressors => b.buf[2] # "compressed" /\ FreesOf(t) # 0
  <2>1. g.buf # NoBuffer
    BY <1>1, <1>5 DEF SlackToGiveBack
  <2>2. CASE t = Writer
    <3>1. g \in heap /\ g.buf = <<m_Index_Compress[nWrite].f, "compressed">>
      BY <1>1, <2>2 DEF There, WriterGives
    <3>2. g.buf[1] = FreesOf(t)
      BY <1>1, <2>2, <3>1 DEF FreesOf
    <3>3. Frees1(t) = {g}
      BY <1>3, <3>1 DEF Frees1
    <3>. QED
      BY <2>2, <3>1, <3>2, <3>3, ThreadSets
  <2>3. CASE t # Writer
    <3>1. t \in Compressors /\ FreesOf(t) = pckFileIndex[t].f
      BY <2>3, ThreadSets DEF FreesOf
    <3>2. GivesScratch(t, g) /\ pckFileIndex[t].f # 0
      BY <1>1, <2>1, <3>1 DEF There, HandInv, GiveThere, GivesSlack
    <3>. HIDE DEF g
    <3>3. CASE g = SourceBuffer(FreesOf(t)) /\ g \in heap
      <4>1. g.buf[1] = FreesOf(t) /\ g.buf[2] = "source"
        BY <3>3 DEF SourceBuffer, Buffer
      <4>2. Frees1(t) = {g}
        BY <1>3, <3>3 DEF Frees1, g
      <4>. QED
        BY <3>1, <3>2, <3>3, <4>1, <4>2
    <3>4. CASE /\ g.buf = <<FreesOf(t), "decompress">> /\ DecompressBuffer(FreesOf(t)) \in heap
               /\ g.size \in {Clear[FreesOf(t)], InflatedSize(FreesOf(t))}
      <4> DEFINE b == DecompressBuffer(FreesOf(t))
      <4>1. b.buf = <<FreesOf(t), "decompress">> /\ b.size = Clear[FreesOf(t)]
        BY DEF DecompressBuffer, Buffer
      <4>2. b \in heap
        BY <3>4
      <4>3. b.buf[1] = FreesOf(t) /\ b.buf[2] = "decompress"
        BY <4>1
      <4>. HIDE DEF b
      <4>4. Frees1(t) = {b}
        BY <1>3, <3>4, <4>1, <4>2 DEF Frees1, g
      <4>5. b = DecompressBuffer(FreesOf(t))
        BY DEF b
      <4>. QED
        BY <3>1, <3>2, <3>4, <4>1, <4>2, <4>3, <4>4, <4>5
    <3>. QED
      BY <3>1, <3>2, <3>3, <3>4 DEF GivesScratch
  <2>. QED
    BY <2>2, <2>3
<1>. QED
  BY <1>1, <1>2, <1>4, <1>5

\* A thread that frees keeps the rest of what it has.
LEMMA FreeingOwn ==
  ASSUME IInv, There, NEW c \in Compressors, Freeing(c)
  PROVE  HandInv(c)' /\ OnlyOf(FreesOf(c))
<1> DEFINE e == pckFileIndex[c]
<1>1. /\ c \in Threads /\ HandInv(c) /\ FreesOf(c) = e.f
      /\ UNCHANGED <<pckFileIndex, want, ret>>
      /\ pc[c] \in GivingBack
      /\ pc'[c] \in GivingBack \/ (pc'[c] = ret[c] /\ frees'[c] = <<>>)
      /\ ret[c] \in {"put", "push", "exit", "get"}
  BY ThreadSets, BufferTypes, FreeingGoes, FreeingLeavesOthers, ReturnsStay DEF There, FreesOf
<1>2. CASE FreeBuffer(c)
  <2>1. /\ frees[c] # <<>> /\ frees'[c] = Tail(frees[c]) /\ frees[c] \in Seq(Frees)
        /\ heap' = heap \ Frees1(c)
    BY <1>1, <1>2, BufferTypes, FreeTakes DEF FreeBuffer
  <2>2. \A b \in Frees1(c) : b.buf[1] = e.f /\ b.buf[2] # "compressed"
    BY <1>1, <1>2, FreeTakes
  <2>3. OnlyOf(e.f)
    BY <2>1, <2>2 DEF OnlyOf
  <2>4. HandThere(c)'
    <3>1. HasCompressed(c)' => HasCompressed(c)
      BY <1>1 DEF HasCompressed, Asking, GivingBack
    <3>2. ~HasSource(c)' /\ ~Recompresses(c)'
      BY <1>1 DEF HasSource, Recompresses, Asking, GivingBack
    <3>3. ItemBuffer(e).buf[2] = "compressed"
      BY DEF ItemBuffer, Buffer
    <3>4. HasCompressed(c) => ItemBuffer(e) \in heap'
      BY <1>1, <2>1, <2>2, <3>3 DEF HandInv, HandThere
    <3>. QED
      BY <1>1, <3>1, <3>2, <3>4 DEF HandThere, ItemBuffer
  <2>5. GiveThere(c)'
    <3>1. \A i \in DOMAIN frees'[c] : i + 1 \in DOMAIN frees[c] /\ frees'[c][i] = frees[c][i + 1]
      BY <2>1
    <3>2. \A i \in DOMAIN frees'[c] : i \in Nat /\ i + 1 # 1 /\ 1 \in DOMAIN frees[c] /\ Head(frees[c]) = frees[c][1]
      BY <2>1
    <3>3. \A i, j \in DOMAIN frees[c] : frees[c][i].buf = frees[c][j].buf => i = j
      BY <1>1 DEF HandInv, GiveThere
    <3>4. ASSUME NEW i \in DOMAIN frees'[c]
          PROVE  e.f # 0 /\ GivesScratch(c, frees[c][i])'
      <4> DEFINE g == frees[c][i + 1]
      <4>1. i + 1 \in DOMAIN frees[c] /\ frees'[c][i] = g /\ g.buf # Head(frees[c]).buf
        BY <3>1, <3>2, <3>3, <3>4
      <4>2. e.f # 0 /\ GivesScratch(c, g)
        <5>1. Len(frees[c]) # 1
          BY <2>1, <3>2, <4>1
        <5>. QED
          BY <1>1, <4>1, <5>1 DEF HandInv, GiveThere, GivesSlack
      <4>. HIDE DEF g
      <4>3. \A b \in heap : b.buf = g.buf => b \in heap'
        BY <2>1, <4>1 DEF Frees1
      <4>4. /\ SourceBuffer(e.f)' = SourceBuffer(e.f) /\ DecompressBuffer(e.f)' = DecompressBuffer(e.f)
            /\ InflatedSize(e.f)' = InflatedSize(e.f)
            /\ DecompressBuffer(e.f).buf = <<e.f, "decompress">>
        BY <1>1 DEF SourceBuffer, DecompressBuffer, InflatedSize, Buffer
      <4>. QED
        BY <1>1, <4>1, <4>2, <4>3, <4>4 DEF GivesScratch
    <3>5. \A i, j \in DOMAIN frees'[c] : frees'[c][i].buf = frees'[c][j].buf => i = j
      BY <3>1, <3>2, <3>3
    <3>. QED
      BY <1>1, <3>4, <3>5 DEF GiveThere
  <2>6. MissesThese(c)' /\ MallocOf(c)'
    BY <1>1 DEF HandInv, MissesThese, MallocOf, MallocSize, IsCompressed, Asking, GivingBack
  <2>. QED
    BY <1>1, <2>3, <2>4, <2>5, <2>6 DEF HandInv
<1>3. CASE TestBlocked(c) \/ ClearBlocked(c) \/ NotifyMemory(c)
  <2>1. heap' = heap /\ frees' = frees
    BY <1>3 DEF TestBlocked, ClearBlocked, NotifyMemory, memoryVars, threadVars
  <2>2. HandThere(c)'
    <3>1. HasCompressed(c)' => HasCompressed(c)
      BY <1>1 DEF HasCompressed, Asking, GivingBack
    <3>2. ~HasSource(c)' /\ ~Recompresses(c)'
      BY <1>1 DEF HasSource, Recompresses, Asking, GivingBack
    <3>. QED
      BY <1>1, <2>1, <3>1, <3>2 DEF HandInv, HandThere, ItemBuffer
  <2>3. GiveThere(c)'
    BY <1>1, <2>1 DEF HandInv, GiveThere, GivesScratch, GivesSlack, SourceBuffer,
       DecompressBuffer, InflatedSize
  <2>4. MissesThese(c)' /\ MallocOf(c)'
    BY <1>1 DEF HandInv, MissesThese, MallocOf, MallocSize, IsCompressed, Asking, GivingBack
  <2>. QED
    BY <2>1, <2>2, <2>3, <2>4 DEF HandInv, OnlyOf
<1>. QED
  BY <1>2, <1>3 DEF Freeing

LEMMA FreeingThere ==
  ASSUME IInv, Promise, PlacesInv, HeapInv, HeldInv, There, NEW t \in Threads, Freeing(t)
  PROVE  There'
<1> DEFINE f == FreesOf(t)
<1>1. /\ OthersStay(t) /\ pckFileIndex' = pckFileIndex /\ ret' = ret
      /\ pc[t] \in GivingBack /\ UNCHANGED writerVars
      /\ pc'[Writer] = "write" => pc[Writer] = "write"
      /\ m_QueueContent' = m_QueueContent /\ next' = next
      /\ heap' \subseteq heap /\ Bufs' \subseteq Bufs
  <2>1. OthersStay(t) /\ pckFileIndex' = pckFileIndex /\ ret' = ret /\ pc[t] \in GivingBack
    BY FreeingLeavesOthers, ReturnsStay, FreeingGoes
  <2>2. UNCHANGED writerVars /\ (pc'[Writer] = "write" => pc[Writer] = "write")
    BY FreeingStep DEF QuietStep, Between
  <2>3. m_QueueContent' = m_QueueContent /\ next' = next
    BY DEF Freeing, FreeBuffer, TestBlocked, ClearBlocked, NotifyMemory, fetchVars
  <2>4. heap' \subseteq heap /\ Bufs' \subseteq Bufs
    BY FreeingGoes, FreeingKeepsHeap
  <2>. QED
    BY <2>1, <2>2, <2>3, <2>4
<1>2. OnlyOf(f)
  <2>1. CASE t \in Compressors
    BY <2>1, FreeingOwn
  <2>2. CASE t \notin Compressors /\ FreeBuffer(t)
    <3>1. heap' = heap \ Frees1(t) /\ \A b \in Frees1(t) : b.buf[1] = f
      BY <2>2, FreeTakes
    <3>. QED
      BY <3>1 DEF OnlyOf
  <2>3. CASE ~FreeBuffer(t)
    <3>1. heap' = heap
      BY <2>3 DEF Freeing, TestBlocked, ClearBlocked, NotifyMemory, memoryVars
    <3>. QED
      BY <3>1 DEF OnlyOf
  <2>. QED
    BY <2>1, <2>2, <2>3
<1>3. nWrite # 0 => /\ nWrite \in 1..Settled /\ m_Index_Compress[nWrite].f # 0
                    /\ Fetched(m_Index_Compress[nWrite].f)
  <2>1. nWrite # 0 => nWrite \in 1..Settled
    BY CustodyTypes DEF Settled
  <2>. QED
    BY <2>1, NoEntryZero DEF Promise, Custody, Fetched
<1>4. frees[Writer] # <<>> => nWrite # 0
  BY DEF There, WriterGives
<1>5. \A d \in Compressors \ {t} : pckFileIndex[d].f = 0 \/ pckFileIndex[d].f # f
  <2>1. CASE t # Writer
    BY <2>1, ThreadSets DEF FreesOf, Promise, Apart, OneHand
  <2>2. CASE t = Writer
    BY <1>3, <1>4, <2>2 DEF FreesOf, Promise, Apart, HandOrRecord
  <2>. QED
    BY <2>1, <2>2
<1>6. \A i \in DOMAIN m_QueueContent : m_QueueContent[i].f # f
  <2>1. CASE t # Writer
    BY <2>1, ThreadSets DEF FreesOf, Promise, Apart, HandOrQueue
  <2>2. CASE t = Writer
    BY <1>3, <1>4, <2>2, NoEntryZero
       DEF FreesOf, Promise, Custody, Fetched, Apart, QueueOrRecord
  <2>. QED
    BY <2>1, <2>2
<1>. HIDE DEF f
<1>7. ASSUME NEW d \in Compressors PROVE HandInv(d)'
  <2>1. CASE d = t
    BY <2>1, FreeingOwn
  <2>2. CASE d # t
    <3>1. HandInv(d) /\ ret'[d] = ret[d]
      BY <1>1 DEF There
    <3>. QED
      BY <1>1, <1>2, <1>5, <2>2, <3>1, HandStays
  <2>. QED
    BY <2>1, <2>2
<1>8. QueueThere'
  BY <1>1, <1>2, <1>6, QueueStays DEF There
<1>9. OneEach' /\ KnownBufs'
  <2>1. IsFiniteSet(heap')
    BY <1>1, FS_Subset DEF There, OneEach
  <2>2. \A g : Fetched(g) => Fetched(g)'
    BY <1>1 DEF Fetched
  <2>. QED
    BY <1>1, <2>1, <2>2 DEF There, OneEach, KnownBufs
<1>10. WriterThere'
  <2>1. CASE t = Writer
    <3>1. pc[Writer] # "write"
      BY <1>1, <2>1 DEF GivingBack
    <3>. QED
      BY <1>1, <3>1 DEF WriterThere
  <2>2. CASE t # Writer
    <3>1. pc[Writer] = "write" => pckFileIndex[Writer].f # f
      <4>1. pc[Writer] = "write" => nWrite + 1 \in 1..Settled
        BY CustodyTypes DEF Settled
      <4>2. t \in Compressors /\ f = pckFileIndex[t].f
        BY <2>2, ThreadSets DEF FreesOf, f
      <4>. QED
        BY <4>1, <4>2 DEF HeldInv, Promise, Apart, HandOrRecord
    <3>2. ItemBuffer(pckFileIndex[Writer]).buf[1] = pckFileIndex[Writer].f
      BY DEF ItemBuffer, Buffer
    <3>. QED
      BY <1>1, <1>2, <3>1, <3>2 DEF There, WriterThere, OnlyOf, ItemBuffer
  <2>. QED
    BY <2>1, <2>2
<1>11. WriterGives'
  <2>1. CASE t = Writer /\ FreeBuffer(t)
    <3>1. frees[Writer] # <<>>
      BY <2>1, FreeTakes
    <3>2. Len(frees[Writer]) = 1 /\ frees[Writer] \in Seq(Frees)
      BY <3>1, BufferTypes, ThreadSets DEF There, WriterGives
    <3>3. frees'[Writer] = Tail(frees[Writer])
      BY <2>1, BufferTypes, ThreadSets DEF FreeBuffer
    <3>4. frees'[Writer] = <<>>
      <4>1. frees'[Writer] \in Seq(Frees) /\ Len(frees'[Writer]) = 0
        BY <3>1, <3>2, <3>3
      <4>. QED
        BY <4>1
    <3>. QED
      BY <3>4 DEF WriterGives
  <2>2. CASE t = Writer /\ ~FreeBuffer(t)
    <3>1. heap' = heap /\ frees' = frees
      BY <2>2 DEF Freeing, TestBlocked, ClearBlocked, NotifyMemory, memoryVars, threadVars
    <3>. QED
      BY <1>1, <3>1 DEF There, WriterGives, writerVars
  <2>3. CASE t # Writer
    <3>1. t \in Compressors /\ f = pckFileIndex[t].f /\ frees'[Writer] = frees[Writer]
      BY <1>1, <2>3, ThreadSets DEF FreesOf, f, OthersStay
    <3>2. nWrite # 0 => m_Index_Compress[nWrite].f # f
      BY <1>3, <3>1 DEF Promise, Apart, HandOrRecord
    <3>. QED
      BY <1>1, <1>2, <3>1, <3>2 DEF There, WriterGives, OnlyOf, writerVars
  <2>. QED
    BY <2>1, <2>2, <2>3
<1>. QED
  BY <1>7, <1>8, <1>9, <1>10, <1>11 DEF There

\* After what it frees, a thread has no slack to give back.
LEMMA NoMoreSlack ==
  ASSUME IInv, There, NEW t \in Threads, FreeBuffer(t)
  PROVE  (t \notin SlackToGiveBack)'
<1> SUFFICES ASSUME frees'[t] # <<>> PROVE Head(frees'[t]).buf # NoBuffer
  BY DEF SlackToGiveBack
<1>1. frees[t] # <<>> /\ frees[t] \in Seq(Frees)
  BY BufferTypes, FreeTakes
<1>2. frees'[t] = Tail(frees[t])
  BY BufferTypes DEF FreeBuffer
<1>3. Len(frees[t]) # 1 /\ 2 \in DOMAIN frees[t] /\ Head(frees'[t]) = frees[t][2]
  BY <1>1, <1>2
<1>4. t \in Compressors
  BY <1>1, <1>3, ThreadSets DEF There, WriterGives
<1>5. GivesScratch(t, frees[t][2])
  BY <1>3, <1>4 DEF There, HandInv, GiveThere, GivesSlack
<1>6. frees[t][2].buf[2] \in {"source", "decompress"}
  BY <1>5 DEF GivesScratch, SourceBuffer, Buffer
<1>. QED
  BY <1>3, <1>6 DEF NoBuffer

LEMMA FreeKeepsBudget ==
  ASSUME IInv, Promise, PlacesInv, HeapInv, There, BudgetInv, NEW t \in Threads, FreeBuffer(t)
  PROVE  BudgetInv'
<1> DEFINE g == Head(frees[t])
           S == SlackToGiveBack
<1>1. PICK l \in SUBSET Damaged :
        /\ \A f \in l : GaveLess(f)
        /\ dwMTMemoryUsed = Charge(l) % MemModulus
        /\ SizesFit => Charge(l) <= Limit
  BY DEF BudgetInv
<1>2. /\ OneEach /\ OthersStay(t) /\ pckFileIndex' = pckFileIndex /\ next' = next
      /\ pc'[t] = "wake" /\ Bufs' \subseteq Bufs
  <2>1. pc'[t] = "wake"
    BY BufferTypes DEF FreeBuffer, Goto
  <2>. QED
    BY <2>1, FreeingLeavesOthers, FreeingKeepsHeap DEF There, Freeing, FreeBuffer, fetchVars
<1>3. Limit' >= Limit
  BY <1>2, ClearedStays
<1>4. g.size \in Nat /\ dwMTMemoryUsed' = Memory(dwMTMemoryUsed + (-g.size)) /\ -g.size \in Int
  <2>1. frees[t] \in Seq(Frees) /\ frees[t] # <<>>
    BY BufferTypes, FreeTakes
  <2>2. g \in Frees
    BY <2>1
  <2>3. g.size \in Nat
    BY <2>2 DEF Frees
  <2>4. dwMTMemoryUsed \in Int
    BY LimitsAssumption DEF IInv, TypeOK, MemoryTypes
  <2>5. dwMTMemoryUsed' = Memory(dwMTMemoryUsed - g.size)
    BY DEF FreeBuffer
  <2>. HIDE DEF g
  <2>6. dwMTMemoryUsed - g.size = dwMTMemoryUsed + (-g.size)
    BY <2>3, <2>4
  <2>. QED
    BY <2>3, <2>5, <2>6
<1>5. (l \in SUBSET Damaged)' /\ (\A f \in l : GaveLess(f))'
  <2>1. ASSUME NEW f \in l PROVE GaveLess(f)'
    <3>1. Fetched(f) /\ GaveLess(f) /\ <<f, "decompress">> \notin Bufs'
      BY <1>1, <1>2, DamagedFetched DEF GaveLess
    <3>2. pc'[t] \notin Asking
      BY <1>2 DEF Asking
    <3>. QED
      BY <1>2, <3>1, <3>2, GaveLessStays
  <2>2. (l \in SUBSET Damaged)'
    BY <1>2, DamagedFetched
  <2>. QED
    BY <2>1, <2>2
<1>6. /\ HeapSum(heap) \in Nat /\ SlackSum(frees, S) \in Nat /\ LostSum(l) \in Int
      /\ Charge(l) = HeapSum(heap) + SlackSum(frees, S) + LostSum(l)
      /\ Charge(l) \in Int
  BY <1>2, ChargeIs
<1>7. (t \notin SlackToGiveBack)'
  BY NoMoreSlack
<1>8. CASE t \in S
  <2>1. heap' = heap
    BY <1>8, FreeTakes
  <2>2. SlackToGiveBack' = S \ {t} /\ \A u \in S \ {t} : frees'[u] = frees[u]
    BY <1>2, <1>7 DEF OthersStay, SlackToGiveBack
  <2>3. IsFiniteSet(S \ {t}) /\ \A u \in S : Head(frees[u]).size \in Nat
    BY <1>2, ChargeIs, FS_Subset
  <2> DEFINE R == S \ {t}
  <2>4. S = R \cup {t} /\ t \notin R
    BY <1>8
  <2>5. /\ SlackToGiveBack' = R /\ IsFiniteSet(R) /\ \A u \in R : Head(frees[u]).size \in Nat
        /\ \A u \in R : frees'[u] = frees[u]
    BY <2>2, <2>3
  <2>. HIDE DEF R, S, g
  <2>6. SlackSum(frees, S) = g.size + SlackSum(frees, R) /\ SlackSum(frees, R) \in Nat
    BY <1>4, <2>4, <2>5, SlackSumMoves DEF g
  <2>7. SlackSum(frees', R) = SlackSum(frees, R)
    BY <2>5, SlackSumMoves
  <2>8. Charge(l)' = HeapSum(heap') + SlackSum(frees', SlackToGiveBack') + LostSum(l)
    BY ChargeNext
  <2>9. Charge(l)' = Charge(l) - g.size
    BY <1>4, <1>6, <2>1, <2>5, <2>6, <2>7, <2>8
  <2>10. Charge(l)' = Charge(l) + (-g.size) + MemModulus * 0
    BY <1>4, <1>6, <2>9, LimitsAssumption
  <2>11. SizesFit => Charge(l)' <= Limit'
    BY <1>1, <1>3, <1>4, <1>6, <2>9, LimitIs
  <2>12. 0 \in Int
    OBVIOUS
  <2>. QED
    BY <1>1, <1>2, <1>4, <1>5, <2>10, <2>11, <2>12, BudgetMoves
<1>9. CASE t \notin S
  <2>1. PICK b \in heap :
          /\ Frees1(t) = {b}
          /\ \/ b.size = g.size
             \/ /\ t \in Compressors /\ b = DecompressBuffer(FreesOf(t))
                /\ g.size = InflatedSize(FreesOf(t))
          /\ t \in Compressors => FreesOf(t) # 0
    BY <1>9, FreeTakes
  <2>2. heap' = heap \ {b}
    BY <2>1, FreeTakes
  <2>3. HeapSum(heap) = b.size + HeapSum(heap \ {b}) /\ HeapSum(heap \ {b}) \in Nat /\ b.size \in Nat
    <3>1. IsFiniteSet(heap) /\ \A x \in heap : x.size \in Nat
      BY <1>2, ChargeIs DEF OneEach
    <3>. QED
      BY <2>1, <3>1, HeapSumMoves
  <2>4. SlackSum(frees', SlackToGiveBack') = SlackSum(frees, S)
    <3>1. SlackSame
      BY <1>2, <1>7, <1>9, SlackStays
    <3>. QED
      BY <1>2, <3>1, SlackSumSame
  <2>. HIDE DEF S, g
  <2>5. HeapSum(heap') = HeapSum(heap) - b.size
    BY <2>2, <2>3
  <2>6. CASE b.size = g.size
    <3>1. Charge(l)' = HeapSum(heap') + SlackSum(frees', SlackToGiveBack') + LostSum(l)
      BY ChargeNext
    <3>2. Charge(l)' = Charge(l) - g.size
      BY <1>4, <1>6, <2>4, <2>5, <2>6, <3>1
    <3>3. Charge(l)' = Charge(l) + (-g.size) + MemModulus * 0
      BY <1>4, <1>6, <3>2, LimitsAssumption
    <3>4. SizesFit => Charge(l)' <= Limit'
      BY <1>1, <1>3, <1>4, <1>6, <3>2, LimitIs
    <3>5. 0 \in Int
      OBVIOUS
    <3>. QED
      BY <1>1, <1>2, <1>4, <1>5, <3>3, <3>4, <3>5, BudgetMoves
  <2>7. CASE b.size # g.size
    <3>1. PICK f : f = FreesOf(t)
      OBVIOUS
    <3>2. PICK m : m = l \cup {f}
      OBVIOUS
    <3>3. /\ t \in Compressors /\ b = DecompressBuffer(f) /\ g.size = InflatedSize(f)
          /\ f = pckFileIndex[t].f /\ f # 0
      BY <2>1, <2>7, <3>1, ThreadSets DEF FreesOf
    <3>4. Fetched(f) /\ f \in Entries
      BY <3>3, NumberOfEntries DEF Promise, Custody, Fetched
    <3>5. b.buf = <<f, "decompress">> /\ b.size = Clear[f]
      BY <3>3 DEF DecompressBuffer, Buffer
    <3>6. f \in Damaged
      BY <2>7, <3>3, <3>4, <3>5 DEF Fetched, Damaged
    <3>7. f \notin l
      BY <1>1, <3>5 DEF GaveLess, Bufs
    <3>8. LostSum(m) = (Clear[f] - InflatedSize(f)) + LostSum(l)
      <4>1. l \in SUBSET Entries
        BY <1>2, ChargeIs
      <4>. QED
        BY <3>2, <3>4, <3>7, <4>1, LostSumMoves
    <3>9. m \in SUBSET Damaged /\ (m \in SUBSET Damaged)'
      BY <1>2, <3>2, <3>6, DamagedFetched
    <3>10. GaveLess(f)'
      <4>1. <<f, "decompress">> \notin Bufs'
        BY <1>2, <2>1, <2>2, <3>5 DEF Bufs, OneEach
      <4>2. \A c \in Compressors : pckFileIndex'[c].f = f => c = t
        BY <1>2, <3>3 DEF Promise, Apart, OneHand
      <4>3. pc'[t] \notin Asking
        BY <1>2 DEF Asking
      <4>. QED
        BY <4>1, <4>2, <4>3 DEF GaveLess
    <3>11. (\A x \in m : GaveLess(x))'
      BY <1>5, <3>2, <3>10
    <3>12. Charge(m)' = HeapSum(heap') + SlackSum(frees', SlackToGiveBack') + LostSum(m)
      BY ChargeNext
    <3>13. Charge(m)' = Charge(l) - g.size
      <4>1. Clear[f] \in Nat /\ InflatedSize(f) \in Nat
        BY <3>4, Sizes
      <4>. QED
        BY <1>4, <1>6, <2>4, <2>5, <3>3, <3>5, <3>8, <3>12, <4>1
    <3>14. Charge(m)' = Charge(l) + (-g.size) + MemModulus * 0
      BY <1>4, <1>6, <3>13, LimitsAssumption
    <3>15. SizesFit => Charge(m)' <= Limit'
      BY <1>1, <1>3, <1>4, <1>6, <3>13, LimitIs
    <3>16. 0 \in Int
      OBVIOUS
    <3>. QED
      BY <1>1, <1>2, <1>4, <3>9, <3>11, <3>14, <3>15, <3>16, BudgetMoves
  <2>. QED
    BY <2>6, <2>7
<1>. QED
  BY <1>8, <1>9

-----------------------------------------------------------------------------
(***************************************************************************)
(* Every step keeps the invariant, as long as the budget is compared.      *)
(***************************************************************************)
\* A step of a compressor that changes no buffer.
LEMMA QuietKeepsBudget ==
  ASSUME IInv, There, BudgetInv, NEW c \in Compressors, Compressor(c),
         UNCHANGED <<heap, dwMTMemoryUsed>>, SlackSame,
         pc'[c] \in Asking =>
           \/ pc[c] \in Asking /\ pckFileIndex'[c].f = pckFileIndex[c].f
           \/ ~Fetched(pckFileIndex'[c].f),
         DetectEnough(c) \/ (pc'[c] \in {"alloc", "allocWait"} => pc[c] \in {"alloc", "allocWait"})
  PROVE  BudgetInv'
<1>1. /\ OneEach /\ c \in Threads /\ OthersStay(c) /\ next' \in {next, next + 1}
      /\ Bufs' = Bufs
  <2>1. next' \in {next, next + 1}
    BY CompressorMovesEntry DEF NothingMoves, Takes, Queues
  <2>. QED
    BY <2>1, CompressorLeavesOthers, ThreadSets DEF There, Bufs
<1>2. \A f \in Damaged : GaveLess(f) => GaveLess(f)'
  <2>. SUFFICES ASSUME NEW f \in Damaged, GaveLess(f) PROVE GaveLess(f)'
    OBVIOUS
  <2>1. Fetched(f) /\ <<f, "decompress">> \notin Bufs'
    BY <1>1, DamagedFetched DEF GaveLess
  <2>. QED
    BY <1>1, <2>1, GaveLessStays
<1>3. CASE DetectEnough(c)
  BY <1>1, <1>2, <1>3, PassKeepsBudget DEF DetectEnough
<1>4. CASE ~DetectEnough(c)
  <2>1. Limit' >= Limit
    BY <1>1, <1>4, ClearedStays
  <2>. QED
    BY <1>1, <1>2, <2>1, BudgetStays
<1>. QED
  BY <1>3, <1>4

LEMMA CompressorKeepsCharges ==
  ASSUME IInv, Promise, PlacesInv, HeldInv, There, BudgetInv, NEW c \in Compressors, Compressor(c)
  PROVE  There' /\ BudgetInv'
<1>1. c \in Threads /\ OthersStay(c)
  BY ThreadSets, CompressorLeavesOthers
<1>2. pckFileIndex[c].f # 0 => Fetched(pckFileIndex[c].f)
  BY DEF Promise, Custody
<1>3. CASE Walks(c)
  <2>1. There'
    BY <1>3, WalksThere, CompressorFrame
  <2>2. DetectEnough(c) \/ (pc'[c] \in {"alloc", "allocWait"} => pc[c] \in {"alloc", "allocWait"})
    <3>1. \/ DetectEnough(c)
          \/ \E l \in {"exit", "check", "memWait"} : Goto(c, l)
          \/ NotifyWriter(c, "done") \/ pc' = pc \/ pc[c] \in {"alloc", "allocWait"}
      BY <1>3 DEF Walks, FetchEnd, FetchSkipInvalid, OpenFile, DetectCancelled, DetectFull,
         MemoryWaitTimeout, MallocFails, MallocRetry, ThreadExit
    <3>. QED
      BY <1>1, <3>1, BufferTypes, ThreadSets DEF Goto, NotifyWriter
  <2>3. SlackSame /\ UNCHANGED <<heap, dwMTMemoryUsed>> /\ pckFileIndex' = pckFileIndex
    BY <1>3, WalksGoes DEF SlackSame, SlackToGiveBack
  <2>4. pc'[c] \in Asking => pc[c] \in Asking
    BY <1>3, WalksGoes DEF Asking
  <2>. QED
    BY <2>1, <2>2, <2>3, <2>4, QuietKeepsBudget
<1>4. CASE FetchEntry(c)
  <2>1. There'
    BY <1>4, FetchThere, CompressorFrame
  <2>2. /\ UNCHANGED <<heap, dwMTMemoryUsed, frees>>
        /\ pckFileIndex'[c].f = next /\ pc'[c] \in {"put", "open", "check"}
    BY BufferTypes, ThreadSets, <1>4 DEF FetchEntry, Goto, memoryVars
  <2>3. ~Fetched(pckFileIndex'[c].f)
    BY <2>2, CustodyTypes DEF Fetched
  <2>4. SlackSame
    BY <2>2 DEF SlackSame, SlackToGiveBack
  <2>. QED
    BY <2>1, <2>2, <2>3, <2>4, QuietKeepsBudget
<1>5. CASE Allocate(c)
  <2>1. Fetched(pckFileIndex[c].f)
    BY <1>2, <1>5, AllocateGoes, SourceAssumption DEF Entries
  <2>. QED
    BY <1>5, <2>1, AllocateThere, AllocateKeepsBudget, CompressorFrame
<1>6. CASE ViewSource(c)
  <2>1. There' /\ c \notin SlackToGiveBack /\ (c \notin SlackToGiveBack)' /\ pc'[c] \notin Asking
    BY <1>6, ViewThere, CompressorFrame
  <2>2. SlackSame
    BY <1>1, <2>1, SlackStays
  <2>3. UNCHANGED <<heap, dwMTMemoryUsed>>
    BY <1>6 DEF ViewSource, memoryVars
  <2>. QED
    BY <2>1, <2>2, <2>3, QuietKeepsBudget DEF Asking
<1>7. CASE Shrink(c)
  BY <1>7, ShrinkThere, ShrinkKeepsBudget, CompressorFrame
<1>8. CASE Push(c)
  <2>1. There'
    BY <1>8, PushThere, CompressorFrame
  <2>2. UNCHANGED <<heap, dwMTMemoryUsed, frees>> /\ pc'[c] = "fetch"
    BY <1>8, BufferTypes, ThreadSets DEF Push, NotifyWriter, memoryVars
  <2>3. SlackSame
    BY <2>2 DEF SlackSame, SlackToGiveBack
  <2>. QED
    BY <2>1, <2>2, <2>3, QuietKeepsBudget DEF Asking
<1>. QED
  BY <1>3, <1>4, <1>5, <1>6, <1>7, <1>8 DEF Compressor, Walks

LEMMA FreeingKeepsCharges ==
  ASSUME IInv, Promise, PlacesInv, HeapInv, HeldInv, There, BudgetInv, NEW t \in Threads, Freeing(t)
  PROVE  There' /\ BudgetInv'
<1>1. There'
  BY FreeingThere
<1>2. CASE FreeBuffer(t)
  BY <1>1, <1>2, FreeKeepsBudget
<1>3. CASE ~FreeBuffer(t)
  <2>1. UNCHANGED <<heap, dwMTMemoryUsed, frees, next>>
    BY <1>3 DEF Freeing, TestBlocked, ClearBlocked, NotifyMemory, memoryVars, threadVars, fetchVars
  <2>2. OneEach /\ OthersStay(t) /\ SlackSame /\ Bufs' = Bufs
    BY <2>1, FreeingLeavesOthers DEF There, SlackSame, SlackToGiveBack, Bufs
  <2>3. pc'[t] \notin Asking
    BY FreeingGoes, BufferTypes DEF Asking, GivingBack
  <2>4. Limit' >= Limit
    BY <2>2, <2>3, ClearedStays DEF Asking
  <2>5. \A f \in Damaged : GaveLess(f) => GaveLess(f)'
    <3>. SUFFICES ASSUME NEW f \in Damaged, GaveLess(f) PROVE GaveLess(f)'
      OBVIOUS
    <3>1. Fetched(f) /\ <<f, "decompress">> \notin Bufs'
      BY <2>1, <2>2, DamagedFetched DEF GaveLess
    <3>. QED
      BY <2>2, <2>3, <3>1, GaveLessStays
  <2>. QED
    BY <1>1, <2>1, <2>2, <2>4, <2>5, BudgetStays
<1>. QED
  BY <1>2, <1>3

\* The writer frees nothing itself, except when it gives up; then the budget is no longer
\* compared.
LEMMA WriterGoes ==
  ASSUME IInv, PlacesInv, HeldInv, TargetInv, WriteThread \/ GetWakesSpuriously, Counting'
  PROVE  /\ ~WriterFails1 /\ ~WriterFails2
         /\ UNCHANGED <<heap, dwMTMemoryUsed, next>>
         /\ frees[Writer] = <<>>
         /\ pc[Writer] \notin {"clear"} \cup GivingBack
<1>1. /\ Writer \in Threads /\ PlaceOf(Writer)
      /\ pc \in [Threads -> CompressorPlaces \cup WriterPlaces]
  BY BufferTypes, ThreadSets DEF PlacesInv
<1>2. ~WriterFails1
  <2>1. WriterFails1 => pc'[Writer] = "clear"
    BY <1>1 DEF WriterFails1, Goto
  <2>. QED
    BY <2>1, WriterKeepsHeld DEF TargetInv, Counting
<1>3. ~WriterFails2
  BY DEF WriterFails2, TargetInv, WriterFailed, Counting
<1>4. UNCHANGED <<heap, dwMTMemoryUsed, next>> /\ pc[Writer] \notin {"clear"} \cup GivingBack
  BY <1>2, <1>3
     DEF WriteThread, GetEntry, GetFindsEmpty, GetWaits, GetCancelled, WriteEntry, WriteFails,
     WriterEnd, GetWakesSpuriously, Wants, GivingBack, memoryVars, fetchVars
<1>5. frees[Writer] = <<>>
  BY <1>1, <1>4 DEF PlaceOf
<1>. QED
  BY <1>2, <1>3, <1>4, <1>5

\* What the writer takes out of the queue, and what it is about to free, is there.
LEMMA WriterHolds ==
  ASSUME IInv, Promise, PlacesInv, HeldInv, TargetInv, There, WriteThread \/ GetWakesSpuriously,
         Counting'
  PROVE  QueueThere' /\ WriterThere' /\ WriterGives'
<1>1. /\ heap' = heap /\ frees[Writer] = <<>> /\ ~WriterFails1 /\ ~WriterFails2
      /\ QueueThere /\ WriterThere
  BY WriterGoes DEF There
<1>2. /\ Writer \in Threads /\ pckFileIndex \in [Threads -> Items]
      /\ frees \in [Threads -> Seq(Frees)]
      /\ pc \in [Threads -> CompressorPlaces \cup WriterPlaces]
  BY BufferTypes, ThreadSets
<1>3. CASE GetEntry
  <2>1. /\ m_QueueContent' = Tail(m_QueueContent) /\ m_QueueContent # <<>>
        /\ pckFileIndex' = [pckFileIndex EXCEPT ![Writer] = Head(m_QueueContent)]
        /\ frees' = frees
    BY <1>3 DEF GetEntry, QueueAfterGet
  <2>2. pckFileIndex'[Writer] = Head(m_QueueContent) /\ frees'[Writer] = <<>>
    BY <1>1, <1>2, <2>1
  <2>3. /\ m_QueueContent \in Seq([f : Entries, malloc : Nat])
        /\ m_QueueContent # <<>> /\ m_QueueContent' = Tail(m_QueueContent)
    BY <2>1, CustodyTypes
  <2>4. /\ Len(m_QueueContent) \in Nat /\ DOMAIN m_QueueContent = 1..Len(m_QueueContent)
        /\ Head(m_QueueContent) = m_QueueContent[1] /\ 1 \in DOMAIN m_QueueContent
        /\ DOMAIN m_QueueContent' = 1..(Len(m_QueueContent) - 1)
        /\ \A i \in 1..(Len(m_QueueContent) - 1) : m_QueueContent'[i] = m_QueueContent[i + 1]
    BY <2>3
  <2>5. \A i \in DOMAIN m_QueueContent' :
          i + 1 \in DOMAIN m_QueueContent /\ m_QueueContent'[i] = m_QueueContent[i + 1]
    BY <2>4
  <2>6. QueueThere'
    BY <1>1, <2>5 DEF QueueThere, ItemBuffer
  <2>7. WriterThere'
    BY <1>1, <2>2, <2>4 DEF QueueThere, WriterThere, ItemBuffer
  <2>8. WriterGives'
    BY <2>2 DEF WriterGives
  <2>. QED
    BY <2>6, <2>7, <2>8
<1>4. CASE WriteEntry
  <2> DEFINE entry == pckFileIndex[Writer]
             record == m_Index_Compress[nWrite + 1]
  <2>1. pc[Writer] = "write" /\ Len(m_Index_Compress) = nWrite + 1 /\ nWrite \in Nat
    BY <1>4, CustodyTypes DEF WriteEntry, IInv, WriterInv, CountInv, Holding
  <2>2. entry.f = record.f /\ record.f \in Valid /\ record.len = CipherSize(record.f)
    <3>1. Settled = nWrite + 1 /\ nWrite + 1 \in 1..Settled
      BY <2>1 DEF Settled
    <3>. QED
      BY <2>1, <3>1 DEF HeldInv, Promise, Custody, Fetched
  <2>3. /\ UNCHANGED <<pckFileIndex, m_QueueContent, m_Index_Compress>> /\ nWrite' = nWrite + 1
        /\ record.len = 0 => Goto(Writer, "get") /\ frees' = frees
        /\ record.len # 0 => /\ Goto(Writer, "free")
                             /\ frees' = [frees EXCEPT ![Writer] = WriterFrees(entry)]
    BY <1>4, <2>1 DEF WriteEntry
  <2>4. QueueThere'
    BY <1>1, <2>3 DEF QueueThere, ItemBuffer
  <2>5. WriterThere'
    <3>1. pc'[Writer] # "write"
      BY <1>2, <1>4 DEF WriteEntry, Goto
    <3>. QED
      BY <3>1 DEF WriterThere
  <2>6. CASE record.len = 0
    <3>1. WriterGives'
      BY <1>1, <2>3, <2>6 DEF WriterGives
    <3>. QED
      BY <2>4, <2>5, <3>1
  <2>7. CASE record.len # 0
    <3>1. record.f \in Entries
      BY <2>2, NumberOfEntries
    <3>2. Clear[entry.f] # 0
      BY <2>2, <2>7, <3>1, EmptyEntry
    <3>3. ItemBuffer(entry) \in heap
      BY <1>1, <2>1, <3>2 DEF WriterThere
    <3>4. frees'[Writer] = <<ItemBuffer(entry)>>
      BY <1>2, <2>3, <2>7 DEF WriterFrees, ItemBuffer
    <3>5. Len(frees'[Writer]) = 1 /\ frees'[Writer][1] = ItemBuffer(entry)
      BY <3>4
    <3>6. ItemBuffer(entry).buf = <<record.f, "compressed">>
      BY <2>2 DEF ItemBuffer, Buffer
    <3>7. nWrite' # 0 /\ m_Index_Compress'[nWrite'] = record
      BY <2>1, <2>3
    <3>8. WriterGives'
      BY <1>1, <3>3, <3>5, <3>6, <3>7 DEF WriterGives
    <3>. QED
      BY <2>4, <2>5, <3>8
  <2>. QED
    BY <2>6, <2>7
<1>5. CASE ~GetEntry /\ ~WriteEntry
  <2>1. frees' = frees /\ m_QueueContent' = m_QueueContent /\ pc'[Writer] # "write"
    BY <1>1, <1>2, <1>5
       DEF WriteThread, GetFindsEmpty, GetWaits, GetCancelled, WriteFails, HandleFailure,
       WriterEnd, GetWakesSpuriously, Goto, threadVars
  <2>2. QueueThere' /\ WriterThere' /\ WriterGives'
    BY <1>1, <2>1 DEF QueueThere, WriterThere, WriterGives, ItemBuffer
  <2>. QED
    BY <2>2
<1>. QED
  BY <1>3, <1>4, <1>5

LEMMA WriterKeepsCharges ==
  ASSUME IInv, Promise, PlacesInv, HeldInv, TargetInv, There, BudgetInv,
         WriteThread \/ GetWakesSpuriously, Counting'
  PROVE  There' /\ BudgetInv'
<1>1. /\ UNCHANGED <<heap, dwMTMemoryUsed, next>> /\ frees[Writer] = <<>>
      /\ Writer \in Threads /\ Writer \notin Compressors /\ Compressors \subseteq Threads
      /\ OthersStay(Writer) /\ OneEach /\ Bufs' = Bufs
  BY WriterGoes, ThreadSets, WriterLeavesOthers DEF There, Bufs
<1>2. ASSUME NEW d \in Compressors PROVE HandInv(d)'
  <2>1. d \in Compressors \ {Writer} /\ HandInv(d) /\ ret'[d] = ret[d]
    BY <1>1, ReturnsStay DEF There
  <2>2. pckFileIndex[d].f = 0 \/ pckFileIndex[d].f # 0
    OBVIOUS
  <2>3. OnlyOf(0) /\ \A buf \in Bufs' : buf \in Bufs \/ buf[1] = 0
    BY <1>1 DEF OnlyOf
  <2>. QED
    BY <1>1, <2>1, <2>2, <2>3, HandStays
<1>3. QueueThere' /\ WriterThere' /\ WriterGives'
  BY WriterHolds
<1>4. KnownBufs' /\ OneEach'
  BY <1>1 DEF There, KnownBufs, OneEach, Fetched
<1>5. There'
  BY <1>2, <1>3, <1>4 DEF There
<1>6. SlackSame
  <2>1. Writer \notin SlackToGiveBack
    BY <1>1 DEF SlackToGiveBack
  <2>2. (Writer \notin SlackToGiveBack)'
    <3>1. frees' = frees \/ frees'[Writer] = WriterFrees(pckFileIndex[Writer])
      BY <1>1, WriterGoes, BufferTypes
         DEF WriteThread, GetEntry, GetFindsEmpty, GetWaits, GetCancelled, WriteEntry, WriteFails,
         WriterEnd, GetWakesSpuriously, threadVars
    <3>2. CASE frees'[Writer] = WriterFrees(pckFileIndex[Writer])
      BY <3>2 DEF SlackToGiveBack, WriterFrees, Buffer, NoBuffer
    <3>. QED
      BY <1>1, <3>1, <3>2 DEF SlackToGiveBack
  <2>. QED
    BY <1>1, <2>1, <2>2, SlackStays
<1>7. Limit' >= Limit
  BY <1>1, ClearedStays
<1>8. \A f \in Damaged : GaveLess(f) => GaveLess(f)'
  <2>. SUFFICES ASSUME NEW f \in Damaged, GaveLess(f) PROVE GaveLess(f)'
    OBVIOUS
  <2>1. Fetched(f) /\ <<f, "decompress">> \notin Bufs'
    BY <1>1, DamagedFetched DEF GaveLess
  <2>. QED
    BY <1>1, <2>1, GaveLessStays
<1>9. next' \in {next, next + 1}
  BY <1>1
<1>. QED
  BY <1>1, <1>5, <1>6, <1>7, <1>8, <1>9, BudgetStays

-----------------------------------------------------------------------------
(***************************************************************************)
(* The theorems.                                                           *)
(***************************************************************************)
\* When the threads are joined the budget is reset.
ResetInv == phase # "threads" => dwMTMemoryUsed = 0
Accounts == PlacesInv /\ HeapInv /\ HeldInv /\ TargetInv /\ Charges /\ ResetInv

LEMMA EmptySums == \A fr : HeapSum({}) = 0 /\ SlackSum(fr, {}) = 0 /\ LostSum({}) = 0
<1>. SUFFICES ASSUME NEW fr PROVE HeapSum({}) = 0 /\ SlackSum(fr, {}) = 0 /\ LostSum({}) = 0
  OBVIOUS
<1> DEFINE w == [x \in {} |-> 0]
<1>1. IsFiniteSet({})
  BY FS_EmptySet
<1>2. \A v : SumOf(v, {}) = 0
  BY <1>1, SumUnfolds
<1>3. HeapSum({}) = SumOf(w, {})
  BY <1>1, HeapSumIs
<1>4. SlackSum(fr, {}) = SumOf(w, {})
  BY <1>1, SlackSumIs
<1>5. LostSum({}) = SumOf(w, {})
  BY <1>1, LostSumIs
<1>. QED
  BY <1>2, <1>3, <1>4, <1>5

LEMMA InitAccounts == Init => Accounts
<1> SUFFICES ASSUME Init PROVE Accounts
  OBVIOUS
<1>1. PlacesInv /\ HeapInv /\ HeldInv /\ TargetInv
  BY InitUpkeep DEF Upkeep
<1>2. /\ heap = {} /\ Bufs = {} /\ SlackToGiveBack = {} /\ dwMTMemoryUsed = 0
      /\ m_QueueContent = <<>> /\ phase = "threads" /\ frees[Writer] = <<>> /\ pc[Writer] = "get"
  BY ThreadSets DEF Init, Bufs, SlackToGiveBack
<1>3. ASSUME NEW c \in Compressors PROVE HandInv(c)
  <2>1. pc[c] = "fetch" /\ frees[c] = <<>>
    BY ThreadSets DEF Init
  <2>. QED
    BY <2>1 DEF HandInv, HandThere, HasCompressed, HasSource, Recompresses, GiveThere,
       MissesThese, MallocOf, Asking, GivingBack
<1>4. OneEach
  BY <1>2, FS_EmptySet DEF OneEach
<1>5. There
  BY <1>2, <1>3, <1>4 DEF There, QueueThere, WriterThere, WriterGives, KnownBufs
<1>6. BudgetInv
  <2>1. {} \in SUBSET Damaged /\ {} \in SUBSET Entries /\ IsFiniteSet({})
    BY FS_EmptySet
  <2>2. HeapSum({}) = 0 /\ SlackSum(frees, {}) = 0 /\ LostSum({}) = 0
    BY EmptySums
  <2>3. Charge({}) = 0
    <3>1. Charge({}) = HeapSum(heap) + SlackSum(frees, SlackToGiveBack) + LostSum({})
      BY <1>4, <2>1, InitIInv, ChargeIs
    <3>. QED
      BY <1>2, <2>2, <3>1
  <2>4. 0 % MemModulus = 0 /\ 0 <= Limit
    BY LimitIs, LimitsAssumption
  <2>. QED
    BY <1>2, <2>1, <2>3, <2>4 DEF BudgetInv
<1>. QED
  BY <1>1, <1>2, <1>5, <1>6 DEF Accounts, Charges, ResetInv

LEMMA NextAccounts ==
  ASSUME IInv, Promise, Accounts, [Next]_vars
  PROVE  Accounts'
<1> USE DEF Accounts
<1>1. CASE \E c \in Compressors : Compressor(c)
  <2>1. PICK c \in Compressors : Compressor(c)
    BY <1>1
  <2>2. PlacesInv' /\ HeapInv'
    BY <2>1, CompressorKeepsPlaces, CompressorKeepsHeap
  <2>3. HeldInv' /\ TargetInv'
    BY <2>1, CompressorStep, CompressorLeavesOthers, ThreadSets, WriterLeftAlone
       DEF QuietStep, OthersStay
  <2>4. UNCHANGED <<phase, dwFileCountOfWriteTarget>>
    BY <2>1, CompressorStep DEF QuietStep, mainVars, writerVars
  <2>5. Charges'
    BY <2>1, <2>4, CompressorKeepsCharges DEF Charges, Counting, WriterFailed
  <2>6. ResetInv'
    BY <2>1, <2>4, CompressorStep, ThreadSets DEF QuietStep, ResetInv, IInv, MainInv
  <2>. QED
    BY <2>2, <2>3, <2>5, <2>6
<1>2. CASE \E t \in Threads : Freeing(t)
  <2>1. PICK t \in Threads : Freeing(t)
    BY <1>2
  <2>2. PlacesInv' /\ HeapInv'
    BY <2>1, FreeingKeepsPlaces, FreeingKeepsHeap
  <2>3. HeldInv' /\ TargetInv'
    BY <2>1, FreeingStep, FreeingLeavesOthers, WriterLeftAlone DEF QuietStep
  <2>4. UNCHANGED <<phase, dwFileCountOfWriteTarget>>
    BY <2>1, FreeingStep DEF QuietStep, mainVars, writerVars
  <2>5. Charges'
    BY <2>1, <2>4, FreeingKeepsCharges DEF Charges, Counting, WriterFailed
  <2>6. ResetInv'
    BY <2>1, <2>4, FreeingStep DEF QuietStep, ResetInv, IInv, MainInv
  <2>. QED
    BY <2>2, <2>3, <2>5, <2>6
<1>3. CASE WriteThread \/ GetWakesSpuriously
  <2>1. PlacesInv' /\ HeapInv' /\ HeldInv' /\ TargetInv'
    BY <1>3, WriterKeepsPlaces, WriterKeepsHeap, WriterKeepsHeld
  <2>2. phase' = phase
    BY <1>3 DEF WriteThread, GetEntry, GetFindsEmpty, GetWaits, GetCancelled, WriteEntry,
       WriteFails, WriterEnd, WriterFails1, WriterFails2, GetWakesSpuriously, mainVars
  <2>3. ASSUME Counting' PROVE Counting
    <3>1. ~WriterFails1
      BY <1>3, <2>3, WriterGoes
    <3>2. dwFileCountOfWriteTarget' = dwFileCountOfWriteTarget
      BY <1>3, <3>1 DEF WriteThread, GetEntry, GetFindsEmpty, GetWaits, GetCancelled, WriteEntry,
         WriteFails, WriterEnd, WriterFails2, GetWakesSpuriously, writerVars
    <3>. QED
      BY <2>2, <2>3, <3>2 DEF Counting, WriterFailed
  <2>4. Charges'
    BY <1>3, <2>3, WriterKeepsCharges DEF Charges
  <2>5. ResetInv'
    <3>1. pc[Writer] # "done"
      BY <1>3 DEF WriteThread, GetEntry, GetFindsEmpty, GetWaits, GetCancelled, WriteEntry,
         WriteFails, WriterEnd, WriterFails1, WriterFails2, GetWakesSpuriously, Wants
    <3>. QED
      BY <2>2, <3>1 DEF ResetInv, IInv, MainInv
  <2>. QED
    BY <2>1, <2>4, <2>5
<1>4. CASE Main \/ ForceBreakThreadWorking \/ Terminated \/ UNCHANGED vars
  <2>1. UNCHANGED <<pc, pckFileIndex, want, frees, ret, heap, m_QueueContent, m_Index_Compress,
                    nWrite, dwFileCountOfWriteTarget, next>>
    BY <1>4 DEF Main, JoinThreads, WriteIndex, ClearThreadFlag, ForceBreakThreadWorking,
       Terminated, vars, threadVars, memoryVars, writerVars, fetchVars
  <2>2. PlacesInv' /\ HeapInv' /\ HeldInv' /\ TargetInv'
    BY <2>1 DEF PlacesInv, PlaceOf, HeapInv, Bufs, HeldInv, TargetInv, WriterFailed, Alone,
       IsCompressed
  <2>3. \/ phase' # "threads" /\ dwMTMemoryUsed' \in {dwMTMemoryUsed, 0}
           /\ (phase = "threads" => dwMTMemoryUsed' = 0)
        \/ phase' = phase /\ dwMTMemoryUsed' = dwMTMemoryUsed
    BY <1>4 DEF Main, JoinThreads, WriteIndex, ClearThreadFlag, ForceBreakThreadWorking,
       Terminated, vars, mainVars, memoryVars
  <2>4. ResetInv'
    BY <2>3 DEF ResetInv
  <2>5. ASSUME Counting' PROVE There' /\ BudgetInv'
    <3>1. Counting /\ dwMTMemoryUsed' = dwMTMemoryUsed
      BY <2>1, <2>3, <2>5 DEF Counting, WriterFailed
    <3>2. There'
      <4>1. There
        BY <3>1 DEF Charges
      <4>2. ASSUME NEW c \in Compressors PROVE HandInv(c)'
        <5>1. HandInv(c)
          BY <4>1 DEF There
        <5>2. HandThere(c)' /\ MissesThese(c)' /\ MallocOf(c)'
          BY <2>1, <5>1 DEF HandInv, HandThere, HasCompressed, HasSource, Recompresses,
             MissesThese, Missing, MallocOf, Bufs, ItemBuffer, SourceBuffer, DecompressBuffer,
             IsCompressed, MallocSize
        <5>3. GiveThere(c)'
          BY <2>1, <5>1 DEF HandInv, GiveThere, GivesScratch, GivesSlack, SourceBuffer,
             DecompressBuffer, InflatedSize
        <5>. QED
          BY <5>2, <5>3 DEF HandInv
      <4>3. QueueThere' /\ WriterThere' /\ WriterGives' /\ KnownBufs' /\ OneEach'
        BY <2>1, <4>1 DEF There, QueueThere, WriterThere, WriterGives, KnownBufs, OneEach, Bufs,
           Fetched, ItemBuffer
      <4>. QED
        BY <4>2, <4>3 DEF There
    <3>3. SlackSame /\ Limit' >= Limit /\ OneEach
      <4>1. Cleared' \subseteq Cleared
        BY <2>1 DEF Cleared
      <4>. QED
        BY <2>1, <3>1, <4>1, LimitMoves DEF SlackSame, SlackToGiveBack, Charges, There
    <3>4. \A f \in Damaged : GaveLess(f) => GaveLess(f)'
      BY <2>1 DEF GaveLess, Bufs
    <3>. QED
      BY <2>1, <3>1, <3>2, <3>3, <3>4, BudgetStays DEF Charges
  <2>6. Charges'
    BY <2>5 DEF Charges
  <2>. QED
    BY <2>2, <2>4, <2>6
<1>. QED
  BY <1>1, <1>2, <1>3, <1>4 DEF Next

\* Until the writer fails, the budget is the sum of the allocated buffers and of the slack a
\* reallocation is about to give back, less only what damaged entries gave back short: every
\* charge of detectMaxAndAddMemory is returned once by freeMaxAndSubtractMemory, whichever
\* thread frees the buffer and however the counter wraps around.
THEOREM BudgetExact == Spec => []BudgetIsExact
<1>1. Init => IInv /\ Promise /\ Accounts
  BY InitIInv, InitPromise, InitAccounts
<1>2. IInv /\ Promise /\ Accounts /\ [Next]_vars => (IInv /\ Promise /\ Accounts)'
  BY NextIInv, NextPromise, NextAccounts
<1>3. IInv /\ Promise /\ Accounts => BudgetIsExact
  BY DEF Accounts, Charges, Counting, BudgetInv, Charge, BudgetIsExact
<1>. QED
  BY <1>1, <1>2, <1>3, PTL DEF Spec

\* detectMaxToAddMemory tests the budget and detectMaxAndAddMemory charges it later, under
\* another hold of the mutex; still the budget is overdrawn by one buffer of each compressor
\* at most, as long as the sizes keep to the 32 bits of the counter.
THEOREM OverdraftIsBounded == SizesFit => (Spec => []OverdraftBounded)
<1>1. Init => IInv /\ Promise /\ Accounts
  BY InitIInv, InitPromise, InitAccounts
<1>2. IInv /\ Promise /\ Accounts /\ [Next]_vars => (IInv /\ Promise /\ Accounts)'
  BY NextIInv, NextPromise, NextAccounts
<1>3. SizesFit /\ IInv /\ Promise /\ Accounts => OverdraftBounded
  <2> SUFFICES ASSUME SizesFit, IInv, Accounts, ~WriterFailed
               PROVE  dwMTMemoryUsed < MaxMemory + Cardinality(Compressors) * LargestBuffer
    BY DEF OverdraftBounded
  <2>1. /\ Limit \in Nat /\ Limit < MemModulus
        /\ Limit < MaxMemory + Cardinality(Compressors) * LargestBuffer
        /\ Cardinality(Compressors) * LargestBuffer \in Int
    BY LimitIs, LargestIs, ThreadsAssumption, FS_CardinalityType
  <2>2. CASE phase = "threads"
    <3>1. OneEach /\ BudgetInv
      BY <2>2 DEF Accounts, Charges, Counting, There
    <3>2. PICK l \in SUBSET Damaged :
            dwMTMemoryUsed = Charge(l) % MemModulus /\ Charge(l) <= Limit
      BY <3>1 DEF BudgetInv
    <3>3. Charge(l) \in Nat /\ Charge(l) < MemModulus
      BY <2>1, <3>1, <3>2, ChargeIs, LimitsAssumption
    <3>4. dwMTMemoryUsed = Charge(l)
      BY <3>2, <3>3, RemainderSmall, LimitsAssumption
    <3>. QED
      BY <2>1, <3>2, <3>3, <3>4, LimitsAssumption
  <2>3. CASE phase # "threads"
    BY <2>1, <2>3, LimitsAssumption DEF Accounts, ResetInv
  <2>. QED
    BY <2>2, <2>3
<1>4. SizesFit => []SizesFit
  OBVIOUS
<1>. QED
  BY <1>1, <1>2, <1>3, <1>4, PTL DEF Spec
=============================================================================
