----------------------- MODULE ThreadRunnerRefinement -----------------------
(***************************************************************************)
(* The pipeline of ThreadRunner keeps the promise of ArchiveAppend, for    *)
(* any number of compressors, any entries, sizes and limits, and any       *)
(* failures: no entry is stored or published twice, none is left out       *)
(* unless the job was stopped, and data once in the file stays.            *)
(*                                                                         *)
(* The argument follows an entry on its way: it is in the hands of one     *)
(* compressor, then in the queue, then in the index, and nowhere twice.    *)
(***************************************************************************)
EXTENDS ThreadRunnerProofs

(***************************************************************************)
(* The inductive invariant.                                                *)
(***************************************************************************)
\* The records that are of an entry: those written, and the one that is to be.
Settled == IF pc[Writer] = "write" THEN nWrite + 1 ELSE nWrite

\* An entry that was fetched.
Fetched(f) == f \in Valid /\ f < next

\* What compressors hold, what is queued and what is recorded was fetched.
Custody ==
  /\ \A c \in Compressors : pckFileIndex[c].f # 0 => Fetched(pckFileIndex[c].f)
  /\ \A i \in DOMAIN m_QueueContent : Fetched(m_QueueContent[i].f)
  /\ \A i \in 1..Settled :
       /\ Fetched(m_Index_Compress[i].f)
       /\ m_Index_Compress[i].len = CipherSize(m_Index_Compress[i].f)

\* And no entry is in two of these places.
OneHand ==
  \A c, d \in Compressors :
    pckFileIndex[c].f = pckFileIndex[d].f /\ pckFileIndex[c].f # 0 => c = d
OneTurn ==
  \A i, j \in DOMAIN m_QueueContent : m_QueueContent[i].f = m_QueueContent[j].f => i = j
OneRecord ==
  \A i, j \in 1..Settled : m_Index_Compress[i].f = m_Index_Compress[j].f => i = j
HandOrQueue ==
  \A c \in Compressors : \A i \in DOMAIN m_QueueContent :
    pckFileIndex[c].f # m_QueueContent[i].f
HandOrRecord ==
  \A c \in Compressors : \A i \in 1..Settled : pckFileIndex[c].f # m_Index_Compress[i].f
QueueOrRecord ==
  \A i \in DOMAIN m_QueueContent : \A j \in 1..Settled :
    m_QueueContent[i].f # m_Index_Compress[j].f
Apart ==
  OneHand /\ OneTurn /\ OneRecord /\ HandOrQueue /\ HandOrRecord /\ QueueOrRecord

\* The writer gives up, and settles for fewer entries, only after a stop, and the flag of
\* that stays until the job is over.
StopInv ==
  phase # "done" =>
    (pc[Writer] \in {"fail", "clear"} \/ WriterFailed => bForcedStopWorking)

\* All data ends before the place where the writer goes on.
DiskInv == \A r \in disk : r.at + r.len <= dwAddressDataAreaEndAt

Promise == Custody /\ Apart /\ StopInv /\ DiskInv

-----------------------------------------------------------------------------
(***************************************************************************)
(* The few ways in which a step moves an entry.                            *)
(***************************************************************************)
HandsKept == \A c \in Compressors : pckFileIndex'[c].f = pckFileIndex[c].f
HandsKeptBut(c) ==
  \A d \in Compressors \ {c} : pckFileIndex'[d].f = pckFileIndex[d].f
RecordsKeptStep == UNCHANGED <<m_Index_Compress, nWrite, disk, dwAddressDataAreaEndAt>>

\* Nothing moves; fewer records may count as settled.
NothingMoves ==
  /\ next' \in {next, next + 1}
  /\ HandsKept
  /\ m_QueueContent' = m_QueueContent
  /\ RecordsKeptStep
  /\ pc'[Writer] = "write" => pc[Writer] = "write"

\* A compressor takes the next entry.
Takes(c) ==
  /\ next \in Valid /\ next' = next + 1
  /\ pckFileIndex'[c].f = next
  /\ HandsKeptBut(c)
  /\ m_QueueContent' = m_QueueContent
  /\ RecordsKeptStep
  /\ pc'[Writer] = "write" <=> pc[Writer] = "write"

\* A compressor puts its entry in the queue.
Queues(c) ==
  /\ next' = next
  /\ pckFileIndex[c].f \in Entries
  /\ pckFileIndex'[c].f = 0
  /\ HandsKeptBut(c)
  /\ m_QueueContent' = Append(m_QueueContent, pckFileIndex[c])
  /\ RecordsKeptStep
  /\ pc'[Writer] = "write" <=> pc[Writer] = "write"

\* The writer records the front of the queue.
RecordOf(e) == [f |-> e.f, at |-> mt_dwAddressQueue, len |-> CipherSize(e.f)]
RecordsFront ==
  /\ next' = next
  /\ HandsKept
  /\ m_QueueContent # <<>>
  /\ m_QueueContent' = Tail(m_QueueContent)
  /\ Len(m_Index_Compress) = nWrite
  /\ m_Index_Compress' = Append(m_Index_Compress, RecordOf(Head(m_QueueContent)))
  /\ UNCHANGED <<nWrite, disk, dwAddressDataAreaEndAt>>
  /\ pc[Writer] = "get" /\ pc'[Writer] = "write"

\* The data of the last record is written.
Writes ==
  LET record == m_Index_Compress[nWrite + 1]
  IN /\ next' = next
     /\ HandsKept
     /\ m_QueueContent' = m_QueueContent
     /\ Len(m_Index_Compress) = nWrite + 1
     /\ m_Index_Compress' = m_Index_Compress
     /\ nWrite' = nWrite + 1
     /\ record.at = dwAddressDataAreaEndAt
     /\ dwAddressDataAreaEndAt' = dwAddressDataAreaEndAt + record.len
     /\ disk' = IF record.len = 0 THEN disk ELSE disk \cup {record}
     /\ pc[Writer] = "write" /\ pc'[Writer] # "write"
     /\ UNCHANGED <<bForcedStopWorking, phase, published>>

\* A blank record comes, or goes with the queue.
Gives ==
  /\ next' = next
  /\ HandsKept
  /\ m_QueueContent' \in {m_QueueContent, <<>>}
  /\ Len(m_Index_Compress') >= nWrite
  /\ m_Index_Compress' \in Seq(Records)
  /\ \A i \in 1..nWrite : m_Index_Compress'[i] = m_Index_Compress[i]
  /\ UNCHANGED <<nWrite, disk, dwAddressDataAreaEndAt>>
  /\ pc[Writer] # "write" /\ pc'[Writer] # "write"

Moves ==
  \/ NothingMoves
  \/ \E c \in Compressors : Takes(c) \/ Queues(c)
  \/ RecordsFront \/ Writes \/ Gives

LEMMA CompressorMovesEntry ==
  ASSUME IInv, NEW c \in Compressors, Compressor(c)
  PROVE  NothingMoves \/ Takes(c) \/ Queues(c)
<1>1. c \in Threads /\ c # Writer /\ Writer \in Threads /\ Compressors \subseteq Threads
  BY ThreadsAssumption DEF Threads
<1>2. pckFileIndex \in [Threads -> Items] /\ pc \in [Threads -> CompressorPlaces \cup WriterPlaces]
  BY DEF IInv, TypeOK, ThreadTypes
<1>3. RecordsKeptStep
  BY CompressorStep DEF RecordsKeptStep, QuietStep, writerVars
<1>4. pc'[Writer] = "write" <=> pc[Writer] = "write"
  BY CompressorStep DEF QuietStep, Between
<1>5. CASE FetchEntry(c)
  <2>1. next \in Valid /\ next' = next + 1 /\ m_QueueContent' = m_QueueContent
    BY <1>5 DEF FetchEntry
  <2>2. pckFileIndex'[c].f = next /\ HandsKeptBut(c)
    BY <1>1, <1>2, <1>5 DEF FetchEntry, HandsKeptBut
  <2>. QED
    BY <1>3, <1>4, <2>1, <2>2 DEF Takes
<1>6. CASE Push(c)
  <2>1. pckFileIndex[c].f \in Entries
    BY <1>1, <1>6 DEF Push, IInv, InHand, Working, CompressorPlaces
  <2>2. pckFileIndex'[c].f = 0 /\ HandsKeptBut(c)
    BY <1>1, <1>2, <1>6 DEF Push, HandsKeptBut, NoItem
  <2>3. next' = next /\ m_QueueContent' = Append(m_QueueContent, pckFileIndex[c])
    BY <1>6 DEF Push, fetchVars
  <2>. QED
    BY <1>3, <1>4, <2>1, <2>2, <2>3 DEF Queues
<1>7. CASE Shrink(c)
  <2>1. next' = next /\ m_QueueContent' = m_QueueContent
    BY <1>7 DEF Shrink, fetchVars
  <2>2. HandsKept
    BY <1>1, <1>2, <1>7 DEF Shrink, HandsKept, Items
  <2>. QED
    BY <1>3, <1>4, <2>1, <2>2 DEF NothingMoves
<1>8. CASE ~FetchEntry(c) /\ ~Push(c) /\ ~Shrink(c)
  <2>1. /\ next' \in {next, next + 1} /\ m_QueueContent' = m_QueueContent
        /\ pckFileIndex' = pckFileIndex
    BY <1>8
       DEF Compressor, FetchEnd, FetchSkipInvalid, OpenFile, DetectCancelled, DetectFull,
       DetectEnough, MemoryWaitTimeout, Allocate, MallocFails, MallocRetry, ViewSource,
       ThreadExit, fetchVars, threadVars
  <2>. QED
    BY <1>3, <1>4, <2>1 DEF NothingMoves, HandsKept
<1>. QED
  BY <1>5, <1>6, <1>7, <1>8

LEMMA WriterMovesEntry ==
  ASSUME IInv, WriteThread \/ GetWakesSpuriously
  PROVE  Moves
<1>1. Writer \in Threads /\ Writer \notin Compressors /\ Compressors \subseteq Threads
  BY ThreadsAssumption DEF Threads
<1>2. pckFileIndex \in [Threads -> Items] /\ pc \in [Threads -> CompressorPlaces \cup WriterPlaces]
  BY DEF IInv, TypeOK, ThreadTypes
<1>3. nWrite \in Nat /\ m_Index_Compress \in Seq(Records)
  BY DEF IInv, TypeOK, WriterTypes
<1>4. HandsKept
  <2>1. \/ pckFileIndex' = pckFileIndex
        \/ \E item : pckFileIndex' = [pckFileIndex EXCEPT ![Writer] = item]
    BY DEF WriteThread, GetEntry, GetFindsEmpty, GetWaits, GetCancelled, WriteEntry,
       WriteFails, WriterEnd, WriterFails1, WriterFails2, GetWakesSpuriously, threadVars
  <2>. QED
    BY <1>1, <1>2, <2>1 DEF HandsKept
<1>5. next' = next
  BY DEF WriteThread, GetEntry, GetFindsEmpty, GetWaits, GetCancelled, WriteEntry,
     WriteFails, WriterEnd, WriterFails1, WriterFails2, GetWakesSpuriously, fetchVars
<1>6. CASE GetFindsEmpty \/ GetWaits \/ GetWakesSpuriously \/ WriteFails \/ WriterEnd
             \/ WriterFails1
  <2>1. m_QueueContent' = m_QueueContent /\ RecordsKeptStep
    BY <1>6 DEF GetFindsEmpty, GetWaits, GetWakesSpuriously, WriteFails, WriterEnd,
       WriterFails1, RecordsKeptStep, writerVars, HandleFailure
  <2>2. pc'[Writer] # "write"
    BY <1>1, <1>2, <1>6
       DEF GetFindsEmpty, GetWaits, GetWakesSpuriously, WriteFails, WriterEnd,
       WriterFails1, Goto, HandleFailure
  <2>. QED
    BY <1>4, <1>5, <2>1, <2>2 DEF Moves, NothingMoves
<1>7. CASE GetEntry
  <2>1. Len(m_Index_Compress) = nWrite
    BY <1>7 DEF GetEntry, Wants, IInv, WriterInv, CountInv, Holding
  <2>2. pc[Writer] = "get" /\ pc'[Writer] = "write"
    BY <1>1, <1>2, <1>7 DEF GetEntry, Wants, Goto
  <2>. QED
    BY <1>4, <1>5, <1>7, <2>1, <2>2 DEF Moves, RecordsFront, GetEntry, RecordOf, QueueAfterGet
<1>8. CASE WriteEntry
  <2>1. /\ Len(m_Index_Compress) = nWrite + 1
        /\ m_Index_Compress[nWrite + 1].at = dwAddressDataAreaEndAt
    BY <1>8 DEF WriteEntry, IInv, WriterInv, CountInv, Holding
  <2>2. pc[Writer] = "write" /\ pc'[Writer] # "write"
    BY <1>1, <1>2, <1>8 DEF WriteEntry, Goto
  <2>3. disk' = IF m_Index_Compress[nWrite + 1].len = 0 THEN disk
                ELSE disk \cup {m_Index_Compress[nWrite + 1]}
    BY <1>8, <2>1 DEF WriteEntry
  <2>. QED
    BY <1>4, <1>5, <1>8, <2>1, <2>2, <2>3 DEF Moves, Writes, WriteEntry, flagVars, mainVars
<1>9. CASE GetCancelled
  <2>1. Len(m_Index_Compress) = nWrite /\ pc[Writer] # "write"
    BY <1>9 DEF GetCancelled, Wants, IInv, WriterInv, CountInv, Holding
  <2>2. pc'[Writer] # "write"
    BY <1>1, <1>2, <1>9 DEF GetCancelled, Goto
  <2>3. NoRecord \in Records
    BY SourceAssumption DEF NoRecord, Records
  <2>4. /\ Len(m_Index_Compress') = nWrite + 1 /\ m_Index_Compress' \in Seq(Records)
        /\ \A i \in 1..nWrite : m_Index_Compress'[i] = m_Index_Compress[i]
    BY <1>3, <1>9, <2>1, <2>3 DEF GetCancelled
  <2>. QED
    BY <1>3, <1>4, <1>5, <1>9, <2>1, <2>2, <2>4 DEF Moves, Gives, GetCancelled
<1>10. CASE WriterFails2
  <2>1. Len(m_Index_Compress) = nWrite + 1 /\ pc[Writer] # "write"
    BY <1>10 DEF WriterFails2, IInv, WriterInv, CountInv, Holding
  <2>2. pc'[Writer] # "write"
    BY <1>1, <1>10 DEF WriterFails2, WakeMemoryWaiters
  <2>3. m_Index_Compress' = SubSeq(m_Index_Compress, 1, nWrite)
    BY <1>3, <1>10, <2>1 DEF WriterFails2
  <2>4. /\ Len(m_Index_Compress') = nWrite /\ m_Index_Compress' \in Seq(Records)
        /\ \A i \in 1..nWrite : m_Index_Compress'[i] = m_Index_Compress[i]
    BY <1>3, <2>1, <2>3
  <2>. QED
    BY <1>3, <1>4, <1>5, <1>10, <2>1, <2>2, <2>4 DEF Moves, Gives, WriterFails2
<1>. QED
  BY <1>6, <1>7, <1>8, <1>9, <1>10 DEF WriteThread

LEMMA EveryStepMoves ==
  ASSUME IInv, [Next]_vars
  PROVE  Moves
<1>1. CASE \E c \in Compressors : Compressor(c)
  BY <1>1, CompressorMovesEntry DEF Moves
<1>2. CASE \E t \in Threads : Freeing(t)
  <2>1. PICK t \in Threads : Freeing(t)
    BY <1>2
  <2>2. QuietStep(t)
    BY <2>1, FreeingStep
  <2>3. next' = next /\ m_QueueContent' = m_QueueContent /\ pckFileIndex' = pckFileIndex
    BY <2>1 DEF Freeing, FreeBuffer, TestBlocked, ClearBlocked, NotifyMemory, fetchVars, threadVars
  <2>4. RecordsKeptStep /\ (pc'[Writer] = "write" => pc[Writer] = "write")
    BY <2>2 DEF QuietStep, RecordsKeptStep, writerVars, Between
  <2>. QED
    BY <2>3, <2>4 DEF Moves, NothingMoves, HandsKept
<1>3. CASE WriteThread \/ GetWakesSpuriously
  BY <1>3, WriterMovesEntry
<1>4. CASE Main \/ ForceBreakThreadWorking \/ Terminated \/ UNCHANGED vars
  <2>1. UNCHANGED <<fetchVars, pc, threadVars, m_QueueContent, writerVars>>
    BY <1>4 DEF Main, JoinThreads, WriteIndex, ClearThreadFlag, ForceBreakThreadWorking,
       Terminated, vars
  <2>. QED
    BY <2>1 DEF Moves, NothingMoves, HandsKept, RecordsKeptStep, fetchVars, threadVars,
       writerVars
<1>. QED
  BY <1>1, <1>2, <1>3, <1>4 DEF Next

-----------------------------------------------------------------------------
(***************************************************************************)
(* Every way keeps the invariant.                                          *)
(***************************************************************************)
\* What the steps below take from the types.
LEMMA CustodyTypes ==
  ASSUME IInv
  PROVE  /\ next \in Nat /\ nWrite \in Nat /\ dwAddressDataAreaEndAt \in Nat
         /\ m_QueueContent \in Seq([f : Entries, malloc : Nat])
         /\ m_Index_Compress \in Seq(Records)
         /\ disk \subseteq Records
         /\ Settled \in Nat
BY DEF IInv, TypeOK, ThreadTypes, WriterTypes, Settled

\* Source entries are numbered from 1.
LEMMA NoEntryZero == \A f \in Valid : f \in Nat /\ f # 0
BY NumberOfEntries, SourceAssumption DEF Entries

LEMMA NothingMovesKeeps ==
  ASSUME IInv, Custody, Apart, NothingMoves
  PROVE  Custody' /\ Apart'
<1>1. Settled' \in Nat /\ Settled' <= Settled
  BY CustodyTypes DEF NothingMoves, Settled, RecordsKeptStep
<1>2. 1..(Settled') \subseteq 1..Settled
  BY <1>1, CustodyTypes
<1>3. \A f : Fetched(f) => Fetched(f)'
  BY CustodyTypes, NoEntryZero DEF Fetched, NothingMoves
<1>4. Custody'
  BY <1>2, <1>3 DEF Custody, NothingMoves, HandsKept, RecordsKeptStep
<1>5. Apart'
  BY <1>2 DEF Apart, OneHand, OneTurn, OneRecord, HandOrQueue, HandOrRecord,
     QueueOrRecord, NothingMoves, HandsKept, RecordsKeptStep
<1>. QED
  BY <1>4, <1>5

LEMMA TakesKeeps ==
  ASSUME IInv, Custody, Apart, NEW c \in Compressors, Takes(c)
  PROVE  Custody' /\ Apart'
<1>1. Settled' = Settled
  BY DEF Takes, Settled, RecordsKeptStep
<1>2. next \in Nat /\ next # 0
  BY NoEntryZero DEF Takes
<1>3. \A f \in Valid : f < next => f < next' /\ f # next
  BY <1>2, NoEntryZero DEF Takes
<1>4. next \in Valid /\ next < next'
  BY <1>2 DEF Takes
<1>5. Custody'
  <2>1. (\A d \in Compressors : pckFileIndex[d].f # 0 => Fetched(pckFileIndex[d].f))'
    BY <1>3, <1>4 DEF Custody, Fetched, Takes, HandsKeptBut
  <2>2. (\A i \in DOMAIN m_QueueContent : Fetched(m_QueueContent[i].f))'
    BY <1>3 DEF Custody, Fetched, Takes
  <2>3. (\A i \in 1..Settled : /\ Fetched(m_Index_Compress[i].f)
                               /\ m_Index_Compress[i].len = CipherSize(m_Index_Compress[i].f))'
    BY <1>1, <1>3 DEF Custody, Fetched, Takes, RecordsKeptStep
  <2>. QED
    BY <2>1, <2>2, <2>3 DEF Custody
<1>6. OneTurn' /\ OneRecord' /\ QueueOrRecord'
  BY <1>1 DEF Apart, OneTurn, OneRecord, QueueOrRecord, Takes, RecordsKeptStep
<1>7. OneHand' /\ HandOrQueue' /\ HandOrRecord'
  <2>1. \A d \in Compressors \ {c} : pckFileIndex'[d].f = pckFileIndex[d].f
    BY DEF Takes, HandsKeptBut
  <2>2. /\ \A d \in Compressors : pckFileIndex[d].f # next
        /\ \A i \in DOMAIN m_QueueContent : m_QueueContent[i].f # next
        /\ \A i \in 1..Settled : m_Index_Compress[i].f # next
    BY <1>2, <1>3 DEF Custody, Fetched
  <2>3. OneHand'
    BY <2>1, <2>2 DEF Apart, OneHand, Takes
  <2>4. HandOrQueue'
    BY <2>1, <2>2 DEF Apart, HandOrQueue, Takes
  <2>5. HandOrRecord'
    BY <1>1, <2>1, <2>2 DEF Apart, HandOrRecord, Takes, RecordsKeptStep
  <2>. QED
    BY <2>3, <2>4, <2>5
<1>. QED
  BY <1>5, <1>6, <1>7 DEF Apart

LEMMA QueuesKeeps ==
  ASSUME IInv, Custody, Apart, NEW c \in Compressors, Queues(c)
  PROVE  Custody' /\ Apart'
<1> DEFINE n == Len(m_QueueContent)
           f == pckFileIndex[c].f
<1>1. Settled' = Settled
  BY DEF Queues, Settled, RecordsKeptStep
<1>2. /\ n \in Nat /\ DOMAIN m_QueueContent = 1..n /\ DOMAIN m_QueueContent' = 1..(n + 1)
      /\ \A i \in 1..n : m_QueueContent'[i] = m_QueueContent[i]
      /\ m_QueueContent'[n + 1].f = f
  BY CustodyTypes DEF Queues
<1>3. next' = next
  BY DEF Queues
<1>4. f # 0 /\ Fetched(f)
  BY SourceAssumption DEF Queues, Custody, Entries
<1>5. \A d \in Compressors \ {c} : pckFileIndex'[d].f = pckFileIndex[d].f
  BY DEF Queues, HandsKeptBut
<1>6. pckFileIndex'[c].f = 0 /\ m_Index_Compress' = m_Index_Compress
  BY DEF Queues, RecordsKeptStep
<1>7. \A i \in DOMAIN m_QueueContent : m_QueueContent[i].f # 0
  BY NoEntryZero DEF Custody, Fetched
<1>8. \A i \in 1..Settled : m_Index_Compress[i].f # 0
  BY NoEntryZero DEF Custody, Fetched
<1>9. \A d \in Compressors : d # c => pckFileIndex[d].f # f
  BY <1>4 DEF Apart, OneHand
<1>. HIDE DEF n, f
<1>10. \A i \in DOMAIN m_QueueContent' :
         \/ i \in 1..n /\ m_QueueContent'[i] = m_QueueContent[i]
         \/ i = n + 1 /\ m_QueueContent'[i].f = f
  <2>1. n \in Nat /\ DOMAIN m_QueueContent' = 1..(n + 1)
    BY <1>2
  <2>2. \A i \in 1..(n + 1) : i \in 1..n \/ i = n + 1
    BY <2>1
  <2>. QED
    BY <1>2, <2>1, <2>2
<1>11. Custody'
  <2>1. (\A d \in Compressors : pckFileIndex[d].f # 0 => Fetched(pckFileIndex[d].f))'
    BY <1>3, <1>5, <1>6 DEF Custody, Fetched
  <2>2. (\A i \in DOMAIN m_QueueContent : Fetched(m_QueueContent[i].f))'
    BY <1>2, <1>3, <1>4, <1>10 DEF Custody, Fetched
  <2>3. (\A i \in 1..Settled : /\ Fetched(m_Index_Compress[i].f)
                               /\ m_Index_Compress[i].len = CipherSize(m_Index_Compress[i].f))'
    BY <1>1, <1>3, <1>6 DEF Custody, Fetched
  <2>. QED
    BY <2>1, <2>2, <2>3 DEF Custody
<1>12. OneHand' /\ HandOrRecord' /\ OneRecord'
  BY <1>1, <1>5, <1>6, <1>8 DEF Apart, OneHand, HandOrRecord, OneRecord
<1>13. OneTurn' /\ HandOrQueue' /\ QueueOrRecord'
  <2>1. \A i \in 1..n : m_QueueContent[i].f # f
    BY <1>2 DEF Apart, HandOrQueue, f
  <2>2. OneTurn'
    BY <1>2, <1>10, <2>1 DEF Apart, OneTurn
  <2>3. HandOrQueue'
    BY <1>2, <1>4, <1>5, <1>6, <1>7, <1>9, <1>10 DEF Apart, HandOrQueue
  <2>4. \A i \in 1..Settled : m_Index_Compress[i].f # f
    BY DEF Apart, HandOrRecord, f
  <2>5. QueueOrRecord'
    BY <1>1, <1>2, <1>6, <1>10, <2>4 DEF Apart, QueueOrRecord
  <2>. QED
    BY <2>2, <2>3, <2>5
<1>. QED
  BY <1>11, <1>12, <1>13 DEF Apart

LEMMA RecordsFrontKeeps ==
  ASSUME IInv, Custody, Apart, RecordsFront
  PROVE  Custody' /\ Apart'
<1> DEFINE n == nWrite + 1
           q == m_QueueContent
           f == Head(m_QueueContent).f
<1>1. Settled = nWrite /\ Settled' = n /\ nWrite \in Nat
  BY CustodyTypes DEF RecordsFront, Settled
<1>2. /\ Len(q) \in Nat /\ Len(q) # 0 /\ DOMAIN q = 1..Len(q) /\ f = q[1].f
      /\ DOMAIN m_QueueContent' = 1..(Len(q) - 1)
      /\ \A i \in 1..(Len(q) - 1) : m_QueueContent'[i] = q[i + 1]
  BY CustodyTypes DEF RecordsFront
<1>3. /\ \A i \in 1..nWrite : m_Index_Compress'[i] = m_Index_Compress[i]
      /\ m_Index_Compress'[n].f = f /\ m_Index_Compress'[n].len = CipherSize(f)
  <2>1. Head(q) \in [f : Entries, malloc : Nat] /\ mt_dwAddressQueue \in Nat
    BY CustodyTypes, HeadTailProperties DEF RecordsFront, IInv, TypeOK, WriterTypes
  <2>2. RecordOf(Head(q)) \in Records
    BY <2>1, QueuedEntries DEF RecordOf
  <2>3. m_Index_Compress' = Append(m_Index_Compress, RecordOf(Head(q)))
        /\ Len(m_Index_Compress) = nWrite
    BY DEF RecordsFront
  <2>4. /\ \A i \in 1..nWrite : m_Index_Compress'[i] = m_Index_Compress[i]
        /\ m_Index_Compress'[n] = RecordOf(Head(q))
    BY <1>1, <2>2, <2>3, CustodyTypes
  <2>. QED
    BY <2>4 DEF RecordOf
<1>4. next' = next /\ \A c \in Compressors : pckFileIndex'[c].f = pckFileIndex[c].f
  BY DEF RecordsFront, HandsKept
<1>5. /\ 1 \in DOMAIN q
      /\ \A i \in DOMAIN m_QueueContent' :
           i + 1 \in DOMAIN q /\ i + 1 # 1 /\ m_QueueContent'[i] = q[i + 1]
  BY <1>2
<1>6. \A i \in 1..n : i \in 1..nWrite \/ i = n
  BY <1>1
<1>7. Fetched(f)
  BY <1>2, <1>5 DEF Custody
<1>8. \A i, j \in DOMAIN m_QueueContent' : i + 1 = j + 1 => i = j
  BY <1>2
<1>. HIDE DEF n, q, f
<1>9. Custody'
  <2>1. (\A c \in Compressors : pckFileIndex[c].f # 0 => Fetched(pckFileIndex[c].f))'
    BY <1>4 DEF Custody, Fetched
  <2>2. (\A i \in DOMAIN m_QueueContent : Fetched(m_QueueContent[i].f))'
    BY <1>4, <1>5 DEF Custody, Fetched, q
  <2>3. (\A i \in 1..Settled : /\ Fetched(m_Index_Compress[i].f)
                               /\ m_Index_Compress[i].len = CipherSize(m_Index_Compress[i].f))'
    BY <1>1, <1>3, <1>4, <1>6, <1>7 DEF Custody, Fetched
  <2>. QED
    BY <2>1, <2>2, <2>3 DEF Custody
<1>10. OneHand'
  BY <1>4 DEF Apart, OneHand
<1>11. OneTurn'
  BY <1>5, <1>8 DEF Apart, OneTurn, q
<1>12. HandOrQueue'
  BY <1>4, <1>5 DEF Apart, HandOrQueue, q
<1>13. OneRecord'
  <2>1. \A i \in 1..nWrite : m_Index_Compress[i].f # f
    BY <1>1, <1>2, <1>5 DEF Apart, QueueOrRecord, q
  <2>. QED
    BY <1>1, <1>3, <1>6, <2>1 DEF Apart, OneRecord
<1>14. HandOrRecord'
  <2>1. \A c \in Compressors : pckFileIndex[c].f # f
    BY <1>2, <1>5 DEF Apart, HandOrQueue, q
  <2>. QED
    BY <1>1, <1>3, <1>4, <1>6, <2>1 DEF Apart, HandOrRecord
<1>15. QueueOrRecord'
  <2>1. \A i \in DOMAIN m_QueueContent' : m_QueueContent'[i].f # f
    BY <1>2, <1>5 DEF Apart, OneTurn, q
  <2>. QED
    BY <1>1, <1>3, <1>5, <1>6, <2>1 DEF Apart, QueueOrRecord, q
<1>. QED
  BY <1>9, <1>10, <1>11, <1>12, <1>13, <1>14, <1>15 DEF Apart

LEMMA WritesOrGivesKeeps ==
  ASSUME IInv, Custody, Apart, Writes \/ Gives
  PROVE  Custody' /\ Apart'
<1>1. /\ next' = next /\ \A c \in Compressors : pckFileIndex'[c].f = pckFileIndex[c].f
      /\ m_QueueContent' \in {m_QueueContent, <<>>}
      /\ Settled' = Settled
      /\ \A i \in 1..Settled : m_Index_Compress'[i] = m_Index_Compress[i]
  BY CustodyTypes DEF Writes, Gives, HandsKept, Settled
<1>2. /\ DOMAIN m_QueueContent' \subseteq DOMAIN m_QueueContent
      /\ \A i \in DOMAIN m_QueueContent' : m_QueueContent'[i] = m_QueueContent[i]
  BY <1>1
<1>3. Custody'
  BY <1>1, <1>2 DEF Custody, Fetched
<1>4. OneHand' /\ OneTurn' /\ OneRecord'
  BY <1>1, <1>2 DEF Apart, OneHand, OneTurn, OneRecord
<1>5. HandOrQueue' /\ HandOrRecord' /\ QueueOrRecord'
  BY <1>1, <1>2 DEF Apart, HandOrQueue, HandOrRecord, QueueOrRecord
<1>. QED
  BY <1>3, <1>4, <1>5 DEF Apart

LEMMA DiskInvKept ==
  ASSUME IInv, DiskInv, Moves
  PROVE  DiskInv'
<1>1. CASE Writes
  <2>1. m_Index_Compress[nWrite + 1] \in Records
    BY <1>1, CustodyTypes DEF Writes
  <2>2. \A r \in disk' : r \in disk \/ r = m_Index_Compress[nWrite + 1]
    BY <1>1 DEF Writes
  <2>3. disk \subseteq Records
    BY CustodyTypes
  <2>4. \A r \in disk : r.at \in Nat /\ r.len \in Nat
    BY <2>3 DEF Records
  <2>5. /\ m_Index_Compress[nWrite + 1].len \in Nat /\ dwAddressDataAreaEndAt \in Nat
        /\ m_Index_Compress[nWrite + 1].at = dwAddressDataAreaEndAt
        /\ dwAddressDataAreaEndAt' = dwAddressDataAreaEndAt + m_Index_Compress[nWrite + 1].len
    BY <1>1, <2>1, CustodyTypes DEF Writes, Records
  <2>. QED
    BY <2>2, <2>4, <2>5 DEF DiskInv
<1>2. CASE UNCHANGED <<disk, dwAddressDataAreaEndAt>>
  BY <1>2 DEF DiskInv
<1>. QED
  BY <1>1, <1>2
     DEF Moves, NothingMoves, Takes, Queues, RecordsFront, Gives, RecordsKeptStep

-----------------------------------------------------------------------------
(***************************************************************************)
(* The stop flag.                                                          *)
(***************************************************************************)
\* The flag is cleared by the last step of start() only, and set by a step that does
\* nothing for the archive.
FlagStays == bForcedStopWorking => bForcedStopWorking'

LEMMA FlagIsKept ==
  ASSUME IInv, [Next]_vars, ~ClearThreadFlag
  PROVE  FlagStays
<1>1. (PCK_ERR_OPENMAPVIEWR # PCK_OK) /\ (PCK_MSG_USERCANCELED # PCK_OK)
      /\ (PCK_ERR_VIEW # PCK_OK)
  BY DEF PCK_ERR_OPENMAPVIEWR, PCK_MSG_USERCANCELED, PCK_ERR_VIEW, PCK_OK
<1>2. \/ bForcedStopWorking' = bForcedStopWorking
      \/ bForcedStopWorking' = TRUE
      \/ \E e \in {PCK_ERR_OPENMAPVIEWR, PCK_MSG_USERCANCELED, PCK_ERR_VIEW} : SetErrMsgFlag(e)
  BY DEF Next, Compressor, FetchEnd, FetchSkipInvalid, FetchEntry, OpenFile, DetectCancelled,
     DetectFull, DetectEnough, MemoryWaitTimeout, Allocate, MallocFails, MallocRetry,
     ViewSource, Shrink, Push, ThreadExit, ForcedStop, NotForcedStop, flagVars, Freeing,
     FreeBuffer, TestBlocked, ClearBlocked, NotifyMemory, WriteThread, GetEntry, GetFindsEmpty, GetWaits,
     GetCancelled, WriteEntry, WriteFails, HandleFailure, WriterEnd, WriterFails1,
     WriterFails2, GetWakesSpuriously, Main, JoinThreads, WriteIndex,
     ForceBreakThreadWorking, Terminated, vars
<1>. QED
  BY <1>1, <1>2, Zenon DEF FlagStays, SetErrMsgFlag

LEMMA StopInvKept ==
  ASSUME IInv, StopInv, [Next]_vars
  PROVE  StopInv'
<1>1. Writer \in Threads /\ pc \in [Threads -> CompressorPlaces \cup WriterPlaces]
  BY DEF IInv, TypeOK, ThreadTypes, Threads
<1>2. CASE ClearThreadFlag
  BY <1>2 DEF ClearThreadFlag, StopInv
<1>3. CASE GetCancelled \/ WriteFails
  <2>1. bForcedStopWorking'
    BY <1>3, Zenon DEF GetCancelled, WriteFails, ForcedStop, HandleFailure, SetErrMsgFlag, PCK_OK,
       PCK_MSG_USERCANCELED, PCK_ERR_VIEW
  <2>. QED
    BY <2>1 DEF StopInv
<1>4. CASE WriterFails1
  <2>1. bForcedStopWorking /\ bForcedStopWorking' = bForcedStopWorking
    BY <1>4 DEF WriterFails1, StopInv, IInv, MainInv, flagVars
  <2>. QED
    BY <2>1 DEF StopInv
<1>5. CASE ~ClearThreadFlag /\ ~GetCancelled /\ ~WriteFails /\ ~WriterFails1
  <2>1. phase' # "done" => phase # "done"
    BY <1>5
       DEF Next, Compressor, FetchEnd, FetchSkipInvalid, FetchEntry, OpenFile,
       DetectCancelled, DetectFull, DetectEnough, MemoryWaitTimeout, Allocate, MallocFails,
       MallocRetry, ViewSource, Shrink, Push, ThreadExit, Freeing, FreeBuffer, TestBlocked,
       ClearBlocked, NotifyMemory, WriteThread, GetEntry, GetFindsEmpty, GetWaits, WriteEntry, WriterEnd,
       WriterFails2, GetWakesSpuriously, Main, JoinThreads, WriteIndex,
       ForceBreakThreadWorking, Terminated, mainVars, vars
  <2>2. /\ dwFileCountOfWriteTarget' = dwFileCountOfWriteTarget
        /\ pc'[Writer] \in {"fail", "clear"} => pc[Writer] \in {"fail", "clear"}
    <3>1. ASSUME NEW t \in Threads, QuietStep(t)
          PROVE  /\ dwFileCountOfWriteTarget' = dwFileCountOfWriteTarget
                 /\ pc'[Writer] \in {"fail", "clear"} => pc[Writer] \in {"fail", "clear"}
      BY <3>1 DEF QuietStep, writerVars, Between
    <3>2. CASE (\E c \in Compressors : Compressor(c)) \/ (\E t \in Threads : Freeing(t))
      BY <3>1, <3>2, CompressorStep, FreeingStep DEF Threads
    <3>3. CASE WriteThread \/ GetWakesSpuriously
      BY <1>1, <1>5, <3>3
         DEF WriteThread, GetEntry, GetFindsEmpty, GetWaits, WriteEntry, WriterEnd, WriterFails2,
         GetWakesSpuriously, Goto, WakeMemoryWaiters, writerVars
    <3>4. CASE Main \/ ForceBreakThreadWorking \/ Terminated \/ UNCHANGED vars
      BY <3>4 DEF Main, JoinThreads, WriteIndex, ClearThreadFlag, ForceBreakThreadWorking,
         Terminated, writerVars, vars
    <3>. QED
      BY <3>2, <3>3, <3>4 DEF Next
  <2>3. FlagStays
    BY <1>5, FlagIsKept
  <2>. QED
    BY <2>1, <2>2, <2>3 DEF StopInv, FlagStays, WriterFailed
<1>. QED
  BY <1>2, <1>3, <1>4, <1>5

-----------------------------------------------------------------------------
LEMMA InitPromise == Init => Promise
<1> SUFFICES ASSUME Init PROVE Promise
  OBVIOUS
<1>1. Settled = 0
  BY DEF Init, Settled, Threads
<1>2. \A c \in Compressors : pckFileIndex[c].f = 0
  BY DEF Init, NoItem, Threads
<1>3. Custody /\ Apart
  BY <1>1, <1>2 DEF Init, Custody, Apart, OneHand, OneTurn, OneRecord, HandOrQueue,
     HandOrRecord, QueueOrRecord
<1>4. StopInv
  BY DEF Init, StopInv, WriterFailed, Threads
<1>5. DiskInv
  BY DEF Init, DiskInv
<1>. QED
  BY <1>3, <1>4, <1>5 DEF Promise

LEMMA NextPromise ==
  ASSUME IInv, Promise, [Next]_vars
  PROVE  Promise'
<1>1. Moves
  BY EveryStepMoves
<1>2. Custody' /\ Apart'
  BY <1>1, NothingMovesKeeps, TakesKeeps, QueuesKeeps, RecordsFrontKeeps, WritesOrGivesKeeps
     DEF Moves, Promise
<1>3. StopInv' /\ DiskInv'
  BY <1>1, StopInvKept, DiskInvKept DEF Promise
<1>. QED
  BY <1>2, <1>3 DEF Promise

\* The entries are kept apart and the flag is set when it must be, in every state.
THEOREM PromiseInvariant == Spec => [](IInv /\ Promise)
<1>1. Init => IInv /\ Promise
  BY InitIInv, InitPromise
<1>2. IInv /\ Promise /\ [Next]_vars => (IInv /\ Promise)'
  BY NextIInv, NextPromise
<1>. QED
  BY <1>1, <1>2, PTL DEF Spec

-----------------------------------------------------------------------------
(***************************************************************************)
(* What follows for the properties of ThreadRunner.                        *)
(***************************************************************************)
\* As many records as entries are records of all of them, since no two are of the same.
LEMMA CountedRecords ==
  ASSUME IInv, Promise, Settled = nWrite, nWrite = Cardinality(Valid)
  PROVE  \A f \in Valid : \E i \in 1..nWrite : m_Index_Compress[i].f = f
<1> DEFINE entryOf == [i \in 1..nWrite |-> m_Index_Compress[i].f]
<1>1. nWrite \in Nat
  BY CustodyTypes
<1>2. entryOf \in Injection(1..nWrite, Valid)
  BY DEF Promise, Custody, Fetched, Apart, OneRecord, Injection, IsInjective
<1>3. Cardinality(1..nWrite) = nWrite
  BY <1>1, FS_Interval
<1>4. IsFiniteSet(Valid)
  BY NumberOfEntries
<1>5. entryOf \in Surjection(1..nWrite, Valid)
  BY <1>2, <1>3, <1>4, FS_Injection, Zenon
<1>. QED
  BY <1>5 DEF Surjection

\* Every entry is recorded when the writer is through and no stop was forced.
LEMMA AllRecorded ==
  ASSUME IInv, Promise, pc[Writer] = "done", phase # "done", ~bForcedStopWorking
  PROVE  {m_Index_Compress[i].f : i \in 1..nWrite} = Valid
<1>1. Settled = nWrite /\ nWrite = Cardinality(Valid)
  BY DEF Settled, IInv, WriterInv, CountInv, Over, Promise, StopInv, WriterFailed
<1>2. \A i \in 1..nWrite : m_Index_Compress[i].f \in Valid
  BY <1>1 DEF Promise, Custody, Fetched
<1>. QED
  BY <1>1, <1>2, CountedRecords

\* Once the threads are joined, the records are those of the entries dealt with.
LEMMA RecordsAtEnd ==
  ASSUME IInv, phase # "threads"
  PROVE  /\ pc[Writer] = "done" /\ Settled = nWrite
         /\ Len(m_Index_Compress) = nWrite /\ DOMAIN m_Index_Compress = 1..nWrite
         /\ phase \in {"flag", "done"} => published = m_Index_Compress
<1>1. pc[Writer] = "done" /\ (phase \in {"flag", "done"} => published = m_Index_Compress)
  BY DEF IInv, MainInv
<1>2. Settled = nWrite /\ Len(m_Index_Compress) = nWrite
  BY <1>1 DEF Settled, IInv, WriterInv, CountInv, Holding
<1>. QED
  BY <1>1, <1>2, CustodyTypes

\* No source entry is published twice, though every compressor takes from the same
\* list, and every one of them and the writer from the same queue.
THEOREM NoneTwice == Spec => []PublishedOnce
<1>1. IInv /\ Promise => PublishedOnce
  BY RecordsAtEnd DEF PublishedOnce, Promise, Apart, OneRecord
<1>. QED
  BY <1>1, PromiseInvariant, PTL

\* When the flag is not set as start() ends, no entry is missing from the index: a
\* compressor that gives up makes the writer wait, never publish less.
THEOREM NoneMissing == Spec => []PublishedComplete
<1>1. IInv /\ Promise => PublishedComplete
  BY RecordsAtEnd, AllRecorded DEF PublishedComplete
<1>. QED
  BY <1>1, PromiseInvariant, PTL

\* No step takes data away or puts data before the end of what is there.
THEOREM DataOnlyAppended == Spec => DiskGrowsAtEnd
<1>1. ASSUME IInv, Promise, [Next]_vars, disk' # disk
      PROVE  /\ disk \subseteq disk'
             /\ \A new \in disk' \ disk, old \in disk : old.at + old.len <= new.at
  <2>1. Writes
    BY <1>1, EveryStepMoves
       DEF Moves, NothingMoves, Takes, Queues, RecordsFront, Gives, RecordsKeptStep
  <2>2. /\ disk' = disk \cup {m_Index_Compress[nWrite + 1]}
        /\ m_Index_Compress[nWrite + 1].at = dwAddressDataAreaEndAt
    BY <1>1, <2>1 DEF Writes
  <2>. QED
    BY <1>1, <2>2 DEF Promise, DiskInv
<1>2. IInv /\ Promise /\ [Next]_vars =>
        (disk' # disk =>
           /\ disk \subseteq disk'
           /\ \A new \in disk' \ disk, old \in disk : old.at + old.len <= new.at)
  BY <1>1
<1>. QED
  BY <1>2, PromiseInvariant, PTL DEF Spec, DiskGrowsAtEnd

-----------------------------------------------------------------------------
(***************************************************************************)
(* The refinement of ArchiveAppend: writing an entry's data stores it,     *)
(* writing the index publishes, and every other step is a stop, the end of *)
(* one, or nothing at all.                                                 *)
(***************************************************************************)
StoredRecords == SubSeq(m_Index_Compress, 1, nWrite)
Closed == phase \in {"flag", "done"}

\* What is stored, seen from the abstract archive.
LEMMA StoredView ==
  ASSUME IInv
  PROVE  /\ nWrite \in Nat /\ nWrite <= Len(m_Index_Compress)
         /\ StoredRecords \in Seq(Records) /\ Len(StoredRecords) = nWrite
         /\ DOMAIN StoredRecords = 1..nWrite
         /\ \A i \in 1..nWrite : StoredRecords[i] = m_Index_Compress[i]
         /\ Archive!StoredEntries = {m_Index_Compress[i].f : i \in 1..nWrite}
         /\ Archive!End = dwAddressDataAreaEndAt
<1>1. /\ nWrite \in Nat /\ nWrite <= Len(m_Index_Compress)
      /\ m_Index_Compress \in Seq(Records)
  BY CustodyTypes DEF IInv, WriterInv, CountInv
<1>2. /\ StoredRecords \in Seq(Records) /\ Len(StoredRecords) = nWrite /\ DOMAIN StoredRecords = 1..nWrite
      /\ \A i \in 1..nWrite : StoredRecords[i] = m_Index_Compress[i]
  BY <1>1 DEF StoredRecords
<1>3. Archive!StoredEntries = {m_Index_Compress[i].f : i \in 1..nWrite}
  BY <1>2 DEF Archive!StoredEntries, StoredRecords
<1>4. StoredRecords = <<>> <=> nWrite = 0
  BY <1>1, <1>2
<1>5. Archive!End = dwAddressDataAreaEndAt
  BY <1>1, <1>2, <1>4 DEF Archive!End, StoredRecords, IInv, WriterInv, RecordsInv, EndAt
<1>. QED
  BY <1>1, <1>2, <1>3, <1>5

\* Only Writes changes what is stored.
LEMMA StoredStays ==
  ASSUME IInv, Moves, ~Writes
  PROVE  StoredRecords' = StoredRecords
<1>1. nWrite' = nWrite
  BY DEF Moves, NothingMoves, Takes, Queues, RecordsFront, Gives, RecordsKeptStep
<1>2. nWrite \in Nat /\ m_Index_Compress \in Seq(Records) /\ nWrite <= Len(m_Index_Compress)
  BY StoredView, CustodyTypes
<1>3. CASE m_Index_Compress' = m_Index_Compress
  BY <1>1, <1>3 DEF StoredRecords
<1>4. CASE RecordsFront
  <2>1. m_QueueContent \in Seq([f : Entries, malloc : Nat]) /\ m_QueueContent # <<>>
    BY <1>4, CustodyTypes DEF RecordsFront
  <2>2. Head(m_QueueContent) \in [f : Entries, malloc : Nat] /\ mt_dwAddressQueue \in Nat
    BY <2>1, HeadTailProperties DEF IInv, TypeOK, WriterTypes
  <2>3. RecordOf(Head(m_QueueContent)) \in Records
    BY <2>2, QueuedEntries DEF RecordOf
  <2>4. /\ m_Index_Compress' = Append(m_Index_Compress, RecordOf(Head(m_QueueContent)))
        /\ Len(m_Index_Compress) = nWrite
    BY <1>4 DEF RecordsFront
  <2>. QED
    BY <1>1, <1>2, <2>3, <2>4 DEF StoredRecords
<1>5. CASE Gives
  BY <1>1, <1>2, <1>5 DEF StoredRecords, Gives
<1>. QED
  BY <1>3, <1>4, <1>5 DEF Moves, NothingMoves, Takes, Queues, RecordsKeptStep

\* Data is written while the archive is open, for an entry not stored before.
LEMMA WritesStores ==
  ASSUME IInv, Promise, Writes
  PROVE  \E f \in Valid : Archive!Store(f)
<1> DEFINE n == nWrite + 1
           record == m_Index_Compress[n]
<1>1. ~Closed
  BY DEF Closed, Writes, IInv, MainInv
<1>2. Settled = n /\ nWrite \in Nat /\ n \in 1..n /\ m_Index_Compress \in Seq(Records)
      /\ Len(m_Index_Compress) = n
  BY CustodyTypes DEF Writes, Settled
<1>3. record.f \in Valid /\ record.len = CipherSize(record.f) /\ record.at = dwAddressDataAreaEndAt
  BY <1>2 DEF Promise, Custody, Fetched, Writes
<1>4. record.f \notin {m_Index_Compress[i].f : i \in 1..nWrite}
  BY <1>2 DEF Promise, Apart, OneRecord
<1>5. record \in Records
  BY <1>2
<1>6. record = [f |-> record.f, at |-> record.at, len |-> record.len]
  BY <1>5 DEF Records
<1>7. StoredRecords' = Append(StoredRecords, record)
  BY <1>2, <1>5 DEF StoredRecords, Writes
<1>8. record.f \in Entries
  BY <1>3, NumberOfEntries
<1>9. Archive!Store(record.f)
  BY <1>1, <1>3, <1>4, <1>6, <1>7, <1>8, StoredView
     DEF Archive!Store, StoredRecords, Closed, Writes
<1>. QED
  BY <1>3, <1>9

\* start() publishes after the joins: what is stored, all of it unless it was stopped.
LEMMA IndexPublishes ==
  ASSUME IInv, Promise, WriteIndex
  PROVE  Archive!Publish
<1>1. /\ phase = "index" /\ phase' = "flag" /\ bForcedStopWorking' = bForcedStopWorking
      /\ m_Index_Compress' = m_Index_Compress /\ nWrite' = nWrite
      /\ published' = SubSeq(m_Index_Compress, 1, dwFileCountToAdd)
  BY DEF WriteIndex, writerVars, flagVars
<1>2. dwFileCountToAdd = nWrite /\ pc[Writer] = "done"
  BY <1>1 DEF IInv, MainInv
<1>3. bForcedStopWorking \/ Archive!StoredEntries = Valid
  BY <1>1, <1>2, AllRecorded, StoredView
<1>. QED
  BY <1>1, <1>2, <1>3 DEF Archive!Publish

\* Every other step leaves the index alone.
LEMMA IndexStays ==
  ASSUME IInv, [Next]_vars, ~WriteIndex
  PROVE  Closed' = Closed /\ published' = published
<1>1. CASE JoinThreads \/ ClearThreadFlag
  BY <1>1 DEF JoinThreads, ClearThreadFlag, Closed
<1>2. CASE UNCHANGED mainVars
  BY <1>2 DEF mainVars, Closed
<1>3. CASE \E c \in Compressors : Compressor(c)
  BY <1>2, <1>3
     DEF Compressor, FetchEnd, FetchSkipInvalid, FetchEntry, OpenFile, DetectCancelled,
     DetectFull, DetectEnough, MemoryWaitTimeout, Allocate, MallocFails, MallocRetry,
     ViewSource, Shrink, Push, ThreadExit
<1>4. CASE \E t \in Threads : Freeing(t)
  BY <1>2, <1>4 DEF Freeing, FreeBuffer, TestBlocked, ClearBlocked, NotifyMemory
<1>5. CASE WriteThread \/ GetWakesSpuriously
  BY <1>2, <1>5
     DEF WriteThread, GetEntry, GetFindsEmpty, GetWaits, GetCancelled, WriteEntry,
     WriteFails, WriterEnd, WriterFails1, WriterFails2, GetWakesSpuriously
<1>6. CASE ForceBreakThreadWorking \/ Terminated \/ UNCHANGED vars
  BY <1>2, <1>6 DEF ForceBreakThreadWorking, Terminated, vars
<1>. QED
  BY <1>1, <1>3, <1>4, <1>5, <1>6 DEF Next, Main

LEMMA StepKeepsPromise ==
  ASSUME IInv, Promise, [Next]_vars, IInv'
  PROVE  [Archive!Next]_(Archive!vars)
<1>1. Moves
  BY EveryStepMoves
<1>2. CASE Writes
  BY <1>2, WritesStores DEF Archive!Next
<1>3. CASE WriteIndex
  BY <1>3, IndexPublishes DEF Archive!Next
<1>4. CASE ~Writes /\ ~WriteIndex
  <2>1. StoredRecords' = StoredRecords /\ Closed' = Closed /\ published' = published
    BY <1>1, <1>4, StoredStays, IndexStays
  <2>2. CASE ClearThreadFlag
    <3>1. bForcedStopWorking' = FALSE /\ Closed
      BY <2>2 DEF ClearThreadFlag, SetErrMsgFlag, Closed
    <3>. QED
      BY <2>1, <3>1 DEF Archive!Next, Archive!Resume, StoredRecords, Closed
  <2>3. CASE ~ClearThreadFlag
    <3>1. bForcedStopWorking' = TRUE \/ bForcedStopWorking' = bForcedStopWorking
      BY <2>3, FlagIsKept DEF FlagStays, IInv, TypeOK, FlagTypes
    <3>. QED
      BY <2>1, <3>1 DEF Archive!Next, Archive!Stop, Archive!vars, StoredRecords, Closed
  <2>. QED
    BY <2>2, <2>3
<1>. QED
  BY <1>2, <1>3, <1>4

\* The pipeline of threads implements the archive that entries are appended to one by
\* one: an observer of the file and its index sees no thread, queue or budget.
THEOREM PipelineKeepsPromise == Spec => KeepsPromise
<1>1. Init => Archive!Init
  BY StoredView, InitIInv DEF Init, Archive!Init
<1>2. IInv /\ Promise /\ [Next]_vars /\ IInv' => [Archive!Next]_(Archive!vars)
  BY StepKeepsPromise
<1>. QED
  BY <1>1, <1>2, PromiseInvariant, PTL DEF Spec, KeepsPromise, Archive!Spec
=============================================================================
