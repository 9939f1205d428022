----------------------------- MODULE PckSession -----------------------------
(***************************************************************************)
(* The one archive handle of the process and the threads that share it:    *)
(* the window thread, which opens, closes, cancels and exits, and the      *)
(* worker threads it starts for everything that takes long.  They share    *)
(* the archive object of the control centre (m_lpClassPck), the flags of   *)
(* PCK_VARIETY_PARAMS and the lock of the log window.                      *)
(*                                                                         *)
(* todo[t] is what thread t still has to do, one name a step.  A worker    *)
(* that calls SendMessage waits until the window thread reads its messages *)
(* (Pumping); a log line is sent that way, under the lock of the sink.     *)
(***************************************************************************)
EXTENDS Integers, Sequences

CONSTANTS
  Window,      \* the window thread
  Workers,     \* the worker threads that can run at once
  Operations,  \* what the user starts, see Body
  Objects      \* numbers of CPckClass objects: two more than workers is enough

ASSUME ThreadsAssumption == Window \notin Workers
ASSUME OperationsAssumption ==
  Operations \subseteq {"extract", "update", "new", "strip", "rebuild", "rename", "delete"}
ASSUME ObjectsAssumption == Objects \subseteq Nat \ {0} /\ 1 \in Objects

Threads == Workers \cup {Window}
None == "none"
NoJob == [op |-> None, open |-> FALSE, rtn |-> FALSE]

VARIABLES
  m_lpClassPck,        \* the current archive object, 0 for NULL
  isPckFileLoaded,     \* an archive is open in it
  bThreadRunning,
  bForcedStopWorking,
  errMessageNo,
  bGoingToExit,        \* the user confirmed to exit while a job was running
  asking,              \* the window thread shows that question
  quit,                \* PostQuitMessage was called, the process is gone
  sink,                \* the thread that holds the lock of the log window
  todo,                \* the steps each thread has still to do
  job,                 \* [op, open, rtn] of each worker: the operation, whether an
                       \* archive was open when it began, what the call returned
  using,               \* the object whose member function each worker is in, or 0
  flagged,             \* ghost: workers between SetThreadFlag(TRUE) and (FALSE)
  abandoned,           \* ghost: a rebuild returned without SetThreadFlag(FALSE)
  raced                \* ghost: workers whose job another thread's test missed

handle == <<m_lpClassPck, isPckFileLoaded>>
flags == <<bThreadRunning, bForcedStopWorking, errMessageNo>>
window == <<bGoingToExit, asking, quit>>
ghost == <<flagged, abandoned, raced>>
vars == <<handle, flags, window, sink, todo, job, using, ghost>>

Has(s, x) == \E i \in DOMAIN s : s[i] = x

\* t may do its step x; a process that has quit does nothing.
At(t, x) == ~quit /\ todo[t] # <<>> /\ Head(todo[t]) = x
Goto(t, s) == todo' = [todo EXCEPT ![t] = s]
Pop(t) == Goto(t, Tail(todo[t]))
Push(t, s) == Goto(t, s \o Tail(todo[t]))
Pumping == todo[Window] = <<>>

\* Passed the test of the working flag and not yet set it; passed the test of
\* pck_open or pck_close and not yet replaced the object.
Pending == {t \in Workers : Has(todo[t], "flag")}
Closing == {t \in Threads : Has(todo[t], "new")}

Init ==
  /\ m_lpClassPck = 1
  /\ isPckFileLoaded = FALSE
  /\ bThreadRunning = FALSE
  /\ bForcedStopWorking = FALSE
  /\ errMessageNo = "ok"
  /\ bGoingToExit = FALSE
  /\ asking = FALSE
  /\ quit = FALSE
  /\ sink = None
  /\ todo = [t \in Threads |-> <<>>]
  /\ job = [t \in Workers |-> NoJob]
  /\ using = [t \in Workers |-> 0]
  /\ flagged = {}
  /\ abandoned = FALSE
  /\ raced = {}
-----------------------------------------------------------------------------
(***************************************************************************)
(* What a worker does.                                                     *)
(***************************************************************************)
\* The worker functions of the front end up to the call of the library: they ask
\* for an archive if none is open, set the version to write, disable the buttons.
Begin(o, open) ==
  (IF o \in {"rebuild", "strip"} /\ ~open THEN <<"pck_open">> ELSE <<>>)
  \o (IF o \in {"new", "rebuild", "strip"} \/ (o = "update" /\ ~open)
      THEN <<"pck_setVersion">> ELSE <<>>)
  \o <<"send", "submit">>

\* variant: the flag is set before the early returns
BodyFlagFirst(o) ==
  <<"enter", "flag", "prepare", "log", "work", "log", "unflag", "leave">>

\* The call of the control centre and the members of CPckClass: "prepare" is what may
\* return before anything is done, "work" the job proper.  Extraction and the pipeline
\* set the flag, a rebuild too, renaming and deleting write the index without it.
Body(o) ==
  CASE o = "extract" ->
         <<"enter", "prepare", "flag", "log", "work", "log", "unflag", "leave">>
    [] o \in {"update", "new", "strip"} ->
         <<"enter", "log", "prepare", "flag", "work", "log", "unflag", "log", "leave">>
    [] o = "rebuild" -> <<"enter", "log", "flag", "work", "unflag", "log", "leave">>
    [] OTHER -> <<"enter", "log", "prepare", "work", "log", "leave">>

\* What the front end does when the call has returned.
Finish(o, open, rtn) ==
  (IF o \in {"update", "rename", "delete"} /\ rtn THEN <<"pck_open">>
   ELSE IF \/ o = "rename"
           \/ o \in {"update", "new", "rebuild", "strip"} /\ ~open
        THEN <<"pck_close">> ELSE <<>>)
  \o <<"send", "exit">>

\* checkIfValidPck and checkIfWorking of the pck_ functions.  Making a new archive
\* and adding files need no open one.
MayOperateUnchecked(t) == job[t].op \in {"update", "new"} \/ isPckFileLoaded \* variant
MayOperate(t) ==
  /\ job[t].op \in {"update", "new"} \/ isPckFileLoaded
  /\ ~bThreadRunning

Submit(t) ==
  /\ At(t, "submit")
  /\ IF MayOperate(t)
     THEN Goto(t, Body(job[t].op)) /\ UNCHANGED job
     ELSE /\ job' = [job EXCEPT ![t].rtn = FALSE]
          /\ Goto(t, Finish(job[t].op, job[t].open, FALSE))
  /\ UNCHANGED <<handle, flags, window, sink, using, ghost>>

\* The control centre calls the object, unless it is NULL just now.
Enter(t) ==
  /\ At(t, "enter")
  /\ using' = [using EXCEPT ![t] = m_lpClassPck]
  /\ IF m_lpClassPck # 0 THEN Pop(t) ELSE Goto(t, <<"leave">>)
  /\ job' = [job EXCEPT ![t].rtn = FALSE]
  /\ UNCHANGED <<handle, flags, window, sink, ghost>>

\* The early returns before anything is written.  Adding nothing is a success.
Prepare(t) ==
  /\ At(t, "prepare")
  /\ \/ Pop(t) /\ UNCHANGED job
     \/ \E r \in IF job[t].op \in {"update", "new"} THEN BOOLEAN ELSE {FALSE} :
          job' = [job EXCEPT ![t].rtn = r] /\ Goto(t, <<"leave">>)
  /\ UNCHANGED <<handle, flags, window, sink, using, ghost>>

\* SetThreadFlag(TRUE).  raced keeps who has passed a test that this step makes
\* stale: the workers that will set the flag as well, and this one if somebody is
\* about to close the archive or is still in a job whose flag was lost.
SetThreadFlag(t) ==
  /\ At(t, "flag")
  /\ bThreadRunning' = TRUE
  /\ bForcedStopWorking' = FALSE
  /\ errMessageNo' = "ok"
  /\ flagged' = flagged \cup {t}
  /\ raced' = raced \cup (Pending \ {t})
                \cup (IF Closing # {} \/ t \in raced \/ flagged \cap raced # {}
                      THEN flagged \cup {t} ELSE {})
  /\ Pop(t)
  /\ UNCHANGED <<handle, window, sink, job, using, abandoned>>

\* The job proper.  CheckIfNeedForcedStopWorking notices a cancellation; extraction
\* then fails, a rebuild and the pipeline publish what they have.
Work(t) ==
  /\ At(t, "work")
  /\ \E r \in BOOLEAN :
       /\ job[t].op = "extract" => (bForcedStopWorking => ~r)
       /\ job[t].op # "extract" => r
       /\ job' = [job EXCEPT ![t].rtn = r]
  /\ errMessageNo' = IF bForcedStopWorking /\ job[t].op \notin {"rename", "delete"}
                     THEN "canceled" ELSE errMessageNo
  /\ Goto(t, (IF bForcedStopWorking /\ job[t].op = "rebuild" THEN <<"log">> ELSE <<>>)
               \o Tail(todo[t]))
  /\ UNCHANGED <<handle, bThreadRunning, bForcedStopWorking, window, sink, using, ghost>>

\* RebuildPckFile cannot open or view the archive: it returns with the flag set.
ReturnFromRebuild(t) ==
  /\ At(t, "work") /\ job[t].op = "rebuild"
  /\ job' = [job EXCEPT ![t].rtn = FALSE]
  /\ flagged' = flagged \ {t}
  /\ abandoned' = TRUE
  /\ Goto(t, <<"leave">>)
  /\ UNCHANGED <<handle, flags, window, sink, using, raced>>

\* SetThreadFlag(FALSE) at the end of the job.
ClearThreadFlag(t) ==
  /\ At(t, "unflag")
  /\ bThreadRunning' = FALSE
  /\ bForcedStopWorking' = FALSE
  /\ errMessageNo' = "ok"
  /\ flagged' = flagged \ {t}
  /\ abandoned' = FALSE
  /\ Pop(t)
  /\ UNCHANGED <<handle, window, sink, job, using, raced>>

\* The call returns to the front end.
Leave(t) ==
  /\ At(t, "leave")
  /\ using' = [using EXCEPT ![t] = 0]
  /\ flagged' = flagged \ {t}
  /\ raced' = raced \ {t}
  /\ Goto(t, Finish(job[t].op, job[t].open, job[t].rtn))
  /\ UNCHANGED <<handle, flags, window, sink, job, abandoned>>

\* The last thing a worker does: it closes the window the user wanted closed, after a
\* rename or a delete always, else if the last operation left an error.
CloseAfterJob(t) ==
  /\ At(t, "exit")
  /\ IF bGoingToExit /\ (job[t].op \in {"rename", "delete"} \/ errMessageNo # "ok")
     THEN bGoingToExit' = FALSE /\ Push(t, <<"WM_CLOSE">>)
     ELSE UNCHANGED bGoingToExit /\ Pop(t)
  /\ job' = [job EXCEPT ![t] = NoJob]
  /\ UNCHANGED <<handle, flags, asking, quit, sink, using, ghost>>

\* pck_setVersion is refused while a job runs; the user may cancel the dialog that
\* comes with it, which ends the worker.
SetVersion(t) ==
  /\ At(t, "pck_setVersion")
  /\ \E rest \in {<<>>, Tail(todo[t])}
                   \cup (IF job[t].op = "update" THEN {<<"pck_close">>} ELSE {}) :
       /\ bThreadRunning => rest # Tail(todo[t])
       /\ Goto(t, rest)
  /\ UNCHANGED <<handle, flags, window, sink, job, using, ghost>>
-----------------------------------------------------------------------------
(***************************************************************************)
(* Opening and closing, by any thread.                                     *)
(***************************************************************************)
\* pck_open, and the pck_close of the front end when it fails.  A worker that asked
\* for an archive to work on then ends.
Refused(t) ==
  Goto(t, <<"pck_close">> \o (IF Has(todo[t], "submit") THEN <<>> ELSE Tail(todo[t])))

PckOpen(t) ==
  /\ At(t, "pck_open")
  /\ IF bThreadRunning
     THEN Refused(t)
     ELSE Push(t, <<"close", "new", "log", "init">>)
  /\ UNCHANGED <<handle, flags, window, sink, job, using, ghost>>

\* pck_close: cancel the running job and wait for it, but only for a while.
PckClose(t) ==
  /\ At(t, "pck_close")
  /\ bForcedStopWorking' = (bForcedStopWorking \/ bThreadRunning)
  /\ Push(t, (IF bThreadRunning THEN <<"wait">> ELSE <<>>) \o <<"recheck">>)
  /\ UNCHANGED <<handle, bThreadRunning, errMessageNo, window, sink, job, using, ghost>>

\* The 120 turns of half a second end when the job has, or without it.
WaitUnlimited(t) == \* variant
  /\ At(t, "wait") /\ ~bThreadRunning
  /\ Pop(t)
  /\ UNCHANGED <<handle, flags, window, sink, job, using, ghost>>

Wait(t) ==
  /\ At(t, "wait")
  /\ Pop(t)
  /\ UNCHANGED <<handle, flags, window, sink, job, using, ghost>>

RecheckMissing(t) == \* variant
  /\ At(t, "recheck")
  /\ Push(t, <<"close", "new">>)
  /\ UNCHANGED <<handle, flags, window, sink, job, using, ghost>>

Recheck(t) ==
  /\ At(t, "recheck")
  /\ IF bThreadRunning THEN Pop(t) ELSE Push(t, <<"close", "new">>)
  /\ UNCHANGED <<handle, flags, window, sink, job, using, ghost>>

\* Close() says so in the log if an archive is open.
Close(t) ==
  /\ At(t, "close")
  /\ Push(t, (IF isPckFileLoaded THEN <<"log">> ELSE <<>>) \o <<"delete">>)
  /\ UNCHANGED <<handle, flags, window, sink, job, using, ghost>>

\* variant: the archive stays marked as open
DeleteKeepsLoaded(t) ==
  /\ At(t, "delete")
  /\ m_lpClassPck' = 0
  /\ bThreadRunning' = FALSE
  /\ bForcedStopWorking' = FALSE
  /\ errMessageNo' = "ok"
  /\ abandoned' = FALSE
  /\ raced' = raced \cup Pending
  /\ Push(t, IF t = Window THEN <<>> ELSE <<"send">>)
  /\ UNCHANGED <<isPckFileLoaded, window, sink, job, using, flagged>>

\* It deletes the object, clears the flags whoever set them (Reset) and tells the
\* window, which is a message only for a worker.
Delete(t) ==
  /\ At(t, "delete")
  /\ m_lpClassPck' = 0
  /\ isPckFileLoaded' = FALSE
  /\ bThreadRunning' = FALSE
  /\ bForcedStopWorking' = FALSE
  /\ errMessageNo' = "ok"
  /\ abandoned' = FALSE
  /\ raced' = raced \cup Pending
  /\ Push(t, IF t = Window THEN <<>> ELSE <<"send">>)
  /\ UNCHANGED <<window, sink, job, using, flagged>>

\* The new object has a place of its own: the least number nobody holds.
New(t) ==
  /\ At(t, "new")
  /\ LET held == {m_lpClassPck} \cup {using[u] : u \in Workers}
     IN \E o \in Objects :
          /\ o \notin held
          /\ \A p \in Objects : p < o => p \in held
          /\ m_lpClassPck' = o
  /\ isPckFileLoaded' = FALSE
  /\ raced' = raced \cup Pending
  /\ Pop(t)
  /\ UNCHANGED <<flags, window, sink, job, using, flagged, abandoned>>

\* CPckClass::Init mounts the archive or does not.
InitArchive(t) ==
  /\ At(t, "init")
  /\ \/ isPckFileLoaded' = (m_lpClassPck # 0) /\ Pop(t)
     \/ isPckFileLoaded' = FALSE /\ Refused(t)
  /\ UNCHANGED <<m_lpClassPck, flags, window, sink, job, using, ghost>>
-----------------------------------------------------------------------------
(***************************************************************************)
(* Messages to the window thread.                                          *)
(***************************************************************************)
\* A line of the log.  The window thread needs the lock of the sink and no message;
\* a worker takes the lock and keeps it until the window has read the line.
LogByWindow ==
  /\ At(Window, "log") /\ sink = None
  /\ Pop(Window)
  /\ UNCHANGED <<handle, flags, window, sink, job, using, ghost>>

LogByWorker(t) ==
  /\ At(t, "log") /\ sink = None
  /\ sink' = t
  /\ Push(t, <<"logging">>)
  /\ UNCHANGED <<handle, flags, window, job, using, ghost>>

LogDelivered(t) ==
  /\ At(t, "logging") /\ Pumping
  /\ sink' = None
  /\ Pop(t)
  /\ UNCHANGED <<handle, flags, window, job, using, ghost>>

\* Any other message a worker sends to a control of the window.
Sent(t) ==
  /\ At(t, "send") /\ Pumping
  /\ Pop(t)
  /\ UNCHANGED <<handle, flags, window, sink, job, using, ghost>>

EvCloseUnasked == \* variant: the working flag is not looked at
  IF bGoingToExit THEN UNCHANGED window
  ELSE quit' = TRUE /\ UNCHANGED <<bGoingToExit, asking>>

\* EvClose: exit at once, or ask first if a job is running.
EvClose ==
  IF bGoingToExit THEN UNCHANGED window
  ELSE IF bThreadRunning THEN asking' = TRUE /\ UNCHANGED <<bGoingToExit, quit>>
  ELSE quit' = TRUE /\ UNCHANGED <<bGoingToExit, asking>>

CloseMessage(t) ==
  /\ At(t, "WM_CLOSE") /\ Pumping
  /\ EvClose
  /\ Push(t, <<"answer">>)
  /\ UNCHANGED <<handle, flags, sink, job, using, ghost>>

\* SendMessage returns when the message box, if one came up, is gone.
Answered(t) ==
  /\ At(t, "answer") /\ Pumping /\ ~asking
  /\ Pop(t)
  /\ UNCHANGED <<handle, flags, window, sink, job, using, ghost>>
-----------------------------------------------------------------------------
(***************************************************************************)
(* What the user asks of the window thread.                                *)
(***************************************************************************)
UserActs == ~quit /\ ~asking /\ Pumping

Open ==
  /\ UserActs
  /\ Goto(Window, <<"pck_open">>)
  /\ UNCHANGED <<handle, flags, window, sink, job, using, ghost>>

\* MenuClose cancels by itself before pck_close does.
MenuClose ==
  /\ UserActs
  /\ bForcedStopWorking' = (bForcedStopWorking \/ bThreadRunning)
  /\ Goto(Window, <<"pck_close">>)
  /\ UNCHANGED <<handle, bThreadRunning, errMessageNo, window, sink, job, using, ghost>>

MenuCancelPckOper ==
  /\ UserActs /\ bThreadRunning
  /\ bForcedStopWorking' = TRUE
  /\ UNCHANGED <<handle, bThreadRunning, errMessageNo, window, sink, todo, job, using, ghost>>

\* A command that starts a worker.  The worker functions look at the open archive
\* once, at their beginning.
Start(t, o) ==
  /\ UserActs /\ ~bThreadRunning
  /\ todo[t] = <<>>
  /\ o \in {"extract", "rename", "delete"} => isPckFileLoaded
  /\ job' = [job EXCEPT ![t] = [op |-> o, open |-> isPckFileLoaded, rtn |-> FALSE]]
  /\ Goto(t, Begin(o, isPckFileLoaded))
  /\ UNCHANGED <<handle, flags, window, sink, using, ghost>>

Exit ==
  /\ UserActs
  /\ EvClose
  /\ UNCHANGED <<handle, flags, sink, todo, job, using, ghost>>

\* The answer to the question EvClose asked.
Answer ==
  /\ ~quit /\ asking
  /\ asking' = FALSE
  /\ \/ UNCHANGED <<bGoingToExit, bForcedStopWorking>>
     \/ bGoingToExit' = TRUE /\ bForcedStopWorking' = (bForcedStopWorking \/ bThreadRunning)
  /\ UNCHANGED <<handle, bThreadRunning, errMessageNo, quit, sink, todo, job, using, ghost>>
-----------------------------------------------------------------------------
WorkerStep(t) ==
  \/ Submit(t) \/ Enter(t) \/ Prepare(t) \/ SetThreadFlag(t) \/ Work(t)
  \/ ReturnFromRebuild(t) \/ ClearThreadFlag(t) \/ Leave(t) \/ CloseAfterJob(t)
  \/ SetVersion(t) \/ LogByWorker(t)

Delivery(t) == LogDelivered(t) \/ Sent(t) \/ CloseMessage(t) \/ Answered(t)

HandleStep(t) ==
  \/ PckOpen(t) \/ PckClose(t) \/ Wait(t) \/ Recheck(t) \/ Close(t) \/ Delete(t)
  \/ New(t) \/ InitArchive(t)

UserStep ==
  \/ Open \/ MenuClose \/ MenuCancelPckOper \/ Exit
  \/ \E t \in Workers, o \in Operations : Start(t, o)

Next ==
  \/ \E t \in Workers : WorkerStep(t) \/ Delivery(t)
  \/ \E t \in Threads : HandleStep(t)
  \/ LogByWindow \/ Answer \/ UserStep

Spec == Init /\ [][Next]_vars

\* Every thread that can run does; a message that was sent is read as soon as the
\* window thread looks, before any input that was posted.
Fairness ==
  /\ WF_vars(LogByWindow \/ HandleStep(Window))
  /\ WF_vars(Answer)
  /\ \A t \in Workers : WF_vars(WorkerStep(t) \/ HandleStep(t)) /\ SF_vars(Delivery(t))

FairSpec == Spec /\ Fairness
-----------------------------------------------------------------------------
Steps ==
  {"pck_open", "pck_setVersion", "send", "submit", "enter", "prepare", "flag", "log",
   "logging", "work", "unflag", "leave", "pck_close", "exit", "close", "new", "init",
   "wait", "recheck", "delete", "WM_CLOSE", "answer"}

\* The variables have their types; a thread without steps is in no object.
TypeOK ==
  /\ m_lpClassPck \in Objects \cup {0}
  /\ isPckFileLoaded \in BOOLEAN /\ (isPckFileLoaded => m_lpClassPck # 0)
  /\ bThreadRunning \in BOOLEAN /\ bForcedStopWorking \in BOOLEAN
  /\ errMessageNo \in {"ok", "canceled"}
  /\ bGoingToExit \in BOOLEAN /\ asking \in BOOLEAN /\ quit \in BOOLEAN
  /\ sink \in Workers \cup {None}
  /\ todo \in [Threads -> Seq(Steps)]
  /\ job \in [Workers -> [op : Operations \cup {None}, open : BOOLEAN, rtn : BOOLEAN]]
  /\ using \in [Workers -> Objects \cup {0}]
  /\ flagged \subseteq Workers /\ abandoned \in BOOLEAN /\ raced \subseteq Workers

\* The working flag is never left over: when it is set, a worker is inside the job it
\* was set for, or a rebuild that could not read its archive left it.
FlagHasOwner == bThreadRunning => flagged # {} \/ abandoned

\* A job whose flag was set in time is protected until it ends: the flag stays set and
\* the object it works on stays the current one, whatever open, close, cancel, exit and
\* other jobs do meanwhile.
JobIsProtected ==
  \A t \in flagged \ raced : bThreadRunning /\ using[t] = m_lpClassPck

\* Two such jobs never run at once, though the test of the flag and its setting are
\* steps of different functions.
JobsExclusive == \A t, u \in flagged : t \notin raced /\ u \notin raced => t = u

\* A cancellation reaches the job it was meant for: nothing clears bForcedStopWorking
\* while that job still runs, neither another job nor the Reset() of a Close().
CancelSticks ==
  [][(flagged \ raced) \cap (flagged' \ raced') # {} /\ bForcedStopWorking
       => bForcedStopWorking']_vars

\* The process does not exit under a job that holds the flag.
QuitSparesJobs == quit => flagged \subseteq raced

\* The window thread waits for the lock of the log, whose holder waits for the window.
LogDeadlock == sink # None /\ ~Pumping /\ Head(todo[Window]) = "log"

\* Whatever the user asks for, the window comes back to its messages: pck_close waits a
\* bounded time, and nothing else blocks but the lock of the log.
WindowAnswers == []<>(Pumping \/ quit) \/ <>[]LogDeadlock

\* A user who confirmed to exit while a job was running gets the program closed.
ExitHappens == bGoingToExit ~> quit
=============================================================================
