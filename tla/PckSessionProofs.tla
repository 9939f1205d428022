-------------------------- MODULE PckSessionProofs --------------------------
(***************************************************************************)
(* Proofs about PckSession, for any number of workers, any operations and  *)
(* any archive objects.                                                    *)
(***************************************************************************)
EXTENDS PckSession, SequenceTheorems, TLAPS

(***************************************************************************)
(* The inductive invariant.                                                *)
(***************************************************************************)
\* What a thread does inside a member of CPckClass, and what the front end does
\* before and after it.
JobSteps == {"enter", "prepare", "flag", "log", "logging", "work", "unflag", "leave"}
CallerSteps == {"pck_open", "pck_setVersion", "send", "submit", "pck_close", "exit"}

\* Steps that may be put in front of what a thread has to do.
Additions == Steps \ {"enter", "prepare", "flag", "unflag", "leave"}

\* The order of the steps of a thread: Close() is followed by a new object, a job
\* sets its flag and clears it once, and does nothing else in between.
Ordered(s) ==
  \A i \in 1..Len(s) :
    /\ s[i] \in {"close", "delete"} => i < Len(s) /\ s[i+1] = "new"
    /\ \A j \in 1..Len(s) :
         /\ i < j /\ s[i] = "flag" => s[j] \notin {"enter", "prepare", "flag"}
         /\ i < j /\ s[i] \in {"unflag", "leave"} => s[j] \notin {"flag", "unflag"}
         /\ s[i] \in {"flag", "unflag"} => s[j] \in JobSteps

Shaped(s) ==
  /\ s \in Seq(Steps)
  /\ Ordered(s)
  /\ Has(s, "flag") => Has(s, "unflag")
  /\ Has(s, "unflag") => Has(s, "flag") \/ ~(Has(s, "enter") \/ Has(s, "prepare"))

\* Between SetThreadFlag(TRUE) and SetThreadFlag(FALSE).
Inside(s) == Has(s, "unflag") /\ ~Has(s, "flag")

ShapeInv ==
  /\ \A t \in Threads : Shaped(todo[t])
  /\ \A t \in Workers : t \in flagged <=> Inside(todo[t])

\* A job somebody missed shares the flag with jobs that are missed as well; a worker
\* or thread whose test still holds is alone, and in the current object.
Together == flagged \cap raced # {} => flagged \subseteq raced
PendingAlone == \A t \in Pending : t \notin raced => flagged \subseteq raced
ClosingAlone == Closing # {} => flagged \subseteq raced
RightObject ==
  \A t \in Pending : t \notin raced /\ Head(todo[t]) # "enter" => using[t] = m_lpClassPck

SafeInv ==
  /\ FlagHasOwner /\ JobIsProtected /\ JobsExclusive /\ QuitSparesJobs
  /\ Together /\ PendingAlone /\ ClosingAlone /\ RightObject

IInv == TypeOK /\ ShapeInv /\ SafeInv
-----------------------------------------------------------------------------
(***************************************************************************)
(* Sequences of steps.                                                     *)
(***************************************************************************)
LEMMA TailOf ==
  ASSUME NEW s \in Seq(Steps), s # <<>>
  PROVE  /\ Len(s) \in Nat \ {0} /\ Head(s) = s[1] /\ Head(s) \in Steps
         /\ Tail(s) \in Seq(Steps) /\ Len(Tail(s)) = Len(s) - 1
         /\ \A i \in 1..Len(s)-1 : Tail(s)[i] = s[i+1]
BY HeadTailProperties, LenProperties, EmptySeq

LEMMA HasTail ==
  ASSUME NEW s \in Seq(Steps), s # <<>>, NEW x
  PROVE  Has(s, x) <=> Head(s) = x \/ Has(Tail(s), x)
<1>1. DOMAIN s = 1..Len(s) /\ DOMAIN Tail(s) = 1..Len(s)-1
  BY TailOf, LenProperties
<1>2. ASSUME Has(s, x), Head(s) # x PROVE Has(Tail(s), x)
  <2>1. PICK i \in 1..Len(s) : s[i] = x
    BY <1>1, <1>2 DEF Has
  <2>2. i - 1 \in 1..Len(s)-1 /\ Tail(s)[i-1] = x
    BY <2>1, <1>2, TailOf
  <2> QED BY <2>2, <1>1 DEF Has
<1>3. ASSUME Has(Tail(s), x) PROVE Has(s, x)
  <2>1. PICK i \in 1..Len(s)-1 : Tail(s)[i] = x
    BY <1>1, <1>3 DEF Has
  <2>2. i + 1 \in 1..Len(s) /\ s[i+1] = x
    BY <2>1, TailOf
  <2> QED BY <2>2, <1>1 DEF Has
<1>4. Head(s) = x => Has(s, x)
  BY <1>1, TailOf DEF Has
<1> QED BY <1>2, <1>3, <1>4

LEMMA HasConcat ==
  ASSUME NEW p \in Seq(Steps), NEW s \in Seq(Steps), NEW x
  PROVE  Has(p \o s, x) <=> Has(p, x) \/ Has(s, x)
<1>1. /\ DOMAIN p = 1..Len(p) /\ DOMAIN s = 1..Len(s)
      /\ DOMAIN (p \o s) = 1..Len(p)+Len(s) /\ Len(p) \in Nat /\ Len(s) \in Nat
  BY ConcatProperties, LenProperties
<1>2. /\ \A i \in 1..Len(p) : (p \o s)[i] = p[i] /\ i \in 1..Len(p)+Len(s)
      /\ \A i \in 1..Len(s) :
           (p \o s)[Len(p)+i] = s[i] /\ Len(p)+i \in 1..Len(p)+Len(s)
  BY <1>1, ConcatProperties
<1>3. \A i \in 1..Len(p)+Len(s) : i \in 1..Len(p) \/ i - Len(p) \in 1..Len(s)
  BY <1>1
<1>4. ASSUME Has(p \o s, x) PROVE Has(p, x) \/ Has(s, x)
  <2>1. PICK i \in 1..Len(p)+Len(s) : (p \o s)[i] = x
    BY <1>1, <1>4 DEF Has
  <2>2. CASE i \in 1..Len(p)
    BY <2>1, <2>2, <1>1, <1>2 DEF Has
  <2>3. CASE i - Len(p) \in 1..Len(s)
    <3>1. s[i - Len(p)] = x
      BY <2>1, <2>3, <1>1, <1>2
    <3> QED BY <3>1, <2>3, <1>1 DEF Has
  <2> QED BY <2>2, <2>3, <1>3
<1>5. Has(p, x) => Has(p \o s, x)
  BY <1>1, <1>2 DEF Has
<1>6. ASSUME Has(s, x) PROVE Has(p \o s, x)
  <2>1. PICK i \in 1..Len(s) : s[i] = x
    BY <1>1, <1>6 DEF Has
  <2> QED BY <2>1, <1>1, <1>2 DEF Has
<1> QED BY <1>4, <1>5, <1>6

\* What is left of the steps of a thread is in order.
LEMMA ShapedTail ==
  ASSUME NEW s, Shaped(s), s # <<>>
  PROVE  Shaped(Tail(s))
<1>1. s \in Seq(Steps)
  BY DEF Shaped
<1>2. Ordered(Tail(s))
  BY <1>1, TailOf DEF Shaped, Ordered
<1>3. Head(s) = "unflag" => ~Has(Tail(s), "flag") /\ ~Has(Tail(s), "unflag")
  BY <1>1, TailOf, LenProperties DEF Shaped, Ordered, Has
<1>4. Head(s) = "flag" => ~Has(Tail(s), "enter") /\ ~Has(Tail(s), "prepare")
  BY <1>1, TailOf, LenProperties DEF Shaped, Ordered, Has
<1> QED BY <1>1, <1>2, <1>3, <1>4, TailOf, HasTail DEF Shaped

\* Steps in front of others leave them in order, if they are no job of their own, do
\* not come into a job unless they are part of one, and close nothing without a new
\* object.
Plain(p) == \A i \in 1..Len(p) : p[i] \in Additions
Fits(p, s) ==
  /\ \A i \in 1..Len(p) : p[i] \in {"close", "delete"} =>
       IF i < Len(p) THEN p[i+1] = "new" ELSE s # <<>> /\ s[1] = "new"
  /\ Has(s, "unflag") => \A i \in 1..Len(p) : p[i] \in JobSteps

LEMMA ShapedConcat ==
  ASSUME NEW p \in Seq(Steps), NEW s, Shaped(s), Plain(p), Fits(p, s)
  PROVE  Shaped(p \o s)
<1>1. s \in Seq(Steps)
  BY DEF Shaped
<1> DEFINE q == p \o s
           m == Len(p)
           n == Len(s)
<1>2. /\ m \in Nat /\ n \in Nat /\ Len(q) = m + n /\ q \in Seq(Steps)
      /\ DOMAIN s = 1..n /\ DOMAIN p = 1..m /\ (s # <<>> => n > 0)
      /\ \A i \in 1..m+n : q[i] = IF i <= m THEN p[i] ELSE s[i-m]
  BY <1>1, ConcatProperties, LenProperties, EmptySeq
<1>3. \A x \in {"enter", "prepare", "flag", "unflag", "leave"} : ~Has(p, x)
  BY <1>2 DEF Plain, Additions, Has
<1>4. \A x \in {"enter", "prepare", "flag", "unflag", "leave"} : Has(q, x) <=> Has(s, x)
  BY <1>1, <1>3, HasConcat
<1> HIDE DEF q
<1>5. \A i \in 1..m+n : q[i] \in {"close", "delete"} => i < m+n /\ q[i+1] = "new"
  <2> SUFFICES ASSUME NEW i \in 1..m+n, q[i] \in {"close", "delete"}
               PROVE  i < m+n /\ q[i+1] = "new"
    OBVIOUS
  <2>1. CASE i < m
    BY <2>1, <1>2 DEF Fits
  <2>2. CASE i = m
    BY <2>2, <1>2 DEF Fits
  <2>3. CASE i > m
    <3>1. i-m \in 1..n /\ q[i] = s[i-m]
      BY <2>3, <1>2
    <3>2. i-m < n /\ s[i-m+1] = "new"
      BY <3>1 DEF Shaped, Ordered
    <3>3. i+1 \in 1..m+n /\ i < m+n /\ i+1 > m /\ i+1-m = i-m+1
      BY <3>1, <3>2, <2>3, <1>2
    <3>4. q[i+1] = s[i-m+1]
      BY <3>3, <1>2
    <3> QED BY <3>2, <3>3, <3>4
  <2>4. i \in Nat /\ m \in Nat
    BY <1>2
  <2> QED BY <2>1, <2>2, <2>3, <2>4
<1>6. ASSUME NEW i \in 1..m+n, NEW j \in 1..m+n
      PROVE  /\ i < j /\ q[i] = "flag" => q[j] \notin {"enter", "prepare", "flag"}
             /\ i < j /\ q[i] \in {"unflag", "leave"} => q[j] \notin {"flag", "unflag"}
             /\ q[i] \in {"flag", "unflag"} => q[j] \in JobSteps
  <2>1. CASE i <= m
    <3>1. q[i] \in Additions
      BY <2>1, <1>2 DEF Plain
    <3> QED BY <3>1 DEF Additions
  <2>2. CASE i > m /\ j > m
    <3>1. i-m \in 1..n /\ j-m \in 1..n /\ q[i] = s[i-m] /\ q[j] = s[j-m]
      BY <2>2, <1>2
    <3>2. i < j => i-m < j-m
      BY <2>2, <1>2
    <3> QED BY <3>1, <3>2 DEF Shaped, Ordered
  <2>3. CASE i > m /\ j <= m
    <3>1. i-m \in 1..n /\ q[i] = s[i-m] /\ j \in 1..m /\ q[j] = p[j] /\ ~(i < j)
      BY <2>3, <1>2
    <3>2. q[i] \in {"flag", "unflag"} => Has(s, "unflag")
      BY <3>1, <1>2 DEF Has, Shaped
    <3> QED BY <3>1, <3>2 DEF Fits
  <2> QED BY <2>1, <2>2, <2>3, <1>2
<1>7. Ordered(q)
  BY <1>2, <1>5, <1>6 DEF Ordered
<1>8. Shaped(q)
  BY <1>2, <1>4, <1>7 DEF Shaped
<1> QED BY <1>8 DEF q

\* The steps of the front end, whatever the operation.
LEMMA CallerSequences ==
  ASSUME NEW o, NEW open, NEW rtn
  PROVE  Begin(o, open) \in Seq(CallerSteps) /\ Finish(o, open, rtn) \in Seq(CallerSteps)
<1> DEFINE a == IF o \in {"rebuild", "strip"} /\ ~open THEN <<"pck_open">> ELSE <<>>
           b == IF o \in {"new", "rebuild", "strip"} \/ (o = "update" /\ ~open)
                THEN <<"pck_setVersion">> ELSE <<>>
           c == IF o \in {"update", "rename", "delete"} /\ rtn THEN <<"pck_open">>
                ELSE IF \/ o = "rename"
                        \/ o \in {"update", "new", "rebuild", "strip"} /\ ~open
                     THEN <<"pck_close">> ELSE <<>>
<1>1. a \in Seq(CallerSteps) /\ b \in Seq(CallerSteps) /\ c \in Seq(CallerSteps)
  <2>1. /\ <<>> \in Seq(CallerSteps) /\ <<"pck_open">> \in Seq(CallerSteps)
        /\ <<"pck_setVersion">> \in Seq(CallerSteps)
        /\ <<"pck_close">> \in Seq(CallerSteps)
    BY DEF CallerSteps
  <2> QED BY <2>1
<1>2. /\ <<"send", "submit">> \in Seq(CallerSteps)
      /\ <<"send", "exit">> \in Seq(CallerSteps)
  BY DEF CallerSteps
<1> HIDE DEF a, b, c
<1>3. (a \o b) \o <<"send", "submit">> \in Seq(CallerSteps)
  BY <1>1, <1>2, ConcatProperties
<1>4. c \o <<"send", "exit">> \in Seq(CallerSteps)
  BY <1>1, <1>2, ConcatProperties
<1> QED BY <1>3, <1>4 DEF Begin, Finish, a, b, c

LEMMA CallerShaped ==
  ASSUME NEW s \in Seq(CallerSteps)
  PROVE  /\ Shaped(s) /\ ~Inside(s)
         /\ ~Has(s, "flag") /\ ~Has(s, "new")
<1>1. DOMAIN s = 1..Len(s) /\ \A i \in 1..Len(s) : s[i] \in CallerSteps
  BY LenProperties, ElementOfSeq
<1>2. s \in Seq(Steps)
  BY SeqMonotonic DEF CallerSteps, Steps
<1>3. Ordered(s)
  BY <1>1 DEF Ordered, CallerSteps
<1> QED BY <1>1, <1>2, <1>3 DEF Shaped, Inside, Has, CallerSteps

\* The steps of a member of CPckClass, from its call on.
LEMMA BodyShaped ==
  ASSUME NEW o
  PROVE  /\ Shaped(Body(o)) /\ ~Inside(Body(o)) /\ ~Has(Body(o), "new")
         /\ Head(Body(o)) = "enter"
<1> DEFINE b1 == <<"enter", "prepare", "flag", "log", "work", "log", "unflag", "leave">>
           b2 == <<"enter", "log", "prepare", "flag", "work", "log", "unflag", "log",
                   "leave">>
           b3 == <<"enter", "log", "flag", "work", "unflag", "log", "leave">>
           b4 == <<"enter", "log", "prepare", "work", "log", "leave">>
           Good(q) == Shaped(q) /\ ~Inside(q) /\ ~Has(q, "new") /\ Head(q) = "enter"
<1>1. Body(o) \in {b1, b2, b3, b4}
  BY DEF Body
<1>2. Good(b1)
  <2>1. b1 \in Seq(Steps)
    BY DEF Steps
  <2>2. Ordered(b1)
    BY DEF Ordered, JobSteps
  <2>3. Has(b1, "flag") /\ Has(b1, "unflag") /\ ~Has(b1, "new")
    BY DEF Has
  <2> QED BY <2>1, <2>2, <2>3 DEF Shaped, Inside
<1>3. Good(b2)
  <2>1. b2 \in Seq(Steps)
    BY DEF Steps
  <2>2. Ordered(b2)
    BY DEF Ordered, JobSteps
  <2>3. Has(b2, "flag") /\ Has(b2, "unflag") /\ ~Has(b2, "new")
    BY DEF Has
  <2> QED BY <2>1, <2>2, <2>3 DEF Shaped, Inside
<1>4. Good(b3)
  <2>1. b3 \in Seq(Steps)
    BY DEF Steps
  <2>2. Ordered(b3)
    BY DEF Ordered, JobSteps
  <2>3. Has(b3, "flag") /\ Has(b3, "unflag") /\ ~Has(b3, "new")
    BY DEF Has
  <2> QED BY <2>1, <2>2, <2>3 DEF Shaped, Inside
<1>5. Good(b4)
  <2>1. b4 \in Seq(Steps)
    BY DEF Steps
  <2>2. Ordered(b4)
    BY DEF Ordered, JobSteps
  <2>3. ~Has(b4, "flag") /\ ~Has(b4, "unflag") /\ ~Has(b4, "new")
    BY DEF Has
  <2> QED BY <2>1, <2>2, <2>3 DEF Shaped, Inside
<1> HIDE DEF b1, b2, b3, b4
<1>6. Good(Body(o))
  BY <1>1, <1>2, <1>3, <1>4, <1>5
<1> QED BY <1>6
-----------------------------------------------------------------------------
(***************************************************************************)
(* Steps that change what a thread has to do and neither begin nor end     *)
(* anything the invariant is about.                                        *)
(***************************************************************************)
\* r comes after s: in order, inside a job if s was, and with no job nor new object
\* that was not in s.
Keeps(s, r) ==
  /\ Shaped(r)
  /\ Inside(r) <=> Inside(s)
  /\ Has(r, "flag") => Has(s, "flag") /\ Head(s) # "enter"
  /\ Has(r, "new") => Has(s, "new")

LEMMA KeepsTail ==
  ASSUME NEW s, Shaped(s), s # <<>>, Head(s) \notin {"enter", "flag", "unflag"}
  PROVE  Keeps(s, Tail(s))
<1>1. s \in Seq(Steps)
  BY DEF Shaped
<1> QED BY <1>1, ShapedTail, HasTail DEF Keeps, Inside

LEMMA KeepsPush ==
  ASSUME NEW s, Shaped(s), s # <<>>, Head(s) \notin {"enter", "flag", "unflag"},
         NEW p \in Seq(Steps), Plain(p), Fits(p, Tail(s)), ~Has(p, "new")
  PROVE  Keeps(s, p \o Tail(s))
<1>1. s \in Seq(Steps) /\ Tail(s) \in Seq(Steps)
  BY TailOf DEF Shaped
<1>2. ~Has(p, "flag") /\ ~Has(p, "unflag")
  BY LenProperties DEF Has, Plain, Additions
<1>3. Shaped(p \o Tail(s))
  BY ShapedTail, ShapedConcat
<1> QED BY <1>1, <1>2, <1>3, HasConcat, HasTail DEF Keeps, Inside

LEMMA KeepsCaller ==
  ASSUME NEW s, ~Inside(s), NEW r \in Seq(CallerSteps)
  PROVE  Keeps(s, r)
BY CallerShaped DEF Keeps

\* After the flag is cleared, or the call returns, there is no more of the job.
LEMMA AfterEnd ==
  ASSUME NEW s, Shaped(s), s # <<>>, Head(s) \in {"unflag", "leave"}
  PROVE  ~Has(Tail(s), "flag") /\ ~Has(Tail(s), "unflag")
<1>1. s \in Seq(Steps)
  BY DEF Shaped
<1>2. DOMAIN Tail(s) = 1..Len(s)-1 /\ 1 \in 1..Len(s) /\ s[1] \in {"unflag", "leave"}
  BY <1>1, TailOf, LenProperties
<1>3. ASSUME NEW i \in 1..Len(s)-1 PROVE Tail(s)[i] \notin {"flag", "unflag"}
  <2>1. i+1 \in 1..Len(s) /\ 1 < i+1 /\ Tail(s)[i] = s[i+1]
    BY <1>1, TailOf
  <2> QED BY <1>2, <2>1 DEF Shaped, Ordered
<1> QED BY <1>2, <1>3 DEF Has

\* A step outside a job finds no job left to do unless it is part of one.
LEMMA Outside ==
  ASSUME NEW s, Shaped(s), s # <<>>, Head(s) \notin JobSteps
  PROVE  ~Has(s, "flag") /\ ~Has(s, "unflag") /\ ~Inside(s)
BY TailOf, LenProperties DEF Shaped, Ordered, Has, Inside
-----------------------------------------------------------------------------
(***************************************************************************)
(* Type correctness.                                                       *)
(***************************************************************************)
Jobs == [op : Operations \cup {None}, open : BOOLEAN, rtn : BOOLEAN]

\* A thread may be given any steps.
LEMMA TodoType ==
  ASSUME TypeOK, NEW t \in Threads, NEW s \in Seq(Steps), Goto(t, s)
  PROVE  todo' \in [Threads -> Seq(Steps)]
BY DEF TypeOK, Goto

LEMMA PopType ==
  ASSUME TypeOK, NEW t \in Threads, todo[t] # <<>>, Pop(t)
  PROVE  todo' \in [Threads -> Seq(Steps)]
<1>1. todo[t] \in Seq(Steps)
  BY DEF TypeOK
<1> QED BY <1>1, TailOf, TodoType DEF Pop

LEMMA PushType ==
  ASSUME TypeOK, NEW t \in Threads, todo[t] # <<>>, NEW p \in Seq(Steps), Push(t, p)
  PROVE  todo' \in [Threads -> Seq(Steps)]
<1>1. todo[t] \in Seq(Steps)
  BY DEF TypeOK
<1>2. p \o Tail(todo[t]) \in Seq(Steps)
  BY <1>1, TailOf, ConcatProperties
<1> QED BY <1>2, TodoType DEF Push

LEMMA CallerSteps_Steps ==
  \A s \in Seq(CallerSteps) : s \in Seq(Steps)
BY SeqMonotonic DEF CallerSteps, Steps

LEMMA BodySteps ==
  ASSUME NEW o PROVE Body(o) \in Seq(Steps)
BY BodyShaped DEF Shaped

LEMMA InitTypeOK == Init => TypeOK
<1> SUFFICES ASSUME Init PROVE TypeOK
  OBVIOUS
<1>1. todo \in [Threads -> Seq(Steps)]
  BY DEF Init
<1>2. job \in [Workers -> Jobs]
  BY DEF Init, NoJob, Jobs
<1> QED BY <1>1, <1>2, ObjectsAssumption DEF Init, TypeOK, None, Jobs

\* What a worker does.
LEMMA WorkerTypeOK ==
  ASSUME TypeOK, NEW t \in Workers, WorkerStep(t)
  PROVE  TypeOK'
<1> USE DEF handle, flags, window, ghost
<1>0. t \in Threads /\ job[t] \in Jobs /\ todo[t] \in Seq(Steps)
  BY DEF Threads, TypeOK, Jobs
<1>1. CASE Submit(t)
  <2>1. job' \in [Workers -> Jobs]
    BY <1>0, <1>1 DEF Submit, TypeOK, Jobs
  <2>2. todo' \in [Threads -> Seq(Steps)]
    <3>1. CASE MayOperate(t)
      BY <1>0, <1>1, <3>1, BodySteps, TodoType DEF Submit
    <3>2. CASE ~MayOperate(t)
      <4>1. Finish(job[t].op, job[t].open, FALSE) \in Seq(Steps)
        BY CallerSequences, CallerSteps_Steps
      <4> QED BY <1>0, <1>1, <3>2, <4>1, TodoType DEF Submit
    <3> QED BY <3>1, <3>2
  <2> QED BY <1>1, <2>1, <2>2 DEF Submit, TypeOK, Jobs
<1>2. CASE Enter(t)
  <2>1. job' \in [Workers -> Jobs]
    BY <1>0, <1>2 DEF Enter, TypeOK, Jobs
  <2>2. <<"leave">> \in Seq(Steps)
    BY DEF Steps
  <2>3. todo' \in [Threads -> Seq(Steps)]
    BY <1>0, <1>2, <2>2, TodoType, PopType DEF Enter, At
  <2>4. using' \in [Workers -> Objects \cup {0}]
    BY <1>2 DEF Enter, TypeOK
  <2> QED BY <1>2, <2>1, <2>3, <2>4 DEF Enter, TypeOK, Jobs
<1>3. CASE Prepare(t)
  <2>1. job' \in [Workers -> Jobs]
    <3>1. job \in [Workers -> Jobs]
      BY DEF TypeOK, Jobs
    <3>2. CASE UNCHANGED job
      BY <3>1, <3>2
    <3>3. CASE \E r \in BOOLEAN : job' = [job EXCEPT ![t].rtn = r]
      BY <1>0, <3>1, <3>3 DEF Jobs
    <3> QED BY <1>3, <3>2, <3>3 DEF Prepare
  <2>2. <<"leave">> \in Seq(Steps)
    BY DEF Steps
  <2>3. todo' \in [Threads -> Seq(Steps)]
    BY <1>0, <1>3, <2>2, TodoType, PopType DEF Prepare, At
  <2> QED BY <1>3, <2>1, <2>3 DEF Prepare, TypeOK, Jobs
<1>4. CASE SetThreadFlag(t)
  <2>1. todo' \in [Threads -> Seq(Steps)]
    BY <1>0, <1>4, PopType DEF SetThreadFlag, At
  <2>2. flagged' \subseteq Workers /\ raced' \subseteq Workers
    BY <1>4 DEF SetThreadFlag, TypeOK, Pending
  <2> QED BY <1>4, <2>1, <2>2 DEF SetThreadFlag, TypeOK
<1>5. CASE Work(t)
  <2>1. job' \in [Workers -> Jobs]
    BY <1>0, <1>5 DEF Work, TypeOK, Jobs
  <2>2. <<>> \in Seq(Steps) /\ <<"log">> \in Seq(Steps)
    BY DEF Steps
  <2>3. todo' \in [Threads -> Seq(Steps)]
    BY <1>0, <1>5, <2>2, PushType DEF Work, At, Push
  <2>4. errMessageNo' \in {"ok", "canceled"}
    BY <1>5 DEF Work, TypeOK
  <2> QED BY <1>5, <2>1, <2>3, <2>4 DEF Work, TypeOK, Jobs
<1>6. CASE ReturnFromRebuild(t)
  <2>1. job' \in [Workers -> Jobs]
    BY <1>0, <1>6 DEF ReturnFromRebuild, TypeOK, Jobs
  <2>2. <<"leave">> \in Seq(Steps)
    BY DEF Steps
  <2>3. todo' \in [Threads -> Seq(Steps)]
    BY <1>0, <1>6, <2>2, TodoType DEF ReturnFromRebuild
  <2> QED BY <1>6, <2>1, <2>3 DEF ReturnFromRebuild, TypeOK, Jobs
<1>7. CASE ClearThreadFlag(t)
  <2>1. todo' \in [Threads -> Seq(Steps)]
    BY <1>0, <1>7, PopType DEF ClearThreadFlag, At
  <2> QED BY <1>7, <2>1 DEF ClearThreadFlag, TypeOK
<1>8. CASE Leave(t)
  <2>1. Finish(job[t].op, job[t].open, job[t].rtn) \in Seq(Steps)
    BY CallerSequences, CallerSteps_Steps
  <2>2. todo' \in [Threads -> Seq(Steps)]
    BY <1>0, <1>8, <2>1, TodoType DEF Leave
  <2>3. using' \in [Workers -> Objects \cup {0}]
    BY <1>8 DEF Leave, TypeOK
  <2> QED BY <1>8, <2>2, <2>3 DEF Leave, TypeOK
<1>9. CASE CloseAfterJob(t)
  <2>1. job' \in [Workers -> Jobs]
    BY <1>9 DEF CloseAfterJob, TypeOK, Jobs, NoJob
  <2>2. <<"WM_CLOSE">> \in Seq(Steps)
    BY DEF Steps
  <2>3. todo' \in [Threads -> Seq(Steps)]
    BY <1>0, <1>9, <2>2, PopType, PushType DEF CloseAfterJob, At
  <2>4. bGoingToExit' \in BOOLEAN
    BY <1>9 DEF CloseAfterJob, TypeOK
  <2> QED BY <1>9, <2>1, <2>3, <2>4 DEF CloseAfterJob, TypeOK, Jobs
<1>10. CASE SetVersion(t)
  <2>1. /\ <<>> \in Seq(Steps) /\ <<"pck_close">> \in Seq(Steps)
        /\ Tail(todo[t]) \in Seq(Steps)
    BY <1>0, <1>10, TailOf DEF Steps, SetVersion, At
  <2>2. todo' \in [Threads -> Seq(Steps)]
    BY <1>0, <1>10, <2>1, TodoType DEF SetVersion
  <2> QED BY <1>10, <2>2 DEF SetVersion, TypeOK
<1>11. CASE LogByWorker(t)
  <2>1. <<"logging">> \in Seq(Steps)
    BY DEF Steps
  <2>2. todo' \in [Threads -> Seq(Steps)]
    BY <1>0, <1>11, <2>1, PushType DEF LogByWorker, At
  <2> QED BY <1>11, <2>2 DEF LogByWorker, TypeOK
<1> QED BY <1>1, <1>2, <1>3, <1>4, <1>5, <1>6, <1>7, <1>8, <1>9, <1>10, <1>11
        DEF WorkerStep

LEMMA DeliveryTypeOK ==
  ASSUME TypeOK, NEW t \in Workers, Delivery(t)
  PROVE  TypeOK'
<1> USE DEF handle, flags, window, ghost
<1>0. t \in Threads
  BY DEF Threads
<1>1. CASE LogDelivered(t)
  <2>1. todo' \in [Threads -> Seq(Steps)]
    BY <1>0, <1>1, PopType DEF LogDelivered, At
  <2> QED BY <1>1, <2>1 DEF LogDelivered, TypeOK
<1>2. CASE Sent(t)
  <2>1. todo' \in [Threads -> Seq(Steps)]
    BY <1>0, <1>2, PopType DEF Sent, At
  <2> QED BY <1>2, <2>1 DEF Sent, TypeOK
<1>3. CASE CloseMessage(t)
  <2>1. <<"answer">> \in Seq(Steps)
    BY DEF Steps
  <2>2. todo' \in [Threads -> Seq(Steps)]
    BY <1>0, <1>3, <2>1, PushType DEF CloseMessage, At
  <2> QED BY <1>3, <2>2 DEF CloseMessage, EvClose, TypeOK
<1>4. CASE Answered(t)
  <2>1. todo' \in [Threads -> Seq(Steps)]
    BY <1>0, <1>4, PopType DEF Answered, At
  <2> QED BY <1>4, <2>1 DEF Answered, TypeOK
<1> QED BY <1>1, <1>2, <1>3, <1>4 DEF Delivery

\* Opening and closing.
LEMMA RefusedType ==
  ASSUME TypeOK, NEW t \in Threads, todo[t] # <<>>, Refused(t)
  PROVE  todo' \in [Threads -> Seq(Steps)]
<1>1. Tail(todo[t]) \in Seq(Steps) /\ <<>> \in Seq(Steps) /\ <<"pck_close">> \in Seq(Steps)
  BY TailOf DEF TypeOK, Steps
<1>2. /\ <<"pck_close">> \o <<>> \in Seq(Steps)
      /\ <<"pck_close">> \o Tail(todo[t]) \in Seq(Steps)
  BY <1>1, ConcatProperties
<1> QED BY <1>2, TodoType DEF Refused

LEMMA HandleTypeOK ==
  ASSUME TypeOK, NEW t \in Threads, HandleStep(t)
  PROVE  TypeOK'
<1> USE DEF handle, flags, window, ghost
<1>1. CASE PckOpen(t)
  <2>1. <<"close", "new", "log", "init">> \in Seq(Steps)
    BY DEF Steps
  <2>2. todo' \in [Threads -> Seq(Steps)]
    BY <1>1, <2>1, RefusedType, PushType DEF PckOpen, At
  <2> QED BY <1>1, <2>2 DEF PckOpen, TypeOK
<1>2. CASE PckClose(t)
  <2>1. <<"wait">> \o <<"recheck">> \in Seq(Steps) /\ <<>> \o <<"recheck">> \in Seq(Steps)
    BY ConcatProperties DEF Steps
  <2>2. todo' \in [Threads -> Seq(Steps)]
    BY <1>2, <2>1, PushType DEF PckClose, At
  <2> QED BY <1>2, <2>2 DEF PckClose, TypeOK
<1>3. CASE Wait(t)
  <2>1. todo' \in [Threads -> Seq(Steps)]
    BY <1>3, PopType DEF Wait, At
  <2> QED BY <1>3, <2>1 DEF Wait, TypeOK
<1>4. CASE Recheck(t)
  <2>1. <<"close", "new">> \in Seq(Steps)
    BY DEF Steps
  <2>2. todo' \in [Threads -> Seq(Steps)]
    BY <1>4, <2>1, PopType, PushType DEF Recheck, At
  <2> QED BY <1>4, <2>2 DEF Recheck, TypeOK
<1>5. CASE Close(t)
  <2>1. <<"log">> \o <<"delete">> \in Seq(Steps) /\ <<>> \o <<"delete">> \in Seq(Steps)
    BY ConcatProperties DEF Steps
  <2>2. todo' \in [Threads -> Seq(Steps)]
    BY <1>5, <2>1, PushType DEF Close, At
  <2> QED BY <1>5, <2>2 DEF Close, TypeOK
<1>6. CASE Delete(t)
  <2>1. <<>> \in Seq(Steps) /\ <<"send">> \in Seq(Steps)
    BY DEF Steps
  <2>2. todo' \in [Threads -> Seq(Steps)]
    BY <1>6, <2>1, PushType DEF Delete, At
  <2>3. raced' \subseteq Workers
    BY <1>6 DEF Delete, TypeOK, Pending
  <2> QED BY <1>6, <2>2, <2>3 DEF Delete, TypeOK
<1>7. CASE New(t)
  <2>1. todo' \in [Threads -> Seq(Steps)]
    BY <1>7, PopType DEF New, At
  <2>2. raced' \subseteq Workers
    BY <1>7 DEF New, TypeOK, Pending
  <2>3. m_lpClassPck' \in Objects
    BY <1>7 DEF New
  <2> QED BY <1>7, <2>1, <2>2, <2>3 DEF New, TypeOK
<1>8. CASE InitArchive(t)
  <2>1. todo' \in [Threads -> Seq(Steps)]
    BY <1>8, PopType, RefusedType DEF InitArchive, At
  <2>2. isPckFileLoaded' \in BOOLEAN /\ (isPckFileLoaded' => m_lpClassPck # 0)
    BY <1>8 DEF InitArchive
  <2> QED BY <1>8, <2>1, <2>2 DEF InitArchive, TypeOK
<1> QED BY <1>1, <1>2, <1>3, <1>4, <1>5, <1>6, <1>7, <1>8 DEF HandleStep

LEMMA UserTypeOK ==
  ASSUME TypeOK, LogByWindow \/ Answer \/ UserStep
  PROVE  TypeOK'
<1> USE DEF handle, flags, window, ghost
<1>0. /\ Window \in Threads
      /\ <<"pck_open">> \in Seq(Steps) /\ <<"pck_close">> \in Seq(Steps)
  BY DEF Threads, Steps
<1>1. CASE LogByWindow
  <2>1. todo' \in [Threads -> Seq(Steps)]
    BY <1>0, <1>1, PopType DEF LogByWindow, At
  <2> QED BY <1>1, <2>1 DEF LogByWindow, TypeOK
<1>2. CASE Answer
  BY <1>2 DEF Answer, TypeOK
<1>3. CASE Open
  <2>1. todo' \in [Threads -> Seq(Steps)]
    BY <1>0, <1>3, TodoType DEF Open
  <2> QED BY <1>3, <2>1 DEF Open, TypeOK
<1>4. CASE MenuClose
  <2>1. todo' \in [Threads -> Seq(Steps)]
    BY <1>0, <1>4, TodoType DEF MenuClose
  <2> QED BY <1>4, <2>1 DEF MenuClose, TypeOK
<1>5. CASE MenuCancelPckOper
  BY <1>5 DEF MenuCancelPckOper, TypeOK
<1>6. CASE Exit
  BY <1>6 DEF Exit, EvClose, TypeOK
<1>7. ASSUME NEW t \in Workers, NEW o \in Operations, Start(t, o) PROVE TypeOK'
  <2>1. Begin(o, isPckFileLoaded) \in Seq(Steps)
    BY CallerSequences, CallerSteps_Steps
  <2>2. todo' \in [Threads -> Seq(Steps)]
    BY <1>7, <2>1, TodoType DEF Start, Threads
  <2>3. job' \in [Workers -> Jobs]
    BY <1>7 DEF Start, TypeOK, Jobs
  <2> QED BY <1>7, <2>2, <2>3 DEF Start, TypeOK, Jobs
<1> QED BY <1>1, <1>2, <1>3, <1>4, <1>5, <1>6, <1>7 DEF UserStep

LEMMA StepTypeOK == TypeOK /\ [Next]_vars => TypeOK'
<1> SUFFICES ASSUME TypeOK, [Next]_vars PROVE TypeOK'
  OBVIOUS
<1>1. CASE UNCHANGED vars
  BY <1>1 DEF vars, handle, flags, window, ghost, TypeOK
<1>2. CASE Next
  BY <1>2, WorkerTypeOK, DeliveryTypeOK, HandleTypeOK, UserTypeOK DEF Next
<1> QED BY <1>1, <1>2

\* Every variable keeps its type, whatever threads there are.
THEOREM TypeCorrect == Spec => []TypeOK
<1>1. Init => TypeOK
  BY InitTypeOK
<1>2. TypeOK /\ [Next]_vars => TypeOK'
  BY StepTypeOK
<1> QED BY <1>1, <1>2, PTL DEF Spec
-----------------------------------------------------------------------------
(***************************************************************************)
(* The invariant is inductive.                                             *)
(***************************************************************************)
\* Additions that neither close an archive nor bring a new object.
Harmless == Additions \ {"close", "delete", "new"}

LEMMA KeepsOutside ==
  ASSUME NEW s, Shaped(s), s # <<>>, Head(s) \notin JobSteps, NEW p \in Seq(Harmless)
  PROVE  Keeps(s, p \o Tail(s))
<1>1. \A i \in 1..Len(p) : p[i] \in Harmless
  BY ElementOfSeq
<1>2. p \in Seq(Steps) /\ DOMAIN p = 1..Len(p)
  BY SeqMonotonic, LenProperties DEF Harmless, Additions
<1>3. s \in Seq(Steps) /\ Tail(s) \in Seq(Steps)
  BY TailOf DEF Shaped
<1>4. ~Has(Tail(s), "unflag")
  BY <1>3, Outside, HasTail
<1>5. Plain(p) /\ Fits(p, Tail(s)) /\ ~Has(p, "new")
  BY <1>1, <1>2, <1>4 DEF Plain, Fits, Has, Harmless
<1>6. Head(s) \notin {"enter", "flag", "unflag"}
  BY DEF JobSteps
<1> QED BY <1>2, <1>5, <1>6, KeepsPush

\* A step that leaves flags, objects and marks alone, and brings nobody past a test
\* while the flag is set.
LEMMA SafeKept ==
  ASSUME SafeInv, TypeOK,
         UNCHANGED <<m_lpClassPck, bThreadRunning, using, flagged, abandoned, raced>>,
         \A u \in Pending' : u \in Pending \/ ~bThreadRunning,
         \A u \in Pending' : Head(todo'[u]) # "enter" =>
                               u \in Pending /\ Head(todo[u]) # "enter",
         Closing' # {} => Closing # {} \/ ~bThreadRunning,
         quit' => quit \/ ~bThreadRunning
  PROVE  SafeInv'
<1>1. ~bThreadRunning => flagged \subseteq raced
  BY DEF SafeInv, JobIsProtected
<1>2. FlagHasOwner' /\ JobsExclusive' /\ JobIsProtected' /\ Together'
  BY DEF SafeInv, FlagHasOwner, JobsExclusive, JobIsProtected, Together
<1>3. QuitSparesJobs' /\ ClosingAlone'
  BY <1>1 DEF SafeInv, QuitSparesJobs, ClosingAlone
<1>4. PendingAlone'
  BY <1>1 DEF SafeInv, PendingAlone
<1>5. RightObject'
  BY DEF SafeInv, RightObject
<1> QED BY <1>2, <1>3, <1>4, <1>5 DEF SafeInv

\* What one thread has to do changes.
LEMMA TodoOf ==
  ASSUME TypeOK, NEW t \in Threads, NEW r, Goto(t, r)
  PROVE  todo'[t] = r /\ \A u \in Threads : u # t => todo'[u] = todo[u]
BY DEF Goto, TypeOK

LEMMA PendingOf ==
  /\ Pending' = {u \in Workers : Has(todo'[u], "flag")}
  /\ Closing' = {u \in Threads : Has(todo'[u], "new")}
BY DEF Pending, Closing, Has

LEMMA ShapeStep ==
  ASSUME ShapeInv, TypeOK, NEW t \in Threads, NEW r, Shaped(r), Goto(t, r),
         \A u \in Workers : u # t => (u \in flagged' <=> u \in flagged),
         t \in Workers => (t \in flagged' <=> Inside(r))
  PROVE  ShapeInv'
<1>1. \A u \in Threads : Shaped(todo'[u])
  BY TodoOf DEF ShapeInv
<1>2. \A u \in Workers : u \in flagged' <=> Inside(todo'[u])
  BY TodoOf DEF ShapeInv, Threads
<1> QED BY <1>1, <1>2 DEF ShapeInv, Shaped, Ordered, Inside, Has

LEMMA QuietStep ==
  ASSUME IInv, TypeOK', NEW t \in Threads, NEW r, Goto(t, r), Keeps(todo[t], r),
         UNCHANGED <<m_lpClassPck, bThreadRunning, using, flagged, abandoned, raced>>,
         quit' => quit \/ ~bThreadRunning
  PROVE  IInv'
<1>1. ShapeInv'
  BY ShapeStep DEF IInv, ShapeInv, Keeps
<1>2. \A u \in Pending' :
        u \in Pending /\ (Head(todo'[u]) # "enter" => Head(todo[u]) # "enter")
  BY TodoOf, PendingOf DEF IInv, Keeps, Pending, Threads
<1>3. Closing' \subseteq Closing
  BY TodoOf, PendingOf DEF IInv, Keeps, Closing
<1>4. SafeInv'
  BY <1>2, <1>3, SafeKept DEF IInv
<1> QED BY <1>1, <1>4 DEF IInv

LEMMA QuietPop ==
  ASSUME IInv, TypeOK', NEW t \in Threads, todo[t] # <<>>,
         Head(todo[t]) \notin {"enter", "flag", "unflag"}, Pop(t),
         UNCHANGED <<m_lpClassPck, bThreadRunning, using, flagged, abandoned, raced, quit>>
  PROVE  IInv'
BY QuietStep, KeepsTail DEF Pop, IInv, ShapeInv

LEMMA QuietPush ==
  ASSUME IInv, TypeOK', NEW t \in Threads, todo[t] # <<>>,
         Head(todo[t]) \notin JobSteps, NEW p \in Seq(Harmless), Push(t, p),
         UNCHANGED <<m_lpClassPck, bThreadRunning, using, flagged, abandoned, raced>>,
         quit' => quit \/ ~bThreadRunning
  PROVE  IInv'
BY QuietStep, KeepsOutside DEF Push, IInv, ShapeInv

LEMMA QuietRefused ==
  ASSUME IInv, TypeOK', NEW t \in Threads, todo[t] # <<>>,
         Head(todo[t]) \notin JobSteps, Refused(t),
         UNCHANGED <<m_lpClassPck, bThreadRunning, using, flagged, abandoned, raced, quit>>
  PROVE  IInv'
<1>1. <<"pck_close">> \in Seq(Harmless)
  BY DEF Harmless, Additions, Steps
<1>2. <<"pck_close">> \o <<>> \in Seq(CallerSteps)
  BY DEF CallerSteps
<1>3. CASE Has(todo[t], "submit")
  <2>1. Goto(t, <<"pck_close">> \o <<>>)
    BY <1>3 DEF Refused
  <2>2. ~Inside(todo[t])
    BY Outside DEF IInv, ShapeInv
  <2> QED BY <1>2, <2>1, <2>2, KeepsCaller, QuietStep
<1>4. CASE ~Has(todo[t], "submit")
  BY <1>1, <1>4, QuietPush DEF Refused, Push
<1> QED BY <1>3, <1>4

LEMMA QuietUser ==
  ASSUME IInv, TypeOK', UNCHANGED todo,
         UNCHANGED <<m_lpClassPck, bThreadRunning, using, flagged, abandoned, raced>>,
         quit' => quit \/ ~bThreadRunning
  PROVE  IInv'
<1>1. ShapeInv'
  BY DEF IInv, ShapeInv
<1>2. Pending' = Pending /\ Closing' = Closing
  BY DEF Pending, Closing
<1>3. SafeInv'
  <2>1. \A u \in Pending' : Head(todo'[u]) # "enter" => Head(todo[u]) # "enter"
    OBVIOUS
  <2> QED BY <1>2, <2>1, SafeKept DEF IInv
<1> QED BY <1>1, <1>3 DEF IInv

LEMMA InitInv == Init => IInv
<1> SUFFICES ASSUME Init PROVE IInv
  OBVIOUS
<1>1. \A t \in Threads : todo[t] = <<>>
  BY DEF Init
<1>2. Shaped(<<>>) /\ \A x : ~Has(<<>>, x)
  BY DEF Shaped, Ordered, Has
<1>3. ShapeInv
  BY <1>1, <1>2 DEF ShapeInv, Inside, Init, Threads
<1>4. SafeInv
  BY <1>1, <1>2 DEF Init, SafeInv, FlagHasOwner, JobIsProtected, JobsExclusive,
     QuitSparesJobs, Together, PendingAlone, ClosingAlone, RightObject, Pending, Closing,
     Threads
<1> QED BY <1>3, <1>4, InitTypeOK DEF IInv

\* A worker that passes the test of the flag: nobody holds it who is not missed.
LEMMA SubmitInv ==
  ASSUME IInv, TypeOK', NEW t \in Workers, Submit(t)
  PROVE  IInv'
<1> USE DEF handle, flags, window, ghost
<1>0. t \in Threads /\ todo[t] # <<>> /\ Head(todo[t]) = "submit" /\ Shaped(todo[t])
  BY DEF Threads, Submit, At, IInv, ShapeInv
<1>1. ~Inside(todo[t]) /\ t \notin flagged
  BY <1>0, Outside DEF JobSteps, IInv, ShapeInv
<1>2. CASE MayOperate(t)
  <2>1. Goto(t, Body(job[t].op)) /\ ~bThreadRunning
    BY <1>2 DEF Submit, MayOperate
  <2>2. todo'[t] = Body(job[t].op) /\ \A u \in Threads : u # t => todo'[u] = todo[u]
    BY <1>0, <2>1, TodoOf DEF IInv
  <2>3. ShapeInv'
    BY <1>0, <1>1, <2>1, BodyShaped, ShapeStep DEF Submit, IInv
  <2>4. /\ Head(todo'[t]) = "enter"
        /\ \A u \in Pending' : u # t => u \in Pending /\ todo'[u] = todo[u]
    BY <2>2, BodyShaped, PendingOf DEF Pending, Threads
  <2>5. Closing' \subseteq Closing
    BY <2>2, BodyShaped, PendingOf DEF Closing
  <2>6. SafeInv'
    BY <2>1, <2>4, <2>5, SafeKept DEF Submit, IInv
  <2> QED BY <2>3, <2>6 DEF IInv
<1>3. CASE ~MayOperate(t)
  <2>1. Goto(t, Finish(job[t].op, job[t].open, FALSE))
    BY <1>3 DEF Submit
  <2> QED BY <1>0, <1>1, <2>1, CallerSequences, KeepsCaller, QuietStep DEF Submit
<1> QED BY <1>2, <1>3

\* From here on the worker is in the object that is the current one.
LEMMA EnterInv ==
  ASSUME IInv, TypeOK', NEW t \in Workers, Enter(t)
  PROVE  IInv'
<1> USE DEF handle, flags, window, ghost
<1>0. /\ t \in Threads /\ todo[t] # <<>> /\ Head(todo[t]) = "enter" /\ Shaped(todo[t])
      /\ todo[t] \in Seq(Steps)
  BY DEF Threads, Enter, At, IInv, ShapeInv, Shaped
<1>1. Has(todo[t], "enter")
  BY <1>0, HasTail
<1>2. ~Inside(todo[t]) /\ t \notin flagged
  BY <1>0, <1>1 DEF Shaped, Inside, IInv, ShapeInv
<1> DEFINE r == IF m_lpClassPck # 0 THEN Tail(todo[t]) ELSE <<"leave">>
<1>3. Goto(t, r)
  BY DEF Enter, Pop
<1>4. /\ Shaped(r) /\ ~Inside(r) /\ (Has(r, "flag") => Has(todo[t], "flag"))
      /\ (Has(r, "new") => Has(todo[t], "new"))
  <2>1. CASE m_lpClassPck # 0
    BY <1>0, <1>2, <2>1, ShapedTail, HasTail DEF Inside
  <2>2. CASE m_lpClassPck = 0
    <3>1. /\ Shaped(<<"leave">>) /\ ~Has(<<"leave">>, "flag") /\ ~Has(<<"leave">>, "new")
          /\ ~Has(<<"leave">>, "unflag")
      BY DEF Shaped, Ordered, Has, Steps
    <3> QED BY <2>2, <3>1 DEF Inside
  <2> QED BY <2>1, <2>2
<1> HIDE DEF r
<1>5. ShapeInv'
  BY <1>0, <1>2, <1>3, <1>4, ShapeStep DEF Enter, IInv
<1>6. todo'[t] = r /\ \A u \in Threads : u # t => todo'[u] = todo[u]
  BY <1>0, <1>3, TodoOf DEF IInv
<1>7. /\ \A u \in Pending' : u \in Pending /\ (u # t => todo'[u] = todo[u])
      /\ Closing' \subseteq Closing
  BY <1>4, <1>6, PendingOf DEF Pending, Closing, Threads
<1>8. using'[t] = m_lpClassPck /\ \A u \in Workers : u # t => using'[u] = using[u]
  BY DEF Enter, IInv, TypeOK
<1>9. UNCHANGED <<m_lpClassPck, bThreadRunning, flagged, abandoned, raced, quit>>
  BY DEF Enter
<1>10. FlagHasOwner' /\ JobsExclusive' /\ Together' /\ QuitSparesJobs'
  BY <1>9 DEF IInv, SafeInv, FlagHasOwner, JobsExclusive, Together, QuitSparesJobs
<1>11. JobIsProtected'
  BY <1>2, <1>8, <1>9 DEF IInv, SafeInv, JobIsProtected, TypeOK
<1>12. PendingAlone' /\ ClosingAlone'
  BY <1>7, <1>9 DEF IInv, SafeInv, PendingAlone, ClosingAlone
<1>13. RightObject'
  BY <1>7, <1>8, <1>9 DEF IInv, SafeInv, RightObject, Pending
<1> QED BY <1>5, <1>10, <1>11, <1>12, <1>13 DEF IInv, SafeInv

\* The job begins: a worker nobody missed has the flag for itself.
LEMMA SetThreadFlagInv ==
  ASSUME IInv, TypeOK', NEW t \in Workers, SetThreadFlag(t)
  PROVE  IInv'
<1> USE DEF handle, window
<1>0. /\ t \in Threads /\ todo[t] # <<>> /\ Head(todo[t]) = "flag" /\ Shaped(todo[t])
      /\ todo[t] \in Seq(Steps) /\ Goto(t, Tail(todo[t]))
  BY DEF Threads, SetThreadFlag, At, Pop, IInv, ShapeInv, Shaped
<1>1. Has(todo[t], "flag") /\ t \in Pending /\ t \notin flagged
  BY <1>0, HasTail DEF Pending, Inside, IInv, ShapeInv
<1>2. ~Has(Tail(todo[t]), "flag")
  BY <1>0, TailOf, LenProperties DEF Shaped, Ordered, Has
<1>3. Inside(Tail(todo[t])) /\ Shaped(Tail(todo[t]))
  BY <1>0, <1>1, <1>2, HasTail, ShapedTail DEF Shaped, Inside
<1>4. ShapeInv'
  BY <1>0, <1>3, ShapeStep DEF SetThreadFlag, IInv
<1>5. todo'[t] = Tail(todo[t]) /\ \A u \in Threads : u # t => todo'[u] = todo[u]
  BY <1>0, TodoOf DEF IInv
<1>6. Pending' \subseteq Pending \ {t}
  BY <1>2, <1>5, PendingOf DEF Pending, Threads
<1>7. Closing' # {} => Closing # {}
  BY <1>0, <1>5, HasTail, PendingOf DEF Closing
<1>8. /\ flagged' = flagged \cup {t} /\ bThreadRunning' = TRUE
      /\ Pending \ {t} \subseteq raced' /\ raced \subseteq raced'
      /\ Closing # {} \/ t \in raced \/ flagged \cap raced # {} => flagged' \subseteq raced'
      /\ UNCHANGED <<m_lpClassPck, using, quit>>
  BY DEF SetThreadFlag
<1>9. flagged \cap Pending = {}
  BY DEF IInv, TypeOK, ShapeInv, Inside, Pending
<1>10. t \notin raced => flagged \subseteq raced
  BY <1>1 DEF IInv, SafeInv, PendingAlone
<1>11. FlagHasOwner' /\ QuitSparesJobs'
  <2>1. ~quit
    BY DEF SetThreadFlag, At
  <2> QED BY <1>8, <2>1 DEF FlagHasOwner, QuitSparesJobs
<1>12. JobsExclusive'
  BY <1>8, <1>10 DEF JobsExclusive
<1>13. Together'
  <2>1. CASE Closing # {} \/ t \in raced \/ flagged \cap raced # {}
    BY <1>8, <2>1 DEF Together
  <2>2. CASE ~(Closing # {} \/ t \in raced \/ flagged \cap raced # {})
    <3>1. flagged = {}
      BY <1>10, <2>2
    <3> QED BY <1>8, <3>1 DEF Together
  <2> QED BY <2>1, <2>2
<1>14. JobIsProtected'
  <2>1. t \notin raced' => using[t] = m_lpClassPck
    BY <1>0, <1>1, <1>8 DEF IInv, SafeInv, RightObject
  <2> QED BY <1>8, <2>1 DEF IInv, SafeInv, JobIsProtected
<1>15. PendingAlone' /\ RightObject'
  BY <1>6, <1>8 DEF PendingAlone, RightObject
<1>16. ClosingAlone'
  BY <1>7, <1>8 DEF ClosingAlone
<1> QED BY <1>4, <1>11, <1>12, <1>13, <1>14, <1>15, <1>16 DEF IInv, SafeInv

\* The job ends: it clears its own flag, or one nobody relies on.
LEMMA ClearThreadFlagInv ==
  ASSUME IInv, TypeOK', NEW t \in Workers, ClearThreadFlag(t)
  PROVE  IInv'
<1> USE DEF handle, window
<1>0. /\ t \in Threads /\ todo[t] # <<>> /\ Head(todo[t]) = "unflag" /\ Shaped(todo[t])
      /\ todo[t] \in Seq(Steps) /\ Goto(t, Tail(todo[t]))
  BY DEF Threads, ClearThreadFlag, At, Pop, IInv, ShapeInv, Shaped
<1>1. ~Has(Tail(todo[t]), "flag") /\ ~Has(Tail(todo[t]), "unflag")
  BY <1>0, AfterEnd
<1>2. Has(todo[t], "unflag") /\ ~Has(todo[t], "flag") /\ t \in flagged
  BY <1>0, <1>1, HasTail DEF Inside, IInv, ShapeInv
<1>3. Shaped(Tail(todo[t])) /\ ~Inside(Tail(todo[t]))
  BY <1>0, <1>1, ShapedTail DEF Inside
<1>4. ShapeInv'
  BY <1>0, <1>3, ShapeStep DEF ClearThreadFlag, IInv
<1>5. todo'[t] = Tail(todo[t]) /\ \A u \in Threads : u # t => todo'[u] = todo[u]
  BY <1>0, TodoOf DEF IInv
<1>6. /\ \A u \in Pending' : u \in Pending /\ todo'[u] = todo[u]
      /\ (Closing' # {} => Closing # {})
  BY <1>0, <1>1, <1>5, HasTail, PendingOf DEF Pending, Closing, Threads
<1>7. /\ flagged' = flagged \ {t} /\ bThreadRunning' = FALSE
      /\ UNCHANGED <<m_lpClassPck, using, raced, quit>>
  BY DEF ClearThreadFlag
<1>8. flagged' \subseteq raced'
  <2>1. CASE t \in raced
    BY <1>2, <1>7, <2>1 DEF IInv, SafeInv, Together
  <2>2. CASE t \notin raced
    BY <1>2, <1>7, <2>2 DEF IInv, SafeInv, JobsExclusive
  <2> QED BY <2>1, <2>2
<1>9. RightObject'
  BY <1>6, <1>7 DEF IInv, SafeInv, RightObject
<1>10. /\ FlagHasOwner' /\ JobIsProtected' /\ JobsExclusive' /\ QuitSparesJobs'
       /\ Together' /\ PendingAlone' /\ ClosingAlone'
  BY <1>7, <1>8 DEF FlagHasOwner, JobIsProtected, JobsExclusive, QuitSparesJobs,
     Together, PendingAlone, ClosingAlone
<1> QED BY <1>4, <1>9, <1>10 DEF IInv, SafeInv

\* A rebuild that returns with the flag set.
LEMMA ReturnFromRebuildInv ==
  ASSUME IInv, TypeOK', NEW t \in Workers, ReturnFromRebuild(t)
  PROVE  IInv'
<1> USE DEF handle, flags, window
<1>0. t \in Threads /\ Goto(t, <<"leave">>)
  BY DEF Threads, ReturnFromRebuild
<1>1. /\ Shaped(<<"leave">>) /\ ~Inside(<<"leave">>)
      /\ ~Has(<<"leave">>, "flag") /\ ~Has(<<"leave">>, "new")
  BY DEF Shaped, Ordered, Inside, Has, Steps
<1>2. ShapeInv'
  BY <1>0, <1>1, ShapeStep DEF ReturnFromRebuild, IInv
<1>3. todo'[t] = <<"leave">> /\ \A u \in Threads : u # t => todo'[u] = todo[u]
  BY <1>0, TodoOf DEF IInv
<1>4. /\ \A u \in Pending' : u \in Pending /\ todo'[u] = todo[u]
      /\ (Closing' # {} => Closing # {})
  BY <1>1, <1>3, PendingOf DEF Pending, Closing, Threads
<1>5. /\ flagged' = flagged \ {t} /\ abandoned' = TRUE
      /\ UNCHANGED <<m_lpClassPck, bThreadRunning, using, raced, quit>>
  BY DEF ReturnFromRebuild
<1>6. FlagHasOwner' /\ QuitSparesJobs' /\ Together' /\ JobsExclusive'
  BY <1>5 DEF IInv, SafeInv, FlagHasOwner, QuitSparesJobs, Together, JobsExclusive
<1>7. JobIsProtected'
  BY <1>5 DEF IInv, SafeInv, JobIsProtected
<1>8. PendingAlone' /\ ClosingAlone'
  BY <1>4, <1>5 DEF IInv, SafeInv, PendingAlone, ClosingAlone
<1>9. RightObject'
  BY <1>4, <1>5 DEF IInv, SafeInv, RightObject
<1> QED BY <1>2, <1>6, <1>7, <1>8, <1>9 DEF IInv, SafeInv

\* The call returns: the worker is in no job, and in no object.
LEMMA LeaveInv ==
  ASSUME IInv, TypeOK', NEW t \in Workers, Leave(t)
  PROVE  IInv'
<1> USE DEF handle, flags, window
<1> DEFINE r == Finish(job[t].op, job[t].open, job[t].rtn)
<1>0. /\ t \in Threads /\ todo[t] # <<>> /\ Head(todo[t]) = "leave" /\ Shaped(todo[t])
      /\ todo[t] \in Seq(Steps) /\ Goto(t, r)
  BY DEF Threads, Leave, At, IInv, ShapeInv, Shaped
<1>1. Shaped(r) /\ ~Inside(r) /\ ~Has(r, "flag") /\ ~Has(r, "new")
  BY CallerSequences, CallerShaped
<1> HIDE DEF r
<1>2. t \notin flagged
  <2>1. ~Has(Tail(todo[t]), "unflag")
    BY <1>0, AfterEnd
  <2>2. ~Inside(todo[t])
    BY <1>0, <2>1, HasTail DEF Inside
  <2> QED BY <2>2 DEF IInv, ShapeInv
<1>3. ShapeInv'
  BY <1>0, <1>1, ShapeStep DEF Leave, IInv
<1>4. todo'[t] = r /\ \A u \in Threads : u # t => todo'[u] = todo[u]
  BY <1>0, TodoOf DEF IInv
<1>5. /\ \A u \in Pending' : u # t /\ u \in Pending /\ todo'[u] = todo[u]
      /\ (Closing' # {} => Closing # {})
  BY <1>1, <1>4, PendingOf DEF Pending, Closing, Threads
<1>6. /\ flagged' = flagged /\ raced' = raced \ {t}
      /\ \A u \in Workers : u # t => using'[u] = using[u]
      /\ UNCHANGED <<m_lpClassPck, bThreadRunning, abandoned, quit>>
  BY <1>2 DEF Leave, IInv, TypeOK
<1>7. FlagHasOwner' /\ QuitSparesJobs' /\ Together' /\ JobsExclusive'
  BY <1>2, <1>6 DEF IInv, SafeInv, FlagHasOwner, QuitSparesJobs, Together, JobsExclusive
<1>8. JobIsProtected'
  BY <1>2, <1>6 DEF IInv, SafeInv, JobIsProtected, TypeOK
<1>9. PendingAlone' /\ ClosingAlone'
  BY <1>2, <1>5, <1>6 DEF IInv, SafeInv, PendingAlone, ClosingAlone
<1>10. RightObject'
  BY <1>5, <1>6 DEF IInv, SafeInv, RightObject, Pending
<1> QED BY <1>3, <1>7, <1>8, <1>9, <1>10 DEF IInv, SafeInv

\* The other steps of a worker begin and end nothing.
LEMMA WorkerInv ==
  ASSUME IInv, TypeOK', NEW t \in Workers, WorkerStep(t)
  PROVE  IInv'
<1> USE DEF handle, flags, window, ghost
<1>0. t \in Threads /\ Shaped(todo[t])
  BY DEF Threads, IInv, ShapeInv
<1>1. CASE Prepare(t)
  <2>0. /\ todo[t] # <<>> /\ Head(todo[t]) = "prepare"
        /\ Head(todo[t]) \notin {"enter", "flag", "unflag"}
    BY <1>1 DEF Prepare, At
  <2>1. ~Inside(todo[t])
    BY <1>0, <2>0, HasTail DEF Shaped, Inside
  <2>2. /\ Shaped(<<"leave">>) /\ ~Inside(<<"leave">>)
        /\ ~Has(<<"leave">>, "flag") /\ ~Has(<<"leave">>, "new")
    BY DEF Shaped, Ordered, Inside, Has, Steps
  <2>3. CASE Pop(t)
    BY <1>0, <1>1, <2>0, <2>3, QuietPop DEF Prepare
  <2>4. CASE Goto(t, <<"leave">>)
    BY <1>0, <1>1, <2>1, <2>2, <2>4, QuietStep DEF Prepare, Keeps
  <2> QED BY <1>1, <2>3, <2>4 DEF Prepare
<1>2. CASE Work(t)
  <2>0. /\ todo[t] # <<>> /\ Head(todo[t]) = "work"
        /\ Head(todo[t]) \notin {"enter", "flag", "unflag"}
    BY <1>2 DEF Work, At
  <2>1. CASE Goto(t, <<>> \o Tail(todo[t]))
    <3>1. <<>> \o Tail(todo[t]) = Tail(todo[t])
      BY <1>0, <2>0, TailOf, ConcatEmptySeq DEF Shaped
    <3> QED BY <1>0, <1>2, <2>0, <2>1, <3>1, QuietPop DEF Work, Pop
  <2>2. CASE Goto(t, <<"log">> \o Tail(todo[t]))
    <3>1. <<"log">> \in Seq(Steps) /\ ~Has(<<"log">>, "new")
      BY DEF Steps, Has
    <3>2. Plain(<<"log">>) /\ Fits(<<"log">>, Tail(todo[t]))
      BY DEF Plain, Fits, Additions, JobSteps, Steps
    <3>3. Keeps(todo[t], <<"log">> \o Tail(todo[t]))
      BY <1>0, <2>0, <3>1, <3>2, KeepsPush
    <3> QED BY <1>0, <1>2, <2>2, <3>3, QuietStep DEF Work
  <2> QED BY <1>2, <2>1, <2>2 DEF Work
<1>3. CASE CloseAfterJob(t)
  <2>0. /\ todo[t] # <<>> /\ Head(todo[t]) = "exit" /\ Head(todo[t]) \notin JobSteps
        /\ Head(todo[t]) \notin {"enter", "flag", "unflag"}
    BY <1>3 DEF CloseAfterJob, At, JobSteps
  <2>1. <<"WM_CLOSE">> \in Seq(Harmless)
    BY DEF Harmless, Additions, Steps
  <2>2. CASE Push(t, <<"WM_CLOSE">>)
    BY <1>0, <1>3, <2>0, <2>1, <2>2, QuietPush DEF CloseAfterJob
  <2>3. CASE Pop(t)
    BY <1>0, <1>3, <2>0, <2>3, QuietPop DEF CloseAfterJob
  <2> QED BY <1>3, <2>2, <2>3 DEF CloseAfterJob
<1>4. CASE SetVersion(t)
  <2>0. /\ todo[t] # <<>> /\ Head(todo[t]) = "pck_setVersion"
        /\ Head(todo[t]) \notin {"enter", "flag", "unflag"} /\ ~Inside(todo[t])
    BY <1>0, <1>4, Outside DEF SetVersion, At, JobSteps
  <2>1. <<>> \in Seq(CallerSteps) /\ <<"pck_close">> \in Seq(CallerSteps)
    BY DEF CallerSteps
  <2>2. \A r \in Seq(CallerSteps) : Keeps(todo[t], r)
    BY <2>0, KeepsCaller
  <2>3. Keeps(todo[t], Tail(todo[t]))
    BY <1>0, <2>0, KeepsTail
  <2> QED BY <1>0, <1>4, <2>1, <2>2, <2>3, QuietStep DEF SetVersion
<1>5. CASE LogByWorker(t)
  <2>0. /\ todo[t] # <<>> /\ Head(todo[t]) = "log"
        /\ Head(todo[t]) \notin {"enter", "flag", "unflag"}
    BY <1>5 DEF LogByWorker, At
  <2>1. <<"logging">> \in Seq(Steps) /\ ~Has(<<"logging">>, "new")
    BY DEF Steps, Has
  <2>2. Plain(<<"logging">>) /\ Fits(<<"logging">>, Tail(todo[t]))
    BY DEF Plain, Fits, Additions, JobSteps, Steps
  <2>3. Keeps(todo[t], <<"logging">> \o Tail(todo[t]))
    BY <1>0, <2>0, <2>1, <2>2, KeepsPush
  <2> QED BY <1>0, <1>5, <2>3, QuietStep DEF LogByWorker, Push
<1> QED BY <1>1, <1>2, <1>3, <1>4, <1>5, SubmitInv, EnterInv, SetThreadFlagInv,
           ClearThreadFlagInv, ReturnFromRebuildInv, LeaveInv DEF WorkerStep

LEMMA DeliveryInv ==
  ASSUME IInv, TypeOK', NEW t \in Workers, Delivery(t)
  PROVE  IInv'
<1> USE DEF handle, flags, window, ghost
<1>0. t \in Threads
  BY DEF Threads
<1>1. CASE LogDelivered(t)
  BY <1>0, <1>1, QuietPop DEF LogDelivered, At
<1>2. CASE Sent(t)
  BY <1>0, <1>2, QuietPop DEF Sent, At
<1>3. CASE CloseMessage(t)
  <2>1. <<"answer">> \in Seq(Harmless)
    BY DEF Harmless, Additions, Steps
  <2>2. todo[t] # <<>> /\ Head(todo[t]) \notin JobSteps
    BY <1>3 DEF CloseMessage, At, JobSteps
  <2>3. quit' => quit \/ ~bThreadRunning
    BY <1>3 DEF CloseMessage, EvClose
  <2> QED BY <1>0, <1>3, <2>1, <2>2, <2>3, QuietPush DEF CloseMessage
<1>4. CASE Answered(t)
  BY <1>0, <1>4, QuietPop DEF Answered, At
<1> QED BY <1>1, <1>2, <1>3, <1>4 DEF Delivery

\* A thread that goes on to close the archive: it saw that nobody holds the flag.
LEMMA ClosingInv ==
  ASSUME IInv, TypeOK', NEW t \in Threads, todo[t] # <<>>, Head(todo[t]) \notin JobSteps,
         NEW p \in {<<"close", "new", "log", "init">>, <<"close", "new">>}, Push(t, p),
         ~bThreadRunning,
         UNCHANGED <<m_lpClassPck, bThreadRunning, using, flagged, abandoned, raced, quit>>
  PROVE  IInv'
<1>1. p \in Seq(Steps)
  <2>1. /\ <<"close", "new", "log", "init">> \in Seq(Steps)
        /\ <<"close", "new">> \in Seq(Steps)
    BY DEF Steps
  <2> QED BY <2>1
<1>2. Shaped(todo[t]) /\ ~Inside(todo[t]) /\ todo[t] \in Seq(Steps)
  BY Outside DEF IInv, ShapeInv, Shaped
<1>3. /\ Tail(todo[t]) \in Seq(Steps) /\ ~Has(Tail(todo[t]), "unflag")
      /\ ~Has(Tail(todo[t]), "flag")
  BY <1>2, Outside, TailOf, HasTail
<1>4. ~Has(p, "flag") /\ ~Has(p, "unflag")
  BY DEF Has
<1>5. Plain(p) /\ Fits(p, Tail(todo[t]))
  <2>1. CASE p = <<"close", "new">>
    BY <1>3, <2>1 DEF Plain, Fits, Additions, Steps
  <2>2. CASE p = <<"close", "new", "log", "init">>
    BY <1>3, <2>2 DEF Plain, Fits, Additions, Steps
  <2> QED BY <2>1, <2>2
<1> DEFINE r == p \o Tail(todo[t])
<1>6. Shaped(r) /\ ~Has(r, "flag") /\ ~Inside(r)
  BY <1>1, <1>2, <1>3, <1>4, <1>5, ShapedTail, ShapedConcat, HasConcat DEF Inside
<1>7. Goto(t, r)
  BY DEF Push
<1> HIDE DEF r
<1>8. ShapeInv'
  BY <1>2, <1>6, <1>7, ShapeStep DEF IInv, ShapeInv
<1>9. todo'[t] = r /\ \A u \in Threads : u # t => todo'[u] = todo[u]
  BY <1>7, TodoOf DEF IInv
<1>10. \A u \in Pending' : u \in Pending /\ todo'[u] = todo[u]
  BY <1>6, <1>9, PendingOf DEF Pending, Threads
<1>11. SafeInv'
  BY <1>10, SafeKept DEF IInv
<1> QED BY <1>8, <1>11 DEF IInv

\* The object goes away, or a new one comes: the job of every worker that passed its
\* test is missed, and so is every job that holds the flag.
LEMMA DeleteInv ==
  ASSUME IInv, TypeOK', NEW t \in Threads, Delete(t)
  PROVE  IInv'
<1>0. /\ todo[t] # <<>> /\ Head(todo[t]) = "delete" /\ Head(todo[t]) \notin JobSteps
      /\ Shaped(todo[t]) /\ todo[t] \in Seq(Steps)
  BY DEF Delete, At, JobSteps, IInv, ShapeInv, Shaped
<1> DEFINE p == IF t = Window THEN <<>> ELSE <<"send">>
<1>1. p \in Seq(Harmless)
  <2>1. <<>> \in Seq(Harmless) /\ <<"send">> \in Seq(Harmless)
    BY DEF Harmless, Additions, Steps
  <2> QED BY <2>1
<1>2. Goto(t, p \o Tail(todo[t]))
  BY DEF Delete, Push
<1> HIDE DEF p
<1>3. Keeps(todo[t], p \o Tail(todo[t]))
  BY <1>0, <1>1, KeepsOutside
<1>4. ShapeInv'
  BY <1>2, <1>3, ShapeStep DEF Delete, Keeps, IInv, ShapeInv
<1>5. /\ \A u \in Pending' : u \in Pending
      /\ Closing' \subseteq Closing
  BY <1>2, <1>3, TodoOf, PendingOf DEF Keeps, IInv, Pending, Closing, Threads
<1>6. t \in Closing
  <2>1. 1 \in 1..Len(todo[t]) /\ todo[t][1] = "delete" /\ Len(todo[t]) \in Nat
    BY <1>0, TailOf
  <2>2. 1 < Len(todo[t]) /\ todo[t][2] = "new"
    BY <1>0, <2>1 DEF Shaped, Ordered
  <2>3. 2 \in DOMAIN todo[t]
    BY <1>0, <2>1, <2>2, LenProperties
  <2> QED BY <2>2, <2>3 DEF Closing, Has
<1>7. flagged \subseteq raced
  BY <1>6 DEF IInv, SafeInv, ClosingAlone
<1>8. /\ bThreadRunning' = FALSE /\ flagged' = flagged /\ raced' = raced \cup Pending
      /\ ~quit /\ quit' = quit
  BY DEF Delete, At, window
<1>9. SafeInv'
  BY <1>5, <1>7, <1>8 DEF SafeInv, FlagHasOwner, JobIsProtected, JobsExclusive,
     QuitSparesJobs, Together, PendingAlone, ClosingAlone, RightObject
<1> QED BY <1>4, <1>9 DEF IInv

LEMMA NewInv ==
  ASSUME IInv, TypeOK', NEW t \in Threads, New(t)
  PROVE  IInv'
<1>0. /\ todo[t] # <<>> /\ Head(todo[t]) = "new"
      /\ Head(todo[t]) \notin {"enter", "flag", "unflag"}
      /\ Shaped(todo[t]) /\ todo[t] \in Seq(Steps) /\ Goto(t, Tail(todo[t]))
  BY DEF New, At, Pop, IInv, ShapeInv, Shaped
<1>1. Keeps(todo[t], Tail(todo[t]))
  BY <1>0, KeepsTail
<1>2. ShapeInv'
  BY <1>0, <1>1, ShapeStep DEF New, Keeps, IInv, ShapeInv
<1>3. /\ \A u \in Pending' : u \in Pending
      /\ Closing' \subseteq Closing
  BY <1>0, <1>1, TodoOf, PendingOf DEF Keeps, IInv, Pending, Closing, Threads
<1>4. t \in Closing
  BY <1>0, HasTail DEF Closing
<1>5. flagged \subseteq raced
  BY <1>4 DEF IInv, SafeInv, ClosingAlone
<1>6. /\ bThreadRunning' = bThreadRunning /\ flagged' = flagged /\ abandoned' = abandoned
      /\ raced' = raced \cup Pending /\ ~quit /\ quit' = quit
  BY DEF New, At, window, flags
<1>7. FlagHasOwner'
  BY <1>6 DEF IInv, SafeInv, FlagHasOwner
<1>8. SafeInv'
  BY <1>3, <1>5, <1>6, <1>7 DEF SafeInv, JobIsProtected, JobsExclusive,
     QuitSparesJobs, Together, PendingAlone, ClosingAlone, RightObject
<1> QED BY <1>2, <1>8 DEF IInv

LEMMA HandleInv ==
  ASSUME IInv, TypeOK', NEW t \in Threads, HandleStep(t)
  PROVE  IInv'
<1> USE DEF handle, flags, window, ghost
<1>1. CASE PckOpen(t)
  <2>1. todo[t] # <<>> /\ Head(todo[t]) \notin JobSteps
    BY <1>1 DEF PckOpen, At, JobSteps
  <2>2. CASE bThreadRunning
    BY <1>1, <2>1, <2>2, QuietRefused DEF PckOpen
  <2>3. CASE ~bThreadRunning
    BY <1>1, <2>1, <2>3, ClosingInv DEF PckOpen
  <2> QED BY <2>2, <2>3
<1>2. CASE PckClose(t)
  <2>1. todo[t] # <<>> /\ Head(todo[t]) \notin JobSteps
    BY <1>2 DEF PckClose, At, JobSteps
  <2>2. <<"wait">> \o <<"recheck">> \in Seq(Harmless) /\ <<>> \o <<"recheck">> \in Seq(Harmless)
    BY ConcatProperties DEF Harmless, Additions, Steps
  <2> QED BY <1>2, <2>1, <2>2, QuietPush DEF PckClose
<1>3. CASE Wait(t)
  BY <1>3, QuietPop DEF Wait, At
<1>4. CASE Recheck(t)
  <2>1. /\ todo[t] # <<>> /\ Head(todo[t]) \notin JobSteps
        /\ Head(todo[t]) \notin {"enter", "flag", "unflag"}
    BY <1>4 DEF Recheck, At, JobSteps
  <2>2. CASE bThreadRunning
    BY <1>4, <2>1, <2>2, QuietPop DEF Recheck
  <2>3. CASE ~bThreadRunning
    BY <1>4, <2>1, <2>3, ClosingInv DEF Recheck
  <2> QED BY <2>2, <2>3
<1>5. CASE Close(t)
  <2>0. /\ todo[t] # <<>> /\ Head(todo[t]) = "close" /\ Head(todo[t]) \notin JobSteps
        /\ Head(todo[t]) \notin {"enter", "flag", "unflag"}
        /\ Shaped(todo[t]) /\ todo[t] \in Seq(Steps)
    BY <1>5 DEF Close, At, JobSteps, IInv, ShapeInv, Shaped
  <2> DEFINE p == (IF isPckFileLoaded THEN <<"log">> ELSE <<>>) \o <<"delete">>
  <2>2. Goto(t, p \o Tail(todo[t]))
    BY <1>5 DEF Close, Push
  <2> HIDE DEF p
  <2>3. /\ p \in Seq(Steps) /\ ~Has(p, "new") /\ Len(p) \in {1, 2} /\ p[Len(p)] = "delete"
        /\ (Len(p) = 2 => p[1] = "log")
    <3>1. /\ <<"log">> \in Seq(Steps) /\ <<>> \in Seq(Steps) /\ <<"delete">> \in Seq(Steps)
          /\ \A q \in {<<"log">>, <<>>, <<"delete">>} : ~Has(q, "new")
      BY DEF Steps, Has
    <3>2. CASE isPckFileLoaded
      <4>1. p = <<"log">> \o <<"delete">>
        BY <3>2 DEF p
      <4>2. ~Has(p, "new")
        BY <3>1, <4>1, HasConcat
      <4>3. p \in Seq(Steps) /\ Len(p) = 2 /\ p[1] = "log" /\ p[2] = "delete"
        BY <3>1, <4>1, ConcatProperties
      <4> QED BY <4>2, <4>3
    <3>3. CASE ~isPckFileLoaded
      <4>1. p = <<>> \o <<"delete">>
        BY <3>3 DEF p
      <4>2. p = <<"delete">>
        BY <3>1, <4>1, ConcatEmptySeq
      <4> QED BY <3>1, <4>2
    <3> QED BY <3>2, <3>3
  <2>4. ~Has(Tail(todo[t]), "unflag")
    BY <2>0, Outside, HasTail
  <2>5. Tail(todo[t]) # <<>> /\ Tail(todo[t])[1] = "new"
    <3>1. 1 \in 1..Len(todo[t]) /\ todo[t][1] = "close" /\ Len(todo[t]) \in Nat
      BY <2>0, TailOf
    <3>2. 1 < Len(todo[t]) /\ todo[t][2] = "new"
      BY <2>0, <3>1 DEF Shaped, Ordered
    <3>3. Len(Tail(todo[t])) # 0 /\ Tail(todo[t])[1] = "new"
      BY <2>0, <3>1, <3>2, TailOf
    <3>4. ASSUME Tail(todo[t]) = <<>> PROVE FALSE
      <4>1. Len(Tail(todo[t])) = Len(<<>>)
        BY <3>4
      <4>2. Len(<<>>) = 0
        OBVIOUS
      <4> QED BY <3>3, <4>1, <4>2
    <3> QED BY <3>3, <3>4
  <2>6. Plain(p) /\ Fits(p, Tail(todo[t]))
    BY <2>3, <2>4, <2>5 DEF Plain, Fits, Additions, Steps
  <2>7. Keeps(todo[t], p \o Tail(todo[t]))
    BY <2>0, <2>3, <2>6, KeepsPush
  <2> QED BY <1>5, <2>2, <2>7, QuietStep DEF Close
<1>6. CASE InitArchive(t)
  <2>1. /\ todo[t] # <<>> /\ Head(todo[t]) \notin JobSteps
        /\ Head(todo[t]) \notin {"enter", "flag", "unflag"}
    BY <1>6 DEF InitArchive, At, JobSteps
  <2> QED BY <1>6, <2>1, QuietPop, QuietRefused DEF InitArchive
<1> QED BY <1>1, <1>2, <1>3, <1>4, <1>5, <1>6, DeleteInv, NewInv DEF HandleStep

LEMMA UserInv ==
  ASSUME IInv, TypeOK', LogByWindow \/ Answer \/ UserStep
  PROVE  IInv'
<1> USE DEF handle, flags, window, ghost
<1>0. Window \in Threads /\ <<"pck_open">> \in Seq(CallerSteps)
        /\ <<"pck_close">> \in Seq(CallerSteps)
  BY DEF Threads, CallerSteps
<1>1. CASE LogByWindow
  BY <1>0, <1>1, QuietPop DEF LogByWindow, At
<1>2. CASE Answer
  BY <1>2, QuietUser DEF Answer
<1>3. ASSUME NEW t \in Threads, todo[t] = <<>> PROVE ~Inside(todo[t])
  BY <1>3 DEF Inside, Has
<1>4. CASE Open
  BY <1>0, <1>3, <1>4, KeepsCaller, QuietStep DEF Open, UserActs, Pumping
<1>5. CASE MenuClose
  BY <1>0, <1>3, <1>5, KeepsCaller, QuietStep DEF MenuClose, UserActs, Pumping
<1>6. CASE MenuCancelPckOper
  BY <1>6, QuietUser DEF MenuCancelPckOper
<1>7. CASE Exit
  BY <1>7, QuietUser DEF Exit, EvClose
<1>8. ASSUME NEW t \in Workers, NEW o \in Operations, Start(t, o) PROVE IInv'
  <2>1. t \in Threads /\ todo[t] = <<>> /\ Goto(t, Begin(o, isPckFileLoaded))
    BY <1>8 DEF Start, Threads
  <2> QED BY <1>3, <1>8, <2>1, CallerSequences, KeepsCaller, QuietStep DEF Start
<1> QED BY <1>1, <1>2, <1>4, <1>5, <1>6, <1>7, <1>8 DEF UserStep

LEMMA StepInv == IInv /\ [Next]_vars => IInv'
<1> SUFFICES ASSUME IInv, [Next]_vars PROVE IInv'
  OBVIOUS
<1>0. TypeOK'
  BY StepTypeOK DEF IInv
<1>1. CASE UNCHANGED vars
  BY <1>0, <1>1, QuietUser DEF vars, handle, flags, window, ghost
<1>2. CASE Next
  BY <1>0, <1>2, WorkerInv, DeliveryInv, HandleInv, UserInv DEF Next
<1> QED BY <1>1, <1>2

\* The invariant: the steps each thread has left fit what it holds, and the flag, the object
\* and the cancellation stay with a job that no test of another thread missed.
THEOREM Invariance == Spec => []IInv
<1> QED BY InitInv, StepInv, PTL DEF Spec
-----------------------------------------------------------------------------
(***************************************************************************)
(* The properties.                                                         *)
(***************************************************************************)
\* bThreadRunning is never left over: a job holds it, or a rebuild that failed left it.
THEOREM FlagAlwaysHasOwner == Spec => []FlagHasOwner
<1>1. IInv => FlagHasOwner
  BY DEF IInv, SafeInv
<1> QED BY <1>1, Invariance, PTL

\* A job that no test missed keeps the flag and its object until it ends.
THEOREM JobAlwaysProtected == Spec => []JobIsProtected
<1>1. IInv => JobIsProtected
  BY DEF IInv, SafeInv
<1> QED BY <1>1, Invariance, PTL

\* Two such jobs never run at once.
THEOREM JobsAlwaysExclusive == Spec => []JobsExclusive
<1>1. IInv => JobsExclusive
  BY DEF IInv, SafeInv
<1> QED BY <1>1, Invariance, PTL

\* The process does not exit under such a job.
THEOREM QuitAlwaysSparesJobs == Spec => []QuitSparesJobs
<1>1. IInv => QuitSparesJobs
  BY DEF IInv, SafeInv
<1> QED BY <1>1, Invariance, PTL

LEMMA CancelStep ==
  ASSUME IInv, IInv', [Next]_vars, NEW t, t \in flagged \ raced, t \in flagged' \ raced',
         bForcedStopWorking
  PROVE  bForcedStopWorking'
<1> SUFFICES ASSUME ~bForcedStopWorking' PROVE FALSE
  OBVIOUS
<1> USE DEF handle, flags, window, ghost
<1>1. ~(flagged \subseteq raced) /\ t \in Workers
  BY DEF IInv, TypeOK
<1>2. ~\E u \in Workers : SetThreadFlag(u)
  <2> SUFFICES ASSUME NEW u \in Workers, SetThreadFlag(u) PROVE FALSE
    OBVIOUS
  <2>1. todo[u] \in Seq(Steps) /\ todo[u] # <<>> /\ Head(todo[u]) = "flag"
    BY DEF SetThreadFlag, At, IInv, TypeOK, Threads
  <2>2. u \in Pending
    BY <2>1, HasTail DEF Pending
  <2>3. u \in raced
    BY <1>1, <2>2 DEF IInv, SafeInv, PendingAlone
  <2>4. flagged \subseteq raced'
    BY <2>3 DEF SetThreadFlag
  <2> QED BY <2>4
<1>3. ~\E u \in Workers : ClearThreadFlag(u)
  <2> SUFFICES ASSUME NEW u \in Workers, ClearThreadFlag(u) PROVE FALSE
    OBVIOUS
  <2>1. /\ u \in Threads /\ todo[u] \in Seq(Steps) /\ todo[u] # <<>>
        /\ Head(todo[u]) = "unflag" /\ Shaped(todo[u])
    BY DEF ClearThreadFlag, At, IInv, TypeOK, ShapeInv, Threads
  <2>2. u \in flagged
    BY <2>1, HasTail, AfterEnd DEF Inside, IInv, ShapeInv
  <2>3. u # t
    BY DEF ClearThreadFlag
  <2>4. u \notin raced
    BY <1>1, <2>2 DEF IInv, SafeInv, Together
  <2> QED BY <2>2, <2>3, <2>4 DEF IInv, SafeInv, JobsExclusive
<1>4. ~\E u \in Threads : Delete(u)
  <2> SUFFICES ASSUME NEW u \in Threads, Delete(u) PROVE FALSE
    OBVIOUS
  <2>1. /\ todo[u] \in Seq(Steps) /\ todo[u] # <<>> /\ Head(todo[u]) = "delete"
        /\ Shaped(todo[u])
    BY DEF Delete, At, IInv, TypeOK, ShapeInv
  <2>2. 1 \in 1..Len(todo[u]) /\ todo[u][1] = "delete" /\ Len(todo[u]) \in Nat
    BY <2>1, TailOf
  <2>3. 1 < Len(todo[u]) /\ todo[u][2] = "new"
    BY <2>1, <2>2 DEF Shaped, Ordered
  <2>4. 2 \in DOMAIN todo[u]
    BY <2>1, <2>2, <2>3, LenProperties
  <2>5. u \in Closing
    BY <2>3, <2>4 DEF Closing, Has
  <2> QED BY <1>1, <2>5 DEF IInv, SafeInv, ClosingAlone
<1>5. CASE UNCHANGED vars
  BY <1>5 DEF vars
<1>6. ASSUME NEW u \in Workers, WorkerStep(u) \/ Delivery(u) PROVE FALSE
  BY <1>2, <1>3, <1>6 DEF WorkerStep, Delivery, Submit, Enter, Prepare, Work,
     ReturnFromRebuild, Leave, CloseAfterJob, SetVersion, LogByWorker, LogDelivered, Sent,
     CloseMessage, Answered
<1>7. ASSUME NEW u \in Threads, HandleStep(u) PROVE FALSE
  BY <1>4, <1>7 DEF HandleStep, PckOpen, PckClose, Wait, Recheck, Close, New, InitArchive,
     IInv, TypeOK
<1>8. CASE LogByWindow \/ Answer \/ UserStep
  BY <1>8 DEF LogByWindow, Answer, UserStep, Open, MenuClose, MenuCancelPckOper, Exit,
     Start, IInv, TypeOK
<1> QED BY <1>5, <1>6, <1>7, <1>8 DEF Next

\* Nothing takes a cancellation back from the job it was meant for.
THEOREM CancelAlwaysSticks == Spec => CancelSticks
<1>1. IInv /\ IInv' /\ [Next]_vars =>
        [(flagged \ raced) \cap (flagged' \ raced') # {} /\ bForcedStopWorking
           => bForcedStopWorking']_vars
  BY CancelStep
<1> QED BY <1>1, Invariance, PTL DEF Spec, CancelSticks
=============================================================================
