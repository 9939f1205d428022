--------------------------- MODULE ArchiveAppend ---------------------------
(***************************************************************************)
(* What a job that fills an archive promises: entries become stored one at *)
(* a time, back to back from StartAt, and the index that is published is   *)
(* exactly what is stored.  Only a stop lets the job publish less than     *)
(* every entry it was given.                                               *)
(***************************************************************************)
EXTENDS Integers, Sequences

CONSTANTS
  Wanted,   \* the entries the job is to store
  Size,     \* the bytes each of them takes
  StartAt   \* where the first one goes

VARIABLES
  stored,   \* what is in the file: a sequence of [f, at, len]
  stopped,  \* a stop was forced, or an error stopped the job
  closed,   \* the index has been written
  index     \* that index

vars == <<stored, stopped, closed, index>>

StoredEntries == {stored[i].f : i \in DOMAIN stored}
End == IF stored = <<>> THEN StartAt
       ELSE stored[Len(stored)].at + stored[Len(stored)].len

Init ==
  /\ stored = <<>>
  /\ stopped = FALSE
  /\ closed = FALSE
  /\ index = <<>>

Store(f) ==
  /\ ~closed
  /\ f \in Wanted \ StoredEntries
  /\ stored' = Append(stored, [f |-> f, at |-> End, len |-> Size[f]])
  /\ UNCHANGED <<stopped, closed, index>>

Stop ==
  /\ stopped' = TRUE
  /\ UNCHANGED <<stored, closed, index>>

Publish ==
  /\ ~closed
  /\ stopped \/ StoredEntries = Wanted
  /\ closed' = TRUE
  /\ index' = stored
  /\ UNCHANGED <<stored, stopped>>

\* The stop flag is cleared once the job is over.
Resume ==
  /\ closed
  /\ stopped' = FALSE
  /\ UNCHANGED <<stored, closed, index>>

Next == (\E f \in Wanted : Store(f)) \/ Stop \/ Publish \/ Resume

Spec == Init /\ [][Next]_vars
=============================================================================
