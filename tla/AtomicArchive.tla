--------------------------- MODULE AtomicArchive ---------------------------
(***************************************************************************)
(* What adding files to archives promises: whoever opens an archive finds  *)
(* either what was there before or what was there after, each entry with   *)
(* data that some job has put under that name.                             *)
(***************************************************************************)
EXTENDS Integers

CONSTANTS
  Files,   \* archive files
  Names,   \* names of entries
  Jobs     \* the jobs that add files, in their order

VARIABLE contents   \* the entries of each archive: [name, job]

Entries == [name : Names, job : Jobs]

Init == contents = [f \in Files |-> {}]

\* Job j leaves out some entries and puts in those of names N.
Replace(f, j, N) ==
  LET kept == {e \in contents[f] : e.name \notin N}
  IN /\ \A e \in contents[f] : e.job < j
     /\ \E left \in SUBSET kept :
          contents' = [contents EXCEPT ![f] = left \cup [name : N, job : {j}]]

Next == \E f \in Files, j \in Jobs, N \in SUBSET Names : Replace(f, j, N)

Spec == Init /\ [][Next]_contents
=============================================================================
