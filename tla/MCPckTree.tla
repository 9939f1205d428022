------------------------------ MODULE MCPckTree ------------------------------
(***************************************************************************)
(* A small instance of PckTree: two parts, one longer than the other, and  *)
(* files added under names of two parts at most.  A search may give an     *)
(* entry a name that fills its record (7 bytes).                           *)
(***************************************************************************)
EXTENDS PckTree

MCPartSize == [x \in {"a", "b"} |-> IF x = "a" THEN 1 ELSE 2]
MCAddedNames == {<<"a">>, <<"b">>, <<"a", "b">>}
MCSearchNames == {<<"a">>, <<"b", "a">>, <<"b", "b", "a">>}
MCTextures == {<<"a", "b">>}
Line(op, p) == [op |-> op, name |-> p]
MCScripts == {
  <<Line("protect", <<"a", "b">>), Line("rmdir", <<"a">>)>>,
  <<Line("delete", <<"a">>), Line("bad", <<>>)>>,
  <<Line("chkfile", <<"b">>), Line("delete", <<"b">>)>>}
=============================================================================
