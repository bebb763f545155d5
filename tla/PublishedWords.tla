--------------------------- MODULE PublishedWords ---------------------------
(***************************************************************************)
(* ColonCompiler implements WordStore: the library is the part of the      *)
(* dictionary that ; VARIABLE and CONSTANT have published, each word with  *)
(* the nodes between its COLON and its SEMICOLON.                          *)
(***************************************************************************)
EXTENDS ColonCompiler

Published == {s \in DOMAIN dict : s # creating}

First(s) == dict[s].sst + 1

Last(s) ==
  CHOOSE e \in First(s) - 1..Len(sst) :
    /\ e + 1 \in DOMAIN sst => sst[e + 1].type \in Boundary
    /\ Unbroken(sst, First(s), e)

InCode == BranchOps \cup {"LOOP", "LEAVE", "NEXT"}

\* A node of the word s, its references made relative to the word's code.
Relative(s, node) ==
  IF node.type \in InCode THEN [node EXCEPT !.ref = node.ref - dict[s].sst] ELSE node

Code(s) ==
  IF dict[s].type = "WORD"
  THEN [i \in 1..Last(s) - dict[s].sst |-> Relative(s, sst[dict[s].sst + i])]
  ELSE <<>>

\* The definition being compiled is always the newest symbol.
Library ==
  [s \in 1..Cardinality(Published) |->
     [name |-> dict[s].name, type |-> dict[s].type, code |-> Code(s)]]

Store == INSTANCE WordStore WITH library <- Library, ended <- status # "loading"

(***************************************************************************)
(* Every step of the load publishes one closed, correctly bound definition *)
(* (; VARIABLE CONSTANT), ends the load, or leaves all published words     *)
(* exactly as they were.                                                   *)
(***************************************************************************)
ImplementsWordStore == Store!Spec

=============================================================================
