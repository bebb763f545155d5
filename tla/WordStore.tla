----------------------------- MODULE WordStore -----------------------------
(***************************************************************************)
(* What loading a file promises to later words and to the code generator:  *)
(* a library that only grows, one whole definition at a time.  A word's    *)
(* code is closed when it appears, and the names in it were bound to the   *)
(* newest definitions the library held at that moment.                     *)
(*                                                                         *)
(* In the code of a library entry a branch or loop reference is a position *)
(* of the same code and a name reference is a position of the library.     *)
(***************************************************************************)
EXTENDS SyntaxTree

CONSTANT Names

VARIABLES library, ended

\* i is the definition that a search for its name finds.
Newest(i) ==
  /\ i \in DOMAIN library
  /\ \A j \in DOMAIN library : j > i => library[j].name # library[i].name

LoopOpener == [LOOP |-> "DO", LEAVE |-> "DO", NEXT |-> "FOR"]

TargetType ==
  [t \in BranchOps \cup DOMAIN LoopOpener |->
     IF t \in BranchOps THEN "LABEL" ELSE LoopOpener[t]]

ReferredType == [WORD_REF |-> "WORD", VAR_REF |-> "VARIABLE"]

ClosedCode(code) ==
  /\ code # <<>> /\ code[Len(code)].type = "RET"
  /\ \A i \in DOMAIN code :
       LET node == code[i] IN
         /\ node.type \notin Boundary
         /\ node.type \in DOMAIN TargetType =>
              /\ node.ref \in DOMAIN code
              /\ code[node.ref].type = TargetType[node.type]
         /\ node.type \in DOMAIN ReferredType =>
              /\ Newest(node.ref)
              /\ library[node.ref].type = ReferredType[node.type]

Definition(d) ==
  /\ d.name \in Names
  /\ \/ d.type \in {"VARIABLE", "CONSTANT"} /\ d.code = <<>>
     \/ d.type = "WORD" /\ ClosedCode(d.code)

\* The load may fail in the step that publishes.
Publish ==
  /\ ~ended
  /\ Len(library') = Len(library) + 1
  /\ Definition(library'[Len(library')])
  /\ library' = Append(library, library'[Len(library')])
  /\ ended' \in BOOLEAN

End ==
  /\ ~ended
  /\ ended' = TRUE
  /\ UNCHANGED library

Init == library = <<>> /\ ended = FALSE

Next == Publish \/ End

Spec == Init /\ [][Next]_<<library, ended>>

=============================================================================
