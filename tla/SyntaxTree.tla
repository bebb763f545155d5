----------------------------- MODULE SyntaxTree -----------------------------
(***************************************************************************)
(* The nodes of QLForth's simple syntax tree (SST), the array of nodes     *)
(* that the colon compiler fills and the code generator reads, and the     *)
(* symbols that name its words (src/src/QLForth.h:74-139).                 *)
(*                                                                         *)
(* The array is a sequence; a pointer into it is the index of the node it  *)
(* points at, and NULL is 0.  The union {val, spc, sst} of a node is the   *)
(* one field ref: the index of another node, the index of a symbol in the  *)
(* dictionary, or a number, whichever its type calls for.                  *)
(***************************************************************************)
EXTENDS Integers, Sequences

NULL == 0

\* compiler.c's extension_table: words that append one node and nothing else.
\* "RET" is the node of the word -; and, with "SEMICOLON", of the word ;
ExtensionOps ==
  {"RET", "NOOP", "ADD", "XOR", "AND", "OR", "INVERT", "EQUAL", "LT", "U_LT",
   "SWAP", "DUP", "DROP", "OVER", "NIP", "TO_R", "R_FROM", "R_FETCH",
   "STORE", "FETCH", "DSP", "LSHIFT", "RSHIFT", "1_SUB", "2_R_FROM",
   "2_TO_R", "2_R_FETCH", "UNLOOP", "DUP_FETCH", "DUP_TO_R", "2_DUP_XOR",
   "2_DUP_EQUAL", "STORE_NIP", "2_DUP_STORE", "UP_1", "DOWN_1", "COPY"}

BranchOps == {"0BRANCH", "BRANCH"}

\* Where one word's nodes end and another definition's begin.
Boundary == {"COLON", "SEMICOLON", "VARIABLE"}

ControlOps ==
  Boundary \cup BranchOps \cup
  {"LABEL", "DO", "LOOP", "LEAVE", "FOR", "NEXT",
   "LITERAL", "ALLOT", "VAR_REF", "WORD_REF"}

NodeType == ControlOps \cup ExtensionOps

Node(type, ref) == [type |-> type, ref |-> ref]

SSTNode == [type : NodeType, ref : Int]

\* A symbol of the root bucket.  sst is the COLON or VARIABLE node of a word
\* or a variable, and NULL for a constant.
Symbol(Names) ==
  [name : Names, type : {"WORD", "VARIABLE", "CONSTANT"},
   hidden : BOOLEAN, sst : Nat]

\* No definition begins or ends among the nodes i..j of s.
Unbroken(s, i, j) == \A k \in i..j : s[k].type \notin Boundary

=============================================================================
