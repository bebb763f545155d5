---------------------------- MODULE MCToolchain ----------------------------
(***************************************************************************)
(* Small instances of Toolchain for TLC.                                   *)
(***************************************************************************)
EXTENDS ToolchainMeaning, Bitwise

BitAnd(a, b) == a & b
BitOr(a, b)  == a | b
BitXor(a, b) == a ^^ b

\* A literal that fits 15 bits, and one that code_literal must complement.
Literals == {5, -2}

NoNumbers == {}

\* Sizes for ALLOT: odd, and more than the buffer.
Sizes == {3, 70}

\* Bound: a file has literals and one word, or variables and two names, or
\* control structures and at most two words.
Straight   == {"COLON", "RET", "SEMICOLON", "WORD_REF", "LITERAL", "ADD", "SWAP"}
WithCells  == {"COLON", "RET", "SEMICOLON", "WORD_REF", "VARIABLE", "VAR_REF", "STORE", "FETCH"}
Structured == {"COLON", "RET", "SEMICOLON", "WORD_REF", "0BRANCH", "BRANCH", "LABEL", "DUP", "1_SUB"}

Typing(numbers) == \A i \in 2..Len(cells) : cells[i] \in numbers

OneName == \A s \in DOMAIN dict : dict[s].name = "a"

OneKind ==
  \/ /\ \A i \in DOMAIN sst : sst[i].type \in Straight
     /\ OneName
     /\ Len(sst) < SST_NODE_MAX
     /\ Len(called) <= 1
     /\ called = <<>> => Typing({3, 70000})
  \/ /\ \A i \in DOMAIN sst : sst[i].type \in WithCells
     /\ called = <<>> => Typing({3})
     /\ status # "failed"
  \/ /\ \A i \in DOMAIN sst : sst[i].type \in Structured
     /\ OneName /\ Len(dict) <= 2
     /\ Len(called) <= 1
     /\ called = <<>> => Typing({0, 3})
     /\ status # "failed"

\* Numbers for the console: false, true, and one that is wider than the chip.
Typed == {0, 3, 70000}

=============================================================================
