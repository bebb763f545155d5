-------------------------- MODULE MCInstructionSet --------------------------
(***************************************************************************)
(* Small instances of InstructionSet for TLC.                              *)
(***************************************************************************)
EXTENDS InstructionSet, Bitwise

BitAnd(a, b) == a & b
BitOr(a, b)  == a | b
BitXor(a, b) == a ^^ b

\* Numbers around every boundary of code_literal, wider ones included.
Edges == {0, 5, 32767, 32768, 65535, 65536, 70000, -1, -2, -32768}

\* Zero, a shift count, the address of Cell, the two edges of the sign, -1.
Corners == {0, 3, 13, 32767, 32768, 65535}

\* The last bases make both stacks wrap around.
Positions == {0, 29, 30, 31}

\* Every extension word with a meaning of its own that code.c translates.
TranslatedWords ==
  {"LITERAL", "ADD", "XOR", "AND", "OR", "INVERT", "EQUAL", "LT", "U_LT", "SWAP",
   "DUP", "DROP", "OVER", "NIP", "R_FROM", "R_FETCH", "LSHIFT", "RSHIFT", "1_SUB",
   "UNLOOP", "DUP_FETCH", "2_DUP_EQUAL", "STORE_NIP", "2_DUP_STORE", "FETCH",
   "STORE", "TO_R", "DUP_TO_R"}

=============================================================================
