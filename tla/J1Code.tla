------------------------------- MODULE J1Code -------------------------------
(***************************************************************************)
(* The instructions that code.c knows: what each SST node of one or two    *)
(* words becomes, with and without a return folded in.                     *)
(***************************************************************************)
EXTENDS Integers, Sequences

\* Operations whose last word code_with_possible_ret emits.
Foldable ==
  {"NOOP", "ADD", "XOR", "AND", "OR", "INVERT", "EQUAL", "LT", "U_LT", "SWAP", "DUP",
   "DROP", "OVER", "NIP", "TO_R", "R_FETCH", "DSP", "LSHIFT", "RSHIFT", "DUP_FETCH",
   "DUP_TO_R", "STORE_NIP", "UP_1", "DOWN_1", "COPY", "FOR", "RET", "FETCH", "STORE",
   "1_SUB", "2_DUP_XOR", "2_DUP_EQUAL", "2_DUP_STORE"}

Opcode(op) ==
  CASE op = "NOOP"        -> 0        [] op = "ADD"         -> \h6203
    [] op = "XOR"         -> \h6503   [] op = "AND"         -> \h6303
    [] op = "OR"          -> \h6403   [] op = "INVERT"      -> \h6600
    [] op = "EQUAL"       -> \h6703   [] op = "LT"          -> \h6803
    [] op = "U_LT"        -> \h6F03   [] op = "SWAP"        -> \h6180
    [] op = "DUP"         -> \h6081   [] op = "DROP"        -> \h6103
    [] op = "OVER"        -> \h6181   [] op = "NIP"         -> \h6003
    [] op = "TO_R"        -> \h6147   [] op = "R_FETCH"     -> \h6B81
    [] op = "DSP"         -> \h6E81   [] op = "LSHIFT"      -> \h6D03
    [] op = "RSHIFT"      -> \h6903   [] op = "DUP_FETCH"   -> \h6C81
    [] op = "DUP_TO_R"    -> \h6044   [] op = "STORE_NIP"   -> \h6023
    [] op = "UP_1"        -> \h6001   [] op = "DOWN_1"      -> \h6003
    [] op = "COPY"        -> \h6100   [] op = "FOR"         -> \h6147
    [] op = "RET"         -> \h100C   [] op = "FETCH"       -> \h6C00
    [] op = "STORE"       -> \h6103   [] op = "1_SUB"       -> \h6A00
    [] op = "2_DUP_XOR"   -> \h6541   [] op = "2_DUP_EQUAL" -> \h6781
    [] op = "2_DUP_STORE" -> \h6020

\* STORE is two instructions, and only the second can return.
Before(op) == IF op = "STORE" THEN <<\h6123>> ELSE <<>>

\* Operations of fixed words: no return is folded into them.
Fixed == {"R_FROM", "UNLOOP", "2_R_FROM", "2_TO_R", "2_R_FETCH"}

FixedCode(op) ==
  CASE op = "R_FROM" -> <<\h6B8D>>
    [] op = "UNLOOP" -> <<\h600C, \h600C>>
    [] op \in {"2_R_FROM", "2_TO_R", "2_R_FETCH"} -> <<>>

SetBit(w, bit) == IF (w \div bit) % 2 = 1 THEN w ELSE w + bit

WithRet(op) == SetBit(SetBit(SetBit(op, 4096), 8), 4)      \* op | 0x100C

Literal(n) == \h8000 + (n % \h8000)

MutComplemented(val) == FALSE

\* code_literal: a number with bit 15 is pushed complemented, then inverted.
Complemented(val) == (val \div \h8000) % 2 = 1

Call(address)   == \h4000 + (address % \h2000)

BranchCode(op) == IF op = "0BRANCH" THEN \h2000 ELSE 0

\* What one node becomes; ret tells whether a return is folded into it.
Encoded(op, val, ret) ==
  LET Last(w) == IF ret THEN WithRet(w) ELSE w IN
  CASE op = "LITERAL" /\ ~Complemented(val) -> <<Literal(val)>>
    [] op = "LITERAL" /\ Complemented(val) ->
         <<Literal(-val - 1), Last(Opcode("INVERT"))>>
    [] op \in Fixed -> FixedCode(op)
    [] op \in Foldable -> Append(Before(op), Last(Opcode(op)))

\* Whether the last word of a node is emitted by code_with_possible_ret.
Folds(op, val) ==
  \/ op \in Foldable
  \/ op = "LITERAL" /\ Complemented(val)

=============================================================================
