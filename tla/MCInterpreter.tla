--------------------------- MODULE MCInterpreter ---------------------------
(***************************************************************************)
(* Texts for TLC: every short text over an alphabet that has comments and  *)
(* line ends, and every primitive on every choice of operands.             *)
(***************************************************************************)
EXTENDS Interpreter, Bitwise

BitAnd(a, b) == a & b
BitOr(a, b)  == a | b
BitXor(a, b) == a ^^ b

\* 4-bit cells: the ends of the range and what lies next to zero.
Operand == [min |-> -8, minus2 |-> -2, minus1 |-> -1, n0 |-> 0, n1 |-> 1, n2 |-> 2, max |-> 7]

OneChipWord == {"NIP"}

Alphabet == {"SP", "CR", "LF", "(", ")", "\\", "n1", "NIP"}

ShortTexts == UNION {[1..k -> Alphabet] : k \in 0..5}

\* Four marks, each with a blank or a line end after it.
Marks == {"(", ")", "\\", "n1", "NIP"}

Lines ==
  {[i \in 1..8 |-> IF i % 2 = 1 THEN ms[(i + 1) \div 2] ELSE bs[i \div 2]] :
     ms \in [1..4 -> Marks], bs \in [1..4 -> {"SP", "LF"}]}

\* Words with a blank after each.
Spaced(ws) ==
  [i \in 1..2 * Len(ws) |-> IF i % 2 = 1 THEN ws[(i + 1) \div 2] ELSE "SP"]

Few == {"min", "minus1", "n0", "n2"}

\* A cell to stay untouched, the operands, the word, and DEPTH.
OnOperands ==
  UNION {{Spaced(<<"n1">> \o ns \o <<w, "DEPTH">>) :
            ns \in [1..Operands(w) -> IF Operands(w) = 3 THEN Few ELSE DOMAIN Operand]} :
         w \in Primitives}

\* Words on fewer cells than they need.
OnTooFew == {Spaced(ns \o <<w>>) : w \in Primitives, ns \in {<<>>, <<"n1">>}}

\* PICK and ROLL with every index, over three cells.
Indices ==
  {Spaced(<<"n2", "minus2", "max", k, w>>) : w \in Indexed, k \in DOMAIN Operand}

\* Constants that hide a word and a number, and the commands.
Naming ==
  {Spaced(ws) : ws \in [1..5 -> {"n2", "DUP", "CONSTANT", "SEE", "CLEAR"}]}
    \cup {Spaced(<<"n2", w, "DUP">>) : w \in Commands \cup OneChipWord}

\* More words that push than the array has cells.
Filling == {Spaced(<<"n2">> \o ws) : ws \in [1..7 -> {"n2", "DUP", "DEPTH"}]}

AllTexts == ShortTexts \cup Lines \cup OnOperands \cup OnTooFew \cup Indices \cup Naming \cup Filling

=============================================================================
