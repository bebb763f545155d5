----------------------------- MODULE HostWords -----------------------------
(***************************************************************************)
(* The names in primitive_table (forth.c), by the shape of their effect on *)
(* the host's data stack.                                                  *)
(***************************************************************************)
EXTENDS Integers

\* One cell in, one cell out.
Unary ==
  {"1+", "1-", "2+", "2-", "2*", "2/", "4+", "4-", "ABS", "NEGATE",
   "0<", "0=", "0>", "NOT"}

\* Two cells in, one cell out.
Binary ==
  {"+", "-", "*", "/", "MOD", "MIN", "MAX", "<", "<=", "<>", "=", ">", ">=",
   "AND", "OR", "XOR"}

\* Words that move cells, and /MOD.
Moving == {"DUP", "?DUP", "DROP", "OVER", "SWAP", "ROT", "-ROT", "DEPTH", "/MOD"}

\* Words that take the place of a cell from the stack.
Indexed == {"PICK", "ROLL"}

\* Floating point: the C library computes the results.
FloatUnary ==
  {"FABS", "ACOS", "ASIN", "ATAN", "COS", "EXP", "FLOAT", "LOG", "LOG10",
   "FNEGATE", "SIN", "SQRT", "TAN"}

FloatBinary == {"F+", "F-", "F*", "F/", "ATAN2", "FMAX", "FMIN", "POW"}

FloatTests == {"F<", "F<=", "F<>", "F=", "F>", "F>="}

Primitives ==
  Unary \cup Binary \cup Moving \cup Indexed
    \cup FloatUnary \cup FloatBinary \cup FloatTests

\* The cells a word takes.
Operands(w) ==
  CASE w = "DEPTH" -> 0
    [] w \in Unary \cup FloatUnary \cup Indexed \cup {"DUP", "?DUP", "DROP"} -> 1
    [] w \in {"ROT", "-ROT"} -> 3
    [] OTHER -> 2

QLF_TRUE  == -1
QLF_FALSE == 0

Flag(b) == IF b THEN QLF_TRUE ELSE QLF_FALSE

=============================================================================
