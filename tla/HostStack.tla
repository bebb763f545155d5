----------------------------- MODULE HostStack -----------------------------
(***************************************************************************)
(* The host's data stack as the code keeps it (forth.c, qlforth.c): an     *)
(* array of cells, an index dp one past the saved cells, and the top cell  *)
(* apart, in tos.  The first push saves the tos that no word has set.      *)
(* Cells are the ival of a QLF_CELL, Width bits wide.                      *)
(***************************************************************************)
EXTENDS HostWords

CONSTANTS Width, STACK_DEEP_SIZE, AndBits(_, _), OrBits(_, _), XorBits(_, _)

ASSUME HostStackAssumption ==
  Width \in Nat \ {0, 1} /\ STACK_DEEP_SIZE \in Nat \ {0, 1}

VARIABLES
  mem,   \* data_stack[]
  dp,    \* ql4thvm_dp, as an index into mem
  tos    \* ql4thvm_tos

stackVars == <<mem, dp, tos>>

\* One more than the greatest cell.
Half == 2^(Width - 1)

Slots == 0..STACK_DEEP_SIZE + 1
Cells == -Half..Half - 1

\* The bits of a cell, as a number, and the operations on two of them.
Bits == 0..2 * Half - 1

ASSUME PowerAssumption == Half \in Nat \ {0} /\ 2^Width = 2 * Half

ASSUME BitsAssumption ==
  \A a, b \in Bits : AndBits(a, b) \in Bits /\ OrBits(a, b) \in Bits /\ XorBits(a, b) \in Bits

\* Mutant: the result keeps all its bits.
MutWrap(v) == v

Wrap(v) == ((v + Half) % (2 * Half)) - Half

StackInit ==
  /\ mem = [i \in Slots |-> 0]
  /\ dp = 0
  /\ tos = 0

nos == mem[dp - 1]

-----------------------------------------------------------------------------

Push(v) ==
  /\ mem' = [mem EXCEPT ![dp] = tos]
  /\ dp' = dp + 1
  /\ tos' = v

Pop ==
  /\ dp' = dp - 1
  /\ tos' = mem[dp - 1]
  /\ UNCHANGED mem

\* The words that only change tos.
Stepped(w) ==
  CASE w = "1+" -> tos + 1
    [] w = "1-" -> tos - 1
    [] w = "2+" -> tos + 2
    [] w = "2-" -> tos - 2
    [] w = "4+" -> tos + 4
    [] w = "4-" -> tos - 4
    [] w = "2*" -> 2 * tos
    [] w = "2/" -> tos \div 2

Tested(w) ==
  CASE w = "0<" -> Flag(tos < 0)
    [] w = "0=" -> Flag(tos = 0)
    [] w = "0>" -> Flag(tos > 0)

Turned(w) ==
  CASE w = "ABS"    -> IF tos < 0 THEN -tos ELSE tos
    [] w = "NEGATE" -> -tos
    [] w = "NOT"    -> -tos - 1

Changed(w) ==
  CASE w \in {"0<", "0=", "0>"}        -> Tested(w)
    [] w \in {"ABS", "NEGATE", "NOT"} -> Turned(w)
    [] OTHER                          -> Stepped(w)

\* C's division: the quotient is cut towards zero.
LOCAL Magnitude(n) == IF n < 0 THEN -n ELSE n

Quotient(n, d) ==
  LET q == Magnitude(n) \div Magnitude(d) IN IF (n < 0) = (d < 0) THEN q ELSE -q

Remainder(n, d) == n - d * Quotient(n, d)

\* idiv raises SIGFPE, and the program has no handler for it.
Fatal(w) ==
  \/ w \in {"/", "MOD"} /\ tos = 0
  \/ w \in {"/", "MOD", "/MOD"} /\ tos = -1 /\ nos = -Half

LOCAL Bitwise(op(_, _)) == op(nos % (2 * Half), tos % (2 * Half))

\* The words that put one cell in the place of two.  cfp_mul adds.
Computed(w) ==
  CASE w \in {"+", "*"} -> nos + tos
    [] w = "-"   -> nos - tos
    [] w = "/"   -> Quotient(nos, tos)
    [] w = "MOD" -> Remainder(nos, tos)

Chosen(w) ==
  CASE w = "MIN" -> IF nos < tos THEN nos ELSE tos
    [] w = "MAX" -> IF nos > tos THEN nos ELSE tos

Compared(w) ==
  CASE w = "<"  -> Flag(nos < tos)
    [] w = "<=" -> Flag(nos <= tos)
    [] w = "<>" -> Flag(nos # tos)
    [] w = "="  -> Flag(nos = tos)
    [] w = ">"  -> Flag(nos > tos)
    [] w = ">=" -> Flag(nos >= tos)

Combined(w) ==
  CASE w = "AND" -> Bitwise(AndBits)
    [] w = "OR"  -> Bitwise(OrBits)
    [] w = "XOR" -> Bitwise(XorBits)

Merged(w) ==
  CASE w \in {"+", "-", "*", "/", "MOD"} -> Computed(w)
    [] w \in {"MIN", "MAX"}             -> Chosen(w)
    [] w \in {"AND", "OR", "XOR"}       -> Combined(w)
    [] OTHER                            -> Compared(w)

Replace(w) ==
  /\ tos' = Wrap(Changed(w))
  /\ UNCHANGED <<mem, dp>>

Merge(w) ==
  /\ dp' = dp - 1
  /\ tos' = Wrap(Merged(w))
  /\ UNCHANGED mem

QDup == IF tos # 0 THEN Push(tos) ELSE UNCHANGED stackVars

Swap ==
  /\ mem' = [mem EXCEPT ![dp - 1] = tos]
  /\ tos' = nos
  /\ UNCHANGED dp

Rot ==
  /\ tos' = mem[dp - 2]
  /\ mem' = [mem EXCEPT ![dp - 2] = nos, ![dp - 1] = tos]
  /\ UNCHANGED dp

MinusRot ==
  /\ tos' = nos
  /\ mem' = [mem EXCEPT ![dp - 1] = mem[dp - 2], ![dp - 2] = tos]
  /\ UNCHANGED dp

DivMod ==
  IF tos = 0 THEN UNCHANGED stackVars
  ELSE /\ mem' = [mem EXCEPT ![dp - 1] = Remainder(nos, tos)]
       /\ tos' = Quotient(nos, tos)
       /\ UNCHANGED dp

\* The cell PICK and ROLL read; past the array it is whatever lies there.
Reached(v) ==
  LET i == dp - tos - 1 IN IF i \in Slots THEN v = mem[i] ELSE v \in Cells

Pick ==
  /\ IF tos < dp THEN \E v \in Cells : Reached(v) /\ tos' = v ELSE UNCHANGED tos
  /\ UNCHANGED <<mem, dp>>

\* Mutant: the loop moves one cell less.
MutRoll ==
  IF tos >= dp THEN UNCHANGED stackVars
  ELSE /\ \E v \in Cells : Reached(v) /\ tos' = v
       /\ mem' = [i \in Slots |-> IF i \in dp - tos..dp - 1 THEN mem[i + 1] ELSE mem[i]]
       /\ dp' = dp - 1

Roll ==
  IF tos >= dp THEN UNCHANGED stackVars
  ELSE /\ \E v \in Cells : Reached(v) /\ tos' = v
       /\ mem' = [i \in Slots |-> IF i \in dp - tos - 1..dp - 1 THEN mem[i + 1] ELSE mem[i]]
       /\ dp' = dp - 1

\* The bits that the C library computes are any cell; the integer view of a
\* comparison is a flag.
Float(w) ==
  /\ IF w = "FLOAT" THEN UNCHANGED tos
     ELSE \E v \in IF w \in FloatTests THEN {QLF_TRUE, QLF_FALSE} ELSE Cells : tos' = v
  /\ dp' = dp + 1 - Operands(w)
  /\ UNCHANGED mem

\* One call of a primitive's function.
Primitive(w) ==
  CASE w = "DUP"   -> Push(tos)
    [] w = "?DUP"  -> QDup
    [] w = "DROP"  -> Pop
    [] w = "OVER"  -> Push(nos)
    [] w = "SWAP"  -> Swap
    [] w = "ROT"   -> Rot
    [] w = "-ROT"  -> MinusRot
    [] w = "DEPTH" -> Push(Wrap(dp))
    [] w = "/MOD"  -> DivMod
    [] w = "PICK"  -> Pick
    [] w = "ROLL"  -> Roll
    [] w \in Unary  -> Replace(w)
    [] w \in Binary -> Merge(w)
    [] w \in FloatUnary \cup FloatBinary \cup FloatTests -> Float(w)

\* The stack holds the word's operands.  What a word finds below the stack
\* is left to the compiler's layout of static data, and outside this model.
Enough(w) == dp >= Operands(w)

StackTypeOK ==
  /\ mem \in [Slots -> Cells]
  /\ dp \in Slots
  /\ tos \in Cells

=============================================================================
