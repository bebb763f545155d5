----------------------------- MODULE StackWords -----------------------------
(***************************************************************************)
(* What the words of primitive_table mean, as functions on a sequence of   *)
(* cells whose top is last: a word takes its operands off the top and      *)
(* leaves the results that its stack diagram names.                        *)
(***************************************************************************)
EXTENDS HostWords, Sequences

CONSTANTS Width, AndBits(_, _), OrBits(_, _), XorBits(_, _)

Cell == -(2^(Width - 1))..2^(Width - 1) - 1

\* The cell that agrees with v in its low Width bits.
Cut(v) == CHOOSE c \in Cell : (c - v) % 2^Width = 0

LOCAL Bits(op(_, _), y, x) == op(y % 2^Width, x % 2^Width)

\* Division rounds towards zero: the remainder has the sign of the dividend.
DivMod(n, d) ==
  CHOOSE qr \in Cell \X Cell :
    /\ n = qr[1] * d + qr[2]
    /\ qr[2] * n >= 0
    /\ qr[2] < d \/ qr[2] < -d
    /\ -qr[2] < d \/ -qr[2] < -d

Divides(n, d) == d # 0 /\ (d = -1 => -n \in Cell)

\* The results of words on one, two and three cells, the top last.
OfOne(w, x) ==
  CASE w = "DUP"    -> <<x, x>>
    [] w = "?DUP"   -> IF x = 0 THEN <<x>> ELSE <<x, x>>
    [] w = "DROP"   -> <<>>
    [] w = "1+"     -> <<Cut(x + 1)>>
    [] w = "1-"     -> <<Cut(x - 1)>>
    [] w = "2+"     -> <<Cut(x + 2)>>
    [] w = "2-"     -> <<Cut(x - 2)>>
    [] w = "2*"     -> <<Cut(x * 2)>>
    [] w = "2/"     -> <<CHOOSE h \in Cell : x - 2 * h \in {0, 1}>>
    [] w = "4+"     -> <<Cut(x + 4)>>
    [] w = "4-"     -> <<Cut(x - 4)>>
    [] w = "ABS"    -> <<IF x < 0 THEN Cut(-x) ELSE x>>
    [] w = "NEGATE" -> <<Cut(-x)>>
    [] w = "0<"     -> <<Flag(x < 0)>>
    [] w = "0="     -> <<Flag(x = 0)>>
    [] w = "0>"     -> <<Flag(x > 0)>>
    [] w = "NOT"    -> <<Cut(-1 - x)>>

OfTwo(w, y, x) ==
  CASE w = "OVER" -> <<y, x, y>>
    [] w = "SWAP" -> <<x, y>>
    [] w = "/MOD" -> IF x = 0 THEN <<y, x>> ELSE <<DivMod(y, x)[2], DivMod(y, x)[1]>>
    [] w = "+"    -> <<Cut(y + x)>>
    [] w = "-"    -> <<Cut(y - x)>>
    [] w = "*"    -> <<Cut(y * x)>>
    [] w = "/"    -> <<DivMod(y, x)[1]>>
    [] w = "MOD"  -> <<DivMod(y, x)[2]>>
    [] w = "MIN"  -> <<CHOOSE m \in {y, x} : m <= y /\ m <= x>>
    [] w = "MAX"  -> <<CHOOSE m \in {y, x} : m >= y /\ m >= x>>
    [] w = "<"    -> <<Flag(y < x)>>
    [] w = "<="   -> <<Flag(y <= x)>>
    [] w = "<>"   -> <<Flag(y # x)>>
    [] w = "="    -> <<Flag(y = x)>>
    [] w = ">"    -> <<Flag(y > x)>>
    [] w = ">="   -> <<Flag(y >= x)>>
    [] w = "AND"  -> <<Cut(Bits(AndBits, y, x))>>
    [] w = "OR"   -> <<Cut(Bits(OrBits, y, x))>>
    [] w = "XOR"  -> <<Cut(Bits(XorBits, y, x))>>

OfThree(w, z, y, x) ==
  CASE w = "ROT"  -> <<y, x, z>>
    [] w = "-ROT" -> <<x, z, y>>

-----------------------------------------------------------------------------

Item(s, k) == s[Len(s) + 1 - k]
Below(s, k) == SubSeq(s, 1, Len(s) - k)

\* What w makes of the stack s, for the words whose results are determined.
Result(w, s) ==
  CASE w = "DEPTH" -> Append(s, Cut(Len(s)))
    [] Operands(w) = 1 -> Below(s, 1) \o OfOne(w, Item(s, 1))
    [] Operands(w) = 2 -> Below(s, 2) \o OfTwo(w, Item(s, 2), Item(s, 1))
    [] Operands(w) = 3 -> Below(s, 3) \o OfThree(w, Item(s, 3), Item(s, 2), Item(s, 1))

Determined == Unary \cup Binary \cup Moving

CanRun(w, s) ==
  /\ Len(s) >= Operands(w)
  /\ w \in {"/", "MOD", "/MOD"} =>
       Divides(Item(s, 2), Item(s, 1)) \/ (w = "/MOD" /\ Item(s, 1) = 0)

=============================================================================
