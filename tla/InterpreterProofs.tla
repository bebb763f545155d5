------------------------- MODULE InterpreterProofs -------------------------
(***************************************************************************)
(* The proof, for every width of a cell, every depth of the stack and      *)
(* every text, that the primitives implement DataStack: array, index and   *)
(* cached top behave as one sequence, and each word has on it the effect   *)
(* that its name promises.                                                 *)
(*                                                                         *)
(* StackWords says what a result is and HostStack how it is computed, so   *)
(* the arithmetic comes first: wrapping cuts, and division towards zero is *)
(* the only quotient whose remainder has the sign of the dividend.         *)
(*                                                                         *)
(* Then the text: that the scanner never leaves it and that an error names *)
(* the line it is on (InterpreterTypes, ErrorsNameTheirLine).  Scanner and *)
(* line count are recursive functions of a position, and what such a       *)
(* function is on every position follows from the least number of a set    *)
(* (LeastNumber, Descent, DefinedDownwards).                               *)
(***************************************************************************)
EXTENDS Interpreter, HostStackProofs, FiniteSetTheorems, WellFoundedInduction

-----------------------------------------------------------------------------
(* Arithmetic. *)

\* A multiple of b nearer to 0 than b is 0.
LEMMA SmallMultiple ==
  ASSUME NEW a \in Int, NEW b \in Nat, -b < a * b, a * b < b
  PROVE  a = 0
<1>1. CASE a >= 1
  <2>1. (a - 1) * b >= 0
    BY <1>1
  <2> QED
    BY <2>1
<1>2. CASE a <= -1
  <2>1. (-a - 1) * b >= 0
    BY <1>2
  <2> QED
    BY <2>1
<1> QED
  BY <1>1, <1>2

LEMMA SameCells == Promise!Cell = Cells
BY DEF Promise!Cell, Cells, Half

\* Division with remainder, and that a multiple leaves none.
LEMMA Division ==
  ASSUME NEW a \in Int, NEW m \in Nat \ {0}
  PROVE  /\ a \div m \in Int /\ a % m \in 0..m - 1
         /\ a = (a \div m) * m + (a % m)
OBVIOUS

LEMMA MultipleLeavesNone ==
  ASSUME NEW k \in Int, NEW m \in Nat \ {0}
  PROVE  (k * m) % m = 0
<1>1. PICK a \in Int : a = k * m
  OBVIOUS
<1>2. PICK q \in Int : q = a \div m /\ a = q * m + (a % m) /\ a % m \in 0..m - 1
  BY <1>1, Division
<1>3. a % m = (k - q) * m
  BY <1>1, <1>2
<1>4. k - q = 0
  BY <1>2, <1>3, SmallMultiple
<1> QED
  BY <1>1, <1>2, <1>3, <1>4

\* What C's arithmetic leaves is the cell with the same low bits.
LEMMA WrapCuts ==
  ASSUME NEW v \in Int
  PROVE  Promise!Cut(v) = Wrap(v)
<1> DEFINE m == 2 * Half
<1>1. Half \in Nat \ {0} /\ m \in Nat \ {0} /\ 2^Width = m
  BY PowerAssumption
<1>2. Wrap(v) \in Cells /\ Wrap(v) \in Int
  BY WrapIsCell, CellsAreNumbers
<1>3. \A c \in Cells : c \in Int /\ -m < c - Wrap(v) /\ c - Wrap(v) < m
  BY <1>1, <1>2, CellsAreNumbers
<1>4. Wrap(v) = ((v + Half) % m) - Half
  BY DEF Wrap
<1>5. Promise!Cut(v) = CHOOSE c \in Cells : (c - v) % m = 0
  BY <1>1, SameCells DEF Promise!Cut
<1> HIDE DEF m
<1>6. PICK k \in Int : Wrap(v) - v = k * m
  <2> DEFINE d == (v + Half) \div m
  <2>1. d \in Int /\ v + Half = d * m + ((v + Half) % m) /\ (v + Half) % m \in Int
    BY <1>1, Division
  <2>2. (-d) * m = -(d * m)
    BY <1>1, <2>1
  <2> HIDE DEF d
  <2>3. Wrap(v) - v = (-d) * m /\ -d \in Int
    BY <1>1, <1>4, <2>1, <2>2
  <2> QED
    BY <2>3
<1>7. (Wrap(v) - v) % m = 0
  BY <1>1, <1>6, MultipleLeavesNone
<1>8. ASSUME NEW c \in Cells, (c - v) % m = 0
      PROVE  c = Wrap(v)
  <2>1. PICK j \in Int : c - v = j * m
    <3>1. PICK a \in Int : a = c - v
      BY <1>3
    <3>2. PICK j \in Int : j = a \div m /\ a = j * m + (a % m)
      BY <1>1, Division
    <3>3. a % m = 0
      BY <1>8, <3>1
    <3>4. a = j * m
      BY <1>1, <3>2, <3>3
    <3> QED
      BY <3>1, <3>4
  <2>2. c - Wrap(v) = (j - k) * m
    <3>1. (j - k) * m = j * m - k * m
      BY <1>1, <2>1
    <3>2. PICK x \in Int, y \in Int : x = j * m /\ y = k * m
      BY <1>1, <2>1
    <3> QED
      BY <1>2, <1>3, <1>6, <2>1, <3>1, <3>2
  <2>3. j - k = 0
    BY <1>1, <1>3, <2>1, <2>2, SmallMultiple
  <2> QED
    BY <1>1, <1>2, <1>3, <2>2, <2>3
<1> QED
  BY <1>2, <1>5, <1>7, <1>8

\* A remainder of the dividend's sign, smaller than the divisor, belongs to
\* one quotient only.
LEMMA OneQuotient ==
  ASSUME NEW n \in Int, NEW d \in Int, d # 0,
         NEW q \in Int, NEW r \in Int, NEW q2 \in Int, NEW r2 \in Int,
         n = q * d + r, r * n >= 0, r < d \/ r < -d, -r < d \/ -r < -d,
         n = q2 * d + r2, r2 * n >= 0, r2 < d \/ r2 < -d, -r2 < d \/ -r2 < -d
  PROVE  q = q2 /\ r = r2
<1>1. PICK b \in Nat : b = IF d < 0 THEN -d ELSE d
  OBVIOUS
<1>2. -b < r /\ r < b /\ -b < r2 /\ r2 < b
  BY <1>1
<1>3. PICK e \in Int : e = q - q2 /\ e * d = r2 - r
  <2>1. (q - q2) * d = q * d - q2 * d
    OBVIOUS
  <2> QED
    BY <2>1
<1>4. e * b = IF d < 0 THEN -(e * d) ELSE e * d
  BY <1>1
<1>5. CASE n = 0
  <2>1. q * b \in {r, -r} /\ q2 * b \in {r2, -r2}
    BY <1>1, <1>5
  <2>2. q = 0 /\ q2 = 0
    BY <1>2, <2>1, SmallMultiple
  <2> QED
    BY <1>5, <2>2
<1>6. CASE n # 0
  <2>1. (r >= 0 /\ r2 >= 0) \/ (r <= 0 /\ r2 <= 0)
    <3>1. CASE n > 0
      <4>1. r < 0 => r * n < 0
        BY <3>1
      <4>2. r2 < 0 => r2 * n < 0
        BY <3>1
      <4> QED
        BY <4>1, <4>2
    <3>2. CASE n < 0
      <4>1. r > 0 => r * n < 0
        BY <3>2
      <4>2. r2 > 0 => r2 * n < 0
        BY <3>2
      <4> QED
        BY <4>1, <4>2
    <3> QED
      BY <1>6, <3>1, <3>2
  <2>2. -b < e * b /\ e * b < b
    BY <1>2, <1>3, <1>4, <2>1
  <2>3. e = 0
    BY <2>2, SmallMultiple
  <2> QED
    BY <1>3, <2>3
<1> QED
  BY <1>5, <1>6

\* C's remainder is one.
LEMMA RemainderSize ==
  ASSUME NEW n \in Int, NEW d \in Int, d # 0
  PROVE  /\ Remainder(n, d) * n >= 0
         /\ Remainder(n, d) < d \/ Remainder(n, d) < -d
         /\ -Remainder(n, d) < d \/ -Remainder(n, d) < -d
<1>1. PICK a \in Nat, b \in Nat \ {0} :
        a = (IF n < 0 THEN -n ELSE n) /\ b = (IF d < 0 THEN -d ELSE d)
  OBVIOUS
<1>2. PICK q \in Int, r \in 0..b - 1 : q = a \div b /\ r = a % b /\ a = q * b + r
  <2>1. a \div b \in Int /\ a % b \in 0..b - 1 /\ a = (a \div b) * b + (a % b)
    BY Division
  <2> QED
    BY <2>1
<1>3. Quotient(n, d) = IF (n < 0) = (d < 0) THEN q ELSE -q
  BY <1>1, <1>2 DEF Quotient
<1>4. PICK x \in Int : x = Quotient(n, d) /\ Remainder(n, d) = n - d * x
  BY <1>2, <1>3 DEF Remainder
<1>5. PICK m \in Int : m = q * b /\ (-b) * q = -m /\ (-b) * (-q) = m /\ b * (-q) = -m /\ b * q = m
  BY <1>1, <1>2
<1>6. d * x = IF n < 0 THEN -m ELSE m
  <2>1. CASE n < 0 /\ d < 0
    <3>1. x = q /\ d = -b
      BY <1>1, <1>3, <1>4, <2>1
    <3> QED
      BY <1>5, <2>1, <3>1
  <2>2. CASE n < 0 /\ ~(d < 0)
    <3>1. x = -q /\ d = b
      BY <1>1, <1>3, <1>4, <2>2
    <3> QED
      BY <1>5, <2>2, <3>1
  <2>3. CASE ~(n < 0) /\ d < 0
    <3>1. x = -q /\ d = -b
      BY <1>1, <1>3, <1>4, <2>3
    <3> QED
      BY <1>5, <2>3, <3>1
  <2>4. CASE ~(n < 0) /\ ~(d < 0)
    <3>1. x = q /\ d = b
      BY <1>1, <1>3, <1>4, <2>4
    <3> QED
      BY <1>5, <2>4, <3>1
  <2> QED
    BY <2>1, <2>2, <2>3, <2>4
<1>7. PICK t \in Int : t = Remainder(n, d) /\ t = IF n < 0 THEN -r ELSE r
  <2>1. PICK y \in Int : y = d * x /\ Remainder(n, d) = n - y
    BY <1>4
  <2> QED
    BY <1>1, <1>2, <1>5, <1>6, <2>1
<1>8. t * n >= 0
  <2>1. CASE n < 0
    <3>0. r \in Int /\ r >= 0 /\ a \in Int /\ a >= 0
      BY <1>1, <1>2
    <3>1. (-r) * (-a) = r * a /\ r * a >= 0
      BY <3>0
    <3>2. t = -r /\ n = -a
      BY <1>1, <1>7, <2>1
    <3> QED
      BY <3>1, <3>2
  <2>2. CASE ~(n < 0)
    BY <1>1, <1>2, <1>7, <2>2
  <2> QED
    BY <2>1, <2>2
<1>9. (t < d \/ t < -d) /\ (-t < d \/ -t < -d)
  BY <1>1, <1>2, <1>7
<1> QED
  BY <1>7, <1>8, <1>9

-----------------------------------------------------------------------------
(* What the words compute is what StackWords says. *)

\* Both divisions agree: quotient and remainder are one pair of cells.
LEMMA DivisionMeans ==
  ASSUME NEW n \in Cells, NEW d \in Cells, d # 0, ~(d = -1 /\ n = -Half)
  PROVE  Promise!DivMod(n, d) = <<Quotient(n, d), Remainder(n, d)>>
<1> DEFINE Divided(p) ==
             /\ n = p[1] * d + p[2]
             /\ p[2] * n >= 0
             /\ p[2] < d \/ p[2] < -d
             /\ -p[2] < d \/ -p[2] < -d
           found == <<Quotient(n, d), Remainder(n, d)>>
<1>1. /\ n \in Int /\ d \in Int /\ Cells \subseteq Int
      /\ Quotient(n, d) \in Cells /\ Remainder(n, d) \in Cells
  BY DivisionIsCell, CellsAreNumbers
<1>2. found \in Cells \X Cells /\ found[1] = Quotient(n, d) /\ found[2] = Remainder(n, d)
  BY <1>1
<1>3. n = Quotient(n, d) * d + Remainder(n, d)
  <2>1. PICK q \in Int : q = Quotient(n, d) /\ Remainder(n, d) = n - d * q
    BY <1>1 DEF Remainder
  <2> QED
    BY <1>1, <2>1
<1>4. /\ Remainder(n, d) * n >= 0
      /\ Remainder(n, d) < d \/ Remainder(n, d) < -d
      /\ -Remainder(n, d) < d \/ -Remainder(n, d) < -d
  BY <1>1, RemainderSize
<1>5. Divided(found)
  BY <1>2, <1>3, <1>4
<1>6. ASSUME NEW p \in Cells \X Cells, Divided(p)
      PROVE  p = found
  <2>1. PICK q \in Int, r \in Int : q = p[1] /\ r = p[2] /\ p = <<q, r>>
    <3>1. p = <<p[1], p[2]>> /\ p[1] \in Cells /\ p[2] \in Cells
      OBVIOUS
    <3>2. p[1] \in Int /\ p[2] \in Int
      BY <1>1, <3>1
    <3> QED
      BY <3>1, <3>2
  <2>2. PICK q2 \in Int, r2 \in Int : q2 = Quotient(n, d) /\ r2 = Remainder(n, d)
    BY <1>1
  <2>3. n = q * d + r /\ r * n >= 0 /\ (r < d \/ r < -d) /\ (-r < d \/ -r < -d)
    BY <1>6, <2>1
  <2>4. n = q2 * d + r2 /\ r2 * n >= 0 /\ (r2 < d \/ r2 < -d) /\ (-r2 < d \/ -r2 < -d)
    BY <1>3, <1>4, <2>2
  <2>5. q = q2 /\ r = r2
    BY <1>1, <2>3, <2>4, OneQuotient
  <2> QED
    BY <2>1, <2>2, <2>5
<1> HIDE DEF found
<1>7. Promise!DivMod(n, d) = CHOOSE p \in Cells \X Cells : Divided(p)
  BY SameCells DEF Promise!DivMod
<1>8. Promise!DivMod(n, d) = found
  BY <1>2, <1>5, <1>6, <1>7
<1> QED
  BY <1>8 DEF found

LEMMA WrapSame ==
  ASSUME NEW v \in Cells
  PROVE  Wrap(v) = v
<1>1. PICK h \in Nat \ {0}, m \in Nat \ {0}, a \in Int :
        h = Half /\ m = 2 * Half /\ a = v + Half /\ a \in 0..m - 1
  BY PowerAssumption, CellsAreNumbers
<1>2. a % m = a
  BY <1>1
<1> QED
  BY <1>1, <1>2, CellsAreNumbers DEF Wrap

LEMMA FlagsMean ==
  /\ Wrap(QLF_TRUE) = QLF_TRUE /\ Wrap(QLF_FALSE) = QLF_FALSE
  /\ Promise!QLF_TRUE = QLF_TRUE /\ Promise!QLF_FALSE = QLF_FALSE
BY CellsAreNumbers, WrapSame DEF Promise!QLF_TRUE, Promise!QLF_FALSE, QLF_TRUE, QLF_FALSE

\* Half of a cell, towards minus infinity.
LEMMA HalfMeans ==
  ASSUME NEW x \in Cells
  PROVE  (CHOOSE h \in Cells : x - 2 * h \in {0, 1}) = Wrap(x \div 2)
<1>1. x \in Int /\ Half \in Nat \ {0} /\ -Half <= x /\ x < Half
  BY CellsAreNumbers
<1>2. x \div 2 \in Cells /\ x - 2 * (x \div 2) \in {0, 1}
  <2>1. x \div 2 \in Int /\ x - 2 * (x \div 2) \in {0, 1}
    BY <1>1
  <2> QED
    BY <1>1, <2>1, CellsAreNumbers
<1>3. ASSUME NEW h \in Cells, x - 2 * h \in {0, 1} PROVE h = x \div 2
  BY <1>1, <1>2, <1>3, CellsAreNumbers
<1>4. Wrap(x \div 2) = x \div 2
  BY <1>2, WrapSame
<1> QED
  BY <1>2, <1>3, <1>4

\* Words on one cell.
LEMMA UnaryMeans ==
  ASSUME tos \in Cells, NEW w \in Unary
  PROVE  Promise!OfOne(w, tos) = <<Wrap(Changed(w))>>
<1>1. tos \in Int
  BY CellsAreNumbers
<1>2. \A v \in Int : Promise!Cut(v) = Wrap(v)
  BY WrapCuts
<1>3. CASE w \in {"0<", "0=", "0>"}
  BY <1>1, <1>3, FlagsMean DEF Promise!OfOne, Changed, Tested, Promise!Flag, Flag
<1>4. CASE w \in {"NEGATE", "NOT"}
  <2>1. -tos \in Int /\ -1 - tos \in Int /\ -tos - 1 = -1 - tos
    BY <1>1
  <2> QED
    BY <1>2, <1>4, <2>1 DEF Promise!OfOne, Changed, Turned
<1>5. CASE w = "ABS"
  <2>1. Wrap(tos) = tos /\ -tos \in Int
    BY <1>1, WrapSame
  <2> QED
    BY <1>2, <1>5, <2>1 DEF Promise!OfOne, Changed, Turned
<1>6. CASE w \in {"1+", "1-", "2+", "2-", "4+", "4-", "2*"}
  <2>1. /\ tos + 1 \in Int /\ tos + 2 \in Int /\ tos + 4 \in Int
        /\ tos - 1 \in Int /\ tos - 2 \in Int /\ tos - 4 \in Int
        /\ 2 * tos \in Int /\ 2 * tos = tos * 2
    BY <1>1
  <2> QED
    BY <1>2, <1>6, <2>1 DEF Promise!OfOne, Changed, Stepped
<1>7. CASE w = "2/"
  BY <1>7, HalfMeans, SameCells DEF Promise!OfOne, Changed, Stepped
<1> QED
  BY <1>3, <1>4, <1>5, <1>6, <1>7 DEF Unary

\* Words on two; * is the one that does not mean what it says.
LEMMA BinaryMeans ==
  ASSUME tos \in Cells, nos \in Cells, NEW w \in Binary, w # "*", ~Fatal(w)
  PROVE  Promise!OfTwo(w, nos, tos) = <<Wrap(Merged(w))>>
<1>1. tos \in Int /\ nos \in Int
  BY CellsAreNumbers
<1>2. \A v \in Int : Promise!Cut(v) = Wrap(v)
  BY WrapCuts
<1>3. CASE w \in {"+", "-"}
  <2>1. nos + tos \in Int /\ nos - tos \in Int
    BY <1>1
  <2> QED
    BY <1>2, <1>3, <2>1 DEF Promise!OfTwo, Merged, Computed
<1>4. CASE w \in {"/", "MOD"}
  <2>1. tos # 0 /\ ~(tos = -1 /\ nos = -Half)
    BY <1>4 DEF Fatal
  <2>2. Promise!DivMod(nos, tos) = <<Quotient(nos, tos), Remainder(nos, tos)>>
    BY <2>1, DivisionMeans
  <2>3. /\ Wrap(Quotient(nos, tos)) = Quotient(nos, tos)
        /\ Wrap(Remainder(nos, tos)) = Remainder(nos, tos)
    BY <2>1, DivisionIsCell, WrapSame
  <2> QED
    BY <1>4, <2>2, <2>3 DEF Promise!OfTwo, Merged, Computed
<1>5. CASE w \in {"MIN", "MAX"}
  <2>1. (CHOOSE m \in {nos, tos} : m <= nos /\ m <= tos) = IF nos < tos THEN nos ELSE tos
    BY <1>1
  <2>2. (CHOOSE m \in {nos, tos} : m >= nos /\ m >= tos) = IF nos > tos THEN nos ELSE tos
    BY <1>1
  <2>3. Wrap(nos) = nos /\ Wrap(tos) = tos
    BY WrapSame
  <2> QED
    BY <1>5, <2>1, <2>2, <2>3 DEF Promise!OfTwo, Merged, Chosen
<1>6. CASE w \in {"AND", "OR", "XOR"}
  <2>1. 2^Width = 2 * Half
    BY PowerAssumption
  <2>2. nos % (2 * Half) \in Bits /\ tos % (2 * Half) \in Bits /\ Bits \subseteq Int
    BY <1>1, CellsAreNumbers DEF Bits
  <2>3. /\ AndBits(nos % (2 * Half), tos % (2 * Half)) \in Int
        /\ OrBits(nos % (2 * Half), tos % (2 * Half)) \in Int
        /\ XorBits(nos % (2 * Half), tos % (2 * Half)) \in Int
    BY <2>2, BitsAssumption
  <2> QED
    BY <1>2, <1>6, <2>1, <2>3 DEF Promise!OfTwo, Merged, Combined
<1>7. CASE w \in {"<", "<=", "<>", "=", ">", ">="}
  BY <1>1, <1>7, FlagsMean DEF Promise!OfTwo, Merged, Compared, Promise!Flag, Flag
<1> QED
  BY <1>3, <1>4, <1>5, <1>6, <1>7 DEF Binary

-----------------------------------------------------------------------------
(* The sequence that array, index and top stand for. *)

LEMMA StackIs ==
  ASSUME StackTypeOK
  PROVE  /\ dp \in Nat /\ Stack \in Seq(Cells) /\ Len(Stack) = dp
         /\ \A i \in 1..dp : Stack[i] = IF i < dp THEN mem[i] ELSE tos
         /\ \A i \in 0..dp : i \in Slots /\ mem[i] \in Cells
<1>1. dp \in Nat /\ \A i \in 0..dp : i \in Slots /\ mem[i] \in Cells
  BY HostStackAssumption DEF StackTypeOK, Slots
<1>2. PICK n \in Nat : n = dp
  BY <1>1
<1>3. \A i \in 1..n : (IF i < n THEN mem[i] ELSE tos) \in Cells
  BY <1>1, <1>2 DEF StackTypeOK
<1>4. Stack = [i \in 1..n |-> IF i < n THEN mem[i] ELSE tos]
  BY <1>2 DEF Stack
<1>5. Stack \in Seq(Cells) /\ Len(Stack) = n
  BY <1>3, <1>4
<1> QED
  BY <1>1, <1>2, <1>4, <1>5

\* The operands.
LEMMA Operand ==
  ASSUME StackTypeOK
  PROVE  /\ dp >= 1 => Promise!Item(Stack, 1) = tos
         /\ dp >= 2 => Promise!Item(Stack, 2) = nos
         /\ dp >= 3 => Promise!Item(Stack, 3) = mem[dp - 2]
         /\ \A k \in Nat : 2 <= k /\ k <= dp => Promise!Item(Stack, k) = mem[dp + 1 - k]
<1>1. PICK n \in Nat : n = dp
  BY StackIs
<1>2. /\ \A k : Promise!Item(Stack, k) = Stack[n + 1 - k]
      /\ \A i \in 1..n : Stack[i] = IF i < n THEN mem[i] ELSE tos
  BY <1>1, StackIs DEF Promise!Item
<1>3. n >= 1 => Promise!Item(Stack, 1) = tos
  BY <1>2
<1>4. ASSUME NEW k \in Nat, 2 <= k, k <= n
      PROVE  Promise!Item(Stack, k) = mem[n + 1 - k]
  <2>1. n + 1 - k \in 1..n /\ n + 1 - k < n
    BY <1>4
  <2> QED
    BY <1>2, <2>1
<1>5. (n >= 2 => Promise!Item(Stack, 2) = mem[n - 1]) /\ (n >= 3 => Promise!Item(Stack, 3) = mem[n - 2])
  BY <1>4
<1> QED
  BY <1>1, <1>3, <1>4, <1>5 DEF nos

\* The cells below k operands.
LEMMA BelowIs ==
  ASSUME StackTypeOK, NEW k \in 1..dp
  PROVE  /\ Promise!Below(Stack, k) \in Seq(Cells) /\ Len(Promise!Below(Stack, k)) = dp - k
         /\ \A i \in 1..dp - k : Promise!Below(Stack, k)[i] = mem[i]
BY StackIs DEF Promise!Below

LEMMA Concatenation ==
  ASSUME NEW S, NEW s \in Seq(S), NEW r \in Seq(S)
  PROVE  /\ s \o r \in Seq(S) /\ Len(s \o r) = Len(s) + Len(r)
         /\ \A i \in 1..Len(s) + Len(r) : (s \o r)[i] = IF i <= Len(s) THEN s[i] ELSE r[i - Len(s)]
OBVIOUS

LEMMA AppendOne ==
  ASSUME NEW S, NEW s \in Seq(S), NEW x \in S
  PROVE  Append(s, x) = s \o <<x>>
OBVIOUS

\* A word that leaves the results r in the place of k operands.
LEMMA StackLeaves ==
  ASSUME StackTypeOK, NEW k \in 1..dp, NEW n \in Nat, n > 0, NEW r \in Seq(Cells), Len(r) = n,
         dp' = dp - k + n, tos' = r[n],
         \A i \in 1..dp - k : mem'[i] = mem[i],
         \A j \in 1..n - 1 : mem'[dp - k + j] = r[j]
  PROVE  Stack' = Promise!Below(Stack, k) \o r
<1>1. PICK m \in Nat : m = dp - k
  BY StackIs
<1>2. PICK s \in Seq(Cells) : s = Promise!Below(Stack, k) /\ Len(s) = m /\ \A i \in 1..m : s[i] = mem'[i]
  BY <1>1, BelowIs
<1> DEFINE t == s \o r
<1>3. /\ t \in Seq(Cells) /\ Len(t) = Len(s) + Len(r)
      /\ \A i \in 1..Len(s) + Len(r) : t[i] = IF i <= Len(s) THEN s[i] ELSE r[i - Len(s)]
  BY Concatenation
<1> HIDE DEF t
<1>4. Len(t) = m + n /\ \A i \in 1..m + n : t[i] = IF i <= m THEN s[i] ELSE r[i - m]
  BY <1>2, <1>3
<1>5. ASSUME NEW i \in 1..m + n
      PROVE  t[i] = IF i < m + n THEN mem'[i] ELSE tos'
  <2>1. CASE i <= m
    <3>1. t[i] = s[i] /\ s[i] = mem'[i] /\ i < m + n
      BY <1>2, <1>4, <2>1
    <3> QED
      BY <3>1
  <2>2. CASE m < i /\ i < m + n
    <3>1. i - m \in 1..n - 1 /\ i = m + (i - m)
      BY <2>2
    <3>2. t[i] = r[i - m]
      BY <1>4, <2>2
    <3>3. PICK j \in 1..n - 1 : j = i - m /\ i = m + j
      BY <3>1
    <3>4. mem'[m + j] = r[j]
      BY <1>1, <3>3
    <3> QED
      BY <2>2, <3>2, <3>3, <3>4
  <2>3. CASE i = m + n
    BY <1>4, <2>3
  <2> QED
    BY <2>1, <2>2, <2>3
<1>6. Stack' = [i \in 1..m + n |-> IF i < m + n THEN mem'[i] ELSE tos']
  BY <1>1 DEF Stack
<1>7. t = [i \in 1..m + n |-> t[i]]
  BY <1>3, <1>4
<1>8. Stack' = t
  BY <1>5, <1>6, <1>7
<1> QED
  BY <1>2, <1>8 DEF t

\* One, two or three results.
LEMMA OneLeft ==
  ASSUME StackTypeOK, NEW k \in 1..dp, NEW x \in Cells,
         dp' = dp - k + 1, tos' = x,
         \A i \in 1..dp - k : mem'[i] = mem[i]
  PROVE  Stack' = Promise!Below(Stack, k) \o <<x>>
<1> DEFINE r == <<x>>
<1>0. PICK n \in Nat : n = 1
  OBVIOUS
<1>1. r \in Seq(Cells) /\ Len(r) = n /\ r[n] = x
  BY <1>0
<1> HIDE DEF r
<1>2. /\ n > 0 /\ dp' = dp - k + n /\ tos' = r[n]
      /\ \A j \in 1..n - 1 : mem'[dp - k + j] = r[j]
  BY <1>0, <1>1
<1>3. Stack' = Promise!Below(Stack, k) \o r
  BY <1>1, <1>2, StackLeaves
<1> QED
  BY <1>3 DEF r

LEMMA TwoLeft ==
  ASSUME StackTypeOK, NEW k \in 1..dp, NEW x \in Cells, NEW y \in Cells,
         dp' = dp - k + 2, tos' = y,
         \A i \in 1..dp - k : mem'[i] = mem[i],
         mem'[dp - k + 1] = x
  PROVE  Stack' = Promise!Below(Stack, k) \o <<x, y>>
<1> DEFINE r == <<x, y>>
<1>0. PICK n \in Nat : n = 2
  OBVIOUS
<1>1. r \in Seq(Cells) /\ Len(r) = n /\ r[1] = x /\ r[n] = y
  BY <1>0
<1> HIDE DEF r
<1>2. /\ n > 0 /\ dp' = dp - k + n /\ tos' = r[n]
      /\ \A j \in 1..n - 1 : mem'[dp - k + j] = r[j]
  BY <1>0, <1>1
<1>3. Stack' = Promise!Below(Stack, k) \o r
  BY <1>1, <1>2, StackLeaves
<1> QED
  BY <1>3 DEF r

LEMMA ThreeLeft ==
  ASSUME StackTypeOK, NEW k \in 1..dp, NEW x \in Cells, NEW y \in Cells, NEW z \in Cells,
         dp' = dp - k + 3, tos' = z,
         \A i \in 1..dp - k : mem'[i] = mem[i],
         mem'[dp - k + 1] = x, mem'[dp - k + 2] = y
  PROVE  Stack' = Promise!Below(Stack, k) \o <<x, y, z>>
<1> DEFINE r == <<x, y, z>>
<1>0. PICK n \in Nat : n = 3
  OBVIOUS
<1>1. r \in Seq(Cells) /\ Len(r) = n /\ r[1] = x /\ r[2] = y /\ r[n] = z
  BY <1>0
<1> HIDE DEF r
<1>2. /\ n > 0 /\ dp' = dp - k + n /\ tos' = r[n]
      /\ \A j \in 1..n - 1 : mem'[dp - k + j] = r[j]
  BY <1>0, <1>1
<1>3. Stack' = Promise!Below(Stack, k) \o r
  BY <1>1, <1>2, StackLeaves
<1> QED
  BY <1>3 DEF r

-----------------------------------------------------------------------------
(* The primitives, one shape after the other. *)

\* What a word does is known from its name.
LEMMA ResultIs ==
  ASSUME NEW w \in Promise!Determined, w # "DEPTH"
  PROVE  /\ Operands(w) = 1 => Promise!Result(w, Stack) =
              Promise!Below(Stack, 1) \o Promise!OfOne(w, Promise!Item(Stack, 1))
         /\ Operands(w) = 2 => Promise!Result(w, Stack) =
              Promise!Below(Stack, 2) \o Promise!OfTwo(w, Promise!Item(Stack, 2), Promise!Item(Stack, 1))
         /\ Operands(w) = 3 => Promise!Result(w, Stack) =
              Promise!Below(Stack, 3) \o Promise!OfThree(w, Promise!Item(Stack, 3), Promise!Item(Stack, 2), Promise!Item(Stack, 1))
BY DEF Promise!Result, Promise!Operands, Operands,
   Promise!Unary, Unary, Promise!FloatUnary, FloatUnary, Promise!Indexed, Indexed

LEMMA SameWords ==
  /\ Promise!Unary = Unary /\ Promise!Binary = Binary /\ Promise!Moving = Moving
  /\ Promise!FloatUnary = FloatUnary /\ Promise!FloatBinary = FloatBinary
  /\ Promise!FloatTests = FloatTests /\ Promise!Primitives = Primitives
  /\ Promise!Determined = Unary \cup Binary \cup Moving
  /\ \A w : Promise!Operands(w) = Operands(w)
BY DEF Promise!Unary, Unary, Promise!Binary, Binary, Promise!Moving, Moving, Promise!Indexed, Indexed,
       Promise!FloatUnary, FloatUnary, Promise!FloatBinary, FloatBinary, Promise!FloatTests, FloatTests,
       Promise!Primitives, Primitives, Promise!Determined, Promise!Operands, Operands

\* Replace and Merge put one cell in the place of their operands.
LEMMA ComputingMeans ==
  ASSUME StackTypeOK, NEW w \in Unary \cup Binary, w # "*",
         dp >= Operands(w), ~Fatal(w), Primitive(w)
  PROVE  Stack' = Promise!Result(w, Stack)
<1>1. w \in Promise!Determined /\ w # "DEPTH"
  BY SameWords DEF Unary, Binary
<1>2. CASE w \in Unary
  <2>1. /\ Operands(w) = 1 /\ dp \in Nat /\ 1 \in 1..dp /\ tos \in Cells
        /\ tos' = Wrap(Changed(w)) /\ mem' = mem /\ dp' = dp - 1 + 1
    BY <1>2, WordActions, WordOperands, StackIs DEF Replace, StackTypeOK
  <2>2. PICK v \in Cells : v = Wrap(Changed(w))
    BY <1>2, <2>1, ChangedIsNumber, WrapIsCell
  <2>3. Stack' = Promise!Below(Stack, 1) \o <<v>>
    BY <2>1, <2>2, OneLeft
  <2> QED
    BY <1>1, <1>2, <2>1, <2>2, <2>3, ResultIs, UnaryMeans, Operand
<1>3. CASE w \in Binary
  <2>1. /\ Operands(w) = 2 /\ dp \in Nat /\ 2 \in 1..dp /\ tos \in Cells /\ nos \in Cells
        /\ tos' = Wrap(Merged(w)) /\ mem' = mem /\ dp' = dp - 2 + 1
    BY <1>3, WordActions, WordOperands, StackIs DEF Merge, StackTypeOK, nos
  <2>2. PICK v \in Cells : v = Wrap(Merged(w))
    BY <1>3, <2>1, MergedIsNumber, WrapIsCell
  <2>3. Stack' = Promise!Below(Stack, 2) \o <<v>>
    BY <2>1, <2>2, OneLeft
  <2> QED
    <3>1. Promise!OfTwo(w, nos, tos) = <<v>>
      BY <1>3, <2>1, <2>2, BinaryMeans
    <3>2. Promise!Item(Stack, 1) = tos /\ Promise!Item(Stack, 2) = nos
      BY <2>1, Operand
    <3> QED
      BY <1>1, <2>1, <2>3, <3>1, <3>2, ResultIs
<1> QED
  BY <1>2, <1>3

\* A push, and a drop.
LEMMA Pushed ==
  ASSUME StackTypeOK, Room, NEW v \in Cells, Push(v)
  PROVE  Stack' = Append(Stack, v) /\ StackTypeOK'
<1>1. /\ dp \in Nat /\ dp \in Slots /\ dp + 1 \in Slots /\ tos \in Cells
      /\ mem \in [Slots -> Cells] /\ \A i \in 0..dp : i \in Slots
  BY HostStackAssumption, StackIs DEF Room, Slots, StackTypeOK
<1>2. PICK n \in Nat : n = dp
  BY <1>1
<1>3. mem' = [mem EXCEPT ![n] = tos] /\ dp' = n + 1 /\ tos' = v
  BY <1>2 DEF Push
<1>4. StackTypeOK'
  BY <1>1, <1>2, <1>3 DEF StackTypeOK, Slots
<1>5. Stack' = [i \in 1..n + 1 |-> IF i < n + 1 THEN mem'[i] ELSE v]
  BY <1>3 DEF Stack
<1>6. PICK s \in Seq(Cells) : s = Stack /\ Len(s) = n /\ \A i \in 1..n : s[i] = IF i < n THEN mem[i] ELSE tos
  BY <1>2, StackIs
<1> DEFINE t == Append(s, v)
<1>7. /\ t \in Seq(Cells) /\ Len(t) = n + 1
      /\ \A i \in 1..n + 1 : t[i] = IF i < n + 1 THEN s[i] ELSE v
  BY <1>6
<1> HIDE DEF t
<1>8. ASSUME NEW i \in 1..n + 1
      PROVE  t[i] = IF i < n + 1 THEN mem'[i] ELSE v
  <2>1. CASE i < n + 1
    <3>1. i \in 1..n /\ i \in Slots
      BY <1>1, <1>2, <2>1
    <3> QED
      BY <1>1, <1>3, <1>6, <1>7, <2>1, <3>1
  <2> QED
    BY <1>7, <2>1
<1>9. t = [i \in 1..n + 1 |-> t[i]]
  BY <1>7
<1>10. Stack' = t
  BY <1>5, <1>8, <1>9
<1> QED
  BY <1>4, <1>6, <1>10 DEF t

LEMMA NoneLeft ==
  ASSUME StackTypeOK, dp >= 1, Pop
  PROVE  Stack' = Promise!Below(Stack, 1) /\ StackTypeOK'
<1>1. PICK m \in Nat : m = dp - 1 /\ m \in 0..dp /\ 1 \in 1..dp
  BY StackIs
<1>2. mem' = mem /\ dp' = m /\ tos' = mem[m]
  BY <1>1 DEF Pop
<1>3. StackTypeOK'
  BY <1>1, <1>2, StackIs DEF StackTypeOK
<1>4. PICK s \in Seq(Cells) : s = Promise!Below(Stack, 1) /\ Len(s) = m /\ \A i \in 1..m : s[i] = mem[i]
  BY <1>1, BelowIs
<1>5. Stack' = [i \in 1..m |-> IF i < m THEN mem[i] ELSE mem[m]]
  BY <1>2 DEF Stack
<1>6. s = [i \in 1..m |-> s[i]]
  BY <1>4
<1> QED
  BY <1>3, <1>4, <1>5, <1>6

LEMMA MovingOperands ==
  ASSUME NEW w \in Moving, w # "DEPTH"
  PROVE  /\ w \in Promise!Determined
         /\ Operands(w) = CASE w \in {"DUP", "?DUP", "DROP"} -> 1
                            [] w \in {"ROT", "-ROT"} -> 3
                            [] OTHER -> 2
BY SameWords, WordOperands DEF Moving

\* The same, with the operands at the places where the code finds them.
LEMMA ResultAtTop ==
  ASSUME StackTypeOK, NEW w \in Promise!Determined, w # "DEPTH", dp >= Operands(w)
  PROVE  /\ Operands(w) = 1 => Promise!Result(w, Stack) =
              Promise!Below(Stack, 1) \o Promise!OfOne(w, tos)
         /\ Operands(w) = 2 => Promise!Result(w, Stack) =
              Promise!Below(Stack, 2) \o Promise!OfTwo(w, nos, tos)
         /\ Operands(w) = 3 => Promise!Result(w, Stack) =
              Promise!Below(Stack, 3) \o Promise!OfThree(w, mem[dp - 2], nos, tos)
<1>1. CASE Operands(w) = 1
  <2>1. Promise!Item(Stack, 1) = tos
    BY <1>1, Operand
  <2> QED
    BY <1>1, <2>1, ResultIs
<1>2. CASE Operands(w) = 2
  <2>0. dp \in Nat /\ dp >= 2
    BY <1>2, StackIs
  <2>1. Promise!Item(Stack, 1) = tos /\ Promise!Item(Stack, 2) = nos
    BY <2>0, Operand
  <2> QED
    BY <1>2, <2>1, ResultIs
<1>3. CASE Operands(w) = 3
  <2>0. dp \in Nat /\ dp >= 3
    BY <1>3, StackIs
  <2>1. /\ Promise!Item(Stack, 1) = tos /\ Promise!Item(Stack, 2) = nos
        /\ Promise!Item(Stack, 3) = mem[dp - 2]
    BY <2>0, Operand
  <2> QED
    BY <1>3, <2>1, ResultIs
<1> QED
  BY <1>1, <1>2, <1>3

LEMMA MovingMeans ==
  ASSUME StackTypeOK, Room, NEW w \in Moving,
         dp >= Operands(w), ~Fatal(w), Primitive(w)
  PROVE  Stack' = Promise!Result(w, Stack)
<1>1. /\ dp \in Nat /\ tos \in Cells /\ mem \in [Slots -> Cells]
      /\ \A i \in 0..dp : i \in Slots /\ mem[i] \in Cells
      /\ dp >= 2 => nos \in Cells
  BY StackIs DEF StackTypeOK, nos
<1>2. CASE w = "DEPTH"
  <2>1. Push(Wrap(dp)) /\ Wrap(dp) \in Cells
    BY <1>1, <1>2, WordActions, WrapIsCell
  <2>2. Promise!Cut(dp) = Wrap(dp)
    BY <1>1, WrapCuts
  <2>3. Promise!Operands(w) = 0
    BY <1>2, SameWords, WordOperands
  <2>4. Promise!Result(w, Stack) = Append(Stack, Wrap(dp))
    BY <1>2, <2>2, <2>3, StackIs DEF Promise!Result
  <2> QED
    BY <2>1, <2>4, Pushed
<1>3. CASE w = "DUP"
  <2>1. Operands(w) = 1 /\ 1 \in 1..dp /\ Push(tos) /\ w \in Promise!Determined
    BY <1>1, <1>3, WordActions, MovingOperands
  <2>2. dp' = dp - 1 + 2 /\ tos' = tos /\ mem' = [mem EXCEPT ![dp] = tos]
    BY <1>1, <2>1 DEF Push
  <2>3. (\A i \in 1..dp - 1 : mem'[i] = mem[i]) /\ mem'[dp - 1 + 1] = tos
    BY <1>1, <2>2
  <2>4. Stack' = Promise!Below(Stack, 1) \o <<tos, tos>>
    BY <1>1, <2>1, <2>2, <2>3, TwoLeft
  <2>5. Promise!OfOne(w, tos) = <<tos, tos>>
    BY <1>3 DEF Promise!OfOne
  <2> QED
    BY <1>3, <2>1, <2>4, <2>5, ResultAtTop
<1>4. CASE w = "?DUP"
  <2>1. Operands(w) = 1 /\ 1 \in 1..dp /\ QDup /\ w \in Promise!Determined
    BY <1>1, <1>4, WordActions, MovingOperands
  <2>2. CASE tos = 0
    <3>1. dp' = dp - 1 + 1 /\ tos' = tos /\ mem' = mem
      BY <1>1, <2>1, <2>2 DEF QDup, stackVars
    <3>2. Stack' = Promise!Below(Stack, 1) \o <<tos>>
      BY <1>1, <2>1, <3>1, OneLeft
    <3>3. Promise!OfOne(w, tos) = <<tos>>
      BY <1>4, <2>2 DEF Promise!OfOne
    <3> QED
      BY <1>4, <2>1, <3>2, <3>3, ResultAtTop
  <2>3. CASE tos # 0
    <3>1. dp' = dp - 1 + 2 /\ tos' = tos /\ mem' = [mem EXCEPT ![dp] = tos]
      BY <1>1, <2>1, <2>3 DEF QDup, Push
    <3>2. (\A i \in 1..dp - 1 : mem'[i] = mem[i]) /\ mem'[dp - 1 + 1] = tos
      BY <1>1, <3>1
    <3>3. Stack' = Promise!Below(Stack, 1) \o <<tos, tos>>
      BY <1>1, <2>1, <3>1, <3>2, TwoLeft
    <3>4. Promise!OfOne(w, tos) = <<tos, tos>>
      BY <1>4, <2>3 DEF Promise!OfOne
    <3> QED
      BY <1>4, <2>1, <3>3, <3>4, ResultAtTop
  <2> QED
    BY <2>2, <2>3
<1>5. CASE w = "DROP"
  <2>1. Operands(w) = 1 /\ 1 \in 1..dp /\ Pop /\ w \in Promise!Determined
    BY <1>1, <1>5, WordActions, MovingOperands
  <2>2. Stack' = Promise!Below(Stack, 1) /\ Promise!Below(Stack, 1) \in Seq(Cells)
    BY <1>1, <2>1, NoneLeft, BelowIs
  <2>3. Promise!OfOne(w, tos) = <<>>
    BY <1>5 DEF Promise!OfOne
  <2>4. Promise!Result(w, Stack) = Promise!Below(Stack, 1) \o <<>>
    BY <1>1, <1>5, <2>1, <2>3, ResultAtTop
  <2> QED
    BY <2>2, <2>4, Concatenation

<1>6. CASE w = "OVER"
  <2>1. Operands(w) = 2 /\ 2 \in 1..dp /\ Push(nos) /\ w \in Promise!Determined /\ nos \in Cells
    BY <1>1, <1>6, WordActions, MovingOperands
  <2>2. dp' = dp - 2 + 3 /\ tos' = nos /\ mem' = [mem EXCEPT ![dp] = tos]
    BY <1>1, <2>1 DEF Push
  <2>3. (\A i \in 1..dp - 2 : mem'[i] = mem[i]) /\ mem'[dp - 2 + 1] = nos /\ mem'[dp - 2 + 2] = tos
    BY <1>1, <2>1, <2>2 DEF nos
  <2>4. Stack' = Promise!Below(Stack, 2) \o <<nos, tos, nos>>
    BY <1>1, <2>1, <2>2, <2>3, ThreeLeft
  <2>5. Promise!OfTwo(w, nos, tos) = <<nos, tos, nos>>
    BY <1>6 DEF Promise!OfTwo
  <2> QED
    BY <1>6, <2>1, <2>4, <2>5, ResultAtTop
<1>7. CASE w = "SWAP"
  <2>1. Operands(w) = 2 /\ 2 \in 1..dp /\ Swap /\ w \in Promise!Determined /\ nos \in Cells
    BY <1>1, <1>7, WordActions, MovingOperands
  <2>2. dp' = dp - 2 + 2 /\ tos' = nos /\ mem' = [mem EXCEPT ![dp - 1] = tos]
    BY <1>1, <2>1 DEF Swap
  <2>3. (\A i \in 1..dp - 2 : mem'[i] = mem[i]) /\ mem'[dp - 2 + 1] = tos
    BY <1>1, <2>1, <2>2
  <2>4. Stack' = Promise!Below(Stack, 2) \o <<tos, nos>>
    BY <1>1, <2>1, <2>2, <2>3, TwoLeft
  <2>5. Promise!OfTwo(w, nos, tos) = <<tos, nos>>
    BY <1>7 DEF Promise!OfTwo
  <2> QED
    BY <1>7, <2>1, <2>4, <2>5, ResultAtTop
<1>8. CASE w = "/MOD"
  <2>1. Operands(w) = 2 /\ 2 \in 1..dp /\ DivMod /\ w \in Promise!Determined /\ nos \in Cells
    BY <1>1, <1>8, WordActions, MovingOperands
  <2>2. CASE tos = 0
    <3>1. dp' = dp - 2 + 2 /\ tos' = tos /\ mem' = mem /\ mem'[dp - 2 + 1] = nos
      BY <1>1, <2>1, <2>2 DEF DivMod, stackVars, nos
    <3>2. Stack' = Promise!Below(Stack, 2) \o <<nos, tos>>
      BY <1>1, <2>1, <3>1, TwoLeft
    <3>3. Promise!OfTwo(w, nos, tos) = <<nos, tos>>
      BY <1>8, <2>2 DEF Promise!OfTwo
    <3> QED
      BY <1>8, <2>1, <3>2, <3>3, ResultAtTop
  <2>3. CASE tos # 0
    <3>1. ~(tos = -1 /\ nos = -Half)
      BY <1>8 DEF Fatal
    <3>2. PICK q \in Cells, r \in Cells : q = Quotient(nos, tos) /\ r = Remainder(nos, tos)
      BY <1>1, <2>1, <2>3, <3>1, DivisionIsCell
    <3>3. dp' = dp - 2 + 2 /\ tos' = q /\ mem' = [mem EXCEPT ![dp - 1] = r]
      BY <1>1, <2>1, <2>3, <3>2 DEF DivMod
    <3>4. (\A i \in 1..dp - 2 : mem'[i] = mem[i]) /\ mem'[dp - 2 + 1] = r
      BY <1>1, <2>1, <3>3
    <3>5. Stack' = Promise!Below(Stack, 2) \o <<r, q>>
      BY <1>1, <2>1, <3>2, <3>3, <3>4, TwoLeft
    <3>6. Promise!DivMod(nos, tos) = <<q, r>>
      BY <1>1, <2>1, <2>3, <3>1, <3>2, DivisionMeans
    <3>7. Promise!OfTwo(w, nos, tos) = <<r, q>>
      BY <1>8, <2>3, <3>6 DEF Promise!OfTwo
    <3> QED
      BY <1>8, <2>1, <3>5, <3>7, ResultAtTop
  <2> QED
    BY <2>2, <2>3
<1>9. CASE w \in {"ROT", "-ROT"}
  <2>1. /\ Operands(w) = 3 /\ 3 \in 1..dp /\ w \in Promise!Determined
        /\ w = "ROT" => Rot
        /\ w = "-ROT" => MinusRot
    BY <1>1, <1>9, WordActions, MovingOperands
  <2>2. PICK z \in Cells, y \in Cells : z = mem[dp - 2] /\ y = nos
    BY <1>1, <2>1
  <2>3. CASE w = "ROT"
    <3>1. dp' = dp - 3 + 3 /\ tos' = z /\ mem' = [mem EXCEPT ![dp - 2] = y, ![dp - 1] = tos]
      BY <1>1, <2>1, <2>2, <2>3 DEF Rot
    <3>2. (\A i \in 1..dp - 3 : mem'[i] = mem[i]) /\ mem'[dp - 3 + 1] = y /\ mem'[dp - 3 + 2] = tos
      BY <1>1, <2>1, <3>1
    <3>3. Stack' = Promise!Below(Stack, 3) \o <<y, tos, z>>
      BY <1>1, <2>1, <3>1, <3>2, ThreeLeft
    <3>4. Promise!OfThree(w, z, y, tos) = <<y, tos, z>>
      BY <2>3 DEF Promise!OfThree
    <3> QED
      BY <1>1, <2>1, <2>2, <2>3, <3>3, <3>4, ResultAtTop
  <2>4. CASE w = "-ROT"
    <3>1. dp' = dp - 3 + 3 /\ tos' = y /\ mem' = [mem EXCEPT ![dp - 1] = z, ![dp - 2] = tos]
      BY <1>1, <2>1, <2>2, <2>4 DEF MinusRot
    <3>2. (\A i \in 1..dp - 3 : mem'[i] = mem[i]) /\ mem'[dp - 3 + 1] = tos /\ mem'[dp - 3 + 2] = z
      BY <1>1, <2>1, <3>1
    <3>3. Stack' = Promise!Below(Stack, 3) \o <<tos, z, y>>
      <4>1. 3 \in 1..dp /\ tos \in Cells /\ z \in Cells /\ y \in Cells
        BY <1>1, <2>1
      <4>2. /\ dp' = dp - 3 + 3 /\ tos' = y /\ \A i \in 1..dp - 3 : mem'[i] = mem[i]
            /\ mem'[dp - 3 + 1] = tos /\ mem'[dp - 3 + 2] = z
        BY <3>1, <3>2
      <4> QED
        BY <4>1, <4>2, ThreeLeft
    <3>4. Promise!OfThree(w, z, y, tos) = <<tos, z, y>>
      BY <2>4 DEF Promise!OfThree
    <3> QED
      BY <2>1, <2>2, <2>4, <3>3, <3>4, ResultAtTop
  <2> QED
    BY <1>9, <2>3, <2>4
<1> QED
  BY <1>2, <1>3, <1>4, <1>5, <1>6, <1>7, <1>8, <1>9 DEF Moving

\* A floating-point word leaves one cell, whatever the library computes.
LEMMA FloatMeans ==
  ASSUME StackTypeOK, NEW w \in FloatUnary \cup FloatBinary \cup FloatTests,
         dp >= Operands(w), Primitive(w)
  PROVE  Promise!Float(w)
<1>1. PICK k \in 1..dp : k = Operands(w)
  BY WordOperands, StackIs
<1>2. Float(w)
  BY WordActions
<1> DEFINE V == IF w \in FloatTests THEN {QLF_TRUE, QLF_FALSE} ELSE Cells
<1>3. PICK v \in V : tos' = v
  <2>1. CASE w = "FLOAT"
    BY <1>2, <2>1 DEF Float, FloatTests, StackTypeOK
  <2> QED
    BY <1>2, <2>1 DEF Float
<1>4. v \in Cells
  BY <1>3, CellsAreNumbers
<1>5. dp' = dp - k + 1 /\ \A i \in 1..dp - k : mem'[i] = mem[i]
  BY <1>1, <1>2, StackIs DEF Float
<1>6. Stack' = Promise!Below(Stack, k) \o <<v>>
  BY <1>3, <1>4, <1>5, OneLeft
<1>7. Stack' = Append(Promise!Below(Stack, k), v)
  BY <1>4, <1>6, BelowIs, AppendOne
<1>8. /\ Promise!FloatUnary = FloatUnary /\ Promise!FloatBinary = FloatBinary
      /\ Promise!FloatTests = FloatTests /\ Promise!Operands(w) = k
      /\ Promise!Cell = Cells /\ Promise!QLF_TRUE = QLF_TRUE /\ Promise!QLF_FALSE = QLF_FALSE
  BY <1>1, SameWords, SameCells DEF Promise!QLF_TRUE, QLF_TRUE, Promise!QLF_FALSE, QLF_FALSE
<1> QED
  BY <1>3, <1>7, <1>8 DEF Promise!Float

\* PICK copies the cell that its index names.
LEMMA PickMeans ==
  ASSUME StackTypeOK, dp >= 1, Primitive("PICK")
  PROVE  Promise!Pick(tos, dp)
<1>1. /\ dp \in Nat /\ 1 \in 1..dp /\ tos \in Int
      /\ \A i \in 0..dp : i \in Slots /\ mem[i] \in Cells
  BY StackIs, CellsAreNumbers DEF StackTypeOK
<1>2. Pick
  BY WordActions
<1>3. mem' = mem /\ dp' = dp
  BY <1>2 DEF Pick
<1>4. CASE tos >= dp
  <2>1. tos' = tos
    BY <1>1, <1>2, <1>4 DEF Pick
  <2>2. Stack' = Stack
    BY <1>3, <2>1 DEF Stack
  <2> QED
    BY <1>1, <1>4, <2>2 DEF Promise!Pick
<1>5. CASE tos < dp
  <2>1. PICK v \in Cells : Reached(v) /\ tos' = v
    BY <1>2, <1>5 DEF Pick
  <2>2. Stack' = Promise!Below(Stack, 1) \o <<v>>
    BY <1>1, <1>3, <2>1, OneLeft
  <2>3. Stack' = Append(Promise!Below(Stack, 1), v)
    BY <1>1, <2>1, <2>2, BelowIs, AppendOne
  <2>4. CASE tos \in 0..dp - 2
    <3>1. v = mem[dp - tos - 1]
      BY <1>1, <2>1, <2>4 DEF Reached
    <3>2. Promise!Item(Stack, tos + 2) = mem[dp + 1 - (tos + 2)]
      BY <1>1, <2>4, Operand
    <3>3. Promise!Item(Stack, tos + 2) = v
      BY <1>1, <3>1, <3>2
    <3> QED
      BY <1>1, <2>3, <2>4, <3>3 DEF Promise!Pick
  <2>5. CASE tos \notin 0..dp - 2
    BY <1>1, <1>5, <2>3, <2>5, SameCells DEF Promise!Pick
  <2> QED
    BY <2>4, <2>5
<1> QED
  BY <1>1, <1>4, <1>5

\* ROLL moves it, and the cells above it come down by one.
LEMMA RollMeans ==
  ASSUME StackTypeOK, dp >= 1, Primitive("ROLL")
  PROVE  Promise!Roll(tos, dp)
<1>1. /\ dp \in Nat /\ tos \in Int /\ mem \in [Slots -> Cells]
      /\ \A i \in 0..dp : i \in Slots /\ mem[i] \in Cells
  BY StackIs, CellsAreNumbers DEF StackTypeOK
<1>2. Roll
  BY WordActions
<1>3. CASE tos >= dp
  <2>1. Stack' = Stack
    BY <1>1, <1>2, <1>3 DEF Roll, stackVars, Stack
  <2> QED
    BY <1>1, <1>3, <2>1 DEF Promise!Roll
<1>4. CASE tos < dp
  <2>0. PICK n \in Nat : n = dp - 1
    BY <1>1
  <2>1. PICK v \in Cells : Reached(v) /\ tos' = v
    BY <1>1, <1>2, <1>4 DEF Roll
  <2>2. /\ dp' = n
        /\ \A i \in Slots : mem'[i] = IF i \in dp - tos - 1..dp - 1 THEN mem[i + 1] ELSE mem[i]
    BY <1>1, <1>2, <1>4, <2>0 DEF Roll
  <2>3. Stack' = [i \in 1..n |-> IF i < n THEN mem'[i] ELSE v]
    BY <2>1, <2>2 DEF Stack
  <2>4. CASE tos \in 0..dp - 2
    <3>1. PICK m \in Nat, k \in Nat : k = tos /\ m = dp - tos - 2 /\ n = m + k + 1
      BY <1>1, <2>0, <2>4
    <3>2. v = mem[m + 1]
      BY <1>1, <2>0, <2>1, <3>1 DEF Reached
    <3>3. Promise!Item(Stack, k + 2) = v
      <4>1. Promise!Item(Stack, k + 2) = mem[dp + 1 - (k + 2)]
        BY <1>1, <2>0, <3>1, Operand
      <4>2. dp + 1 - (k + 2) = m + 1
        BY <1>1, <2>0, <3>1
      <4> QED
        BY <3>2, <4>1, <4>2
    <3> DEFINE a == SubSeq(Stack, 1, m)
               b == SubSeq(Stack, m + 2, n)
               ab == a \o b
               t == Append(ab, v)
    <3>4. /\ a \in Seq(Cells) /\ Len(a) = m /\ \A i \in 1..m : a[i] = mem[i]
          /\ b \in Seq(Cells) /\ Len(b) = k /\ \A i \in 1..k : b[i] = mem[m + 1 + i]
      BY <1>1, <2>0, <3>1, StackIs
    <3> HIDE DEF a, b
    <3>5. /\ ab \in Seq(Cells) /\ Len(ab) = m + k
          /\ \A i \in 1..m + k : ab[i] = IF i <= m THEN a[i] ELSE b[i - m]
      <4>1. /\ ab \in Seq(Cells) /\ Len(ab) = Len(a) + Len(b)
            /\ \A i \in 1..Len(a) + Len(b) : ab[i] = IF i <= Len(a) THEN a[i] ELSE b[i - Len(a)]
        BY <3>4, Concatenation
      <4> QED
        BY <3>4, <4>1
    <3> HIDE DEF ab
    <3>6. /\ t \in Seq(Cells) /\ Len(t) = n
          /\ \A i \in 1..n : t[i] = IF i < n THEN ab[i] ELSE v
      BY <2>1, <3>1, <3>5
    <3> HIDE DEF t
    <3>7. ASSUME NEW i \in 1..n
          PROVE  t[i] = IF i < n THEN mem'[i] ELSE v
      <4>1. CASE i <= m
        <5>1. i \in Slots /\ mem'[i] = mem[i] /\ i < n
          BY <1>1, <2>0, <2>2, <3>1, <4>1
        <5> QED
          BY <3>1, <3>4, <3>5, <3>6, <4>1, <5>1
      <4>2. CASE m < i /\ i < n
        <5>1. i \in Slots /\ i \in dp - tos - 1..dp - 1
          BY <1>1, <2>0, <3>1, <4>2
        <5>2. mem'[i] = mem[i + 1]
          BY <2>2, <5>1
        <5>3. i - m \in 1..k /\ m + 1 + (i - m) = i + 1
          BY <3>1, <4>2
        <5>4. t[i] = b[i - m]
          BY <3>1, <3>5, <3>6, <4>2
        <5> QED
          BY <3>4, <4>2, <5>2, <5>3, <5>4
      <4> QED
        BY <3>6, <4>1, <4>2
    <3>8. t = [i \in 1..n |-> t[i]]
      BY <3>6
    <3>9. Stack' = t
      BY <2>3, <3>7, <3>8
    <3>10. t = ab \o <<v>>
      BY <2>1, <3>5, AppendOne DEF t
    <3>11. Stack' = SubSeq(Stack, 1, m) \o SubSeq(Stack, m + 2, n) \o <<Promise!Item(Stack, k + 2)>>
      BY <3>3, <3>9, <3>10 DEF ab, a, b
    <3>12. dp - tos - 2 = m /\ dp - tos = m + 2 /\ dp - 1 = n /\ tos + 2 = k + 2
      BY <1>1, <2>0, <3>1
    <3>13. Stack' = SubSeq(Stack, 1, dp - tos - 2)
                     \o SubSeq(Stack, dp - tos, dp - 1) \o <<Promise!Item(Stack, tos + 2)>>
      BY <3>11, <3>12
    <3>14. tos \in 0..dp - 2 /\ ~(tos >= dp)
      BY <1>1, <2>4
    <3> QED
      BY <3>13, <3>14, Zenon DEF Promise!Roll
  <2>5. CASE tos \notin 0..dp - 2
    <3>1. Len(Stack') = n
      BY <2>3
    <3> QED
      BY <1>1, <1>4, <2>0, <2>5, <3>1 DEF Promise!Roll
  <2> QED
    BY <2>4, <2>5
<1> QED
  BY <1>1, <1>3, <1>4

\* What stops the code is what the promise cannot do.
LEMMA RunsTogether ==
  ASSUME StackTypeOK, NEW w \in Primitives
  PROVE  Promise!CanRun(w, Stack) <=> Enough(w) /\ ~Fatal(w)
<1>1. Len(Stack) = dp /\ dp \in Nat /\ Promise!Operands(w) = Operands(w)
  BY StackIs, SameWords
<1>2. CASE ~Enough(w)
  <2>1. ~(dp >= Promise!Operands(w))
    BY <1>1, <1>2 DEF Enough
  <2> QED
    BY <1>1, <1>2, <2>1 DEF Promise!CanRun
<1>3. CASE Enough(w) /\ w \in {"/", "MOD", "/MOD"}
  <2>1. Operands(w) = 2 /\ dp >= 2
    BY <1>3, WordOperands DEF Binary, Enough
  <2>2. Promise!Item(Stack, 1) = tos /\ Promise!Item(Stack, 2) = nos /\ tos \in Cells /\ nos \in Cells
    BY <1>1, <2>1, Operand, StackIs DEF StackTypeOK, nos
  <2>3. -nos \in Promise!Cell <=> nos # -Half
    BY <2>2, SameCells, CellsAreNumbers
  <2>4. Promise!Divides(nos, tos) <=> tos # 0 /\ ~(tos = -1 /\ nos = -Half)
    BY <2>3 DEF Promise!Divides
  <2>5. Promise!CanRun(w, Stack) <=> Promise!Divides(nos, tos) \/ (w = "/MOD" /\ tos = 0)
    BY <1>1, <1>3, <2>1, <2>2 DEF Promise!CanRun
  <2> QED
    BY <1>3, <2>4, <2>5 DEF Fatal
<1>4. CASE Enough(w) /\ w \notin {"/", "MOD", "/MOD"}
  BY <1>1, <1>4 DEF Promise!CanRun, Enough, Fatal
<1> QED
  BY <1>2, <1>3, <1>4

\* A primitive that has its operands and is not fatal does what its name says.
LEMMA PrimitiveMeans ==
  ASSUME StackTypeOK, Room, NEW w \in Primitives, w # "*",
         Enough(w), ~Fatal(w), Primitive(w)
  PROVE  Promise!Run(w)
<1>1. dp >= Operands(w) /\ Len(Stack) = dp /\ dp \in Nat
  BY StackIs DEF Enough
<1>2. CASE w \in Unary \cup Binary \cup Moving
  <2>1. Stack' = Promise!Result(w, Stack)
    BY <1>1, <1>2, ComputingMeans, MovingMeans
  <2> QED
    BY <1>2, <2>1, SameWords DEF Promise!Run, Promise!Plain
<1>3. CASE w \in FloatUnary \cup FloatBinary \cup FloatTests
  BY <1>1, <1>3, FloatMeans DEF Promise!Run
<1>4. CASE w \in Indexed
  <2>1. dp >= 1 /\ w \in {"PICK", "ROLL"}
    BY <1>1, <1>4, WordOperands DEF Indexed
  <2>2. Promise!Item(Stack, 1) = tos
    BY <2>1, Operand
  <2>3. CASE w = "PICK"
    BY <1>1, <2>1, <2>2, <2>3, PickMeans DEF Promise!Run
  <2>4. CASE w = "ROLL"
    BY <1>1, <2>1, <2>2, <2>4, RollMeans DEF Promise!Run
  <2> QED
    BY <2>1, <2>3, <2>4
<1> QED
  BY <1>2, <1>3, <1>4 DEF Primitives

\* It leaves cells.
LEMMA PrimitiveTypes ==
  ASSUME StackTypeOK, Room, NEW w \in Primitives,
         Enough(w), ~Fatal(w), Primitive(w)
  PROVE  StackTypeOK'
<1>1. Sound(Cells)
  BY StackIs DEF Sound, StackTypeOK, Room
<1>2. Keeps(Cells)
  BY <1>1, PrimitiveKeeps DEF Enough
<1> QED
  BY <1>1, <1>2, HostStackAssumption DEF Keeps, Sound, StackTypeOK, Slots

-----------------------------------------------------------------------------
(* The interpreter. *)

\* What the runs keep: the stack's types, and constants that are cells.
CellsStay ==
  /\ StackTypeOK
  /\ \A name \in DOMAIN constants : constants[name] \in Cells

LEMMA InitiallyCells == Init => CellsStay
BY HostStackAssumption, CellsAreNumbers DEF Init, StackInit, CellsStay, StackTypeOK, Slots

\* The words that are not primitives.
LEMMA OtherWords ==
  /\ "other" \notin Primitives /\ Promise!Primitives = Primitives
  /\ (Promise!Other /\ Input = "other") => Promise!Next
BY SameWords DEF Primitives, Unary, Binary, Moving, Indexed, FloatUnary, FloatBinary, FloatTests, Promise!Next

LEMMA StackSame ==
  ASSUME UNCHANGED stackVars
  PROVE  Stack' = Stack
BY DEF stackVars, Stack

\* A constant or a number is pushed.
LEMMA PushIsOther ==
  ASSUME CellsStay, Room, NEW v \in Cells, Push(v), UNCHANGED constants, Input = "other"
  PROVE  CellsStay' /\ Promise!Next
<1>1. Stack' = Append(Stack, v) /\ StackTypeOK'
  BY Pushed DEF CellsStay
<1>2. CellsStay'
  BY <1>1 DEF CellsStay
<1>3. Promise!Other
  BY <1>1, SameCells DEF Promise!Other
<1> QED
  BY <1>2, <1>3, OtherWords

\* The stack is left alone.
LEMMA SameIsOther ==
  ASSUME CellsStay, UNCHANGED <<constants, stackVars>>, Input = "other"
  PROVE  CellsStay' /\ Promise!Next
<1>1. Stack' = Stack
  BY StackSame
<1>2. CellsStay'
  BY DEF CellsStay, StackTypeOK, stackVars
<1>3. Promise!Other
  BY <1>1 DEF Promise!Other
<1> QED
  BY <1>2, <1>3, OtherWords

LEMMA ConstantStep ==
  ASSUME CellsStay, NEW word, Input = "other", RunConstant(word)
  PROVE  CellsStay' /\ Promise!Next
<1>1. word \in DOMAIN constants
  BY DEF RunConstant, Finds
<1>2. constants[word] \in Cells
  BY <1>1 DEF CellsStay
<1> QED
  BY <1>2, PushIsOther DEF RunConstant

LEMMA NumberStep ==
  ASSUME CellsStay, NEW word, Input = "other", RunNumber(word)
  PROVE  CellsStay' /\ Promise!Next
<1>1. Built(word, DOMAIN Numbers)
  BY DEF RunNumber, Finds
<1>2. word[1] \in DOMAIN Numbers
  BY <1>1 DEF Built
<1>3. Numbers[word[1]] \in Cells
  BY <1>2, TokensAssumption
<1> QED
  BY <1>3, PushIsOther DEF RunNumber

LEMMA CommandStep ==
  ASSUME CellsStay, NEW word, Input = "other", RunCommand(word)
  PROVE  CellsStay' /\ Promise!Next
<1>1. CASE word = <<"QUIT">>
  BY <1>1, SameIsOther DEF RunCommand, Stop
<1>2. CASE word # <<"QUIT">>
  <2>1. UNCHANGED <<tos, constants>> /\ dp \in Slots /\ tos \in Cells /\ mem \in [Slots -> Cells]
    BY <1>2 DEF RunCommand, CellsStay, StackTypeOK
  <2>2. CASE word = <<"CLEAR">>
    <3>1. dp' = 0 /\ mem' = mem
      BY <1>2, <2>2 DEF RunCommand
    <3>2. CellsStay'
      BY <2>1, <3>1, HostStackAssumption DEF CellsStay, StackTypeOK, Slots
    <3>3. Stack' = <<>>
      BY <3>1 DEF Stack
    <3> QED
      BY <3>2, <3>3, OtherWords DEF Promise!Other
  <2>3. CASE word # <<"CLEAR">>
    <3>1. dp' = dp /\ mem' \in [Slots -> Cells] /\ \A i \in Slots : i # dp => mem'[i] = mem[i]
      BY <1>2, <2>1, <2>3 DEF RunCommand
    <3>2. CellsStay'
      BY <2>1, <3>1 DEF CellsStay, StackTypeOK
    <3>3. \A i \in 1..dp : i < dp => mem'[i] = mem[i]
      BY <2>1, <3>1, HostStackAssumption DEF Slots
    <3>4. Stack' = Stack
      BY <2>1, <3>1, <3>3 DEF Stack
    <3> QED
      BY <3>2, <3>4, OtherWords DEF Promise!Other
  <2> QED
    BY <2>2, <2>3
<1> QED
  BY <1>1, <1>2

LEMMA NameStep ==
  ASSUME CellsStay, NEW word, Input = "other", RunWithName(word)
  PROVE  CellsStay' /\ Promise!Next
<1> DEFINE name == TokenFrom(Token.next)
           Named(x) == [n \in DOMAIN constants \cup {x} |-> IF n = x THEN tos ELSE constants[n]]
<1>1. \/ UNCHANGED <<constants, stackVars>>
      \/ dp # 0 /\ Pop /\ constants' = Named(name.word)
  BY DEF RunWithName, Fail, Stop, Continue
<1>2. CASE UNCHANGED <<constants, stackVars>>
  BY <1>2, SameIsOther
<1>3. CASE dp # 0 /\ Pop /\ constants' = Named(name.word)
  <2>1. dp >= 1 /\ tos \in Cells
    BY <1>3, StackIs DEF CellsStay, StackTypeOK
  <2>2. Stack' = Promise!Below(Stack, 1) /\ StackTypeOK'
    BY <1>3, <2>1, NoneLeft DEF CellsStay
  <2>3. \A n \in DOMAIN constants' : constants'[n] \in Cells
    <3> HIDE DEF name
    <3> QED
      BY <1>3, <2>1 DEF CellsStay
  <2>4. Len(Stack) >= 1
    BY <2>1, StackIs DEF CellsStay
  <2>5. Stack # <<>>
    BY <2>4
  <2> QED
    BY <2>2, <2>3, <2>5, OtherWords DEF CellsStay, Promise!Other
<1> QED
  BY <1>1, <1>2, <1>3

\* A step on a primitive keeps or breaks off as the promise does.
LEMMA PrimitiveStep ==
  ASSUME CellsStay, NEW w \in Primitives, Input = w, RunPrimitive(<<w>>)
  PROVE  CellsStay' /\ (Promise!Next \/ Multiplying)
<1>1. StackTypeOK /\ Room /\ (Promise!CanRun(w, Stack) <=> Enough(w) /\ ~Fatal(w))
  BY RunsTogether DEF CellsStay, RunPrimitive
<1>2. \/ (~Enough(w) \/ Fatal(w)) /\ UNCHANGED <<constants, stackVars>>
      \/ Enough(w) /\ ~Fatal(w) /\ Primitive(w) /\ UNCHANGED constants
  BY DEF RunPrimitive, Stop
<1>3. CASE (~Enough(w) \/ Fatal(w)) /\ UNCHANGED <<constants, stackVars>>
  <2>1. CellsStay' /\ Stack' = Stack
    BY <1>3, StackSame DEF CellsStay, StackTypeOK, stackVars
  <2> QED
    BY <1>1, <1>3, <2>1, OtherWords DEF Promise!Next
<1>4. CASE Enough(w) /\ ~Fatal(w) /\ Primitive(w) /\ UNCHANGED constants
  <2>1. CellsStay'
    BY <1>1, <1>4, PrimitiveTypes DEF CellsStay
  <2>2. CASE w # "*"
    BY <1>1, <1>4, <2>1, <2>2, PrimitiveMeans, OtherWords DEF Promise!Next
  <2> QED
    BY <2>1, <2>2 DEF Multiplying
<1> QED
  BY <1>2, <1>3, <1>4

\* Which of the words comes next.
LEMMA InputIs ==
  ASSUME NEW word, Reading, word = Token.word
  PROVE  /\ word = <<>> \/ Finds(word) # "primitive" => Input = "other"
         /\ word # <<>> /\ Finds(word) = "primitive" =>
              Input \in Primitives /\ word = <<Input>>
<1>1. Finds(word) = "primitive" => Built(word, Primitives)
  BY DEF Finds
<1>2. Built(word, Primitives) => word[1] \in Primitives /\ word = <<word[1]>>
  BY DEF Built
<1> QED
  BY <1>1, <1>2 DEF Input

\* A step that changes no variable reads the same word again.
LEMMA InputSame ==
  ASSUME UNCHANGED vars
  PROVE  Input' = Input
<1>1. text' = text /\ scan' = scan /\ status' = status /\ constants' = constants
  BY DEF vars, interpreterVars
<1>2. Token' = Token
  BY <1>1 DEF Token, TokenFrom, AfterBlanks, AfterWord, AfterParen, AfterLine, Reach, End
<1>3. Finds(Token.word)' = Finds(Token.word)
  BY <1>1, <1>2 DEF Finds, Built
<1> QED
  BY <1>1, <1>2, <1>3 DEF Input, Reading

\* Every step of the interpreter.
LEMMA InterpreterStep ==
  ASSUME CellsStay, Next
  PROVE  CellsStay' /\ (Promise!Next \/ Multiplying)
<1>1. CASE EndOfText
  <2>1. UNCHANGED <<constants, stackVars>> /\ Input = "other"
    BY <1>1, InputIs DEF EndOfText
  <2> QED
    BY <2>1, SameIsOther
<1>2. CASE qlforth_interpret
  <2>1. PICK word : word = Token.word /\ word # <<>>
    BY <1>2 DEF qlforth_interpret
  <2>2. /\ Reading
        /\ \/ RunConstant(word) \/ RunPrimitive(word) \/ RunNumber(word)
           \/ RunCommand(word) \/ RunWithName(word) \/ Refuse(word)
    BY <1>2, <2>1 DEF qlforth_interpret
  <2>3. CASE RunPrimitive(word)
    <3>1. Input \in Primitives /\ word = <<Input>>
      BY <2>1, <2>2, <2>3, InputIs DEF RunPrimitive
    <3>2. PICK w \in Primitives : w = Input /\ word = <<w>>
      BY <3>1
    <3> QED
      BY <2>3, <3>2, PrimitiveStep
  <2>4. CASE ~RunPrimitive(word)
    <3>1. Finds(word) # "primitive"
      BY <2>2, <2>4 DEF RunConstant, RunNumber, RunCommand, RunWithName, Refuse
    <3>2. Input = "other"
      BY <2>1, <2>2, <3>1, InputIs
    <3>3. CASE RunConstant(word)
      BY <3>2, <3>3, ConstantStep
    <3>4. CASE RunNumber(word)
      BY <3>2, <3>4, NumberStep
    <3>5. CASE RunCommand(word)
      BY <3>2, <3>5, CommandStep
    <3>6. CASE RunWithName(word)
      BY <3>2, <3>6, NameStep
    <3>7. CASE Refuse(word)
      BY <3>2, <3>7, SameIsOther DEF Refuse, Fail
    <3> QED
      BY <2>2, <2>4, <3>3, <3>4, <3>5, <3>6, <3>7
  <2> QED
    BY <2>3, <2>4
<1> QED
  BY <1>1, <1>2 DEF Next

(***************************************************************************)
(* Cells never leave their width and the index never leaves the array,     *)
(* whatever text is interpreted.                                           *)
(***************************************************************************)
THEOREM CellsAlwaysStay == Spec => []CellsStay
<1>1. CellsStay /\ [Next]_vars => CellsStay'
  <2> SUFFICES ASSUME CellsStay, [Next]_vars PROVE CellsStay'
    OBVIOUS
  <2>1. CASE UNCHANGED vars
    BY <2>1 DEF CellsStay, StackTypeOK, vars, interpreterVars, stackVars
  <2> QED
    BY <2>1, InterpreterStep
<1> QED
  BY <1>1, InitiallyCells, PTL DEF Spec

(***************************************************************************)
(* The primitives do to the stack what their names say, touch no cell      *)
(* below their operands, and stop where an operand or a quotient is        *)
(* missing; nothing but a primitive moves cells about.                     *)
(***************************************************************************)
THEOREM PrimitivesImplementStack == Spec => ImplementsDataStack
<1>1. Init => Promise!Init
  <2> SUFFICES ASSUME Init PROVE Stack = <<>>
    BY DEF Promise!Init
  <2>1. dp = 0
    BY DEF Init, StackInit
  <2> QED
    BY <2>1 DEF Stack
<1>2. CellsStay /\ [Next]_vars => [Promise!Next \/ Multiplying]_<<Stack, Input>>
  <2> SUFFICES ASSUME CellsStay, [Next]_vars
               PROVE  [Promise!Next \/ Multiplying]_<<Stack, Input>>
    OBVIOUS
  <2>1. CASE UNCHANGED vars
    <3>1. Stack' = Stack
      BY <2>1, StackSame DEF vars
    <3>2. Input' = Input
      BY <2>1, InputSame
    <3> QED
      BY <3>1, <3>2
  <2>2. CASE Next
    BY <2>2, InterpreterStep
  <2> QED
    BY <2>1, <2>2
<1> QED
  BY <1>1, <1>2, CellsAlwaysStay, PTL DEF Spec, ImplementsDataStack

-----------------------------------------------------------------------------
(* Induction on numbers, on sets instead of predicates. *)

\* A set of numbers that has some has a least.
LEMMA LeastNumber ==
  ASSUME NEW T, T \subseteq Nat, T # {}
  PROVE  \E x \in T : \A y \in T : x <= y
<1> DEFINE R == OpToRel(<, Nat)
<1>1. IsWellFoundedOn(R, Nat)
  BY NatLessThanWellFounded
<1>2. \A x, y \in Nat : <<x, y>> \in R <=> x < y
  BY DEF OpToRel
<1> HIDE DEF R
<1>3. \E x \in T : \A y \in T : ~ (<<y, x>> \in R)
  BY <1>1, WFMin
<1>4. PICK x \in T : \A y \in T : ~ (<<y, x>> \in R)
  BY <1>3
<1>5. \A y \in T : x \in Nat /\ y \in Nat /\ ~(y < x)
  BY <1>2, <1>4
<1> QED
  BY <1>4, <1>5

\* Induction from n down to 1, on a set instead of a predicate.
LEMMA Descent ==
  ASSUME NEW n \in Nat, NEW S,
         \A q \in 1..n : (\A r \in q + 1..n : r \in S) => q \in S
  PROVE  1..n \subseteq S
<1> DEFINE T == {k \in 0..n - 1 : n - k \notin S}
<1> SUFFICES ASSUME T # {} PROVE FALSE
  <2>1. ASSUME NEW q \in 1..n, q \notin S PROVE n - q \in T
    <3>1. n - (n - q) = q
      OBVIOUS
    <3> QED
      BY <2>1, <3>1
  <2> QED
    BY <2>1
<1>1. T \subseteq Nat
  OBVIOUS
<1>2. PICK k \in T : \A j \in T : k <= j
  <2> HIDE DEF T
  <2> QED
    BY <1>1, LeastNumber
<1>3. n - k \in 1..n /\ n - k \notin S
  OBVIOUS
<1>4. ASSUME NEW r \in n - k + 1..n, r \notin S
      PROVE  FALSE
  <2>1. n - r \in 0..n - 1 /\ n - (n - r) = r /\ n - r < k
    BY <1>3
  <2>2. n - r \in T
    BY <1>4, <2>1
  <2> QED
    BY <1>2, <2>1, <2>2
<1> QED
  BY <1>3, <1>4


\* A function on 1..n may be defined from its later values: where q is in D,
\* the value at q comes from the one at jump[q].
Downwards(n, V, base, D, jump, step) ==
  /\ n \in Nat /\ D \subseteq 1..n
  /\ base \in [1..n -> V]
  /\ \A q \in D : jump[q] \in q + 1..n /\ step[q] \in [V -> V]

Follows(f, n, base, D, jump, step) ==
  \A q \in 1..n : f[q] = IF q \in D THEN step[q][f[jump[q]]] ELSE base[q]

LEMMA DefinedDownwards ==
  ASSUME NEW n, NEW V, NEW base, NEW D, NEW jump, NEW step,
         Downwards(n, V, base, D, jump, step)
  PROVE  \E f \in [1..n -> V] : Follows(f, n, base, D, jump, step)
<1> DEFINE Value(f, q) == IF q \in D THEN step[q][f[jump[q]]] ELSE base[q]
           Good(f, q) == f \in [1..n -> V] /\ \A r \in q..n : f[r] = Value(f, r)
           S == {q \in 1..n : \E f : Good(f, q)}
<1> USE DEF Downwards, Follows
<1>0. n \in Nat
  OBVIOUS
<1>1. ASSUME NEW q \in 1..n, NEW f \in [1..n -> V], \A r \in q + 1..n : f[r] = Value(f, r)
      PROVE  \E g : Good(g, q)
  <2> DEFINE g == [f EXCEPT ![q] = Value(f, q)]
  <2>1. Value(f, q) \in V
    OBVIOUS
  <2>2. g \in [1..n -> V] /\ g[q] = Value(f, q) /\ \A r \in 1..n : r # q => g[r] = f[r]
    BY <2>1
  <2> HIDE DEF g
  <2>3. ASSUME NEW r \in q..n PROVE g[r] = Value(g, r)
    <3>1. r \in 1..n /\ (r \in D => jump[r] \in 1..n /\ jump[r] # q)
      OBVIOUS
    <3>2. Value(g, r) = Value(f, r)
      BY <2>2, <3>1
    <3>3. g[r] = Value(f, r)
      <4>1. r = q \/ r \in q + 1..n
        OBVIOUS
      <4>2. CASE r = q
        BY <2>2, <4>2
      <4>3. CASE r \in q + 1..n
        BY <1>1, <2>2, <3>1, <4>3
      <4> QED
        BY <4>1, <4>2, <4>3
    <3> QED
      BY <3>2, <3>3
  <2> QED
    BY <2>2, <2>3
<1>2. ASSUME NEW q \in 1..n, \A r \in q + 1..n : r \in S
      PROVE  q \in S
  <2>1. \E f \in [1..n -> V] : \A r \in q + 1..n : f[r] = Value(f, r)
    <3>1. CASE q = n
      BY <3>1
    <3>2. CASE q # n
      <4>1. q + 1 \in S
        <5>1. q + 1 \in q + 1..n
          BY <3>2
        <5> HIDE DEF S
        <5> QED
          BY <1>2, <5>1
      <4> QED
        BY <4>1
    <3> QED
      BY <3>1, <3>2
  <2> HIDE DEF Value, Good
  <2>2. PICK f \in [1..n -> V] : \A r \in q + 1..n : f[r] = Value(f, r)
    BY <2>1
  <2>3. \E g : Good(g, q)
    BY <1>1, <2>2
  <2> QED
    BY <2>3
<1>3. 1..n \subseteq S
  <2> HIDE DEF S
  <2> QED
    BY <1>2, Descent
<1>4. CASE n = 0
  <2>1. \A q \in 1..n : base[q] = IF q \in D THEN step[q][base[jump[q]]] ELSE base[q]
    BY <1>4
  <2> QED
    BY <2>1
<1>5. CASE n # 0
  <2>1. 1 \in S
    <3> HIDE DEF S
    <3> QED
      BY <1>3, <1>5
  <2> QED
    BY <2>1
<1> QED
  BY <1>4, <1>5

-----------------------------------------------------------------------------
(* The scanner. *)

\* From p on, a loop ends at the text's end or at the first place in S.
LEMMA FirstPlace ==
  ASSUME text \in Seq(STRING), NEW p \in 1..End, NEW S
  PROVE  \E q \in p..End : (q = End \/ q \in S) /\ \A r \in p..q - 1 : r \notin S
<1> DEFINE T == {q \in p..End : q = End \/ q \in S}
<1>1. End \in Nat /\ T \subseteq Nat /\ End \in T
  BY DEF End
<1>2. PICK q \in T : \A r \in T : q <= r
  <2> HIDE DEF T
  <2> QED
    BY <1>1, LeastNumber
<1> QED
  BY <1>1, <1>2

\* The four loops stop behind where they start.
LEMMA LoopsStop ==
  ASSUME text \in Seq(STRING), NEW p \in 1..End
  PROVE  /\ Reach(p, Ink) \in p..End
         /\ Reach(p, is_space) \in p..End
         /\ Reach(p, Closes) \in p..End
         /\ Reach(p, EndsLine) \in p..End
<1> DEFINE Ends(S) == \E q \in p..End : (q = End \/ q \in S) /\ \A r \in p..q - 1 : r \notin S
<1>0. \A S : Ends(S)
  BY FirstPlace
<1>1. Reach(p, Ink) \in p..End
  <2>1. Ends({q \in p..End : Ink(text[q])})
    BY <1>0
  <2>2. \E q \in p..End : (q = End \/ Ink(text[q])) /\ \A r \in p..q - 1 : ~Ink(text[r])
    BY <2>1 DEF End
  <2> QED
    BY <2>2 DEF Reach
<1>2. Reach(p, is_space) \in p..End
  <2>1. Ends({q \in p..End : is_space(text[q])})
    BY <1>0
  <2>2. \E q \in p..End : (q = End \/ is_space(text[q])) /\ \A r \in p..q - 1 : ~is_space(text[r])
    BY <2>1 DEF End
  <2> QED
    BY <2>2 DEF Reach
<1>3. Reach(p, Closes) \in p..End
  <2>1. Ends({q \in p..End : Closes(text[q])})
    BY <1>0
  <2>2. \E q \in p..End : (q = End \/ Closes(text[q])) /\ \A r \in p..q - 1 : ~Closes(text[r])
    BY <2>1 DEF End
  <2> QED
    BY <2>2 DEF Reach
<1>4. Reach(p, EndsLine) \in p..End
  <2>1. Ends({q \in p..End : EndsLine(text[q])})
    BY <1>0
  <2>2. \E q \in p..End : (q = End \/ EndsLine(text[q])) /\ \A r \in p..q - 1 : ~EndsLine(text[r])
    BY <2>1 DEF End
  <2> QED
    BY <2>2 DEF Reach
<1> QED
  BY <1>1, <1>2, <1>3, <1>4

LEMMA PlacesAfter ==
  ASSUME text \in Seq(STRING), NEW p \in 1..End
  PROVE  /\ AfterBlanks(p) \in p..End /\ AfterWord(p) \in p..End
         /\ AfterParen(p) \in p..End /\ AfterLine(p) \in p..End
<1>1. End \in Nat /\ TokenMax \in Nat
  BY ScannerAssumption DEF End
<1>2. AfterBlanks(p) \in p..End /\ AfterLine(p) \in p..End
  BY LoopsStop DEF AfterBlanks, AfterLine
<1>3. AfterWord(p) \in p..End
  <2>1. PICK q \in p..End : q = Reach(p, is_space)
    BY LoopsStop
  <2> QED
    BY <1>1, <2>1 DEF AfterWord
<1>4. AfterParen(p) \in p..End
  <2>1. PICK q \in p..End : q = Reach(p, Closes)
    BY LoopsStop
  <2> QED
    BY <1>1, <2>1 DEF AfterParen
<1> QED
  BY <1>2, <1>3, <1>4

\* A token stands in the text, and the scanner is never behind its end.
LEMMA TokenInText ==
  ASSUME text \in Seq(STRING), NEW p \in 1..End
  PROVE  TokenFrom(p).next \in p..End
<1> DEFINE First(q) == AfterBlanks(q)
           Ends(q) == AfterWord(First(q))
           Read(q) == SubSeq(text, First(q), Ends(q) - 1)
           Skips == {q \in 1..End : Read(q) \in {<<"(">>, <<"\\">>}}
           Skip(q) == IF Read(q) = <<"(">> THEN AfterParen(Ends(q)) ELSE AfterLine(Ends(q))
           Found(q) == [word |-> Read(q), next |-> Ends(q)]
           Body(T, q) == CASE Read(q) = <<"(">>  -> T[AfterParen(Ends(q))]
                           [] Read(q) = <<"\\">> -> T[AfterLine(Ends(q))]
                           [] OTHER              -> Found(q)
           Scan(T) == T = [q \in 1..End |-> Body(T, q)]
<1>1. End \in Nat
  BY DEF End
<1>2. \A q \in 1..End : First(q) \in q..End /\ Ends(q) \in First(q)..End
  BY <1>1, PlacesAfter
<1>3. \A q \in Skips : Skip(q) \in q + 1..End
  <2> SUFFICES ASSUME NEW q \in Skips PROVE Skip(q) \in q + 1..End
    OBVIOUS
  <2>1. First(q) \in q..End /\ Ends(q) \in First(q)..End /\ q \in 1..End
    BY <1>2
  <2>2. Len(Read(q)) = 1
    <3>1. Read(q) = <<"(">> \/ Read(q) = <<"\\">>
      OBVIOUS
    <3> HIDE DEF Read
    <3> QED
      BY <3>1
  <2>3. Ends(q) > First(q)
    <3>1. PICK a \in 1..End, b \in 1..End : a = First(q) /\ b = Ends(q)
      BY <1>1, <2>1
    <3>2. Len(SubSeq(text, a, b - 1)) = 1
      BY <2>2, <3>1
    <3> HIDE DEF First, Ends, Read, Skips
    <3>3. b > a
      BY <1>1, <3>2
    <3> QED
      BY <3>1, <3>3
  <2>4. Ends(q) \in 1..End
    BY <1>1, <2>1
  <2>5. AfterParen(Ends(q)) \in Ends(q)..End /\ AfterLine(Ends(q)) \in Ends(q)..End
    <3> HIDE DEF Ends
    <3> QED
      BY <2>4, PlacesAfter
  <2> QED
    BY <1>1, <2>1, <2>3, <2>5
<1>4. \A T : \A q \in 1..End : Body(T, q) = IF q \in Skips THEN T[Skip(q)] ELSE Found(q)
  OBVIOUS
<1> HIDE DEF Read, First, Ends, Skip, Skips, Found, Body
<1>5. \E T : Scan(T)
  <2> DEFINE V == {Found(q) : q \in 1..End}
             base == [q \in 1..End |-> Found(q)]
             jump == [q \in Skips |-> Skip(q)]
             step == [q \in Skips |-> [v \in V |-> v]]
  <2>1. Skips \subseteq 1..End
    BY DEF Skips
  <2>2. base \in [1..End -> V] /\ \A q \in Skips : jump[q] \in q + 1..End /\ step[q] \in [V -> V]
    BY <1>3
  <2>3. Downwards(End, V, base, Skips, jump, step)
    BY <1>1, <2>1, <2>2 DEF Downwards
  <2> HIDE DEF base, jump, step
  <2>4. PICK f \in [1..End -> V] : Follows(f, End, base, Skips, jump, step)
    <3> HIDE DEF V
    <3> QED
      BY <2>3, DefinedDownwards
  <2> USE DEF base, jump, step, Follows
  <2>5. ASSUME NEW q \in 1..End PROVE f[q] = Body(f, q)
    <3>1. CASE q \in Skips
      <4>1. Skip(q) \in 1..End
        BY <1>1, <1>3, <3>1
      <4>2. f[Skip(q)] \in V
        BY <4>1
      <4>3. f[q] = f[Skip(q)]
        <5> HIDE DEF V
        <5> QED
          BY <2>4, <3>1, <4>2
      <4> QED
        BY <1>4, <3>1, <4>3
    <3>2. CASE q \notin Skips
      BY <1>4, <2>4, <3>2
    <3> QED
      BY <3>1, <3>2
  <2>6. f = [q \in 1..End |-> Body(f, q)]
    <3> HIDE DEF V
    <3> QED
      BY <2>5
  <2> QED
    BY <2>6
<1>6. PICK T : Scan(T) /\ TokenFrom(p) = T[p]
  <2> DEFINE M == CHOOSE T : Scan(T)
  <2>1. Scan(M)
    BY <1>5
  <2>2. TokenFrom(p) = M[p]
    BY DEF TokenFrom, Body, Found, Read, Ends, First
  <2> QED
    BY <2>1, <2>2
<1>7. 1..End \subseteq {q \in 1..End : T[q].next \in q..End}
  <2> DEFINE S == {q \in 1..End : T[q].next \in q..End}
  <2>1. ASSUME NEW q \in 1..End, \A r \in q + 1..End : r \in S
        PROVE  q \in S
    <3>1. T[q] = IF q \in Skips THEN T[Skip(q)] ELSE Found(q)
      BY <1>4, <1>6
    <3>2. CASE q \in Skips
      <4>1. PICK r \in q + 1..End : r = Skip(q)
        BY <1>3, <3>2
      <4>2. T[r].next \in r..End
        BY <2>1
      <4> QED
        BY <1>1, <3>1, <3>2, <4>1, <4>2
    <3>3. CASE q \notin Skips
      <4>1. T[q].next = Ends(q)
        BY <3>1, <3>3 DEF Found
      <4>2. PICK a \in q..End : Ends(q) \in a..End
        BY <1>2
      <4> QED
        BY <1>1, <4>1, <4>2
    <3> QED
      BY <3>2, <3>3
  <2> HIDE DEF S
  <2>2. 1..End \subseteq S
    BY <1>1, <2>1, Descent
  <2> QED
    BY <2>2 DEF S
<1> QED
  BY <1>6, <1>7

-----------------------------------------------------------------------------
(* The line of an error. *)

\* The recursion that counts the lines before p, from q on.
CountBody(L, p, q) ==
  IF q >= p THEN 1
  ELSE CASE text[q] = "LF" -> 1 + L[q + 2]
         [] text[q] = "CR" ->
              1 + L[IF q < Len(text) /\ text[q + 1] = "LF" THEN q + 2 ELSE q + 1]
         [] OTHER          -> L[q + 1]

LEMMA LinesAreCounted ==
  ASSUME text \in Seq(STRING), NEW p \in 1..End
  PROVE  \E L : /\ L = [q \in 1..p + 1 |-> CountBody(L, p, q)]
                /\ ErrorLine(p) = L[1]
<1> DEFINE n == p + 1
           Counts(L) == L = [q \in 1..p + 1 |-> CountBody(L, p, q)]
           D == 1..p - 1
           base == [q \in 1..n |-> 1]
           jump == [q \in D |-> IF text[q] = "LF" THEN q + 2
                                ELSE IF text[q] = "CR" /\ q < Len(text) /\ text[q + 1] = "LF"
                                THEN q + 2 ELSE q + 1]
           step == [q \in D |-> [v \in Nat |-> IF text[q] \in {"LF", "CR"} THEN 1 + v ELSE v]]
<1>1. p \in Nat /\ n \in Nat /\ p >= 1
  BY DEF End
<1>2. Downwards(n, Nat, base, D, jump, step)
  <2>1. D \subseteq 1..n /\ base \in [1..n -> Nat]
    BY <1>1
  <2>2. ASSUME NEW q \in D PROVE jump[q] \in q + 1..n
    <3>1. q \in Nat /\ q >= 1 /\ q <= p - 1
      BY <1>1
    <3>2. jump[q] = q + 1 \/ jump[q] = q + 2
      OBVIOUS
    <3> HIDE DEF jump
    <3> QED
      BY <1>1, <3>1, <3>2
  <2>3. ASSUME NEW q \in D PROVE step[q] \in [Nat -> Nat]
    OBVIOUS
  <2> HIDE DEF n, base, D, jump, step
  <2> QED
    BY <1>1, <2>1, <2>2, <2>3 DEF Downwards
<1>3. PICK f \in [1..n -> Nat] : Follows(f, n, base, D, jump, step)
  <2> HIDE DEF n, base, D, jump, step
  <2> QED
    BY <1>2, DefinedDownwards
<1>4. ASSUME NEW q \in 1..n PROVE f[q] = CountBody(f, p, q)
  <2>1. f[q] = IF q \in D THEN step[q][f[jump[q]]] ELSE base[q]
    BY <1>3 DEF Follows
  <2>2. CASE q >= p
    BY <1>1, <2>1, <2>2 DEF CountBody
  <2>3. CASE ~(q >= p)
    <3>1. q \in D /\ jump[q] \in q + 1..n
      BY <1>1, <1>2, <2>3 DEF Downwards
    <3>2. PICK j \in 1..n : j = jump[q] /\ f[j] \in Nat
      BY <1>1, <3>1
    <3>3. f[q] = step[q][f[j]]
      BY <2>1, <3>1, <3>2
    <3>4. f[q] = IF text[q] \in {"LF", "CR"} THEN 1 + f[j] ELSE f[j]
      BY <3>1, <3>2, <3>3
    <3>5. CASE text[q] = "LF"
      BY <2>3, <3>1, <3>2, <3>4, <3>5 DEF CountBody
    <3>6. CASE text[q] = "CR"
      BY <2>3, <3>1, <3>2, <3>4, <3>6 DEF CountBody
    <3>7. CASE text[q] \notin {"LF", "CR"}
      BY <2>3, <3>1, <3>2, <3>4, <3>7 DEF CountBody
    <3> QED
      BY <3>5, <3>6, <3>7
  <2> QED
    BY <2>2, <2>3
<1>5. f = [q \in 1..p + 1 |-> CountBody(f, p, q)]
  BY <1>4
<1> DEFINE M == CHOOSE L : Counts(L)
<1>6. Counts(M)
  BY <1>5
<1>7. ErrorLine(p) = M[1]
  BY DEF ErrorLine, CountBody
<1> QED
  BY <1>6, <1>7

\* The line ends from q on, and whether q is the rest of a line end.
EndsFrom(p, q) == {r \in q..p - 1 : LineEnd(r)}

Rest(q) == text[q] = "LF" /\ ~LineEnd(q)

LEMMA EndsOneByOne ==
  ASSUME NEW p \in Nat, NEW q \in Nat
  PROVE  /\ Cardinality(EndsFrom(p, q)) \in Nat
         /\ q >= p => Cardinality(EndsFrom(p, q)) = 0
         /\ q < p => Cardinality(EndsFrom(p, q)) =
                       IF LineEnd(q) THEN 1 + Cardinality(EndsFrom(p, q + 1))
                       ELSE Cardinality(EndsFrom(p, q + 1))
<1>1. \A a \in Nat : IsFiniteSet(EndsFrom(p, a)) /\ Cardinality(EndsFrom(p, a)) \in Nat
  <2> SUFFICES ASSUME NEW a \in Nat PROVE IsFiniteSet(EndsFrom(p, a))
    BY FS_CardinalityType
  <2>1. IsFiniteSet(a..p - 1)
    BY FS_Interval
  <2> QED
    BY <2>1, FS_Subset DEF EndsFrom
<1>2. ASSUME q >= p PROVE Cardinality(EndsFrom(p, q)) = 0
  <2>1. EndsFrom(p, q) = {}
    BY <1>2 DEF EndsFrom
  <2> QED
    BY <2>1, FS_EmptySet
<1>3. CASE q < p /\ LineEnd(q)
  <2>1. EndsFrom(p, q) = EndsFrom(p, q + 1) \cup {q} /\ q \notin EndsFrom(p, q + 1)
    BY <1>3 DEF EndsFrom
  <2>2. IsFiniteSet(EndsFrom(p, q + 1)) /\ Cardinality(EndsFrom(p, q + 1)) \in Nat
    BY <1>1
  <2>3. Cardinality(EndsFrom(p, q)) = Cardinality(EndsFrom(p, q + 1)) + 1
    BY <2>1, <2>2, FS_AddElement
  <2> QED
    BY <1>1, <1>3, <2>2, <2>3
<1>4. CASE q < p /\ ~LineEnd(q)
  <2>1. EndsFrom(p, q) = EndsFrom(p, q + 1)
    BY <1>4 DEF EndsFrom
  <2> QED
    BY <1>1, <1>4, <2>1
<1>5. CASE ~(q < p)
  BY <1>1, <1>2, <1>5
<1> QED
  BY <1>3, <1>4, <1>5

\* A line end that the count steps over, or the end of one that is.
LEMMA LinesBounded ==
  ASSUME text \in Seq(STRING), NEW p \in 1..End
  PROVE  /\ ErrorLine(p) \in 1..p
         /\ ErrorLine(p) <= 1 + Cardinality(EndsFrom(p, 1))
         /\ (\A q \in EndsFrom(p, 1) : BareFeed(q) /\ q + 1 < p => ~LineEnd(q + 1)) =>
              ErrorLine(p) = 1 + Cardinality(EndsFrom(p, 1))
<1> DEFINE Count(q) == Cardinality(EndsFrom(p, q))
           Extra(q) == IF q < p /\ Rest(q) THEN 1 ELSE 0
           Apart == \A q \in EndsFrom(p, 1) : BareFeed(q) /\ q + 1 < p => ~LineEnd(q + 1)
           Fits(l, q) == /\ l \in Nat /\ l >= 1
                         /\ l <= IF q <= p THEN 1 + p - q ELSE 1
                         /\ l <= 1 + Count(q) + Extra(q)
                         /\ Apart /\ Extra(q) = 0 => l = 1 + Count(q)
<1>1. p \in Nat /\ p >= 1 /\ Len(text) \in Nat /\ p <= Len(text) + 1
  BY DEF End
<1>2. PICK L : L = [q \in 1..p + 1 |-> CountBody(L, p, q)] /\ ErrorLine(p) = L[1]
  BY LinesAreCounted
<1>3. \A q \in Nat : /\ Count(q) \in Nat /\ Extra(q) \in {0, 1}
                     /\ q >= p => Count(q) = 0 /\ Extra(q) = 0
                     /\ q < p => Count(q) = IF LineEnd(q) THEN 1 + Count(q + 1) ELSE Count(q + 1)
  <2> TAKE q \in Nat
  <2>1. Extra(q) \in {0, 1} /\ (q >= p => Extra(q) = 0)
    BY <1>1
  <2> QED
    BY <1>1, <2>1, EndsOneByOne
<1>4. \A q \in 1..p - 1 : Apart /\ BareFeed(q) /\ q + 1 < p => ~LineEnd(q + 1)
  BY <1>1 DEF EndsFrom, BareFeed
<1> HIDE DEF Count, Apart
<1>5. ASSUME NEW q \in 1..p + 1, \A r \in q + 1..p + 1 : Fits(L[r], r)
      PROVE  Fits(L[q], q)
  <2>1. q \in Nat /\ q >= 1 /\ L[q] = CountBody(L, p, q)
    BY <1>1, <1>2
  <2>2. CASE q >= p
    <3>1. L[q] = 1
      BY <2>1, <2>2 DEF CountBody
    <3> QED
      BY <1>1, <1>3, <2>1, <2>2, <3>1
  <2>3. CASE q < p
    <3>1. q \in 1..p - 1 /\ q <= Len(text) /\ q + 1 \in q + 1..p + 1 /\ q + 2 \in q + 1..p + 1
      BY <1>1, <2>1, <2>3
    <3>2. Fits(L[q + 1], q + 1) /\ Fits(L[q + 2], q + 2)
      <4> HIDE DEF Fits
      <4> QED
        BY <1>5, <3>1
    <3>3. /\ Extra(q) \in {0, 1} /\ Extra(q + 1) \in {0, 1} /\ Extra(q + 2) \in {0, 1}
          /\ Count(q) \in Nat /\ Count(q + 1) \in Nat /\ Count(q + 2) \in Nat
          /\ Count(q) = IF LineEnd(q) THEN 1 + Count(q + 1) ELSE Count(q + 1)
          /\ q + 1 < p => Count(q + 1) = IF LineEnd(q + 1) THEN 1 + Count(q + 2) ELSE Count(q + 2)
          /\ q + 1 >= p => Count(q + 1) = 0 /\ Count(q + 2) = 0 /\ Extra(q + 2) = 0
      <4> HIDE DEF Extra
      <4>1. \A a \in Nat, b \in Nat : b = a + 1 =>
              /\ Extra(a) \in {0, 1} /\ Count(a) \in Nat
              /\ a >= p => Count(a) = 0 /\ Extra(a) = 0
              /\ a < p => Count(a) = IF LineEnd(a) THEN 1 + Count(b) ELSE Count(b)
        BY <1>3
      <4>2. PICK b \in Nat, c \in Nat, d \in Nat : b = q + 1 /\ c = q + 2 /\ d = q + 3 /\ c = b + 1 /\ d = c + 1
        BY <2>1
      <4>3. /\ Extra(q) \in {0, 1} /\ Count(q) \in Nat
            /\ Count(q) = IF LineEnd(q) THEN 1 + Count(b) ELSE Count(b)
        BY <2>1, <2>3, <4>1, <4>2
      <4>4. /\ Extra(b) \in {0, 1} /\ Count(b) \in Nat
            /\ b < p => Count(b) = IF LineEnd(b) THEN 1 + Count(c) ELSE Count(c)
            /\ b >= p => Count(b) = 0
        BY <4>1, <4>2
      <4>5. /\ Extra(c) \in {0, 1} /\ Count(c) \in Nat
            /\ b >= p => Count(c) = 0 /\ Extra(c) = 0
        BY <1>1, <4>1, <4>2
      <4> QED
        BY <4>2, <4>3, <4>4, <4>5
    <3>8. ASSUME NEW l \in Nat, NEW a \in Nat, NEW e \in {1, 2}, l = 1 + a, Fits(a, q + e),
                 Extra(q) + Count(q) >= 1 + Extra(q + e) + Count(q + e),
                 Apart /\ Extra(q) = 0 => Extra(q + e) = 0 /\ Count(q) = 1 + Count(q + e)
          PROVE  Fits(l, q)
      <4>1. PICK x \in Nat, y \in Nat : x = Count(q + e) /\ y = Extra(q + e)
        BY <3>3
      <4>2. PICK u \in Nat, v \in Nat : u = Count(q) /\ v = Extra(q)
        BY <3>3
      <4> HIDE DEF Extra
      <4>3. l <= IF q <= p THEN 1 + p - q ELSE 1
        BY <1>1, <2>1, <2>3, <3>8
      <4>4. l <= 1 + u + v
        <5>1. a <= 1 + x + y
          BY <3>8, <4>1
        <5>2. v + u >= 1 + y + x
          BY <3>8, <4>1, <4>2
        <5> QED
          BY <3>8, <5>1, <5>2
      <4>5. Apart /\ v = 0 => l = 1 + u
        BY <3>8, <4>1, <4>2
      <4> QED
        BY <3>8, <4>2, <4>3, <4>4, <4>5
    <3>4. CASE text[q] = "LF"
      <4>1. L[q] = 1 + L[q + 2]
        BY <2>1, <2>3, <3>4 DEF CountBody
      <4>2. Fits(L[q], q)
        <5>1. Extra(q) + Count(q) = 1 + Count(q + 1)
          BY <2>1, <2>3, <3>3, <3>4 DEF Rest
        <5>2. Extra(q + 2) = 1 => q + 1 < p /\ LineEnd(q + 1)
          BY <1>1, <2>1 DEF Rest, LineEnd
        <5>3. Count(q + 1) = IF q + 1 < p /\ LineEnd(q + 1) THEN 1 + Count(q + 2) ELSE Count(q + 2)
          BY <1>1, <2>1, <2>3, <3>3
        <5>4. Apart /\ Extra(q) = 0 => ~(q + 1 < p /\ LineEnd(q + 1))
          <6>1. Extra(q) = 0 => BareFeed(q)
            BY <2>3, <3>4 DEF Rest, BareFeed
          <6> QED
            BY <1>4, <3>1, <6>1
        <5>5. PICK l \in Nat, a \in Nat : l = L[q] /\ a = L[q + 2] /\ l = 1 + a /\ Fits(a, q + 2)
          BY <3>2, <4>1
        <5> HIDE DEF Extra, Fits
        <5>6. /\ Extra(q) + Count(q) >= 1 + Extra(q + 2) + Count(q + 2)
              /\ Apart /\ Extra(q) = 0 => Extra(q + 2) = 0 /\ Count(q) = 1 + Count(q + 2)
          BY <1>1, <2>1, <2>3, <3>3, <5>1, <5>2, <5>3, <5>4
        <5> QED
          BY <3>8, <5>5, <5>6
      <4> QED
        BY <4>2
    <3>5. CASE text[q] = "CR" /\ text[q + 1] = "LF" /\ q < Len(text)
      <4>1. L[q] = 1 + L[q + 2]
        BY <2>1, <2>3, <3>5 DEF CountBody
      <4>2. Fits(L[q], q)
        <5>1. LineEnd(q) /\ ~BareFeed(q) /\ Extra(q) = 0
          BY <3>5 DEF LineEnd, BareFeed, Rest
        <5>2. Count(q) = 1 + Count(q + 1) /\ ~LineEnd(q + 1)
          BY <2>1, <2>3, <3>3, <3>5, <5>1 DEF LineEnd
        <5>3. Count(q + 1) = Count(q + 2)
          BY <1>1, <2>1, <2>3, <3>3, <5>2
        <5>4. Extra(q + 2) = 0
          BY <2>1, <3>5 DEF Rest, LineEnd
        <5>5. PICK l \in Nat, a \in Nat : l = L[q] /\ a = L[q + 2] /\ l = 1 + a /\ Fits(a, q + 2)
          BY <3>2, <4>1
        <5> HIDE DEF Extra, Fits
        <5>6. /\ Extra(q) + Count(q) >= 1 + Extra(q + 2) + Count(q + 2)
              /\ Apart /\ Extra(q) = 0 => Extra(q + 2) = 0 /\ Count(q) = 1 + Count(q + 2)
          BY <1>1, <2>1, <2>3, <3>3, <5>1, <5>2, <5>3, <5>4
        <5> QED
          BY <3>8, <5>5, <5>6
      <4> QED
        BY <4>2
    <3>6. CASE text[q] = "CR" /\ ~(text[q + 1] = "LF" /\ q < Len(text))
      <4>1. L[q] = 1 + L[q + 1]
        BY <2>1, <2>3, <3>6 DEF CountBody
      <4>2. Fits(L[q], q)
        <5>1. LineEnd(q) /\ Extra(q) = 0 /\ Extra(q + 1) = 0
          BY <1>1, <2>1, <3>6 DEF LineEnd, Rest
        <5>2. Count(q) = 1 + Count(q + 1)
          BY <2>1, <2>3, <3>3, <5>1
        <5>5. PICK l \in Nat, a \in Nat : l = L[q] /\ a = L[q + 1] /\ l = 1 + a /\ Fits(a, q + 1)
          BY <3>2, <4>1
        <5> HIDE DEF Extra, Fits
        <5>6. /\ Extra(q) + Count(q) >= 1 + Extra(q + 1) + Count(q + 1)
              /\ Apart /\ Extra(q) = 0 => Extra(q + 1) = 0 /\ Count(q) = 1 + Count(q + 1)
          BY <1>1, <2>1, <2>3, <3>3, <5>1, <5>2
        <5> QED
          BY <3>8, <5>5, <5>6
      <4> QED
        BY <4>2
    <3>7. CASE text[q] \notin {"LF", "CR"}
      <4>1. L[q] = L[q + 1]
        BY <2>1, <2>3, <3>7 DEF CountBody
      <4>2. Fits(L[q], q)
        <5>1. ~LineEnd(q) /\ Extra(q) = 0 /\ Extra(q + 1) = 0
          BY <1>1, <2>1, <3>7 DEF LineEnd, Rest
        <5>2. Count(q) = Count(q + 1)
          BY <2>1, <2>3, <3>3, <5>1
        <5> HIDE DEF Extra
        <5> QED
          BY <1>1, <2>1, <2>3, <3>2, <3>3, <4>1, <5>1, <5>2
      <4> QED
        BY <4>2
    <3> QED
      BY <3>4, <3>5, <3>6, <3>7
  <2> QED
    BY <1>1, <2>1, <2>2, <2>3
<1>6. Fits(L[1], 1)
  <2> DEFINE S == {q \in 1..p + 1 : Fits(L[q], q)}
  <2> HIDE DEF Fits
  <2>1. \A q \in 1..p + 1 : (\A r \in q + 1..p + 1 : r \in S) => q \in S
    <3> TAKE q \in 1..p + 1
    <3> SUFFICES ASSUME \A r \in q + 1..p + 1 : r \in S PROVE Fits(L[q], q)
      OBVIOUS
    <3>1. \A r \in q + 1..p + 1 : Fits(L[r], r)
      OBVIOUS
    <3> QED
      BY <1>5, <3>1
  <2>2. 1 \in 1..p + 1 /\ p + 1 \in Nat
    BY <1>1
  <2> HIDE DEF S
  <2>3. 1 \in S
    BY <2>1, <2>2, Descent
  <2> QED
    BY <2>3 DEF S
<1>7. Extra(1) = 0
  BY DEF Rest, LineEnd
<1>8. ErrorLine(p) \in 1..p /\ ErrorLine(p) <= 1 + Count(1)
  <2>1. L[1] \in Nat /\ L[1] >= 1 /\ L[1] <= p
    BY <1>1, <1>6
  <2>2. L[1] <= 1 + Count(1)
    BY <1>3, <1>6, <1>7
  <2> QED
    BY <1>1, <1>2, <2>1, <2>2
<1>9. Apart => ErrorLine(p) = 1 + Count(1)
  BY <1>2, <1>6, <1>7
<1> QED
  BY <1>8, <1>9 DEF Count, Apart

-----------------------------------------------------------------------------
(* Where the interpreter stands in its text. *)

Located ==
  /\ text \in Texts /\ scan \in 1..End
  /\ status \in {"reading", "done", "error", "exited", "killed", "outside"}
  /\ line \in 0..End

LEMMA TokenEnds ==
  ASSUME Located
  PROVE  /\ text \in Seq(STRING)
         /\ Token.next \in 1..End
         /\ TokenFrom(Token.next).next \in 1..End
<1>1. text \in Seq(STRING) /\ scan \in 1..End /\ End \in Nat
  BY TokensAssumption DEF Located, End
<1>2. PICK p \in 1..End : p = Token.next
  BY <1>1, TokenInText DEF Token
<1>3. TokenFrom(p).next \in 1..End
  BY <1>1, TokenInText
<1> QED
  BY <1>1, <1>2, <1>3

\* An error's line is the one that the scanner stands on.
LEMMA ErrorHere ==
  ASSUME text \in Seq(STRING), NEW p \in 1..End, scan' = p, Fail(p)
  PROVE  ErrorNamesItsLine' /\ line' \in 0..End
<1>1. text' = text /\ line' = ErrorLine(p)
  BY DEF Fail
<1>2. {q \in 1..scan - 1 : LineEnd(q)}' = EndsFrom(p, 1)
  BY <1>1 DEF EndsFrom, LineEnd
<1>3. \A q : BareFeed(q)' = BareFeed(q) /\ LineEnd(q)' = LineEnd(q)
  BY <1>1 DEF LineEnd, BareFeed
<1>4. ErrorNamesItsLine'
  BY <1>1, <1>2, <1>3, LinesBounded DEF ErrorNamesItsLine
<1>5. line' \in 0..End
  BY <1>1, LinesBounded DEF End
<1> QED
  BY <1>4, <1>5

\* What a step leaves: an error with its line, or the line as it was.
LEMMA StepStops ==
  ASSUME Located, Next
  PROVE  /\ text' = text /\ scan' \in 1..End
         /\ \/ Fail(scan')
            \/ line' = line /\ status' \in {status, "done", "exited", "killed", "outside"}
<1>1. CASE EndOfText
  BY <1>1, TokenEnds DEF EndOfText
<1>2. CASE qlforth_interpret
  <2>1. PICK word : \/ RunConstant(word) \/ RunPrimitive(word) \/ RunNumber(word)
                    \/ RunCommand(word) \/ RunWithName(word) \/ Refuse(word)
    BY <1>2 DEF qlforth_interpret
  <2>2. CASE RunWithName(word)
    <3> DEFINE name == TokenFrom(Token.next)
    <3>1. scan' = name.next /\ name.next \in 1..End
      BY <2>2, TokenEnds DEF RunWithName
    <3>2. Fail(name.next) \/ (Continue \/ Stop("outside"))
      BY <2>2 DEF RunWithName
    <3> HIDE DEF name
    <3>3. CASE Fail(name.next)
      BY <3>1, <3>3 DEF Fail
    <3>4. CASE Continue \/ Stop("outside")
      BY <3>1, <3>4 DEF Continue, Stop
    <3> QED
      BY <3>2, <3>3, <3>4
  <2>3. CASE Refuse(word)
    <3>1. scan' = Token.next /\ Token.next \in 1..End /\ Fail(Token.next)
      BY <2>3, TokenEnds DEF Refuse, Take
    <3> QED
      BY <3>1 DEF Fail
  <2>4. CASE ~(RunWithName(word) \/ Refuse(word))
    <3>1. scan' \in 1..End
      BY <2>1, <2>4, TokenEnds DEF RunConstant, RunPrimitive, RunNumber, RunCommand, Take
    <3>2. Continue \/ Stop("outside") \/ Stop("killed") \/ Stop("exited")
      BY <2>1, <2>4 DEF RunConstant, RunPrimitive, RunNumber, RunCommand
    <3> QED
      BY <3>1, <3>2 DEF Continue, Stop
  <2> QED
    BY <2>2, <2>3, <2>4
<1> QED
  BY <1>1, <1>2 DEF Next

LEMMA LocatedSame ==
  ASSUME Located, ErrorNamesItsLine, UNCHANGED vars
  PROVE  Located' /\ ErrorNamesItsLine'
<1>1. text' = text /\ scan' = scan /\ status' = status /\ line' = line
  BY DEF vars, interpreterVars
<1>2. \A q : BareFeed(q)' = BareFeed(q) /\ LineEnd(q)' = LineEnd(q)
  BY <1>1 DEF LineEnd, BareFeed
<1>3. {q \in 1..scan - 1 : LineEnd(q)}' = {q \in 1..scan - 1 : LineEnd(q)}
  BY <1>1, <1>2
<1> QED
  BY <1>1, <1>2, <1>3 DEF Located, End, ErrorNamesItsLine

LEMMA LocatedStep ==
  ASSUME Located, Next
  PROVE  Located' /\ ErrorNamesItsLine'
<1>1. status = "reading" /\ text \in Seq(STRING) /\ End \in Nat
  BY TokenEnds DEF Next, qlforth_interpret, EndOfText, Reading, End
<1>2. text' = text /\ End' = End /\ scan' \in 1..End
  BY StepStops DEF End
<1>3. CASE Fail(scan')
  <2>1. PICK p \in 1..End : p = scan'
    BY <1>2
  <2>2. Fail(p)
    BY <1>3, <2>1 DEF Fail, ErrorLine
  <2>3. ErrorNamesItsLine' /\ line' \in 0..End
    BY <1>1, <2>1, <2>2, ErrorHere
  <2> QED
    BY <1>2, <1>3, <2>3 DEF Located, Fail
<1>4. CASE line' = line /\ status' \in {status, "done", "exited", "killed", "outside"}
  <2>1. status' # "error"
    BY <1>1, <1>4
  <2> QED
    BY <1>1, <1>2, <1>4, <2>1 DEF Located, ErrorNamesItsLine
<1> QED
  BY <1>3, <1>4, StepStops

(***************************************************************************)
(* The scanner never leaves its text, however it is cut into tokens and    *)
(* comments, and the line reported lies in it; cells are cells.            *)
(***************************************************************************)
THEOREM InterpreterTypes == Spec => []TypeOK
<1>1. Init => Located /\ ErrorNamesItsLine
  BY TokensAssumption DEF Init, Located, ErrorNamesItsLine, End
<1>2. Located /\ ErrorNamesItsLine /\ [Next]_vars => (Located /\ ErrorNamesItsLine)'
  BY LocatedSame, LocatedStep
<1>3. Located /\ CellsStay => TypeOK
  BY DEF Located, CellsStay, TypeOK
<1> QED
  BY <1>1, <1>2, <1>3, CellsAlwaysStay, PTL DEF Spec

(***************************************************************************)
(* An error names no line behind the one that the scanner stopped on, and  *)
(* that very line unless a bare line feed was followed at once by another  *)
(* line end.                                                               *)
(***************************************************************************)
THEOREM ErrorsNameTheirLine == Spec => []ErrorNamesItsLine
<1>1. Init => Located /\ ErrorNamesItsLine
  BY TokensAssumption DEF Init, Located, ErrorNamesItsLine, End
<1>2. Located /\ ErrorNamesItsLine /\ [Next]_vars => (Located /\ ErrorNamesItsLine)'
  BY LocatedSame, LocatedStep
<1> QED
  BY <1>1, <1>2, PTL DEF Spec

=============================================================================
