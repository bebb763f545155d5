-------------------------- MODULE HostStackProofs --------------------------
(***************************************************************************)
(* What the host's primitives keep, for every width of a cell and every    *)
(* depth of the stack: cells stay cells, whatever the arithmetic of        *)
(* forth.c makes of them, and a word writes no slot above its operands     *)
(* but the one that a push fills.                                          *)
(*                                                                         *)
(* The provers know nothing of exponents.  Half stands for 2^(Width - 1),  *)
(* and all that is used of it is that it is a positive number.             *)
(***************************************************************************)
EXTENDS HostStack, TLAPS

\* The saved cells and tos are cells; V is what else the array may hold.
Sound(V) ==
  /\ mem \in [Slots -> V]
  /\ dp \in 0..STACK_DEEP_SIZE
  /\ tos \in Cells
  /\ \A i \in Nat : i < dp => mem[i] \in Cells

\* What a word leaves.
Keeps(V) ==
  /\ mem' \in [Slots -> V]
  /\ dp' \in 0..dp + 1
  /\ tos' \in Cells
  /\ \A i \in Nat : i < dp' => mem'[i] \in Cells
  /\ \A i \in Slots : i > dp => mem'[i] = mem[i]

\* Numbers of the machine.
LEMMA CellsAreNumbers ==
  /\ Half \in Nat /\ Half > 0 /\ Cells \subseteq Int
  /\ \A v \in Int : v \in Cells <=> -Half <= v /\ v < Half
  /\ QLF_TRUE \in Cells /\ QLF_FALSE \in Cells
  /\ \A b \in BOOLEAN : Flag(b) \in Cells
BY PowerAssumption DEF Cells, QLF_TRUE, QLF_FALSE, Flag

\* Whatever is wrapped is a cell.
LEMMA WrapIsCell ==
  ASSUME NEW v \in Int
  PROVE  Wrap(v) \in Cells
<1>1. Half \in Nat /\ Half > 0
  BY PowerAssumption
<1>2. (v + Half) % (2 * Half) \in 0..2 * Half - 1
  BY <1>1
<1> QED
  BY <1>1, <1>2 DEF Wrap, Cells

\* Division of cells, cut towards zero, leaves cells when it is not fatal.
LEMMA DivisionIsCell ==
  ASSUME NEW n \in Cells, NEW d \in Cells, d # 0, ~(d = -1 /\ n = -Half)
  PROVE  Quotient(n, d) \in Cells /\ Remainder(n, d) \in Cells
<1> DEFINE a == IF n < 0 THEN -n ELSE n
           b == IF d < 0 THEN -d ELSE d
           q == a \div b
<1>1. /\ n \in Int /\ d \in Int /\ Half \in Nat /\ -Half <= n /\ n < Half
      /\ a \in Nat /\ b \in Nat \ {0} /\ a <= Half
  BY CellsAreNumbers
<1>2. Quotient(n, d) = IF (n < 0) = (d < 0) THEN q ELSE -q
  BY DEF Quotient
<1> HIDE DEF q
<1>3. q \in 0..a /\ a - b * q \in 0..b - 1
  BY <1>1 DEF q
<1>4. b >= 2 => q + q <= a
  <2>1. ASSUME b >= 2
        PROVE  q + q <= b * q
    BY <1>1, <1>3, <2>1
  <2> QED
    BY <1>1, <1>3, <2>1
<1>5. Quotient(n, d) \in Cells
  <2>1. CASE b >= 2
    BY <1>1, <1>2, <1>3, <1>4, <2>1, CellsAreNumbers
  <2>2. CASE b = 1
    BY <1>1, <1>2, <1>3, <2>2, CellsAreNumbers
  <2> QED
    BY <1>1, <2>1, <2>2
<1>6. n - d * Quotient(n, d) \in {a - b * q, -(a - b * q)}
  <2>1. CASE n < 0 /\ d < 0
    BY <1>1, <1>2, <1>3, <2>1
  <2>2. CASE n < 0 /\ ~(d < 0)
    BY <1>1, <1>2, <1>3, <2>2
  <2>3. CASE ~(n < 0) /\ d < 0
    BY <1>1, <1>2, <1>3, <2>3
  <2>4. CASE ~(n < 0) /\ ~(d < 0)
    BY <1>1, <1>2, <1>3, <2>4
  <2> QED
    BY <2>1, <2>2, <2>3, <2>4
<1>7. b <= Half
  BY <1>1, CellsAreNumbers
<1>8. Remainder(n, d) \in Cells
  BY <1>1, <1>3, <1>6, <1>7, CellsAreNumbers DEF Remainder
<1> QED
  BY <1>5, <1>8

-----------------------------------------------------------------------------
(* What the words compute. *)

\* Words on one cell.
LEMMA ChangedIsNumber ==
  ASSUME tos \in Cells, NEW w \in Unary
  PROVE  Changed(w) \in Int
<1>1. tos \in Int
  BY CellsAreNumbers
<1>2. CASE w \in {"0<", "0=", "0>"}
  <2>1. Tested(w) \in Cells
    BY <1>2, CellsAreNumbers DEF Tested, Flag
  <2> QED
    BY <1>2, <2>1, CellsAreNumbers DEF Changed
<1>3. CASE w \in {"ABS", "NEGATE", "NOT"}
  BY <1>1, <1>3 DEF Changed, Turned
<1>4. CASE w \in {"1+", "1-", "2+", "2-", "4+", "4-", "2*", "2/"}
  <2>1. tos \div 2 \in Int /\ 2 * tos \in Int
    BY <1>1
  <2>2. Stepped(w) \in Int
    BY <1>1, <1>4, <2>1 DEF Stepped
  <2>3. Changed(w) = Stepped(w)
    BY <1>4 DEF Changed
  <2> QED
    BY <2>2, <2>3
<1> QED
  BY <1>2, <1>3, <1>4 DEF Unary

\* Words on two.
LEMMA MergedIsNumber ==
  ASSUME tos \in Cells, nos \in Cells, NEW w \in Binary, ~Fatal(w)
  PROVE  Merged(w) \in Int
<1>1. tos \in Int /\ nos \in Int
  BY CellsAreNumbers
<1>2. CASE w \in {"+", "*", "-"}
  BY <1>1, <1>2 DEF Merged, Computed
<1>3. CASE w \in {"/", "MOD"}
  <2>1. tos # 0 /\ ~(tos = -1 /\ nos = -Half)
    BY <1>3 DEF Fatal
  <2>2. Quotient(nos, tos) \in Int /\ Remainder(nos, tos) \in Int
    BY <2>1, DivisionIsCell, CellsAreNumbers
  <2> QED
    BY <1>3, <2>2 DEF Merged, Computed
<1>4. CASE w \in {"MIN", "MAX"}
  BY <1>1, <1>4 DEF Merged, Chosen
<1>5. CASE w \in {"AND", "OR", "XOR"}
  <2>1. nos % (2 * Half) \in Bits /\ tos % (2 * Half) \in Bits /\ Bits \subseteq Int
    BY <1>1, CellsAreNumbers DEF Bits
  <2>2. Combined(w) \in Bits
    BY <1>5, <2>1, BitsAssumption DEF Combined
  <2> QED
    BY <1>5, <2>1, <2>2 DEF Merged
<1>6. CASE w \in {"<", "<=", "<>", "=", ">", ">="}
  <2>1. Compared(w) \in Cells
    BY <1>6, CellsAreNumbers DEF Compared, Flag
  <2>2. Merged(w) = Compared(w)
    BY <1>6 DEF Merged
  <2> QED
    BY <2>1, <2>2, CellsAreNumbers
<1> QED
  BY <1>2, <1>3, <1>4, <1>5, <1>6 DEF Binary

-----------------------------------------------------------------------------
(* What the words keep. *)

\* The operands a word takes.
LEMMA WordOperands ==
  /\ \A w \in Unary \cup FloatUnary \cup Indexed : Operands(w) = 1
  /\ \A w \in {"DUP", "?DUP", "DROP"} : Operands(w) = 1
  /\ \A w \in Binary \cup FloatBinary \cup FloatTests \cup {"OVER", "SWAP", "/MOD"} : Operands(w) = 2
  /\ \A w \in {"ROT", "-ROT"} : Operands(w) = 3
  /\ Operands("DEPTH") = 0
BY DEF Operands, Unary, Binary, FloatUnary, FloatBinary, FloatTests, Indexed

\* A primitive's name selects its action.
LEMMA WordActions ==
  ASSUME NEW w, Primitive(w)
  PROVE  /\ w = "DUP" => Push(tos)
         /\ w = "?DUP" => QDup
         /\ w = "DROP" => Pop
         /\ w = "OVER" => Push(nos)
         /\ w = "SWAP" => Swap
         /\ w = "ROT" => Rot
         /\ w = "-ROT" => MinusRot
         /\ w = "DEPTH" => Push(Wrap(dp))
         /\ w = "/MOD" => DivMod
         /\ w = "PICK" => Pick
         /\ w = "ROLL" => Roll
         /\ w \in Unary => Replace(w)
         /\ w \in Binary => Merge(w)
         /\ w \in FloatUnary \cup FloatBinary \cup FloatTests => Float(w)
BY DEF Primitive, Unary, Binary, FloatUnary, FloatBinary, FloatTests

\* Facts about the slots and cells that a sound stack offers.
LEMMA SoundStack ==
  ASSUME NEW V, Sound(V)
  PROVE  /\ dp \in Nat /\ STACK_DEEP_SIZE \in Nat /\ dp \in Slots
         /\ \A i \in 0..dp : i \in Slots /\ i \in DOMAIN mem
         /\ tos \in Int
BY HostStackAssumption, CellsAreNumbers DEF Sound, Slots

\* Words that only push.
LEMMA PushKeeps ==
  ASSUME NEW V, Cells \subseteq V, Sound(V), NEW v \in Cells, Push(v)
  PROVE  Keeps(V) /\ dp' = dp + 1
<1>1. mem' = [mem EXCEPT ![dp] = tos] /\ dp' = dp + 1 /\ tos' = v
  BY DEF Push
<1>2. mem' \in [Slots -> V]
  BY <1>1, SoundStack DEF Sound
<1>3. \A i \in Nat : i < dp + 1 => mem'[i] \in Cells
  BY <1>1, SoundStack DEF Sound
<1>4. \A i \in Slots : i > dp => mem'[i] = mem[i]
  BY <1>1, SoundStack DEF Sound
<1> QED
  BY <1>1, <1>2, <1>3, <1>4, SoundStack DEF Keeps

\* Words that only drop.
LEMMA PopKeeps ==
  ASSUME NEW V, Sound(V), dp >= 1, Pop
  PROVE  Keeps(V) /\ dp' = dp - 1
BY SoundStack DEF Pop, Keeps, Sound

\* Words that move cells.
LEMMA MovingKeeps ==
  ASSUME NEW V, Cells \subseteq V, Sound(V), NEW w \in Moving,
         dp >= Operands(w), ~Fatal(w), Primitive(w)
  PROVE  Keeps(V)
<1>1. CASE w = "DUP"
  BY <1>1, PushKeeps, WordActions DEF Sound
<1>2. CASE w = "?DUP"
  <2>1. CASE UNCHANGED stackVars
    BY <2>1, SoundStack DEF stackVars, Keeps, Sound
  <2> QED
    BY <1>2, <2>1, PushKeeps, WordActions DEF QDup, Sound
<1>3. CASE w = "DROP"
  BY <1>3, PopKeeps, WordActions, WordOperands
<1>4. CASE w = "OVER"
  <2>1. nos \in Cells
    BY <1>4, WordActions, WordOperands, SoundStack DEF nos, Sound
  <2> QED
    BY <1>4, <2>1, PushKeeps, WordActions
<1>5. CASE w = "SWAP"
  BY <1>5, WordActions, WordOperands, SoundStack DEF Swap, nos, Keeps, Sound
<1>6. CASE w = "ROT"
  BY <1>6, WordActions, WordOperands, SoundStack DEF Rot, nos, Keeps, Sound
<1>7. CASE w = "-ROT"
  BY <1>7, WordActions, WordOperands, SoundStack DEF MinusRot, nos, Keeps, Sound
<1>8. CASE w = "DEPTH"
  BY <1>8, PushKeeps, WrapIsCell, WordActions, SoundStack
<1>9. CASE w = "/MOD"
  <2>1. nos \in Cells /\ dp >= 2
    BY <1>9, WordActions, WordOperands, SoundStack DEF nos, Sound
  <2>2. CASE tos = 0
    BY <1>9, <2>2, WordActions, SoundStack DEF DivMod, stackVars, Keeps, Sound
  <2>3. CASE tos # 0
    <3>1. Quotient(nos, tos) \in Cells /\ Remainder(nos, tos) \in Cells
      BY <1>9, <2>1, <2>3, DivisionIsCell DEF Fatal, Sound
    <3>2. /\ mem' = [mem EXCEPT ![dp - 1] = Remainder(nos, tos)]
          /\ tos' = Quotient(nos, tos) /\ dp' = dp
      BY <1>9, <2>3, WordActions DEF DivMod
    <3>3. mem' \in [Slots -> V] /\ \A i \in Nat : i < dp => mem'[i] \in Cells
      BY <2>1, <3>1, <3>2, SoundStack DEF Sound
    <3>4. \A i \in Slots : i > dp => mem'[i] = mem[i]
      BY <2>1, <3>1, <3>2, SoundStack DEF Sound
    <3> QED
      BY <2>1, <3>1, <3>2, <3>3, <3>4, SoundStack DEF Keeps
  <2> QED
    BY <2>2, <2>3
<1> QED
  BY <1>1, <1>2, <1>3, <1>4, <1>5, <1>6, <1>7, <1>8, <1>9 DEF Moving

\* PICK and ROLL: a cell that they reach below the array is a cell by the
\* choice that stands for it.
LEMMA IndexedKeeps ==
  ASSUME NEW V, Cells \subseteq V, Sound(V), NEW w \in Indexed,
         dp >= Operands(w), Primitive(w)
  PROVE  Keeps(V)
<1>0. dp >= 1
  BY WordOperands
<1>1. CASE w = "PICK"
  BY <1>0, <1>1, WordActions, SoundStack DEF Pick, Keeps, Sound
<1>2. CASE w = "ROLL"
  <2>1. CASE tos >= dp
    BY <1>2, <2>1, WordActions, SoundStack DEF Roll, stackVars, Keeps, Sound
  <2>2. CASE ~(tos >= dp)
    <3>1. /\ tos' \in Cells /\ dp' = dp - 1
          /\ mem' = [i \in Slots |-> IF i \in dp - tos - 1..dp - 1 THEN mem[i + 1] ELSE mem[i]]
      BY <1>2, <2>2, WordActions DEF Roll
    <3>2. ASSUME NEW i \in Slots
          PROVE  /\ i \in dp - tos - 1..dp - 1 => i + 1 \in Slots /\ i + 1 \in 0..dp
                 /\ i \in 0..dp - 2 => mem'[i] \in Cells
                 /\ mem'[i] \in V
                 /\ i > dp => mem'[i] = mem[i]
      <4>1. i \in Int /\ i >= 0 /\ dp - tos - 1 \in Int
        BY HostStackAssumption, SoundStack DEF Slots
      <4>2. i \in dp - tos - 1..dp - 1 => i + 1 \in Slots /\ i + 1 \in 0..dp
        BY <1>0, <4>1, SoundStack
      <4>3. i \in 0..dp - 2 => i \in 0..dp - 1 /\ i + 1 \in 0..dp - 1
        BY <4>1, SoundStack
      <4> QED
        BY <3>1, <4>1, <4>2, <4>3, SoundStack DEF Sound
    <3> QED
      BY <1>0, <3>1, <3>2, SoundStack DEF Keeps, Slots
  <2> QED
    BY <2>1, <2>2
<1> QED
  BY <1>1, <1>2 DEF Indexed

\* Words that replace the top cell or merge two, and the C library's.
LEMMA ComputingKeeps ==
  ASSUME NEW V, Cells \subseteq V, Sound(V),
         NEW w \in Unary \cup Binary \cup FloatUnary \cup FloatBinary \cup FloatTests,
         dp >= Operands(w), ~Fatal(w), Primitive(w)
  PROVE  Keeps(V)
<1>1. CASE w \in Unary
  <2>1. tos' \in Cells
    BY <1>1, WordActions, ChangedIsNumber, WrapIsCell DEF Replace, Sound
  <2> QED
    BY <1>1, <2>1, WordActions, SoundStack DEF Replace, Keeps, Sound
<1>2. CASE w \in Binary
  <2>1. dp >= 2 /\ nos \in Cells
    BY <1>2, WordOperands, SoundStack DEF nos, Sound
  <2>2. tos' \in Cells
    BY <1>2, <2>1, WordActions, MergedIsNumber, WrapIsCell DEF Merge, Sound
  <2> QED
    BY <1>2, <2>1, <2>2, WordActions, SoundStack DEF Merge, Keeps, Sound
<1>3. CASE w \in FloatUnary \cup FloatBinary \cup FloatTests
  <2>1. Float(w) /\ Operands(w) \in {1, 2}
    BY <1>3, WordActions, WordOperands
  <2>2. tos' \in Cells
    BY <2>1, CellsAreNumbers DEF Float, Sound
  <2>3. mem' = mem /\ dp' = dp + 1 - Operands(w)
    BY <2>1 DEF Float
  <2> QED
    BY <2>1, <2>2, <2>3, SoundStack DEF Keeps, Sound
<1> QED
  BY <1>1, <1>2, <1>3

\* Every primitive that has its operands and is not fatal.
LEMMA PrimitiveKeeps ==
  ASSUME NEW V, Cells \subseteq V, Sound(V), NEW w \in Primitives,
         dp >= Operands(w), ~Fatal(w), Primitive(w)
  PROVE  Keeps(V)
BY MovingKeeps, IndexedKeeps, ComputingKeeps DEF Primitives

=============================================================================
