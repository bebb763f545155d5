------------------------ MODULE InstructionSetProofs ------------------------
(***************************************************************************)
(* Proofs about the chip and the instructions that code.c gives it.        *)
(*                                                                         *)
(* ChipTypes: what the simulator keeps has the width of its registers.     *)
(* EveryWordIsMeant: the instructions of every translated word and of      *)
(* every literal do what the word means, for all contents of the stacks,   *)
(* wherever these lie in their 32 cells.                                   *)
(*                                                                         *)
(* The argument goes from the bottom up.  An instruction is its fields     *)
(* (Fields), a return folded into it sets three more of them (Returning).  *)
(* Stands says which cells a circular stack holds, and AluStands how an    *)
(* instruction of class 3 changes them, whatever its fields.  Ends, Gives  *)
(* and Found say the same of ForthWords' sequences.  Coursing puts the two *)
(* together: it is the place of a word between its first instruction and   *)
(* its meaning, and it is inductive.                                       *)
(***************************************************************************)
EXTENDS InstructionSet, TLAPS

-----------------------------------------------------------------------------
(* Types. *)

\* What is used of the bitwise operations.
BitsAreWords ==
  \A a, b \in Word :
    /\ And16(a, b) \in Word /\ And16(a, b) = And16(b, a)
    /\ Or16(a, b) \in Word /\ Or16(a, b) = Or16(b, a)
    /\ Xor16(a, b) \in Word /\ Xor16(a, b) = Xor16(b, a)

Typed == TypeOK /\ vrp \in 0..STACK_DEEP - 1

\* Words and positions as inequalities.
LEMMA WordsAre ==
  /\ W = 65536 /\ STACK_DEEP = 32
  /\ \A v \in Int : v \in Word <=> 0 <= v /\ v < 65536
  /\ \A v \in Word : v \in Int /\ 0 <= v /\ v < 65536
  /\ \A v : v \in 0..STACK_DEEP - 1 <=> v \in Int /\ 0 <= v /\ v < 32
<1>1. W \in Int /\ STACK_DEEP \in Int
  BY DEF W, STACK_DEEP
<1>2. \A v : v \in Word <=> v \in Int /\ 0 <= v /\ v <= W - 1
  BY <1>1 DEF Word
<1>3. \A v : v \in 0..STACK_DEEP - 1 <=> v \in Int /\ 0 <= v /\ v <= STACK_DEEP - 1
  BY <1>1
<1> QED
  BY <1>2, <1>3 DEF W, STACK_DEEP

LEMMA Cut16 ==
  ASSUME NEW v \in Int
  PROVE  v % W \in Word
<1>1. v % 65536 \in Int /\ 0 <= v % 65536 /\ v % 65536 < 65536
  OBVIOUS
<1> QED
  BY <1>1, WordsAre

LEMMA Places ==
  ASSUME NEW v \in Int
  PROVE  v % STACK_DEEP \in 0..STACK_DEEP - 1
<1>1. v % 32 \in Int /\ 0 <= v % 32 /\ v % 32 < 32
  OBVIOUS
<1> QED
  BY <1>1, WordsAre

LEMMA FlagIsWord == \A b \in BOOLEAN : Flag(b) \in Word
<1>1. \A b \in BOOLEAN : Flag(b) = 65535 \/ Flag(b) = 0
  BY WordsAre DEF Flag
<1> QED
  BY <1>1, WordsAre

\* A memory of words gives words.
LEMMA ReadIsWord ==
  ASSUME NEW memory, \A a \in DOMAIN memory : memory[a] \in Word, NEW a, NEW v \in Reads(memory, a)
  PROVE  v \in Word
<1>1. 0 \in Word
  BY WordsAre
<1> QED
  BY <1>1, ChipAssumption DEF Reads

LEMMA StoredIsMemory ==
  ASSUME TypeOK, NEW a \in Nat, NEW v \in Word
  PROVE  DOMAIN Stored(a, v) \subseteq Nat /\ \A b \in DOMAIN Stored(a, v) : Stored(a, v)[b] \in Word
BY DEF TypeOK, Stored

\* Shifts of a word are words.
LEMMA ShiftsAreWords ==
  ASSUME NEW v \in Word, NEW k \in Word
  PROVE  ShiftLeft(v, k) \subseteq Word /\ ShiftRight(v, k) \subseteq Word
<1>1. \A c \in Counts(k) : c \in Nat
  BY WordsAre DEF Counts
<1>2. 0 \in Word
  BY WordsAre
<1>3. ASSUME NEW c \in Counts(k), c < 16
      PROVE  (v * 2^c) % W \in Word /\ v \div 2^c \in Word
  <2>1. c \in 0..15
    BY <1>1, <1>3
  <2>2. 2^c \in Nat \ {0}
    BY <2>1, PowersAssumption, Zenon
  <2>3. PICK p \in Nat \ {0} : p = 2^c
    BY <2>2, Zenon
  <2>4. v \in Nat /\ v < 65536
    BY WordsAre
  <2>5. (v * p) % W \in Word
    <3>1. v * p \in Int
      BY <2>4
    <3> QED
      BY <3>1, Cut16
  <2>6. v \div p \in Int /\ 0 <= v \div p /\ v \div p <= v
    <3>1. PICK q \in Int, r \in Nat : q = v \div p /\ v = p * q + r /\ r < p
      BY <2>4
    <3>2. q < 0 => p * q <= -p
      OBVIOUS
    <3>3. q >= 0 => q <= p * q
      OBVIOUS
    <3> QED
      BY <2>4, <3>1, <3>2, <3>3
  <2>7. v \div p \in Word
    BY <2>4, <2>6, WordsAre
  <2> QED
    BY <2>3, <2>5, <2>7, Zenon
<1> QED
  BY <1>2, <1>3 DEF ShiftLeft, ShiftRight

LEMMA FieldIsSmall ==
  ASSUME insn \in Word, NEW b \in Nat \ {0}, NEW s \in Nat \ {0}
  PROVE  Field(b, s) \in Nat /\ Field(b, s) < s
<1>1. PICK n \in Int : n = insn \div b
  BY WordsAre
<1>2. n % s \in Int /\ 0 <= n % s /\ n % s < s
  OBVIOUS
<1> QED
  BY <1>1, <1>2 DEF Field

LEMMA ResultIsWord ==
  ASSUME Typed, BitsAreWords, NEW v \in AluResults
  PROVE  v \in Word
<1>1. tos \in Word /\ NOS \in Word /\ rstack[vrp] \in Word
  <2>1. vdp \in 0..STACK_DEEP - 1 /\ dstack \in [0..STACK_DEEP - 1 -> Word]
    BY DEF Typed, TypeOK, Stack
  <2>2. vrp \in 0..STACK_DEEP - 1 /\ rstack \in [0..STACK_DEEP - 1 -> Word]
    BY DEF Typed, TypeOK, Stack
  <2> QED
    BY <2>1, <2>2 DEF Typed, TypeOK, NOS
<1>2. PICK t \in Word, u \in Word : t = tos /\ u = NOS
  BY <1>1
<1>3. t \in Int /\ u \in Int /\ 0 <= t /\ t < 65536
  BY WordsAre
<1>4. (t + u) % W \in Word /\ (t - 1) % W \in Word
  BY <1>3, Cut16
<1>5. W - 1 - t \in Word
  BY <1>3, WordsAre
<1>6. (256 * vrp + vdp) % W \in Word
  <2>1. vrp \in Int /\ vdp \in Int
    BY WordsAre DEF Typed, TypeOK
  <2>2. 256 * vrp + vdp \in Int
    BY <2>1
  <2> QED
    BY <2>2, Cut16
<1>7. \A w \in Fetches(tos) : w \in Word
  <2>1. 0 \in Word
    BY WordsAre
  <2>2. \A a \in DOMAIN ram : ram[a] \in Word
    BY DEF Typed, TypeOK
  <2>3. \A w \in Reads(ram, tos) : w \in Word
    BY <2>2, ReadIsWord
  <2> QED
    BY <2>1, <2>3 DEF Fetches
<1>8. And16(t, u) \in Word /\ Or16(t, u) \in Word /\ Xor16(t, u) \in Word
  BY DEF BitsAreWords
<1>9. ShiftLeft(NOS, tos) \subseteq Word /\ ShiftRight(NOS, tos) \subseteq Word
  BY <1>1, ShiftsAreWords
<1>10. Flag(tos = NOS) \in Word /\ Flag(Signed(NOS) < Signed(tos)) \in Word /\ Flag(NOS < tos) \in Word
  <2>1. W - 1 \in Word /\ 0 \in Word
    BY WordsAre
  <2> QED
    BY <2>1 DEF Flag
<1>11. \A n : Field(256, 16) = n => v \in Word
  <2> SUFFICES ASSUME NEW n, Field(256, 16) = n PROVE v \in Word
    OBVIOUS
  <2>1. v \in {tos, NOS, (tos + NOS) % W, And16(tos, NOS), Or16(tos, NOS), Xor16(tos, NOS), W - 1 - tos,
               Flag(tos = NOS), Flag(Signed(NOS) < Signed(tos)), (tos - 1) % W, rstack[vrp],
               (256 * vrp + vdp) % W, Flag(NOS < tos)}
          \cup ShiftRight(NOS, tos) \cup Fetches(tos) \cup ShiftLeft(NOS, tos)
    BY DEF AluResults
  <2> QED
    BY <1>1, <1>2, <1>4, <1>5, <1>6, <1>7, <1>8, <1>9, <1>10, <2>1
<1> QED
  BY <1>11

LEMMA MovesAreSmall ==
  ASSUME Typed, NEW p \in 0..STACK_DEEP - 1
  PROVE  /\ Up(p) \in 0..STACK_DEEP - 1 /\ Down(p) \in 0..STACK_DEEP - 1
         /\ Moved(p, 1) \in 0..STACK_DEEP - 1 /\ Moved(p, 4) \in 0..STACK_DEEP - 1
<1>1. p \in Int
  BY WordsAre
<1>2. p + 1 \in Int /\ p - 1 \in Int
  BY <1>1
<1>3. Up(p) \in 0..STACK_DEEP - 1 /\ Down(p) \in 0..STACK_DEEP - 1
  BY <1>2, Places DEF Up, Down
<1>4. ASSUME NEW b \in {1, 4} PROVE Moved(p, b) \in 0..STACK_DEEP - 1
  <2>1. PICK f \in Nat : f = Field(b, 4) /\ f < 4
    BY FieldIsSmall DEF Typed, TypeOK
  <2>2. SignedExtension[f + 1] \in Int
    <3>1. f = 0 \/ f = 1 \/ f = 2 \/ f = 3
      BY <2>1
    <3> QED
      BY <3>1 DEF SignedExtension
  <2>3. p + SignedExtension[f + 1] \in Int
    BY <1>1, <2>2
  <2> QED
    BY <2>1, <2>3, Places DEF Moved
<1> QED
  BY <1>3, <1>4

LEMMA GotoTypes ==
  ASSUME NEW pc \in Int, Goto(pc), \A a \in DOMAIN ram' : ram'[a] \in Word
  PROVE  vpc' \in Word /\ insn' \in Word /\ running' \in BOOLEAN
<1>1. vpc' \in Word
  BY Cut16 DEF Goto
<1>2. insn' \in Word
  BY ReadIsWord DEF Goto
<1> QED
  BY <1>1, <1>2 DEF Goto

\* A stack with one cell replaced.
LEMMA StackKeeps ==
  ASSUME NEW stack \in Stack, NEW p, NEW v \in Word
  PROVE  [stack EXCEPT ![p] = v] \in Stack
BY DEF Stack

LEMMA StepTypes ==
  ASSUME Typed, BitsAreWords, Step
  PROVE  Typed'
<1>1. /\ DOMAIN ram \subseteq Nat /\ \A a \in DOMAIN ram : ram[a] \in Word
      /\ tos \in Word /\ vpc \in Word /\ insn \in Word
      /\ dstack \in Stack /\ vdp \in 0..STACK_DEEP - 1
      /\ rstack \in Stack /\ vrp \in 0..STACK_DEEP - 1
      /\ NOS \in Word
  BY DEF Typed, TypeOK, Stack, NOS
<1>2. Sequential \in Int /\ 2 * Sequential \in Int /\ Target \in Int
  BY <1>1, WordsAre DEF Sequential, Target
<1>3. /\ Up(vdp) \in 0..STACK_DEEP - 1 /\ Down(vdp) \in 0..STACK_DEEP - 1
      /\ Up(vrp) \in 0..STACK_DEEP - 1 /\ Moved(vdp, 1) \in 0..STACK_DEEP - 1
      /\ Moved(vrp, 4) \in 0..STACK_DEEP - 1
  BY <1>1, MovesAreSmall
<1>4. ASSUME NEW pc \in Int, Goto(pc), DOMAIN ram' \subseteq Nat, \A a \in DOMAIN ram' : ram'[a] \in Word,
             tos' \in Word, dstack' \in Stack, rstack' \in Stack,
             vdp' \in 0..STACK_DEEP - 1, vrp' \in 0..STACK_DEEP - 1
      PROVE  Typed'
  BY <1>4, GotoTypes DEF Typed, TypeOK, Stack, Word
<1>5. CASE literal
  <2>1. tos' \in Word
    <3>1. insn % \h8000 \in Int /\ 0 <= insn % \h8000 /\ insn % \h8000 < 32768
      BY <1>1, WordsAre
    <3> QED
      BY <1>5, <3>1, WordsAre DEF literal
  <2>2. vpc' \in Word /\ insn' \in Word
    BY <1>1, <1>2, <1>5, Cut16, ReadIsWord DEF literal
  <2>3. dstack' \in Stack
    <3>1. dstack' = [dstack EXCEPT ![Up(vdp)] = tos]
      BY <1>5 DEF literal
    <3> QED
      BY <1>1, <3>1, StackKeeps, Zenon
  <2> QED
    BY <1>1, <1>3, <1>5, <2>1, <2>2, <2>3 DEF literal, Typed, TypeOK
<1>6. CASE jump
  <2>1. Goto(Target) /\ UNCHANGED <<ram, tos, dstack, vdp, rstack, vrp>>
    BY <1>6 DEF jump
  <2> QED
    BY <1>1, <1>2, <1>4, <2>1
<1>7. CASE conditional_jump
  <2>1. PICK pc \in Int : Goto(pc)
    BY <1>2, <1>7 DEF conditional_jump
  <2> QED
    BY <1>1, <1>3, <1>4, <1>7, <2>1 DEF conditional_jump, NOS
<1>8. CASE call
  <2>1. rstack' \in Stack
    <3>1. (2 * Sequential) % W \in Word
      BY <1>2, Cut16
    <3> QED
      BY <1>1, <1>8, <3>1, StackKeeps DEF call
  <2>2. Goto(Target) /\ vrp' \in 0..STACK_DEEP - 1 /\ UNCHANGED <<ram, tos, dstack, vdp>>
    BY <1>3, <1>8 DEF call
  <2> QED
    BY <1>1, <1>2, <1>4, <2>1, <2>2
<1>9. CASE alu
  <2>1. tos' \in Word
    BY <1>9, ResultIsWord DEF alu
  <2>2. dstack' \in Stack /\ rstack' \in Stack
    <3>1. dstack' = dstack \/ dstack' = [dstack EXCEPT ![vdp'] = tos]
      BY <1>9 DEF alu
    <3>2. rstack' = rstack \/ rstack' = [rstack EXCEPT ![vrp'] = tos]
      BY <1>9 DEF alu
    <3>3. dstack' \in Stack
      BY <1>1, <3>1 DEF Stack
    <3>4. rstack' \in Stack
      BY <1>1, <3>2 DEF Stack
    <3> QED
      BY <3>3, <3>4
  <2>3. DOMAIN ram' \subseteq Nat /\ \A a \in DOMAIN ram' : ram'[a] \in Word
    <3>1. ram' = ram \/ ram' = Stored(tos, NOS)
      BY <1>9 DEF alu
    <3>2. tos \in Nat
      BY <1>1, WordsAre
    <3> QED
      BY <1>1, <3>1, <3>2, StoredIsMemory DEF Typed
  <2>4. PICK pc \in Int : Goto(pc)
    <3>1. rstack[vrp] \in Word
      BY <1>1 DEF Stack
    <3>2. rstack[vrp] \div 2 \in Int
      BY <3>1, WordsAre
    <3> QED
      BY <1>2, <1>9, <3>2 DEF alu
  <2>5. vdp' = Moved(vdp, 1) /\ vrp' = Moved(vrp, 4)
    BY <1>9 DEF alu
  <2> QED
    BY <1>3, <1>4, <2>1, <2>2, <2>3, <2>4, <2>5
<1> QED
  BY <1>5, <1>6, <1>7, <1>8, <1>9 DEF Step

-----------------------------------------------------------------------------
(* The words that code.c emits. *)

LEMMA ShortWords ==
  ASSUME NEW a \in Word, NEW b \in Word
  PROVE  /\ <<>> \in Seq(Word) /\ Len(<<>>) = 0
         /\ <<a>> \in Seq(Word) /\ Len(<<a>>) = 1
         /\ <<a, b>> \in Seq(Word) /\ Len(<<a, b>>) = 2
         /\ \A s \in Seq(Word) :
              Append(s, a) \in Seq(Word) /\ Len(Append(s, a)) = Len(s) + 1 /\ Len(s) \in Nat
<1>1. <<>> \in Seq(Word) /\ Len(<<>>) = 0
  OBVIOUS
<1>2. <<a>> \in Seq(Word) /\ Len(<<a>>) = 1
  OBVIOUS
<1>3. <<a, b>> \in Seq(Word) /\ Len(<<a, b>>) = 2
  OBVIOUS
<1>4. ASSUME NEW s \in Seq(Word)
      PROVE  Append(s, a) \in Seq(Word) /\ Len(Append(s, a)) = Len(s) + 1 /\ Len(s) \in Nat
  OBVIOUS
<1> QED
  BY <1>1, <1>2, <1>3, <1>4

LEMMA BitSet ==
  ASSUME NEW w \in Word
  PROVE  WithRet(w) \in Word
<1>1. ASSUME NEW v \in Word, NEW bit \in {4, 8, 4096}
      PROVE  SetBit(v, bit) \in Word
  <2>1. v \in Int /\ 0 <= v /\ v <= 65535 /\ bit \in Nat
    BY WordsAre
  <2>2. /\ SetBit(v, 4096) <= 65535 /\ SetBit(v, 8) <= 65535
        /\ SetBit(v, 4) <= 65535
    BY <2>1 DEF SetBit
  <2>3. SetBit(v, bit) <= 65535
    BY <2>2
  <2>4. SetBit(v, bit) \in {v, v + bit}
    BY DEF SetBit
  <2> QED
    BY <2>1, <2>3, <2>4, WordsAre
<1> QED
  BY <1>1 DEF WithRet

LEMMA Opcodes == \A op \in Foldable : Opcode(op) \in Word
<1> DEFINE Codes ==
  {0, \h100C, \h6001, \h6003, \h6020, \h6023, \h6044, \h6081, \h6100, \h6103,
   \h6147, \h6180, \h6181, \h6203, \h6303, \h6403, \h6503, \h6541, \h6600,
   \h6703, \h6781, \h6803, \h6903, \h6A00, \h6B81, \h6C00, \h6C81, \h6D03,
   \h6E81, \h6F03}
<1>1. \A c \in Codes : c \in Word
  BY WordsAre
<1>2. \A op \in Foldable : Opcode(op) \in Codes
  BY DEF Foldable, Opcode
<1> HIDE DEF Codes
<1> QED
  BY <1>1, <1>2

\* What a node becomes: at most two words, and one at least if a return can be
\* folded into it.
LEMMA EncodedWords ==
  ASSUME NEW op \in Foldable \cup Fixed \cup {"LITERAL"}, NEW val \in Int,
         NEW ret \in BOOLEAN
  PROVE  /\ Encoded(op, val, ret) \in Seq(Word)
         /\ op \notin Fixed => Len(Encoded(op, val, ret)) \in Nat \ {0}
<1> DEFINE words == Encoded(op, val, ret)
<1> DEFINE Closed(w) == IF ret THEN WithRet(w) ELSE w
<1>1. \A w \in Word : Closed(w) \in Word
  BY BitSet
<1>2. \A n \in Int : Literal(n) \in Word
  BY WordsAre DEF Literal
<1>3. CASE op = "LITERAL"
  <2> op \notin Fixed /\ op \notin Foldable
    BY <1>3 DEF Fixed, Foldable
  <2>1. ~Complemented(val) => Encoded(op, val, ret) = <<Literal(val)>>
    BY <1>3 DEF Encoded
  <2>2. Complemented(val) =>
          Encoded(op, val, ret) = <<Literal(-val - 1), Closed(Opcode("INVERT"))>>
    BY <1>3 DEF Encoded
  <2>3. Literal(val) \in Word /\ Literal(-val - 1) \in Word
    BY <1>2
  <2>4. Closed(Opcode("INVERT")) \in Word
    BY <1>1, Opcodes DEF Foldable
  <2>5. \/ words = <<Literal(val)>>
        \/ words = <<Literal(-val - 1), Closed(Opcode("INVERT"))>>
    BY <2>1, <2>2
  <2>6. words \in Seq(Word) /\ Len(words) \in {1, 2}
    <3> HIDE DEF Closed, words
    <3> QED
      BY <2>3, <2>4, <2>5, ShortWords
  <2> QED
    BY <2>6
<1>4. CASE op \in Fixed
  <2>1. op # "LITERAL" /\ op \notin Foldable
    BY <1>4 DEF Fixed, Foldable
  <2>2. Encoded(op, val, ret) = FixedCode(op)
    BY <1>4, <2>1 DEF Encoded
  <2>3. \/ FixedCode(op) = <<\h6B8D>> \/ FixedCode(op) = <<\h600C, \h600C>>
        \/ FixedCode(op) = <<>>
    BY <1>4 DEF Fixed, FixedCode
  <2>4. \h6B8D \in Word /\ \h600C \in Word
    BY WordsAre
  <2>5. words = <<\h6B8D>> \/ words = <<\h600C, \h600C>> \/ words = <<>>
    BY <2>2, <2>3
  <2>6. words \in Seq(Word)
    <3> HIDE DEF words
    <3>1. /\ <<>> \in Seq(Word) /\ <<\h6B8D>> \in Seq(Word)
          /\ <<\h600C, \h600C>> \in Seq(Word)
      BY <2>4, ShortWords
    <3>2. CASE words = <<\h6B8D>>
      BY <3>1, <3>2
    <3>3. CASE words = <<\h600C, \h600C>>
      BY <3>1, <3>3
    <3>4. CASE words = <<>>
      BY <3>1, <3>4
    <3> QED
      BY <2>5, <3>2, <3>3, <3>4
  <2> QED
    BY <1>4, <2>6
<1>5. CASE op \in Foldable
  <2>1. op # "LITERAL" /\ op \notin Fixed
    BY <1>5 DEF Fixed, Foldable
  <2>2. Encoded(op, val, ret) = Append(Before(op), Closed(Opcode(op)))
    BY <1>5, <2>1 DEF Encoded
  <2>3. Closed(Opcode(op)) \in Word
    BY <1>1, <1>5, Opcodes
  <2>4. Before(op) \in Seq(Word)
    <3>1. \h6123 \in Word
      BY WordsAre
    <3>2. Before(op) = <<>> \/ Before(op) = <<\h6123>>
      BY DEF Before
    <3>3. <<>> \in Seq(Word) /\ <<\h6123>> \in Seq(Word)
      BY <3>1, ShortWords
    <3>4. CASE Before(op) = <<>>
      BY <3>3, <3>4
    <3>5. CASE Before(op) = <<\h6123>>
      BY <3>3, <3>5
    <3> QED
      BY <3>2, <3>4, <3>5
  <2>5. words \in Seq(Word) /\ Len(words) \in Nat \ {0}
    <3> HIDE DEF Closed
    <3> QED
      BY <2>2, <2>3, <2>4, ShortWords
  <2> QED
    BY <2>5
<1> QED
  BY <1>3, <1>4, <1>5

LEMMA HoldingIsStack ==
  ASSUME NEW cells \in Seq(Word), NEW b \in 0..STACK_DEEP - 1
  PROVE  Holding(cells, b) \in Stack
<1>1. 0 \in Word
  BY WordsAre
<1>2. \A k \in DOMAIN cells : cells[k] \in Word
  OBVIOUS
<1> QED
  BY <1>1, <1>2 DEF Holding, Stack

\* What the chip begins with.
LEMMA Beginning ==
  ASSUME Init
  PROVE  \E op \in Words, val \in Int, ret \in BOOLEAN, b \in Bases,
            x \in Samples, y \in Samples, held \in Samples :
           /\ ret => Folds(op, val)
           /\ Given([op |-> op, val |-> val, ret |-> ret], b, x, y, held)
<1>1. PICK op \in Words, number \in Numbers, b \in Bases, x \in Samples, y \in Samples, held \in Samples :
        \E ret \in IF Folds(op, IF op = "LITERAL" THEN number ELSE 0) THEN BOOLEAN ELSE {FALSE} :
          Given([op |-> op, val |-> IF op = "LITERAL" THEN number ELSE 0, ret |-> ret], b, x, y, held)
  BY DEF Init
<1>2. PICK val \in Int : val = IF op = "LITERAL" THEN number ELSE 0
  BY InstructionAssumption
<1>3. \E ret \in IF Folds(op, val) THEN BOOLEAN ELSE {FALSE} :
        Given([op |-> op, val |-> val, ret |-> ret], b, x, y, held)
  BY <1>1, <1>2
<1>4. PICK ret \in BOOLEAN : (ret => Folds(op, val)) /\ Given([op |-> op, val |-> val, ret |-> ret], b, x, y, held)
  BY <1>3
<1> QED
  BY <1>4

LEMMA InitTypes == Init => Typed
<1> SUFFICES ASSUME Init PROVE Typed
  OBVIOUS
<1>1. PICK op \in Words, val \in Int, ret \in BOOLEAN, b \in Bases,
           x \in Samples, y \in Samples, held \in Samples :
        Given([op |-> op, val |-> val, ret |-> ret], b, x, y, held)
  BY Beginning
<1> DEFINE node  == [op |-> op, val |-> val, ret |-> ret]
           words == InstructionWords(node)
           back  == IF ret THEN <<9, held, 2 * Back>> ELSE <<9, held>>
<1>2. /\ ram = [a \in Entry..Entry + Len(words) - 1 \cup {Cell} |->
                    IF a = Cell THEN held ELSE words[a]]
      /\ dstack = Holding(<<7, y>>, b) /\ tos = x
      /\ vdp = (b + 2) % STACK_DEEP
      /\ rstack = Holding(back, b)
      /\ vrp = (b + Len(back)) % STACK_DEEP
      /\ vpc = Entry
      /\ insn \in Reads(ram, Entry)
      /\ running = TRUE
  BY <1>1 DEF Given
<1>3. /\ b \in Int /\ b \in 0..STACK_DEEP - 1
      /\ x \in Word /\ y \in Word /\ held \in Word /\ 7 \in Word /\ 9 \in Word /\ 2 * Back \in Word
  BY InstructionAssumption, WordsAre DEF Back
<1>4. words \in Seq(Word)
  <2>1. /\ node.op \in Foldable \cup Fixed \cup {"LITERAL"} /\ node.val \in Int /\ node.ret \in BOOLEAN
    BY InstructionAssumption
  <2> QED
    BY <2>1, EncodedWords DEF InstructionWords
<1>5. <<7, y>> \in Seq(Word)
  BY <1>3
<1>6. back \in Seq(Word) /\ Len(back) \in Nat
  <2>1. <<9, held>> \in Seq(Word) /\ <<9, held, 2 * Back>> \in Seq(Word)
    BY <1>3
  <2>2. \A s \in Seq(Word) : Len(s) \in Nat
    OBVIOUS
  <2> QED
    BY <2>1, <2>2
<1> HIDE DEF words, back, node
<1>7. DOMAIN ram \subseteq Nat /\ \A a \in DOMAIN ram : ram[a] \in Word
  <2>1. Len(words) \in Nat /\ \A a \in 1..Len(words) : words[a] \in Word
    BY <1>4
  <2>2. \A a \in Entry..Entry + Len(words) - 1 : a \in 1..Len(words)
    BY <2>1 DEF Entry
  <2>3. Entry..Entry + Len(words) - 1 \cup {Cell} \subseteq Nat
    BY <2>1 DEF Entry, Cell
  <2> QED
    BY <1>2, <1>3, <2>1, <2>2, <2>3
<1>8. dstack \in Stack /\ rstack \in Stack
  BY <1>2, <1>3, <1>5, <1>6, HoldingIsStack
<1>9. vdp \in 0..STACK_DEEP - 1 /\ vrp \in 0..STACK_DEEP - 1
  <2>1. b + 2 \in Int /\ b + Len(back) \in Int
    BY <1>3, <1>5, <1>6
  <2> QED
    BY <1>2, <2>1, Places
<1>10. tos \in Word /\ vpc \in Word /\ running \in BOOLEAN
  BY <1>2, <1>3, WordsAre DEF Entry
<1>11. insn \in Word
  BY <1>2, <1>7, ReadIsWord
<1> QED
  BY <1>7, <1>8, <1>9, <1>10, <1>11 DEF Typed, TypeOK

(***************************************************************************)
(* Whatever one word of code.c starts from, the registers of the simulator *)
(* keep 16 bits and its stacks their 32 cells: its moves wrap around.      *)
(***************************************************************************)
THEOREM ChipTypes == BitsAreWords => (InstructionSpec => []TypeOK)
<1> SUFFICES ASSUME BitsAreWords PROVE InstructionSpec => []TypeOK
  OBVIOUS
<1>1. Init => Typed
  BY InitTypes
<1>2. Typed /\ [Execute]_instructionVars => Typed'
  <2> SUFFICES ASSUME Typed, [Execute]_instructionVars PROVE Typed'
    OBVIOUS
  <2>1. CASE Execute
    BY <2>1, StepTypes DEF Execute
  <2>2. CASE UNCHANGED instructionVars
    BY <2>2 DEF instructionVars, vars, chip, Typed, TypeOK, Stack, Word
  <2> QED
    BY <2>1, <2>2
<1>3. Typed => TypeOK
  BY DEF Typed
<1> QED
  BY <1>1, <1>2, <1>3, PTL DEF InstructionSpec

-----------------------------------------------------------------------------
(* What words mean, cell by cell. *)

\* All but k cells of s, and c on them, make t.
Ends(V, s, k, c, t) ==
  /\ s \in Seq(V) /\ c \in Seq(V) /\ t \in Seq(V)
  /\ k \in 0..Len(s) /\ Len(t) = Len(s) - k + Len(c)
  /\ \A i \in 1..Len(s) - k : t[i] = s[i]
  /\ \A i \in 1..Len(c) : t[Len(s) - k + i] = c[i]

LEMMA SameSequence ==
  ASSUME NEW V, NEW s \in Seq(V), NEW t \in Seq(V), Len(s) = Len(t), \A i \in 1..Len(s) : s[i] = t[i]
  PROVE  s = t
OBVIOUS

LEMMA Ending ==
  ASSUME NEW V, NEW s, NEW k, NEW c, NEW t, Ends(V, s, k, c, t)
  PROVE  Forth!Below(s, k) \o c = t
<1>7. PICK m \in Nat, h \in Seq(V) : m = Len(s) - k /\ h = Forth!Below(s, k)
  <2>1. Len(s) - k \in Nat
    BY DEF Ends
  <2>2. Forth!Below(s, k) \in Seq(V)
    BY DEF Ends, Forth!Below
  <2> QED
    BY <2>1, <2>2
<1>1. Len(h) = m /\ \A i \in 1..m : h[i] = s[i]
  BY <1>7 DEF Ends, Forth!Below
<1> DEFINE j == h \o c
<1>8. /\ c \in Seq(V) /\ t \in Seq(V) /\ Len(t) = m + Len(c)
      /\ \A i \in 1..m : t[i] = s[i]
      /\ \A i \in 1..Len(c) : t[m + i] = c[i]
  BY <1>7 DEF Ends
<1>2. j \in Seq(V) /\ Len(j) = m + Len(c)
  <2>1. \A u \in Seq(V), w \in Seq(V) : u \o w \in Seq(V) /\ Len(u \o w) = Len(u) + Len(w)
    OBVIOUS
  <2> QED
    BY <1>1, <1>8, <2>1
<1>3. \A i \in 1..Len(j) : j[i] = IF i <= m THEN h[i] ELSE c[i - m]
  BY <1>1, <1>2, <1>8
<1> HIDE DEF j
<1>4. ASSUME NEW i \in 1..Len(j) PROVE j[i] = t[i]
  <2>1. CASE i <= m
    <3>1. i \in 1..m
      BY <2>1
    <3> QED
      BY <1>1, <1>3, <1>8, <2>1, <3>1
  <2>2. CASE i > m
    <3>1. PICK n \in 1..Len(c) : n = i - m /\ m + n = i
      BY <1>2, <1>8, <2>2
    <3>2. t[i] = c[n]
      BY <1>8, <3>1
    <3>3. j[i] = c[n]
      BY <1>3, <2>2, <3>1
    <3> QED
      BY <3>2, <3>3
  <2> QED
    BY <2>1, <2>2
<1>5. t \in Seq(V) /\ Len(t) = Len(j)
  BY <1>2, <1>8
<1>6. j = t
  BY <1>2, <1>4, <1>5, SameSequence
<1> QED
  BY <1>6, <1>7 DEF j

\* The data stack, the return stack and the cell of a state.
Gives(s, ds, rs, held) == s.ds = ds /\ s.rs = rs /\ s.mem[Cell] = held

Found(x, y, held) == [ds |-> <<7, y, x>>, rs |-> <<9, held>>, mem |-> [a \in {Cell} |-> held]]

LEMMA DataEffects ==
  ASSUME NEW x, NEW y, NEW held
  PROVE  LET s == Found(x, y, held) IN
         /\ \A op \in Forth!Binary :
              Gives(Forth!Effect(op, s), <<7, Forth!Yield(op, y, x)>>, <<9, held>>, held)
         /\ Gives(Forth!Effect("DUP", s), <<7, y, x, x>>, <<9, held>>, held)
         /\ Gives(Forth!Effect("DROP", s), <<7, y>>, <<9, held>>, held)
         /\ Gives(Forth!Effect("INVERT", s), <<7, y, W - 1 - x>>, <<9, held>>, held)
         /\ Gives(Forth!Effect("1_SUB", s), <<7, y, (x - 1) % W>>, <<9, held>>, held)
         /\ Gives(Forth!Effect("SWAP", s), <<7, x, y>>, <<9, held>>, held)
         /\ Gives(Forth!Effect("OVER", s), <<7, y, x, y>>, <<9, held>>, held)
         /\ Gives(Forth!Effect("NIP", s), <<7, x>>, <<9, held>>, held)
         /\ Gives(Forth!Effect("2_DUP_EQUAL", s), <<7, y, x, Flag(y = x)>>, <<9, held>>, held)
<1> DEFINE s == Found(x, y, held)
           V == {7, y, x, W - 1 - x, (x - 1) % W, Flag(y = x)} \cup {Forth!Yield(op, y, x) : op \in Forth!Binary}
           Now(k, c) == [s EXCEPT !.ds = Forth!Below(@, k) \o c]
<1>1. /\ 7 \in V /\ y \in V /\ x \in V /\ W - 1 - x \in V /\ (x - 1) % W \in V /\ Flag(y = x) \in V
      /\ \A op \in Forth!Binary : Forth!Yield(op, y, x) \in V
  OBVIOUS
<1> HIDE DEF V
<1>2. ASSUME NEW k, NEW c, NEW t, Ends(V, <<7, y, x>>, k, c, t)
      PROVE  Gives(Now(k, c), t, <<9, held>>, held)
  <2>1. Forth!Below(<<7, y, x>>, k) \o c = t
    BY <1>2, Ending, Zenon
  <2> QED
    BY <2>1 DEF Gives, Found, Cell
<1>3. /\ s.ds = <<7, y, x>> /\ s.ds[Len(s.ds)] = x /\ s.ds[Len(s.ds) - 1] = y
  BY DEF Found
<1> HIDE DEF s, Now
<1>4. ASSUME NEW op \in Forth!Binary
      PROVE  Gives(Forth!Effect(op, s), <<7, Forth!Yield(op, y, x)>>, <<9, held>>, held)
  <2>1. Forth!Effect(op, s) = Now(2, <<Forth!Yield(op, y, x)>>)
    BY <1>3 DEF Now, Forth!Effect, Forth!Binary, Forth!Unary, Forth!Pairs
  <2>2. Ends(V, <<7, y, x>>, 2, <<Forth!Yield(op, y, x)>>, <<7, Forth!Yield(op, y, x)>>)
    BY <1>1 DEF Ends
  <2> QED
    BY <1>2, <2>1, <2>2
<1>5. Gives(Forth!Effect("DUP", s), <<7, y, x, x>>, <<9, held>>, held)
  <2>1. Forth!Effect("DUP", s) = Now(1, <<x, x>>)
    BY <1>3 DEF Now, Forth!Effect, Forth!Binary, Forth!Unary, Forth!Pairs, Forth!OfOne
  <2>2. Ends(V, <<7, y, x>>, 1, <<x, x>>, <<7, y, x, x>>)
    BY <1>1 DEF Ends
  <2> QED
    BY <1>2, <2>1, <2>2
<1>6. Gives(Forth!Effect("DROP", s), <<7, y>>, <<9, held>>, held)
  <2>1. Forth!Effect("DROP", s) = Now(1, <<>>)
    BY <1>3 DEF Now, Forth!Effect, Forth!Binary, Forth!Unary, Forth!Pairs, Forth!OfOne
  <2>2. Ends(V, <<7, y, x>>, 1, <<>>, <<7, y>>)
    BY <1>1 DEF Ends
  <2> QED
    BY <1>2, <2>1, <2>2
<1>7. Gives(Forth!Effect("INVERT", s), <<7, y, W - 1 - x>>, <<9, held>>, held)
  <2>1. Forth!Effect("INVERT", s) = Now(1, <<W - 1 - x>>)
    BY <1>3 DEF Now, Forth!Effect, Forth!Binary, Forth!Unary, Forth!Pairs, Forth!OfOne, Forth!W, W
  <2>2. Ends(V, <<7, y, x>>, 1, <<W - 1 - x>>, <<7, y, W - 1 - x>>)
    BY <1>1 DEF Ends
  <2> QED
    BY <1>2, <2>1, <2>2
<1>8. Gives(Forth!Effect("1_SUB", s), <<7, y, (x - 1) % W>>, <<9, held>>, held)
  <2>1. Forth!Effect("1_SUB", s) = Now(1, <<(x - 1) % W>>)
    BY <1>3 DEF Now, Forth!Effect, Forth!Binary, Forth!Unary, Forth!Pairs, Forth!OfOne, Forth!W, W
  <2>2. Ends(V, <<7, y, x>>, 1, <<(x - 1) % W>>, <<7, y, (x - 1) % W>>)
    BY <1>1 DEF Ends
  <2> QED
    BY <1>2, <2>1, <2>2
<1>9. Gives(Forth!Effect("SWAP", s), <<7, x, y>>, <<9, held>>, held)
  <2>1. Forth!Effect("SWAP", s) = Now(2, <<x, y>>)
    BY <1>3 DEF Now, Forth!Effect, Forth!Binary, Forth!Unary, Forth!Pairs, Forth!OfTwo
  <2>2. Ends(V, <<7, y, x>>, 2, <<x, y>>, <<7, x, y>>)
    BY <1>1 DEF Ends
  <2> QED
    BY <1>2, <2>1, <2>2
<1>10. Gives(Forth!Effect("OVER", s), <<7, y, x, y>>, <<9, held>>, held)
  <2>1. Forth!Effect("OVER", s) = Now(2, <<y, x, y>>)
    BY <1>3 DEF Now, Forth!Effect, Forth!Binary, Forth!Unary, Forth!Pairs, Forth!OfTwo
  <2>2. Ends(V, <<7, y, x>>, 2, <<y, x, y>>, <<7, y, x, y>>)
    BY <1>1 DEF Ends
  <2> QED
    BY <1>2, <2>1, <2>2
<1>11. Gives(Forth!Effect("NIP", s), <<7, x>>, <<9, held>>, held)
  <2>1. Forth!Effect("NIP", s) = Now(2, <<x>>)
    BY <1>3 DEF Now, Forth!Effect, Forth!Binary, Forth!Unary, Forth!Pairs, Forth!OfTwo
  <2>2. Ends(V, <<7, y, x>>, 2, <<x>>, <<7, x>>)
    BY <1>1 DEF Ends
  <2> QED
    BY <1>2, <2>1, <2>2
<1>12. Gives(Forth!Effect("2_DUP_EQUAL", s), <<7, y, x, Flag(y = x)>>, <<9, held>>, held)
  <2>1. Forth!Effect("2_DUP_EQUAL", s) = Now(2, <<y, x, Flag(y = x)>>)
    <3>1. Forth!Effect("2_DUP_EQUAL", s) = Now(2, <<y, x, Forth!Truth(y = x)>>)
      BY <1>3 DEF Now, Forth!Effect, Forth!Binary, Forth!Unary, Forth!Pairs, Forth!OfTwo
    <3>2. Forth!Truth(y = x) = Flag(y = x)
      BY DEF Forth!Truth, Flag, Forth!W, W
    <3> QED
      BY <3>1, <3>2
  <2>2. Ends(V, <<7, y, x>>, 2, <<y, x, Flag(y = x)>>, <<7, y, x, Flag(y = x)>>)
    BY <1>1 DEF Ends
  <2> QED
    BY <1>2, <2>1, <2>2
<1> QED
  BY <1>4, <1>5, <1>6, <1>7, <1>8, <1>9, <1>10, <1>11, <1>12 DEF s

\* All but k cells of s.
LEMMA Keeping ==
  ASSUME NEW V, NEW s, NEW k, NEW t, Ends(V, s, k, <<>>, t)
  PROVE  Forth!Below(s, k) = t
<1>1. Forth!Below(s, k) \o <<>> = t
  BY Ending, Zenon
<1>2. Forth!Below(s, k) \in Seq(V)
  BY DEF Ends, Forth!Below
<1>3. \A u \in Seq(V) : u \o <<>> = u
  OBVIOUS
<1> QED
  BY <1>1, <1>2, <1>3

LEMMA MemoryEffects ==
  ASSUME NEW y, NEW held
  PROVE  LET s == Found(Cell, y, held) IN
         /\ Gives(Forth!Effect("FETCH", s), <<7, y, held>>, <<9, held>>, held)
         /\ Gives(Forth!Effect("DUP_FETCH", s), <<7, y, Cell, held>>, <<9, held>>, held)
         /\ Gives(Forth!Effect("STORE", s), <<7>>, <<9, held>>, y)
         /\ Gives(Forth!Effect("STORE_NIP", s), <<7, Cell>>, <<9, held>>, y)
         /\ Gives(Forth!Effect("2_DUP_STORE", s), <<7, y, Cell>>, <<9, held>>, y)
<1> DEFINE s == Found(Cell, y, held)
           V == {7, y, Cell, held}
<1>1. 7 \in V /\ y \in V /\ Cell \in V /\ held \in V
  OBVIOUS
<1> HIDE DEF V
<1>2. /\ s.ds = <<7, y, Cell>> /\ s.ds[Len(s.ds)] = Cell /\ s.ds[Len(s.ds) - 1] = y
      /\ s.rs = <<9, held>> /\ s.mem[Cell] = held
  BY DEF Found
<1>3. \A d : /\ Gives([s EXCEPT !.ds = d], d, <<9, held>>, held)
             /\ Gives([s EXCEPT !.ds = d, !.mem[Cell] = y], d, <<9, held>>, y)
  BY DEF Found, Gives
<1> HIDE DEF s
<1>4. /\ Forth!Below(<<7, y, Cell>>, 1) \o <<held>> = <<7, y, held>>
      /\ Forth!Below(<<7, y, Cell>>, 1) \o <<Cell, held>> = <<7, y, Cell, held>>
      /\ Forth!Below(<<7, y, Cell>>, 2) = <<7>>
      /\ Forth!Below(<<7, y, Cell>>, 2) \o <<Cell>> = <<7, Cell>>
      /\ Forth!Below(<<7, y, Cell>>, 0) = <<7, y, Cell>>
  <2>1. Ends(V, <<7, y, Cell>>, 1, <<held>>, <<7, y, held>>)
    BY <1>1 DEF Ends
  <2>2. Ends(V, <<7, y, Cell>>, 1, <<Cell, held>>, <<7, y, Cell, held>>)
    BY <1>1 DEF Ends
  <2>3. Ends(V, <<7, y, Cell>>, 2, <<>>, <<7>>)
    BY <1>1 DEF Ends
  <2>4. Ends(V, <<7, y, Cell>>, 2, <<Cell>>, <<7, Cell>>)
    BY <1>1 DEF Ends
  <2>5. Ends(V, <<7, y, Cell>>, 0, <<>>, <<7, y, Cell>>)
    BY <1>1 DEF Ends
  <2>6. /\ Forth!Below(<<7, y, Cell>>, 1) \o <<held>> = <<7, y, held>>
        /\ Forth!Below(<<7, y, Cell>>, 1) \o <<Cell, held>> = <<7, y, Cell, held>>
        /\ Forth!Below(<<7, y, Cell>>, 2) \o <<Cell>> = <<7, Cell>>
    BY <2>1, <2>2, <2>4, Ending, Zenon
  <2>7. /\ Forth!Below(<<7, y, Cell>>, 2) = <<7>> /\ Forth!Below(<<7, y, Cell>>, 0) = <<7, y, Cell>>
    BY <2>3, <2>5, Keeping, Zenon
  <2> QED
    BY <2>6, <2>7
<1>5. Gives(Forth!Effect("FETCH", s), <<7, y, held>>, <<9, held>>, held)
  <2>1. Forth!Effect("FETCH", s) = [s EXCEPT !.ds = <<7, y, held>>]
    BY <1>2, <1>4 DEF Forth!Effect, Forth!Binary, Forth!Unary, Forth!Pairs
  <2> QED
    BY <1>3, <2>1
<1>6. Gives(Forth!Effect("DUP_FETCH", s), <<7, y, Cell, held>>, <<9, held>>, held)
  <2>1. Forth!Effect("DUP_FETCH", s) = [s EXCEPT !.ds = <<7, y, Cell, held>>]
    BY <1>2, <1>4 DEF Forth!Effect, Forth!Binary, Forth!Unary, Forth!Pairs
  <2> QED
    BY <1>3, <2>1
<1>7. Gives(Forth!Effect("STORE", s), <<7>>, <<9, held>>, y)
  <2>1. Forth!Effect("STORE", s) = [s EXCEPT !.ds = <<7>>, !.mem[Cell] = y]
    BY <1>2, <1>4 DEF Forth!Effect, Forth!Binary, Forth!Unary, Forth!Pairs
  <2> QED
    BY <1>3, <2>1
<1>8. Gives(Forth!Effect("STORE_NIP", s), <<7, Cell>>, <<9, held>>, y)
  <2>1. Forth!Effect("STORE_NIP", s) = [s EXCEPT !.ds = <<7, Cell>>, !.mem[Cell] = y]
    BY <1>2, <1>4 DEF Forth!Effect, Forth!Binary, Forth!Unary, Forth!Pairs
  <2> QED
    BY <1>3, <2>1
<1>9. Gives(Forth!Effect("2_DUP_STORE", s), <<7, y, Cell>>, <<9, held>>, y)
  <2>1. Forth!Effect("2_DUP_STORE", s) = [s EXCEPT !.ds = <<7, y, Cell>>, !.mem[Cell] = y]
    BY <1>2, <1>4 DEF Forth!Effect, Forth!Binary, Forth!Unary, Forth!Pairs
  <2> QED
    BY <1>3, <2>1
<1> QED
  BY <1>5, <1>6, <1>7, <1>8, <1>9 DEF s

LEMMA ReturnEffects ==
  ASSUME NEW x, NEW y, NEW held
  PROVE  LET s == Found(x, y, held) IN
         /\ Gives(Forth!Effect("TO_R", s), <<7, y>>, <<9, held, x>>, held)
         /\ Gives(Forth!Effect("DUP_TO_R", s), <<7, y, x>>, <<9, held, x>>, held)
         /\ Gives(Forth!Effect("R_FROM", s), <<7, y, x, held>>, <<9>>, held)
         /\ Gives(Forth!Effect("R_FETCH", s), <<7, y, x, held>>, <<9, held>>, held)
         /\ Gives(Forth!Effect("UNLOOP", s), <<7, y, x>>, <<>>, held)
<1> DEFINE s == Found(x, y, held)
           V == {7, 9, y, x, held}
           Now(ds, rs) == [s EXCEPT !.ds = ds, !.rs = rs]
<1>1. 7 \in V /\ 9 \in V /\ y \in V /\ x \in V /\ held \in V
  OBVIOUS
<1> HIDE DEF V
<1>2. /\ s.ds = <<7, y, x>> /\ s.ds[Len(s.ds)] = x /\ s.ds[Len(s.ds) - 1] = y
      /\ s.rs = <<9, held>> /\ s.rs[Len(s.rs)] = held /\ s.mem[Cell] = held
  BY DEF Found
<1>3. \A ds, rs : Gives(Now(ds, rs), ds, rs, held)
  BY DEF Found, Gives
<1> HIDE DEF s, Now
<1>4. /\ Forth!Below(<<7, y, x>>, 1) = <<7, y>>
      /\ Forth!Below(<<7, y, x>>, 0) = <<7, y, x>>
      /\ Forth!Below(<<9, held>>, 1) = <<9>> /\ Forth!Below(<<9, held>>, 2) = <<>>
      /\ Forth!Below(<<9, held>>, 0) = <<9, held>>
  <2>1. Ends(V, <<7, y, x>>, 1, <<>>, <<7, y>>) /\ Ends(V, <<7, y, x>>, 0, <<>>, <<7, y, x>>)
    BY <1>1 DEF Ends
  <2>2. /\ Ends(V, <<9, held>>, 1, <<>>, <<9>>) /\ Ends(V, <<9, held>>, 2, <<>>, <<>>)
        /\ Ends(V, <<9, held>>, 0, <<>>, <<9, held>>)
    BY <1>1 DEF Ends
  <2> QED
    BY <2>1, <2>2, Keeping, Zenon
<1>5. /\ Forth!Below(<<9, held>>, 0) \o <<x>> = <<9, held, x>>
      /\ <<7, y, x>> \o <<held>> = <<7, y, x, held>> /\ <<7, y, x>> \o <<>> = <<7, y, x>>
      /\ Forth!Below(<<9, held>>, 1) \o <<>> = <<9>> /\ Forth!Below(<<9, held>>, 0) \o <<>> = <<9, held>>
  <2>1. Ends(V, <<9, held>>, 0, <<x>>, <<9, held, x>>) /\ Ends(V, <<7, y, x>>, 0, <<held>>, <<7, y, x, held>>)
    BY <1>1 DEF Ends
  <2>2. /\ Ends(V, <<7, y, x>>, 0, <<>>, <<7, y, x>>) /\ Ends(V, <<9, held>>, 1, <<>>, <<9>>)
        /\ Ends(V, <<9, held>>, 0, <<>>, <<9, held>>)
    BY <1>1 DEF Ends
  <2>3. /\ Forth!Below(<<9, held>>, 0) \o <<x>> = <<9, held, x>>
        /\ Forth!Below(<<7, y, x>>, 0) \o <<held>> = <<7, y, x, held>>
        /\ Forth!Below(<<7, y, x>>, 0) \o <<>> = <<7, y, x>>
        /\ Forth!Below(<<9, held>>, 1) \o <<>> = <<9>>
        /\ Forth!Below(<<9, held>>, 0) \o <<>> = <<9, held>>
    BY <2>1, <2>2, Ending, Zenon
  <2> QED
    BY <1>4, <2>3
<1>6. Gives(Forth!Effect("TO_R", s), <<7, y>>, <<9, held, x>>, held)
  <2>1. Forth!Effect("TO_R", s) = Now(<<7, y>>, <<9, held, x>>)
    BY <1>2, <1>4, <1>5 DEF Now, Forth!Effect, Forth!Binary, Forth!Unary, Forth!Pairs, Forth!Reads, Forth!Writes
  <2> QED
    BY <1>3, <2>1
<1>7. Gives(Forth!Effect("DUP_TO_R", s), <<7, y, x>>, <<9, held, x>>, held)
  <2>1. Forth!Effect("DUP_TO_R", s) = Now(<<7, y, x>>, <<9, held, x>>)
    BY <1>2, <1>4, <1>5 DEF Now, Forth!Effect, Forth!Binary, Forth!Unary, Forth!Pairs, Forth!Reads, Forth!Writes
  <2> QED
    BY <1>3, <2>1
<1>8. Gives(Forth!Effect("R_FROM", s), <<7, y, x, held>>, <<9>>, held)
  <2>1. Forth!Effect("R_FROM", s) = Now(s.ds \o <<s.rs[Len(s.rs)]>>, Forth!Below(s.rs, 1))
    BY DEF Now, Forth!Effect, Forth!Binary, Forth!Unary, Forth!Pairs
  <2>2. s.ds \o <<s.rs[Len(s.rs)]>> = <<7, y, x, held>> /\ Forth!Below(s.rs, 1) = <<9>>
    BY <1>2, <1>4, <1>5, Zenon
  <2>3. Forth!Effect("R_FROM", s) = Now(<<7, y, x, held>>, <<9>>)
    BY <2>1, <2>2, Zenon
  <2> QED
    BY <1>3, <2>3
<1>9. Gives(Forth!Effect("R_FETCH", s), <<7, y, x, held>>, <<9, held>>, held)
  <2>1. Forth!Effect("R_FETCH", s) = Now(s.ds \o <<s.rs[Len(s.rs)]>>, Forth!Below(s.rs, 0))
    BY DEF Now, Forth!Effect, Forth!Binary, Forth!Unary, Forth!Pairs
  <2>2. s.ds \o <<s.rs[Len(s.rs)]>> = <<7, y, x, held>> /\ Forth!Below(s.rs, 0) = <<9, held>>
    BY <1>2, <1>4, <1>5, Zenon
  <2>3. Forth!Effect("R_FETCH", s) = Now(<<7, y, x, held>>, <<9, held>>)
    BY <2>1, <2>2, Zenon
  <2> QED
    BY <1>3, <2>3
<1>10. Gives(Forth!Effect("UNLOOP", s), <<7, y, x>>, <<>>, held)
  <2>1. Forth!Effect("UNLOOP", s) = Now(<<7, y, x>>, <<>>)
    BY <1>2, <1>4, <1>5 DEF Now, Forth!Effect, Forth!Binary, Forth!Unary, Forth!Pairs, Forth!Reads, Forth!Writes
  <2> QED
    BY <1>3, <2>1
<1> QED
  BY <1>6, <1>7, <1>8, <1>9, <1>10 DEF s

-----------------------------------------------------------------------------
(* The circular stacks. *)

\* The n-th position above b.
Slot(b, n) == (b + n) % STACK_DEEP

LEMMA Circle ==
  ASSUME NEW b \in 0..STACK_DEEP - 1
  PROVE  /\ \A n \in 0..6 : Slot(b, n) \in 0..STACK_DEEP - 1 /\ (Slot(b, n) - b) % STACK_DEEP = n
         /\ \A n \in 0..6, m \in 0..6 : Slot(b, n) = Slot(b, m) => n = m
         /\ \A n \in 0..5 : Up(Slot(b, n)) = Slot(b, n + 1) /\ Down(Slot(b, n + 1)) = Slot(b, n)
<1>1. b \in Int /\ 0 <= b /\ b < 32 /\ STACK_DEEP = 32
  BY WordsAre
<1>2. \A n \in 0..6 : Slot(b, n) = IF b + n < 32 THEN b + n ELSE b + n - 32
  BY <1>1 DEF Slot
<1>3. ASSUME NEW n \in 0..6
      PROVE  Slot(b, n) \in 0..STACK_DEEP - 1 /\ (Slot(b, n) - b) % STACK_DEEP = n
  <2>1. PICK s \in Int : s = Slot(b, n) /\ (s = b + n \/ s = b + n - 32) /\ 0 <= s /\ s < 32
    BY <1>1, <1>2
  <2>2. (s - b) % 32 = n
    <3>1. \A v \in 0..6 : v % 32 = v /\ (v - 32) % 32 = v
      OBVIOUS
    <3>2. s - b = n \/ s - b = n - 32
      BY <1>1, <2>1
    <3> QED
      BY <3>1, <3>2
  <2> QED
    BY <1>1, <2>1, <2>2, WordsAre
<1>4. ASSUME NEW n \in 0..5
      PROVE  Up(Slot(b, n)) = Slot(b, n + 1) /\ Down(Slot(b, n + 1)) = Slot(b, n)
  <2>1. PICK s \in Int : s = Slot(b, n) /\ s = (IF b + n < 32 THEN b + n ELSE b + n - 32)
    BY <1>1, <1>2
  <2>2. PICK t \in Int : t = Slot(b, n + 1) /\ t = (IF b + n + 1 < 32 THEN b + n + 1 ELSE b + n + 1 - 32)
    BY <1>1, <1>2
  <2>3. (s + 1) % 32 = t /\ (t - 1) % 32 = s
    BY <1>1, <2>1, <2>2
  <2> QED
    BY <1>1, <2>1, <2>2, <2>3 DEF Up, Down
<1>5. \A n \in 0..6, m \in 0..6 : Slot(b, n) = Slot(b, m) => n = m
  BY <1>1, <1>2
<1> QED
  BY <1>3, <1>4, <1>5

-----------------------------------------------------------------------------
(* The instructions, field by field. *)

\* An instruction of class 3.
Code(ret, res, tn, tr, st, rd, dd) ==
  24576 + 4096 * ret + 256 * res + 128 * tn + 64 * tr + 32 * st + 4 * rd + dd

\* The next instruction is one of class 3, with these fields.
Executes(ret, res, tn, tr, st, rd, dd) ==
  /\ ret \in 0..1 /\ res \in 0..15 /\ tn \in 0..1 /\ tr \in 0..1 /\ st \in 0..1
  /\ rd \in 0..3 /\ dd \in 0..3
  /\ insn = Code(ret, res, tn, tr, st, rd, dd)

LEMMA Fields ==
  ASSUME NEW ret, NEW res, NEW tn, NEW tr, NEW st, NEW rd, NEW dd,
         Executes(ret, res, tn, tr, st, rd, dd)
  PROVE  /\ insn \in Int /\ Class(3) /\ insn < \h8000 /\ Field(256, 16) = res /\ Field(1, 4) = dd /\ Field(4, 4) = rd
         /\ (Flagged(128) <=> tn = 1) /\ (Flagged(64) <=> tr = 1)
         /\ (Flagged(32) <=> st = 1) /\ (Flagged(4096) <=> ret = 1)
<1> /\ ret \in 0..1 /\ res \in 0..15 /\ tn \in 0..1 /\ tr \in 0..1 /\ st \in 0..1
    /\ rd \in 0..3 /\ dd \in 0..3 /\ insn = Code(ret, res, tn, tr, st, rd, dd)
  BY DEF Executes
<1>1. PICK low \in Int : low = 64 * tr + 32 * st + 4 * rd + dd
  OBVIOUS
<1>2. 0 <= low /\ low < 128
  BY <1>1
<1>3. insn = 24576 + 4096 * ret + 256 * res + 128 * tn + low
  BY <1>1 DEF Code
<1>4. insn \in Int /\ Class(3) /\ insn < \h8000
  BY <1>2, <1>3 DEF Class
<1>5. Field(256, 16) = res
  <2>1. insn \div 256 = 96 + 16 * ret + res
    BY <1>2, <1>3
  <2> QED
    BY <2>1 DEF Field
<1>6. Field(4096, 2) = ret
  <2>1. insn \div 4096 = 6 + ret
    BY <1>2, <1>3
  <2> QED
    BY <2>1 DEF Field
<1>7. Field(128, 2) = tn
  <2>1. insn \div 128 = 192 + 32 * ret + 2 * res + tn
    BY <1>2, <1>3
  <2> QED
    BY <2>1 DEF Field
<1>8. PICK high \in Int : high = 192 + 32 * ret + 2 * res + tn
  OBVIOUS
<1>9. insn = 128 * high + 64 * tr + 32 * st + 4 * rd + dd
  BY <1>8 DEF Code
<1>10. Field(64, 2) = tr
  <2>1. insn \div 64 = 2 * high + tr
    BY <1>9
  <2> QED
    BY <2>1 DEF Field
<1>11. Field(32, 2) = st
  <2>1. insn \div 32 = 4 * high + 2 * tr + st
    BY <1>9
  <2> QED
    BY <2>1 DEF Field
<1>12. Field(4, 4) = rd
  <2>1. insn \div 4 = 32 * high + 16 * tr + 8 * st + rd
    BY <1>9
  <2> QED
    BY <2>1 DEF Field
<1>13. Field(1, 4) = dd
  <2>1. insn \div 1 = 128 * high + 64 * tr + 32 * st + 4 * rd + dd
    BY <1>9
  <2> QED
    BY <2>1 DEF Field
<1> QED
  BY <1>4, <1>5, <1>6, <1>7, <1>10, <1>11, <1>12, <1>13 DEF Flagged

\* A return sets three fields that were empty.
LEMMA Returning ==
  ASSUME NEW res \in 0..15, NEW tn \in 0..1, NEW st \in 0..1, NEW dd \in 0..3
  PROVE  WithRet(Code(0, res, tn, 0, st, 0, dd)) = Code(1, res, tn, 0, st, 3, dd)
<1>1. PICK w \in Int : w = 24576 + 256 * res + 128 * tn + 32 * st + dd
  OBVIOUS
<1>2. Code(0, res, tn, 0, st, 0, dd) = w /\ Code(1, res, tn, 0, st, 3, dd) = w + 4096 + 8 + 4
  BY <1>1 DEF Code
<1>3. SetBit(w, 4096) = w + 4096
  <2>1. w \div 4096 = 6
    BY <1>1
  <2> QED
    BY <2>1 DEF SetBit
<1>4. SetBit(w + 4096, 8) = w + 4096 + 8
  <2>1. (w + 4096) \div 8 = 512 + 3072 + 32 * res + 16 * tn + 4 * st
    BY <1>1
  <2> QED
    BY <2>1 DEF SetBit
<1>5. SetBit(w + 4096 + 8, 4) = w + 4096 + 8 + 4
  <2>1. (w + 4096 + 8) \div 4 = 1024 + 2 + 6144 + 64 * res + 32 * tn + 8 * st
    BY <1>1
  <2> QED
    BY <2>1 DEF SetBit
<1> QED
  BY <1>2, <1>3, <1>4, <1>5 DEF WithRet

\* The instructions of the extension words that code.c translates.
LEMMA Codes ==
  /\ Opcode("ADD") = Code(0, 2, 0, 0, 0, 0, 3) /\ Opcode("AND") = Code(0, 3, 0, 0, 0, 0, 3)
  /\ Opcode("OR") = Code(0, 4, 0, 0, 0, 0, 3) /\ Opcode("XOR") = Code(0, 5, 0, 0, 0, 0, 3)
  /\ Opcode("EQUAL") = Code(0, 7, 0, 0, 0, 0, 3) /\ Opcode("LT") = Code(0, 8, 0, 0, 0, 0, 3)
  /\ Opcode("U_LT") = Code(0, 15, 0, 0, 0, 0, 3)
  /\ Opcode("LSHIFT") = Code(0, 13, 0, 0, 0, 0, 3) /\ Opcode("RSHIFT") = Code(0, 9, 0, 0, 0, 0, 3)
  /\ Opcode("DROP") = Code(0, 1, 0, 0, 0, 0, 3) /\ Opcode("NIP") = Code(0, 0, 0, 0, 0, 0, 3)
  /\ Opcode("STORE_NIP") = Code(0, 0, 0, 0, 1, 0, 3) /\ Opcode("STORE") = Code(0, 1, 0, 0, 0, 0, 3)
  /\ \h6123 = Code(0, 1, 0, 0, 1, 0, 3)
  /\ Opcode("INVERT") = Code(0, 6, 0, 0, 0, 0, 0) /\ Opcode("1_SUB") = Code(0, 10, 0, 0, 0, 0, 0)
  /\ Opcode("FETCH") = Code(0, 12, 0, 0, 0, 0, 0) /\ Opcode("2_DUP_STORE") = Code(0, 0, 0, 0, 1, 0, 0)
  /\ Opcode("SWAP") = Code(0, 1, 1, 0, 0, 0, 0)
  /\ Opcode("DUP") = Code(0, 0, 1, 0, 0, 0, 1) /\ Opcode("OVER") = Code(0, 1, 1, 0, 0, 0, 1)
  /\ Opcode("DUP_FETCH") = Code(0, 12, 1, 0, 0, 0, 1)
  /\ Opcode("2_DUP_EQUAL") = Code(0, 7, 1, 0, 0, 0, 1)
  /\ Opcode("R_FETCH") = Code(0, 11, 1, 0, 0, 0, 1)
  /\ Opcode("TO_R") = Code(0, 1, 0, 1, 0, 1, 3) /\ Opcode("DUP_TO_R") = Code(0, 0, 0, 1, 0, 1, 0)
  /\ \h6B8D = Code(0, 11, 1, 0, 0, 3, 1) /\ \h600C = Code(0, 0, 0, 0, 0, 3, 0)
BY DEF Opcode, Code

-----------------------------------------------------------------------------
(* What an instruction does to the stacks. *)

\* The stacks hold ds and rs.
Stands(ds, rs) ==
  /\ ds \in Seq(Word) /\ Len(ds) \in 1..5 /\ rs \in Seq(Word) /\ Len(rs) \in 0..3
  /\ vdp = Slot(base, Len(ds) - 1) /\ tos = ds[Len(ds)]
  /\ \A i \in 1..Len(ds) - 1 : dstack[Slot(base, i)] = ds[i]
  /\ vrp = Slot(base, Len(rs))
  /\ \A i \in 1..Len(rs) : rstack[Slot(base, i)] = rs[i]

LEMMA Standing ==
  ASSUME Typed, base \in 0..STACK_DEEP - 1, NEW ds, NEW rs, Stands(ds, rs)
  PROVE  DataStack = ds /\ ReturnStack = rs
<1>1. \A n \in 0..6 : Slot(base, n) \in 0..STACK_DEEP - 1 /\ (Slot(base, n) - base) % STACK_DEEP = n
  BY Circle
<1>2. ASSUME NEW stack \in Stack, NEW n \in 0..6
      PROVE  /\ Above(stack, n) \in Seq(Word) /\ Len(Above(stack, n)) = n
             /\ \A i \in 1..n : Above(stack, n)[i] = stack[Slot(base, i)]
  <2>1. ASSUME NEW i \in 1..n PROVE stack[(base + i) % STACK_DEEP] \in Word
    <3>1. i \in 0..6
      OBVIOUS
    <3> QED
      BY <1>1, <3>1 DEF Slot, Stack
  <2> QED
    BY <2>1 DEF Above, Slot
<1>3. dstack \in Stack /\ rstack \in Stack /\ tos \in Word
  BY DEF Typed, TypeOK
<1>4. ReturnStack = rs
  <2>1. PICK n \in 0..6 : n = Len(rs)
    BY DEF Stands
  <2>2. (vrp - base) % STACK_DEEP = n
    BY <1>1, <2>1 DEF Stands
  <2>3. ReturnStack = Above(rstack, n)
    BY <2>2 DEF ReturnStack
  <2> DEFINE s == Above(rstack, n)
  <2>4. s \in Seq(Word) /\ Len(s) = n /\ \A i \in 1..n : s[i] = rstack[Slot(base, i)]
    BY <1>2, <1>3
  <2> HIDE DEF s
  <2>5. s = rs
    BY <2>1, <2>4, SameSequence DEF Stands
  <2> QED
    BY <2>3, <2>5 DEF s
<1>5. DataStack = ds
  <2>1. PICK n \in 0..6 : n = Len(ds) - 1 /\ n + 1 = Len(ds)
    BY DEF Stands
  <2>2. (vdp - base) % STACK_DEEP = n
    BY <1>1, <2>1 DEF Stands
  <2> DEFINE s == Above(dstack, n)
  <2>3. DataStack = Append(s, tos)
    BY <2>2 DEF DataStack
  <2>4. s \in Seq(Word) /\ Len(s) = n /\ \A i \in 1..n : s[i] = dstack[Slot(base, i)]
    BY <1>2, <1>3
  <2> HIDE DEF s
  <2> DEFINE t == Append(s, tos)
  <2>5. /\ t \in Seq(Word) /\ Len(t) = n + 1 /\ t[n + 1] = tos
        /\ \A i \in 1..n : t[i] = s[i]
    BY <1>3, <2>4
  <2> HIDE DEF t
  <2>6. \A i \in 1..n : t[i] = ds[i]
    BY <2>1, <2>4, <2>5 DEF Stands
  <2>9. ds \in Seq(Word) /\ Len(ds) = n + 1 /\ tos = ds[n + 1]
    BY <2>1 DEF Stands
  <2>7. \A i \in 1..n + 1 : t[i] = ds[i]
    <3>1. \A i \in 1..n + 1 : i \in 1..n \/ i = n + 1
      OBVIOUS
    <3> QED
      BY <2>5, <2>6, <2>9, <3>1
  <2>8. t = ds
    BY <2>1, <2>5, <2>7, SameSequence DEF Stands
  <2> QED
    BY <2>3, <2>8 DEF t
<1> QED
  BY <1>4, <1>5

\* The signed two-bit field that moves a stack pointer.
Motion(f) == SignedExtension[f + 1]

LEMMA Shifted ==
  ASSUME NEW b \in 0..STACK_DEEP - 1, NEW n \in 0..6, NEW e \in Int, -2 <= e, e <= 1, n + e \in 0..6
  PROVE  (Slot(b, n) + e) % STACK_DEEP = Slot(b, n + e)
<1>1. b \in Int /\ 0 <= b /\ b < 32 /\ STACK_DEEP = 32
  BY WordsAre
<1>2. PICK m \in Int : m = n + e /\ 0 <= m /\ m <= 6
  OBVIOUS
<1>3. PICK s \in Int : s = Slot(b, n) /\ s = (IF b + n < 32 THEN b + n ELSE b + n - 32)
  BY <1>1 DEF Slot
<1>4. PICK t \in Int : t = Slot(b, m) /\ t = (IF b + m < 32 THEN b + m ELSE b + m - 32)
  BY <1>1, <1>2 DEF Slot
<1>5. (s + e) % 32 = t
  BY <1>1, <1>2, <1>3, <1>4
<1> QED
  BY <1>1, <1>2, <1>3, <1>4, <1>5

\* How an instruction of class 3 takes the stacks from ds and rs to ds1 and rs1.
Alters(ds, rs, ds1, rs1, tn, tr, rd, dd) ==
  /\ ds1 \in Seq(Word) /\ Len(ds1) \in 1..5 /\ rs1 \in Seq(Word) /\ Len(rs1) \in 0..3
  /\ Len(ds1) = Len(ds) + Motion(dd)
  /\ Len(rs1) = Len(rs) + Motion(rd)
  /\ tn = 1 \/ Len(ds1) <= Len(ds)
  /\ tr = 1 \/ Len(rs1) <= Len(rs)
  /\ \A i \in 1..Len(ds1) - 1 :
       ds1[i] = IF tn = 1 /\ i = Len(ds1) - 1 THEN tos ELSE ds[i]
  /\ \A i \in 1..Len(rs1) :
       rs1[i] = IF tr = 1 /\ i = Len(rs1) THEN tos ELSE rs[i]

LEMMA AluStands ==
  ASSUME Typed, base \in 0..STACK_DEEP - 1, alu, UNCHANGED base,
         NEW ret, NEW res, NEW tn, NEW tr, NEW st, NEW rd, NEW dd,
         Executes(ret, res, tn, tr, st, rd, dd),
         NEW ds, NEW rs, NEW ds1, NEW rs1, Stands(ds, rs), Alters(ds, rs, ds1, rs1, tn, tr, rd, dd),
         ds1[Len(ds1)] = tos'
  PROVE  Stands(ds1, rs1)'
<1>1. PICK b \in 0..STACK_DEEP - 1 : b = base /\ b = base'
  OBVIOUS
<1>13. Field(1, 4) = dd /\ Field(4, 4) = rd /\ (Flagged(128) <=> tn = 1) /\ (Flagged(64) <=> tr = 1)
  BY Fields
<1>2. \A f \in {dd, rd} : Motion(f) \in Int /\ -2 <= Motion(f) /\ Motion(f) <= 1
  <2>1. dd \in 0..3 /\ rd \in 0..3
    BY DEF Executes
  <2>2. \A f \in 0..3 : f = 0 \/ f = 1 \/ f = 2 \/ f = 3
    OBVIOUS
  <2> QED
    BY <2>1, <2>2 DEF Motion, SignedExtension
<1>3. PICK n \in 0..6, m \in 0..6 : n + 1 = Len(ds) /\ m = Len(rs)
  <2>1. PICK n \in 0..6 : n + 1 = Len(ds)
    BY DEF Stands
  <2>2. PICK m \in 0..6 : m = Len(rs)
    BY DEF Stands
  <2> QED
    BY <2>1, <2>2
<1>11. PICK n1 \in 0..6, m1 \in 0..6 : n1 + 1 = Len(ds1) /\ n1 <= 4 /\ m1 = Len(rs1)
  <2>1. PICK n1 \in 0..6 : n1 + 1 = Len(ds1) /\ n1 <= 4
    BY DEF Alters
  <2>2. PICK m1 \in 0..6 : m1 = Len(rs1)
    BY DEF Alters
  <2> QED
    BY <2>1, <2>2
<1>4. n1 = n + Motion(dd) /\ m1 = m + Motion(rd)
  <2>1. PICK e \in Int, r \in Int : e = Motion(dd) /\ r = Motion(rd)
    BY <1>2
  <2>2. Len(ds1) = Len(ds) + e /\ Len(rs1) = Len(rs) + r
    BY <2>1 DEF Alters
  <2>3. n1 + 1 = (n + 1) + e /\ m1 = m + r
    BY <1>3, <1>11, <2>2
  <2>4. \A i, j, k \in Int : i + 1 = (j + 1) + k => i = j + k
    OBVIOUS
  <2>5. n1 = n + e
    BY <2>3, <2>4
  <2> QED
    BY <2>1, <2>3, <2>5
<1>12. /\ n1 <= n + 1 /\ m1 <= m + 1
       /\ tn = 1 \/ n1 <= n
       /\ tr = 1 \/ m1 <= m
  <2>1. PICK e \in Int, r \in Int : e = Motion(dd) /\ r = Motion(rd) /\ e <= 1 /\ r <= 1
    BY <1>2
  <2>2. n1 = n + e /\ m1 = m + r
    BY <1>4, <2>1
  <2>3. n1 <= n + 1 /\ m1 <= m + 1
    BY <2>1, <2>2
  <2>4. tn = 1 \/ Len(ds1) <= Len(ds)
    BY DEF Alters
  <2>5. tr = 1 \/ Len(rs1) <= Len(rs)
    BY DEF Alters
  <2>6. (tn = 1 \/ n1 <= n) /\ (tr = 1 \/ m1 <= m)
    BY <1>3, <1>11, <2>4, <2>5
  <2> QED
    BY <2>3, <2>6
<1>5. vdp' = Slot(b, n1)
  <2>1. vdp' = (Slot(b, n) + Motion(dd)) % STACK_DEEP
    BY <1>1, <1>3, <1>13 DEF alu, Moved, Motion, Stands
  <2> QED
    BY <1>2, <1>4, <2>1, Shifted
<1>6. vrp' = Slot(b, m1)
  <2>1. vrp' = (Slot(b, m) + Motion(rd)) % STACK_DEEP
    BY <1>1, <1>3, <1>13 DEF alu, Moved, Motion, Stands
  <2> QED
    BY <1>2, <1>4, <2>1, Shifted
<1>7. /\ \A i \in 0..6 : Slot(b, i) \in 0..STACK_DEEP - 1
      /\ \A i \in 0..6, j \in 0..6 : Slot(b, i) = Slot(b, j) => i = j
  BY Circle
<1>8. dstack \in [0..STACK_DEEP - 1 -> Word] /\ rstack \in [0..STACK_DEEP - 1 -> Word]
  BY DEF Typed, TypeOK, Stack
<1>9. ASSUME NEW i \in 1..n1 PROVE dstack'[Slot(b, i)] = ds1[i]
  <2>1. i \in 0..6 /\ i \in 1..Len(ds1) - 1
    BY <1>11
  <2>2. ds1[i] = IF tn = 1 /\ i = n1 THEN tos ELSE ds[i]
    BY <1>11, <2>1 DEF Alters
  <2>3. dstack' = IF tn = 1 THEN [dstack EXCEPT ![Slot(b, n1)] = tos] ELSE dstack
    <3>1. dstack' = IF tn = 1 THEN [dstack EXCEPT ![vdp'] = tos] ELSE dstack
      BY <1>13 DEF alu
    <3> QED
      BY <1>5, <3>1, Zenon
  <2>4. dstack'[Slot(b, i)] = IF tn = 1 /\ i = n1 THEN tos ELSE dstack[Slot(b, i)]
    BY <1>7, <1>8, <2>1, <2>3
  <2>5. ~(tn = 1 /\ i = n1) => dstack[Slot(b, i)] = ds[i]
    <3>1. ~(tn = 1 /\ i = n1) => i \in 1..Len(ds) - 1
      BY <1>3, <1>12
    <3> QED
      BY <1>1, <3>1 DEF Stands
  <2> QED
    BY <2>2, <2>4, <2>5
<1>10. ASSUME NEW i \in 1..m1 PROVE rstack'[Slot(b, i)] = rs1[i]
  <2>1. i \in 0..6 /\ i \in 1..Len(rs1)
    BY <1>11
  <2>2. rs1[i] = IF tr = 1 /\ i = m1 THEN tos ELSE rs[i]
    BY <1>11, <2>1 DEF Alters
  <2>3. rstack' = IF tr = 1 THEN [rstack EXCEPT ![Slot(b, m1)] = tos] ELSE rstack
    <3>1. rstack' = IF tr = 1 THEN [rstack EXCEPT ![vrp'] = tos] ELSE rstack
      BY <1>13 DEF alu
    <3> QED
      BY <1>6, <3>1, Zenon
  <2>4. rstack'[Slot(b, i)] = IF tr = 1 /\ i = m1 THEN tos ELSE rstack[Slot(b, i)]
    BY <1>7, <1>8, <2>1, <2>3
  <2>5. ~(tr = 1 /\ i = m1) => rstack[Slot(b, i)] = rs[i]
    <3>1. ~(tr = 1 /\ i = m1) => i \in 1..Len(rs)
      BY <1>3, <1>12
    <3> QED
      BY <1>1, <3>1 DEF Stands
  <2> QED
    BY <2>2, <2>4, <2>5
<1> QED
  <2>1. ds1 \in Seq(Word) /\ Len(ds1) \in 1..5 /\ rs1 \in Seq(Word) /\ Len(rs1) \in 0..3
    BY DEF Alters
  <2>2. Len(ds1) - 1 = n1 /\ Len(rs1) = m1
    BY <1>11
  <2> QED
    BY <1>1, <1>5, <1>6, <1>9, <1>10, <2>1, <2>2 DEF Stands

\* With its return folded in, a word finds the caller's address on its return
\* stack.
Called(ret, held) == IF ret = 1 THEN <<9, held, 2 * Back>> ELSE <<9, held>>

LEMMA AluTaken ==
  ASSUME Step, insn \in Int, insn < \h8000, Class(3)
  PROVE  alu
<1>1. ~literal
  BY DEF literal
<1>2. ~jump /\ ~conditional_jump /\ ~call
  BY DEF jump, conditional_jump, call, Class
<1> QED
  BY <1>1, <1>2 DEF Step

\* Any such instruction: the stacks, the memory and the next address.
Steps(ds, rs, ret, res, tn, tr, st, rd, dd) ==
  /\ tos = ds[Len(ds)] /\ Field(256, 16) = res /\ tos' \in AluResults
  /\ Len(ds) > 1 => NOS = ds[Len(ds) - 1]
  /\ \A ds1, rs1 : Alters(ds, rs, ds1, rs1, tn, tr, rd, dd) /\ ds1[Len(ds1)] = tos' => Stands(ds1, rs1)'
  /\ ram' = IF st = 1 THEN Stored(tos, NOS) ELSE ram
  /\ ret = 0 => vpc' = vpc + 1
  /\ Len(rs) > 0 => rstack[vrp] = rs[Len(rs)]
  /\ ret = 1 /\ rstack[vrp] = 2 * Back => vpc' = Back

LEMMA WordStep ==
  ASSUME Typed, BitsAreWords, base \in 0..STACK_DEEP - 1, Step, UNCHANGED base,
         NEW ret, NEW res, NEW tn, NEW tr, NEW st, NEW rd, NEW dd,
         Executes(ret, res, tn, tr, st, rd, dd),
         NEW ds, NEW rs, Stands(ds, rs), vpc \in 1..2
  PROVE  Steps(ds, rs, ret, res, tn, tr, st, rd, dd)
<1>1. /\ insn \in Int /\ Class(3) /\ insn < \h8000 /\ Field(256, 16) = res
      /\ (Flagged(32) <=> st = 1) /\ (Flagged(4096) <=> ret = 1)
  BY Fields
<1>2. alu
  BY <1>1, AluTaken
<1>3. tos = ds[Len(ds)] /\ (Len(ds) > 1 => NOS = ds[Len(ds) - 1])
  BY DEF Stands, NOS
<1>4. tos' \in AluResults /\ ram' = IF st = 1 THEN Stored(tos, NOS) ELSE ram
  BY <1>1, <1>2 DEF alu
<1>5. ASSUME NEW ds1, NEW rs1, Alters(ds, rs, ds1, rs1, tn, tr, rd, dd), ds1[Len(ds1)] = tos'
      PROVE  Stands(ds1, rs1)'
  BY <1>2, <1>5, AluStands
<1>6. ret = 0 => vpc' = vpc + 1
  <2>1. ret = 0 => vpc' = (vpc + 1) % W
    BY <1>1, <1>2 DEF alu, Goto, Sequential
  <2>2. (vpc + 1) % 65536 = vpc + 1
    OBVIOUS
  <2> QED
    BY <2>1, <2>2, WordsAre
<1>7. ret = 1 /\ rstack[vrp] = 2 * Back => vpc' = Back
  <2> SUFFICES ASSUME ret = 1, rstack[vrp] = 2 * Back PROVE vpc' = Back
    OBVIOUS
  <2>1. vpc' = (rstack[vrp] \div 2) % W
    BY <1>1, <1>2 DEF alu, Goto
  <2>2. (2 * 11) \div 2 = 11 /\ 11 % 65536 = 11
    OBVIOUS
  <2> QED
    BY <2>1, <2>2, WordsAre DEF Back
<1>8. Len(rs) > 0 => rstack[vrp] = rs[Len(rs)]
  BY DEF Stands
<1> QED
  BY <1>1, <1>3, <1>4, <1>5, <1>6, <1>7, <1>8 DEF Steps

\* A word of the data stack, with its return or without: what it leaves.
LEMMA DataStep ==
  ASSUME Typed, BitsAreWords, base \in 0..STACK_DEEP - 1, Step, UNCHANGED base,
         NEW x \in Word, NEW y \in Word, NEW held \in Word, NEW t, t = tos', vpc \in 1..2,
         NEW ret, NEW res, NEW tn, NEW st, NEW dd, Executes(ret, res, tn, 0, st, 3 * ret, dd),
         Stands(<<7, y, x>>, Called(ret, held))
  PROVE  /\ tos = x /\ NOS = y /\ Field(256, 16) = res /\ t \in AluResults
         /\ tn = 0 /\ dd = 3 => Stands(<<7, t>>, <<9, held>>)'
         /\ tn = 0 /\ dd = 0 => Stands(<<7, y, t>>, <<9, held>>)'
         /\ tn = 1 /\ dd = 0 => Stands(<<7, x, t>>, <<9, held>>)'
         /\ tn = 1 /\ dd = 1 => Stands(<<7, y, x, t>>, <<9, held>>)'
         /\ ram' = IF st = 1 THEN Stored(x, y) ELSE ram
         /\ vpc' = IF ret = 1 THEN Back ELSE vpc + 1
<1> DEFINE rd == 3 * ret
           s  == <<7, y, x>>
           rs == Called(ret, held)
<1>1. Executes(ret, res, tn, 0, st, rd, dd) /\ Stands(s, rs)
  OBVIOUS
<1>2. /\ 7 \in Word /\ 9 \in Word /\ 2 * Back \in Word
  BY WordsAre DEF Back
<1>3. (ret = 0 \/ ret = 1) /\ dd \in 0..3
  BY DEF Executes
<1>4. /\ <<9, held>> \in Seq(Word) /\ Len(<<9, held>>) \in 0..3
      /\ Len(<<9, held>>) = Len(rs) + Motion(rd) /\ Len(<<9, held>>) <= Len(rs)
      /\ \A i \in 1..Len(<<9, held>>) : <<9, held>>[i] = rs[i]
  <2>1. CASE ret = 0
    BY <1>2, <2>1 DEF Called, Motion, SignedExtension
  <2>2. CASE ret = 1
    BY <1>2, <2>2 DEF Called, Motion, SignedExtension
  <2> QED
    BY <1>3, <2>1, <2>2
<1>5. Len(s) = 3 /\ s[3] = x /\ s[2] = y /\ s[1] = 7
  OBVIOUS
<1>6. ret = 1 => Len(rs) = 3 /\ rs[3] = 2 * Back
  BY DEF Called
<1> HIDE DEF rd, s, rs
<1>9. Steps(s, rs, ret, res, tn, 0, st, rd, dd)
  BY <1>1, WordStep
<1>7. /\ tos = x /\ NOS = y /\ Field(256, 16) = res /\ tos' \in AluResults
      /\ \A ds1, rs1 : Alters(s, rs, ds1, rs1, tn, 0, rd, dd) /\ ds1[Len(ds1)] = tos' => Stands(ds1, rs1)'
      /\ ram' = IF st = 1 THEN Stored(tos, NOS) ELSE ram
      /\ ret = 0 => vpc' = vpc + 1
      /\ ret = 1 => vpc' = Back
  BY <1>5, <1>6, <1>9 DEF Steps
<1>8. t \in Word
  BY <1>7, ResultIsWord
<1> DEFINE Leaves(ds) ==
             /\ ds \in Seq(Word) /\ Len(ds) \in 1..5 /\ ds[Len(ds)] = t /\ Len(ds) = 3 + Motion(dd)
             /\ tn = 1 \/ Len(ds) <= 3
             /\ \A i \in 1..Len(ds) - 1 :
                  ds[i] = IF tn = 1 /\ i = Len(ds) - 1 THEN x ELSE <<7, y, x>>[i]
<1>10. ASSUME NEW ds, Leaves(ds)
       PROVE  Stands(ds, <<9, held>>)'
  <2> DEFINE r == <<9, held>>
  <2>1. /\ r \in Seq(Word) /\ Len(r) \in 0..3 /\ Len(r) = Len(rs) + Motion(rd)
        /\ Len(r) <= Len(rs) /\ \A i \in 1..Len(r) : r[i] = rs[i]
    BY <1>4
  <2>2. \A i \in 1..Len(ds) - 1 : ds[i] = IF tn = 1 /\ i = Len(ds) - 1 THEN x ELSE s[i]
    BY <1>10 DEF s
  <2> HIDE DEF r
  <2>3. Alters(s, rs, ds, r, tn, 0, rd, dd)
    BY <1>5, <1>7, <1>10, <2>1, <2>2 DEF Alters
  <2>4. Stands(ds, r)'
    BY <1>7, <1>10, <2>3
  <2> QED
    BY <2>4 DEF r
<1>11. tn = 0 /\ dd = 3 => Stands(<<7, t>>, <<9, held>>)'
  <2>1. tn = 0 /\ dd = 3 => Leaves(<<7, t>>)
    BY <1>2, <1>8 DEF Motion, SignedExtension
  <2> HIDE DEF Leaves
  <2> QED
    BY <1>10, <2>1
<1>12. tn = 0 /\ dd = 0 => Stands(<<7, y, t>>, <<9, held>>)'
  <2>1. tn = 0 /\ dd = 0 => Leaves(<<7, y, t>>)
    BY <1>2, <1>8 DEF Motion, SignedExtension
  <2> HIDE DEF Leaves
  <2> QED
    BY <1>10, <2>1
<1>13. tn = 1 /\ dd = 0 => Stands(<<7, x, t>>, <<9, held>>)'
  <2>1. tn = 1 /\ dd = 0 => Leaves(<<7, x, t>>)
    BY <1>2, <1>8 DEF Motion, SignedExtension
  <2> HIDE DEF Leaves
  <2> QED
    BY <1>10, <2>1
<1>14. tn = 1 /\ dd = 1 => Stands(<<7, y, x, t>>, <<9, held>>)'
  <2>1. tn = 1 /\ dd = 1 => Leaves(<<7, y, x, t>>)
    BY <1>2, <1>8 DEF Motion, SignedExtension
  <2> HIDE DEF Leaves
  <2> QED
    BY <1>10, <2>1
<1>15. vpc' = IF ret = 1 THEN Back ELSE vpc + 1
  BY <1>3, <1>7
<1> QED
  BY <1>7, <1>11, <1>12, <1>13, <1>14, <1>15

\* The result of an instruction, by its field.
LEMMA Outcomes ==
  ASSUME NEW t, t \in AluResults
  PROVE  /\ Field(256, 16) = 0 => t = tos
         /\ Field(256, 16) = 1 => t = NOS
         /\ Field(256, 16) = 2 => t = (tos + NOS) % W
         /\ Field(256, 16) = 3 => t = And16(tos, NOS)
         /\ Field(256, 16) = 4 => t = Or16(tos, NOS)
         /\ Field(256, 16) = 5 => t = Xor16(tos, NOS)
         /\ Field(256, 16) = 6 => t = W - 1 - tos
         /\ Field(256, 16) = 7 => t = Flag(tos = NOS)
         /\ Field(256, 16) = 8 => t = Flag(Signed(NOS) < Signed(tos))
         /\ Field(256, 16) = 9 => t \in ShiftRight(NOS, tos)
         /\ Field(256, 16) = 10 => t = (tos - 1) % W
         /\ Field(256, 16) = 11 => t = rstack[vrp]
         /\ Field(256, 16) = 12 => t \in Fetches(tos)
         /\ Field(256, 16) = 13 => t \in ShiftLeft(NOS, tos)
         /\ Field(256, 16) = 15 => t = Flag(NOS < tos)
BY DEF AluResults

\* The steps of words that touch the return stack, or take two instructions.
LEMMA OtherSteps ==
  ASSUME Typed, BitsAreWords, base \in 0..STACK_DEEP - 1, Step, UNCHANGED base,
         NEW x \in Word, NEW y \in Word, NEW held \in Word, vpc \in 1..2
  PROVE  /\ Executes(0, 1, 0, 1, 0, 1, 3) /\ Stands(<<7, y, x>>, <<9, held>>) =>
              Stands(<<7, y>>, <<9, held, x>>)' /\ ram' = ram /\ vpc' = vpc + 1
         /\ Executes(0, 0, 0, 1, 0, 1, 0) /\ Stands(<<7, y, x>>, <<9, held>>) =>
              Stands(<<7, y, x>>, <<9, held, x>>)' /\ ram' = ram /\ vpc' = vpc + 1
         /\ Executes(0, 11, 1, 0, 0, 3, 1) /\ Stands(<<7, y, x>>, <<9, held>>) =>
              Stands(<<7, y, x, held>>, <<9>>)' /\ ram' = ram /\ vpc' = vpc + 1
         /\ Executes(0, 0, 0, 0, 0, 3, 0) /\ Stands(<<7, y, x>>, <<9, held>>) =>
              Stands(<<7, y, x>>, <<9>>)' /\ ram' = ram /\ vpc' = vpc + 1
         /\ Executes(0, 0, 0, 0, 0, 3, 0) /\ Stands(<<7, y, x>>, <<9>>) =>
              Stands(<<7, y, x>>, <<>>)' /\ ram' = ram /\ vpc' = vpc + 1
<1>1. 7 \in Word /\ 9 \in Word
  BY WordsAre
<1>2. ASSUME Executes(0, 1, 0, 1, 0, 1, 3), Stands(<<7, y, x>>, <<9, held>>)
      PROVE  Stands(<<7, y>>, <<9, held, x>>)' /\ ram' = ram /\ vpc' = vpc + 1
  <2>8. PICK ds, rs : Stands(ds, rs) /\ ds = <<7, y, x>> /\ rs = <<9, held>>
    BY <1>2
  <2>1. Steps(ds, rs, 0, 1, 0, 1, 0, 1, 3)
    BY <2>8, <1>2, WordStep
  <2>2. Field(256, 16) = 1 /\ tos' \in AluResults /\ tos = x /\ NOS = y
    BY <2>1, <2>8 DEF Steps
  <2>3. tos' = y
    BY <2>2, Outcomes
  <2>9. PICK ds1, rs1 : ds1 = <<7, y>> /\ rs1 = <<9, held, x>>
    OBVIOUS
  <2>4. Alters(ds, rs, ds1, rs1, 0, 1, 1, 3)
    BY <1>1, <2>2, <2>8, <2>9 DEF Alters, Motion, SignedExtension
  <2>5. ds1[Len(ds1)] = tos'
    BY <2>3, <2>9
  <2>6. Stands(ds1, rs1)'
    BY <2>1, <2>4, <2>5 DEF Steps
  <2>7. ram' = ram /\ vpc' = vpc + 1
    BY <2>1 DEF Steps
  <2> QED
    BY <2>6, <2>7, <2>9
<1>3. ASSUME Executes(0, 0, 0, 1, 0, 1, 0), Stands(<<7, y, x>>, <<9, held>>)
      PROVE  Stands(<<7, y, x>>, <<9, held, x>>)' /\ ram' = ram /\ vpc' = vpc + 1
  <2>8. PICK ds, rs : Stands(ds, rs) /\ ds = <<7, y, x>> /\ rs = <<9, held>>
    BY <1>3
  <2>1. Steps(ds, rs, 0, 0, 0, 1, 0, 1, 0)
    BY <2>8, <1>3, WordStep
  <2>2. Field(256, 16) = 0 /\ tos' \in AluResults /\ tos = x /\ NOS = y
    BY <2>1, <2>8 DEF Steps
  <2>3. tos' = x
    BY <2>2, Outcomes
  <2>9. PICK ds1, rs1 : ds1 = <<7, y, x>> /\ rs1 = <<9, held, x>>
    OBVIOUS
  <2>4. Alters(ds, rs, ds1, rs1, 0, 1, 1, 0)
    BY <1>1, <2>2, <2>8, <2>9 DEF Alters, Motion, SignedExtension
  <2>5. ds1[Len(ds1)] = tos'
    BY <2>3, <2>9
  <2>6. Stands(ds1, rs1)'
    BY <2>1, <2>4, <2>5 DEF Steps
  <2>7. ram' = ram /\ vpc' = vpc + 1
    BY <2>1 DEF Steps
  <2> QED
    BY <2>6, <2>7, <2>9
<1>4. ASSUME Executes(0, 11, 1, 0, 0, 3, 1), Stands(<<7, y, x>>, <<9, held>>)
      PROVE  Stands(<<7, y, x, held>>, <<9>>)' /\ ram' = ram /\ vpc' = vpc + 1
  <2>8. PICK ds, rs : Stands(ds, rs) /\ ds = <<7, y, x>> /\ rs = <<9, held>>
    BY <1>4
  <2>1. Steps(ds, rs, 0, 11, 1, 0, 0, 3, 1)
    BY <2>8, <1>4, WordStep
  <2>2. Field(256, 16) = 11 /\ tos' \in AluResults /\ tos = x /\ NOS = y
    BY <2>1, <2>8 DEF Steps
  <2>3. tos' = held
    BY <2>2, <2>8, Outcomes DEF Stands
  <2>9. PICK ds1, rs1 : ds1 = <<7, y, x, held>> /\ rs1 = <<9>>
    OBVIOUS
  <2>4. Alters(ds, rs, ds1, rs1, 1, 0, 3, 1)
    BY <1>1, <2>2, <2>8, <2>9 DEF Alters, Motion, SignedExtension
  <2>5. ds1[Len(ds1)] = tos'
    BY <2>3, <2>9
  <2>6. Stands(ds1, rs1)'
    BY <2>1, <2>4, <2>5 DEF Steps
  <2>7. ram' = ram /\ vpc' = vpc + 1
    BY <2>1 DEF Steps
  <2> QED
    BY <2>6, <2>7, <2>9
<1>5. ASSUME Executes(0, 0, 0, 0, 0, 3, 0), Stands(<<7, y, x>>, <<9, held>>)
      PROVE  Stands(<<7, y, x>>, <<9>>)' /\ ram' = ram /\ vpc' = vpc + 1
  <2>8. PICK ds, rs : Stands(ds, rs) /\ ds = <<7, y, x>> /\ rs = <<9, held>>
    BY <1>5
  <2>1. Steps(ds, rs, 0, 0, 0, 0, 0, 3, 0)
    BY <2>8, <1>5, WordStep
  <2>2. Field(256, 16) = 0 /\ tos' \in AluResults /\ tos = x /\ NOS = y
    BY <2>1, <2>8 DEF Steps
  <2>3. tos' = x
    BY <2>2, Outcomes
  <2>9. PICK ds1, rs1 : ds1 = <<7, y, x>> /\ rs1 = <<9>>
    OBVIOUS
  <2>4. Alters(ds, rs, ds1, rs1, 0, 0, 3, 0)
    BY <1>1, <2>2, <2>8, <2>9 DEF Alters, Motion, SignedExtension
  <2>5. ds1[Len(ds1)] = tos'
    BY <2>3, <2>9
  <2>6. Stands(ds1, rs1)'
    BY <2>1, <2>4, <2>5 DEF Steps
  <2>7. ram' = ram /\ vpc' = vpc + 1
    BY <2>1 DEF Steps
  <2> QED
    BY <2>6, <2>7, <2>9
<1>6. ASSUME Executes(0, 0, 0, 0, 0, 3, 0), Stands(<<7, y, x>>, << 9 >>)
      PROVE  Stands(<<7, y, x>>, <<>>)' /\ ram' = ram /\ vpc' = vpc + 1
  <2>8. PICK ds, rs : Stands(ds, rs) /\ ds = <<7, y, x>> /\ rs = <<9>>
    BY <1>6
  <2>1. Steps(ds, rs, 0, 0, 0, 0, 0, 3, 0)
    BY <2>8, <1>6, WordStep
  <2>2. Field(256, 16) = 0 /\ tos' \in AluResults /\ tos = x /\ NOS = y
    BY <2>1, <2>8 DEF Steps
  <2>3. tos' = x
    BY <2>2, Outcomes
  <2>9. PICK ds1, rs1 : ds1 = <<7, y, x>> /\ rs1 = <<>>
    OBVIOUS
  <2>4. Alters(ds, rs, ds1, rs1, 0, 0, 3, 0)
    BY <1>1, <2>2, <2>8, <2>9 DEF Alters, Motion, SignedExtension
  <2>5. ds1[Len(ds1)] = tos'
    BY <2>3, <2>9
  <2>6. Stands(ds1, rs1)'
    BY <2>1, <2>4, <2>5 DEF Steps
  <2>7. ram' = ram /\ vpc' = vpc + 1
    BY <2>1 DEF Steps
  <2> QED
    BY <2>6, <2>7, <2>9
<1> QED
  BY <1>2, <1>3, <1>4, <1>5, <1>6

\* Every instruction ends by fetching the one at the new address.
LEMMA NextInstruction == Step => insn' \in Reads(ram', vpc')
<1>1. \A pc : Goto(pc) => insn' \in Reads(ram', vpc')
  BY DEF Goto
<1>2. literal => insn' \in Reads(ram', vpc')
  BY DEF literal
<1>3. jump \/ conditional_jump \/ call \/ alu => insn' \in Reads(ram', vpc')
  BY <1>1 DEF jump, conditional_jump, call, alu
<1> QED
  BY <1>2, <1>3 DEF Step

\* STORE: the first instruction writes, the second drops the value and may return.
LEMMA StoreSteps ==
  ASSUME Typed, BitsAreWords, base \in 0..STACK_DEEP - 1, Step, UNCHANGED base,
         NEW x \in Word, NEW y \in Word, NEW held \in Word, vpc \in 1..2, NEW ret \in 0..1
  PROVE  /\ Executes(0, 1, 0, 0, 1, 0, 3) /\ Stands(<<7, y, x>>, Called(ret, held)) =>
              Stands(<<7, y>>, Called(ret, held))' /\ ram' = Stored(x, y) /\ vpc' = vpc + 1
         /\ Executes(ret, 1, 0, 0, 0, 3 * ret, 3) /\ Stands(<<7, y>>, Called(ret, held)) =>
              /\ Stands(<<7>>, <<9, held>>)' /\ ram' = ram
              /\ vpc' = IF ret = 1 THEN Back ELSE vpc + 1
<1>1. 7 \in Word /\ 9 \in Word /\ 2 * Back \in Word
  BY WordsAre DEF Back
<1>2. ret = 0 \/ ret = 1
  OBVIOUS
<1>3. /\ Called(ret, held) \in Seq(Word) /\ Len(Called(ret, held)) \in 2..3
      /\ ret = 1 => Len(Called(ret, held)) = 3 /\ Called(ret, held)[3] = 2 * Back
      /\ ret = 0 => Len(Called(ret, held)) = 2
      /\ Called(ret, held)[1] = 9 /\ Called(ret, held)[2] = held
  <2>1. CASE ret = 0
    BY <1>1, <2>1 DEF Called
  <2>2. CASE ret = 1
    BY <1>1, <2>2 DEF Called
  <2> QED
    BY <1>2, <2>1, <2>2
<1>4. ASSUME Executes(0, 1, 0, 0, 1, 0, 3), Stands(<<7, y, x>>, Called(ret, held))
      PROVE  Stands(<<7, y>>, Called(ret, held))' /\ ram' = Stored(x, y) /\ vpc' = vpc + 1
  <2>8. PICK ds, rs : Stands(ds, rs) /\ ds = <<7, y, x>> /\ rs = Called(ret, held)
    BY <1>4
  <2>1. Steps(ds, rs, 0, 1, 0, 0, 1, 0, 3)
    BY <2>8, <1>4, WordStep
  <2>2. Field(256, 16) = 1 /\ tos' \in AluResults /\ tos = x /\ NOS = y
    BY <2>1, <2>8 DEF Steps
  <2>3. tos' = y
    BY <2>2, Outcomes
  <2>9. PICK ds1 : ds1 = <<7, y>>
    OBVIOUS
  <2>4. Alters(ds, rs, ds1, rs, 0, 0, 0, 3)
    BY <1>1, <1>3, <2>2, <2>8, <2>9 DEF Alters, Motion, SignedExtension
  <2>5. ds1[Len(ds1)] = tos'
    BY <2>3, <2>9
  <2>6. Stands(ds1, rs)'
    BY <2>1, <2>4, <2>5 DEF Steps
  <2>7. ram' = Stored(x, y) /\ vpc' = vpc + 1
    BY <2>1, <2>2 DEF Steps
  <2> QED
    BY <2>6, <2>7, <2>8, <2>9
<1>5. ASSUME Executes(ret, 1, 0, 0, 0, 3 * ret, 3), Stands(<<7, y>>, Called(ret, held))
      PROVE  Stands(<<7>>, <<9, held>>)' /\ ram' = ram /\ vpc' = IF ret = 1 THEN Back ELSE vpc + 1
  <2>8. PICK ds, rs, rd : Stands(ds, rs) /\ ds = <<7, y>> /\ rs = Called(ret, held) /\ rd = 3 * ret
    BY <1>5
  <2>1. Steps(ds, rs, ret, 1, 0, 0, 0, rd, 3)
    BY <2>8, <1>5, WordStep
  <2>2. Field(256, 16) = 1 /\ tos' \in AluResults /\ NOS = 7
    BY <2>1, <2>8 DEF Steps
  <2>3. tos' = 7
    BY <2>2, Outcomes
  <2>9. PICK ds1, rs1 : ds1 = <<7>> /\ rs1 = <<9, held>>
    OBVIOUS
  <2>4. Alters(ds, rs, ds1, rs1, 0, 0, rd, 3)
    <3>1. /\ ds1 \in Seq(Word) /\ Len(ds1) = 1 /\ Len(ds) = 2
          /\ rs1 \in Seq(Word) /\ Len(rs1) = 2 /\ rs1[1] = 9 /\ rs1[2] = held
      BY <1>1, <2>8, <2>9
    <3>2. Motion(3) = -1 /\ Len(rs1) = Len(rs) + Motion(rd) /\ Len(rs1) <= Len(rs)
      <4>1. CASE ret = 0
        BY <1>3, <2>8, <3>1, <4>1 DEF Motion, SignedExtension
      <4>2. CASE ret = 1
        BY <1>3, <2>8, <3>1, <4>2 DEF Motion, SignedExtension
      <4> QED
        BY <1>2, <4>1, <4>2
    <3>3. \A i \in 1..2 : rs1[i] = rs[i]
      BY <1>3, <2>8, <3>1
    <3>4. \A i \in 1..Len(ds1) - 1 : ds1[i] = IF 0 = 1 /\ i = Len(ds1) - 1 THEN tos ELSE ds[i]
      BY <3>1
    <3>5. /\ Len(ds1) \in 1..5 /\ Len(rs1) \in 0..3 /\ Len(ds1) = Len(ds) + Motion(3)
          /\ Len(rs1) = Len(rs) + Motion(rd) /\ Len(ds1) <= Len(ds) /\ Len(rs1) <= Len(rs)
      <4>1. Len(ds1) \in 1..5 /\ Len(rs1) \in 0..3 /\ Len(ds1) <= Len(ds)
        BY <3>1
      <4>2. Len(ds1) = Len(ds) + Motion(3)
        BY <3>1, <3>2
      <4>3. Len(rs1) = Len(rs) + Motion(rd) /\ Len(rs1) <= Len(rs)
        BY <3>2
      <4> QED
        BY <4>1, <4>2, <4>3
    <3>6. \A i \in 1..Len(rs1) : rs1[i] = IF 0 = 1 /\ i = Len(rs1) THEN tos ELSE rs[i]
      BY <3>1, <3>3
    <3>7. ds1 \in Seq(Word) /\ rs1 \in Seq(Word)
      BY <3>1
    <3> QED
      BY <3>4, <3>5, <3>6, <3>7 DEF Alters
  <2>5. ds1[Len(ds1)] = tos'
    BY <2>3, <2>9
  <2>6. Stands(ds1, rs1)'
    BY <2>1, <2>4, <2>5 DEF Steps
  <2>7. ram' = ram /\ vpc' = IF ret = 1 THEN Back ELSE vpc + 1
    <3>1. ram' = ram /\ (ret = 0 => vpc' = vpc + 1)
      BY <2>1 DEF Steps
    <3>2. ASSUME ret = 1 PROVE vpc' = Back
      <4>1. Len(rs) = 3 /\ rs[3] = 2 * Back
        BY <1>3, <2>8, <3>2
      <4>2. rstack[vrp] = 2 * Back
        BY <2>1, <4>1 DEF Steps
      <4> QED
        BY <2>1, <3>2, <4>2 DEF Steps
    <3> QED
      BY <1>2, <3>1, <3>2
  <2> QED
    BY <2>6, <2>7, <2>9
<1> QED
  BY <1>4, <1>5

\* The next instruction pushes c.
Pushes(c) == c \in Word /\ c < \h8000 /\ insn = \h8000 + c

\* LITERAL: a push, and an inversion if the number has bit 15.
LEMMA LiteralPushed ==
  ASSUME Typed, BitsAreWords, base \in 0..STACK_DEEP - 1, Step, UNCHANGED base,
         NEW x \in Word, NEW y \in Word, NEW held \in Word, NEW c \in Word, vpc \in 1..2,
         NEW ret \in 0..1, Pushes(c), Stands(<<7, y, x>>, Called(ret, held))
  PROVE  Stands(<<7, y, x, c>>, Called(ret, held))' /\ ram' = ram /\ vpc' = vpc + 1
<1>13. 7 \in Word /\ 9 \in Word /\ 2 * Back \in Word /\ W - 1 - c \in Word
  BY WordsAre DEF Back
<1>14. ret = 0 \/ ret = 1
  OBVIOUS
<1>15. /\ Called(ret, held) \in Seq(Word) /\ Len(Called(ret, held)) \in 2..3
       /\ ret = 1 => Len(Called(ret, held)) = 3 /\ Called(ret, held)[3] = 2 * Back
       /\ ret = 0 => Len(Called(ret, held)) = 2
       /\ Called(ret, held)[1] = 9 /\ Called(ret, held)[2] = held
  <2>1. CASE ret = 0
    BY <1>13, <2>1 DEF Called
  <2>2. CASE ret = 1
    BY <1>13, <2>2 DEF Called
  <2> QED
    BY <1>14, <2>1, <2>2
<1>1. literal
  <2>1. insn >= \h8000 /\ insn \div \h2000 >= 4
    BY WordsAre DEF Pushes
  <2>2. ~jump /\ ~conditional_jump /\ ~call /\ ~alu
    BY <2>1 DEF jump, conditional_jump, call, alu, Class
  <2> QED
    BY <2>2 DEF Step
<1>2. PICK b \in 0..STACK_DEEP - 1 : b = base /\ b = base'
  OBVIOUS
<1>3. vdp = Slot(b, 2) /\ tos = x /\ dstack[Slot(b, 1)] = 7 /\ dstack[Slot(b, 2)] = y
  BY <1>2 DEF Stands
<1>11. PICK rs \in Seq(Word) : rs = Called(ret, held) /\ Len(rs) \in 0..3
  BY <1>15
<1>12. vrp = Slot(b, Len(rs)) /\ \A i \in 1..Len(rs) : rstack[Slot(b, i)] = rs[i]
  BY <1>2, <1>11 DEF Stands
<1>4. /\ vdp' = Slot(b, 3) /\ Slot(b, 3) # Slot(b, 1) /\ Slot(b, 3) # Slot(b, 2)
      /\ \A n \in 1..3 : Slot(b, n) \in 0..STACK_DEEP - 1
  BY <1>1, <1>3, Circle DEF literal
<1>5. dstack \in [0..STACK_DEEP - 1 -> Word]
  BY DEF Typed, TypeOK, Stack
<1>6. dstack' = [dstack EXCEPT ![Slot(b, 3)] = x]
  <2>1. Up(vdp) = Slot(b, 3)
    BY <1>3, Circle
  <2>2. dstack' = [dstack EXCEPT ![Up(vdp)] = tos] /\ tos = x
    BY <1>1, <1>3 DEF literal
  <2> QED
    BY <2>1, <2>2, Zenon
<1>7. dstack'[Slot(b, 1)] = 7 /\ dstack'[Slot(b, 2)] = y /\ dstack'[Slot(b, 3)] = x
  BY <1>3, <1>4, <1>5, <1>6
<1>8. tos' = c /\ ram' = ram /\ UNCHANGED <<rstack, vrp>>
  <2>1. (32768 + c) % 32768 = c
    <3>1. c \in Int /\ 0 <= c /\ c < 32768
      BY WordsAre DEF Pushes
    <3> QED
      BY <3>1
  <2> QED
    BY <1>1, <2>1 DEF literal, Pushes
<1>9. vpc' = vpc + 1
  <2>1. (vpc + 1) % 65536 = vpc + 1
    OBVIOUS
  <2> QED
    BY <1>1, <2>1, WordsAre DEF literal, Sequential
<1>10. Stands(<<7, y, x, c>>, Called(ret, held))'
  <2>1. PICK ds \in Seq(Word) :
          ds = <<7, y, x, c>> /\ Len(ds) = 4 /\ ds[1] = 7 /\ ds[2] = y /\ ds[3] = x /\ ds[4] = c
    <3>1. <<7, y, x, c>> \in Seq(Word)
      BY <1>13
    <3> QED
      BY <3>1
  <2>2. \A i \in 1..Len(ds) - 1 : dstack'[Slot(b, i)] = ds[i]
    BY <1>7, <2>1
  <2>3. \A i \in 1..Len(rs) : rstack'[Slot(b, i)] = rs[i]
    BY <1>8, <1>12
  <2>5. vrp' = Slot(b, Len(rs))
    BY <1>8, <1>12
  <2>4. Stands(ds, rs)'
    BY <1>2, <1>4, <1>8, <1>11, <2>1, <2>2, <2>3, <2>5 DEF Stands
  <2> QED
    BY <1>11, <2>1, <2>4
<1> QED
  BY <1>8, <1>9, <1>10

LEMMA LiteralInverted ==
  ASSUME Typed, BitsAreWords, base \in 0..STACK_DEEP - 1, Step, UNCHANGED base,
         NEW x \in Word, NEW y \in Word, NEW held \in Word, NEW c \in Word, vpc \in 1..2,
         NEW ret \in 0..1, Executes(ret, 6, 0, 0, 0, 3 * ret, 0), Stands(<<7, y, x, c>>, Called(ret, held))
  PROVE  /\ Stands(<<7, y, x, W - 1 - c>>, <<9, held>>)' /\ ram' = ram
         /\ vpc' = IF ret = 1 THEN Back ELSE vpc + 1
<1>13. 7 \in Word /\ 9 \in Word /\ 2 * Back \in Word /\ W - 1 - c \in Word
  BY WordsAre DEF Back
<1>14. ret = 0 \/ ret = 1
  OBVIOUS
<1>15. /\ Called(ret, held) \in Seq(Word) /\ Len(Called(ret, held)) \in 2..3
       /\ ret = 1 => Len(Called(ret, held)) = 3 /\ Called(ret, held)[3] = 2 * Back
       /\ ret = 0 => Len(Called(ret, held)) = 2
       /\ Called(ret, held)[1] = 9 /\ Called(ret, held)[2] = held
  <2>1. CASE ret = 0
    BY <1>13, <2>1 DEF Called
  <2>2. CASE ret = 1
    BY <1>13, <2>2 DEF Called
  <2> QED
    BY <1>14, <2>1, <2>2
<1>8. PICK ds, rs, rd : Stands(ds, rs) /\ ds = <<7, y, x, c>> /\ rs = Called(ret, held) /\ rd = 3 * ret
  OBVIOUS
<1>1. Steps(ds, rs, ret, 6, 0, 0, 0, rd, 0)
  BY <1>8, WordStep
<1>2. Field(256, 16) = 6 /\ tos' \in AluResults /\ tos = c
  BY <1>1, <1>8 DEF Steps
<1>3. tos' = W - 1 - c
  BY <1>2, Outcomes
<1>9. PICK ds1, rs1 : ds1 = <<7, y, x, W - 1 - c>> /\ rs1 = <<9, held>>
  OBVIOUS
<1>4. Alters(ds, rs, ds1, rs1, 0, 0, rd, 0)
  <2>1. /\ ds1 \in Seq(Word) /\ Len(ds1) = 4 /\ Len(ds) = 4
        /\ rs1 \in Seq(Word) /\ Len(rs1) = 2 /\ rs1[1] = 9 /\ rs1[2] = held
    BY <1>13, <1>8, <1>9
  <2>2. Motion(0) = 0 /\ Len(rs1) = Len(rs) + Motion(rd) /\ Len(rs1) <= Len(rs)
    <3>1. CASE ret = 0
      BY <1>15, <1>8, <2>1, <3>1 DEF Motion, SignedExtension
    <3>2. CASE ret = 1
      BY <1>15, <1>8, <2>1, <3>2 DEF Motion, SignedExtension
    <3> QED
      BY <1>14, <3>1, <3>2
  <2>3. \A i \in 1..2 : rs1[i] = rs[i]
    BY <1>15, <1>8, <2>1
  <2>4. \A i \in 1..Len(ds1) - 1 : ds1[i] = IF 0 = 1 /\ i = Len(ds1) - 1 THEN tos ELSE ds[i]
    BY <1>8, <1>9, <2>1
  <2>5. /\ Len(ds1) \in 1..5 /\ Len(rs1) \in 0..3 /\ Len(ds1) = Len(ds) + Motion(0)
        /\ Len(rs1) = Len(rs) + Motion(rd) /\ Len(ds1) <= Len(ds) /\ Len(rs1) <= Len(rs)
    <3>1. Len(ds1) \in 1..5 /\ Len(rs1) \in 0..3 /\ Len(ds1) <= Len(ds)
      BY <2>1
    <3>2. Len(ds1) = Len(ds) + Motion(0)
      BY <2>1, <2>2
    <3>3. Len(rs1) = Len(rs) + Motion(rd) /\ Len(rs1) <= Len(rs)
      BY <2>2
    <3> QED
      BY <3>1, <3>2, <3>3
  <2>6. \A i \in 1..Len(rs1) : rs1[i] = IF 0 = 1 /\ i = Len(rs1) THEN tos ELSE rs[i]
    BY <2>1, <2>3
  <2>7. ds1 \in Seq(Word) /\ rs1 \in Seq(Word)
    BY <2>1
  <2> QED
    BY <2>4, <2>5, <2>6, <2>7 DEF Alters
<1>5. ds1[Len(ds1)] = tos'
  BY <1>3, <1>9
<1>6. Stands(ds1, rs1)'
  BY <1>1, <1>4, <1>5 DEF Steps
<1>7. ram' = ram /\ vpc' = IF ret = 1 THEN Back ELSE vpc + 1
  <2>1. ram' = ram /\ (ret = 0 => vpc' = vpc + 1)
    BY <1>1 DEF Steps
  <2>2. ASSUME ret = 1 PROVE vpc' = Back
    <3>1. Len(rs) = 3 /\ rs[3] = 2 * Back
      BY <1>15, <1>8, <2>2
    <3>2. rstack[vrp] = 2 * Back
      BY <1>1, <3>1 DEF Steps
    <3> QED
      BY <1>1, <2>2, <3>2 DEF Steps
  <2> QED
    BY <1>14, <2>1, <2>2
<1> QED
  BY <1>6, <1>7, <1>9

-----------------------------------------------------------------------------
(* What instructions do is what words mean. *)

\* The field of the instruction of a binary word.
Operation(op) ==
  CASE op = "ADD" -> 2 [] op = "AND" -> 3 [] op = "OR" -> 4 [] op = "XOR" -> 5 [] op = "EQUAL" -> 7
    [] op = "LT" -> 8 [] op = "U_LT" -> 15 [] op = "LSHIFT" -> 13 [] op = "RSHIFT" -> 9

LEMMA ShiftsMean ==
  ASSUME NEW x \in Word, NEW y \in Word, x < 32
  PROVE  /\ \A t \in ShiftLeft(y, x) : t = (y * Forth!Scale(x)) % Forth!W
         /\ \A t \in ShiftRight(y, x) : t = y \div Forth!Scale(x)
<1>1. Counts(x) = {x}
  BY DEF Counts
<1>2. W = 65536 /\ Forth!W = 65536 /\ x \in Nat /\ y \in Nat /\ y < 65536
  BY WordsAre DEF Forth!W
<1>3. CASE x < 16
  <2>1. Forth!Scale(x) = 2^x
    BY <1>3 DEF Forth!Scale
  <2>2. ShiftLeft(y, x) = {(y * 2^x) % W} /\ ShiftRight(y, x) = {y \div 2^x}
    BY <1>1, <1>3 DEF ShiftLeft, ShiftRight
  <2>3. W = Forth!W
    BY <1>2
  <2> QED
    BY <2>1, <2>2, <2>3, Zenon
<1>4. CASE ~(x < 16)
  <2>1. Forth!Scale(x) = 65536
    BY <1>2, <1>4 DEF Forth!Scale
  <2>2. ShiftLeft(y, x) = {0} /\ ShiftRight(y, x) = {0}
    BY <1>1, <1>4 DEF ShiftLeft, ShiftRight
  <2>3. (y * 65536) % 65536 = 0 /\ y \div 65536 = 0
    BY <1>2
  <2> QED
    BY <1>2, <2>1, <2>2, <2>3
<1> QED
  BY <1>3, <1>4

LEMMA BinaryMeans ==
  ASSUME BitsAreWords, NEW x \in Word, NEW y \in Word, tos = x, NOS = y, NEW op \in Forth!Binary,
         NEW t \in AluResults, Field(256, 16) = Operation(op), op \in {"LSHIFT", "RSHIFT"} => x < 32
  PROVE  t = Forth!Yield(op, y, x)
<1>1. x \in Int /\ y \in Int /\ Forth!W = W /\ W = 65536
  BY WordsAre DEF Forth!W
<1>2. CASE op = "ADD"
  BY <1>1, <1>2, Outcomes DEF Operation, Forth!Yield
<1>3. CASE op \in {"AND", "OR", "XOR"}
  <2>1. And16(x, y) = And16(y, x) /\ Or16(x, y) = Or16(y, x) /\ Xor16(x, y) = Xor16(y, x)
    BY DEF BitsAreWords
  <2>2. /\ op = "AND" => t = And16(x, y)
        /\ op = "OR" => t = Or16(x, y)
        /\ op = "XOR" => t = Xor16(x, y)
    BY <1>3, Outcomes DEF Operation
  <2>3. /\ Forth!Yield("AND", y, x) = And16(y, x) /\ Forth!Yield("OR", y, x) = Or16(y, x)
        /\ Forth!Yield("XOR", y, x) = Xor16(y, x)
    BY DEF Forth!Yield
  <2> QED
    BY <1>3, <2>1, <2>2, <2>3
<1>4. CASE op = "EQUAL"
  <2>1. t = Flag(x = y)
    BY <1>4, Outcomes DEF Operation
  <2>2. Forth!Yield(op, y, x) = Forth!Truth(y = x)
    BY <1>4 DEF Forth!Yield
  <2> QED
    BY <1>1, <2>1, <2>2 DEF Flag, Forth!Truth
<1>5. CASE op = "LT"
  <2>1. t = Flag(Signed(y) < Signed(x))
    BY <1>5, Outcomes DEF Operation
  <2>2. Forth!Yield(op, y, x) = Forth!Truth(Forth!AsInt(y) < Forth!AsInt(x))
    BY <1>5 DEF Forth!Yield
  <2>3. Forth!AsInt(y) = Signed(y) /\ Forth!AsInt(x) = Signed(x)
    BY <1>1 DEF Forth!AsInt, Signed
  <2> QED
    BY <1>1, <2>1, <2>2, <2>3 DEF Flag, Forth!Truth
<1>6. CASE op = "U_LT"
  <2>1. t = Flag(y < x)
    BY <1>6, Outcomes DEF Operation
  <2>2. Forth!Yield(op, y, x) = Forth!Truth(y < x)
    BY <1>6 DEF Forth!Yield
  <2> QED
    BY <1>1, <2>1, <2>2 DEF Flag, Forth!Truth
<1>7. CASE op = "LSHIFT"
  <2>1. t \in ShiftLeft(y, x)
    BY <1>7, Outcomes DEF Operation
  <2>2. Forth!Yield(op, y, x) = (y * Forth!Scale(x)) % Forth!W
    BY <1>7 DEF Forth!Yield
  <2> QED
    BY <1>7, <2>1, <2>2, ShiftsMean
<1>8. CASE op = "RSHIFT"
  <2>1. t \in ShiftRight(y, x)
    BY <1>8, Outcomes DEF Operation
  <2>2. Forth!Yield(op, y, x) = y \div Forth!Scale(x)
    BY <1>8 DEF Forth!Yield
  <2> QED
    BY <1>8, <2>1, <2>2, ShiftsMean
<1> QED
  BY <1>2, <1>3, <1>4, <1>5, <1>6, <1>7, <1>8 DEF Forth!Binary

\* A word as the chip begins with it, from x over y and held on the stacks.
Begun(x, y, held) ==
  /\ x \in Word /\ y \in Word /\ held \in Word /\ base \in 0..STACK_DEEP - 1
  /\ word.op \in Words /\ word.val \in Int /\ word.ret \in BOOLEAN
  /\ word.ret => Folds(word.op, word.val)
  /\ start = [ds |-> <<7, y, x>>, rs |-> IF word.ret THEN <<9, held, 2 * Back>> ELSE <<9, held>>,
              mem |-> [a \in {Cell} |-> held]]

LEMMA MeaningIs ==
  ASSUME NEW x, NEW y, NEW held, Begun(x, y, held)
  PROVE  Meaning = IF word.op = "LITERAL" THEN [Found(x, y, held) EXCEPT !.ds = Append(@, word.val % W)]
                   ELSE Forth!Effect(word.op, Found(x, y, held))
<1>1. [start EXCEPT !.rs = IF word.ret THEN Front(@) ELSE @] = Found(x, y, held)
  <2>1. CASE word.ret
    <3>1. Ends({9, held, 2 * Back}, <<9, held, 2 * Back>>, 1, <<>>, <<9, held>>)
      BY DEF Ends
    <3>2. Forth!Below(<<9, held, 2 * Back>>, 1) = <<9, held>>
      BY <3>1, Keeping
    <3>3. Front(<<9, held, 2 * Back>>) = <<9, held>>
      BY <3>2 DEF Forth!Below, Front
    <3>4. start = [ds |-> <<7, y, x>>, rs |-> <<9, held, 2 * Back>>, mem |-> [a \in {Cell} |-> held]]
      BY <2>1 DEF Begun
    <3> QED
      BY <2>1, <3>3, <3>4 DEF Found
  <2>2. CASE ~word.ret
    BY <2>2 DEF Begun, Found
  <2> QED
    BY <2>1, <2>2
<1> QED
  BY <1>1 DEF Meaning

LEMMA MeantIs ==
  ASSUME NEW x, NEW y, NEW held, Begun(x, y, held), Meant, word.op # "LITERAL"
  PROVE  /\ word.op \in Forth!Known
         /\ word.op \in {"LSHIFT", "RSHIFT"} => x < 32
         /\ word.op \in Forth!Reads \cup Forth!Writes => x = Cell
         /\ word.ret => word.op \notin Forth!ReturnWords
<1>1. start.ds = <<7, y, x>> /\ DOMAIN start.mem = {Cell}
  BY DEF Begun
<1>2. start.ds[Len(start.ds)] = x
  BY <1>1
<1>3. Forth!Defined(word.op, start) /\ (word.ret => word.op \notin Forth!ReturnWords)
  BY DEF Meant
<1> QED
  BY <1>1, <1>2, <1>3 DEF Forth!Defined

LEMMA Pair == ASSUME NEW a, NEW b PROVE Append(<<a>>, b) = <<a, b>>
<1> DEFINE s == <<a>>
           j == Append(s, b)
           t == <<a, b>>
           V == {a, b}
<1>1. s \in Seq(V) /\ Len(s) = 1 /\ s[1] = a /\ b \in V
  OBVIOUS
<1>2. t \in Seq(V) /\ Len(t) = 2 /\ t[1] = a /\ t[2] = b
  OBVIOUS
<1> HIDE DEF s, t, V
<1>3. j \in Seq(V) /\ Len(j) = 2 /\ j[2] = b /\ j[1] = a
  BY <1>1
<1> HIDE DEF j
<1>4. j = t
  BY <1>2, <1>3, SameSequence
<1> QED
  BY <1>4 DEF j, s, t

\* The last instruction of a node, with its return folded in or without.
Closing(w, ret) == IF ret THEN WithRet(w) ELSE w

\* The instructions of each kind of node.
LEMMA Emitted ==
  ASSUME NEW val \in Int, NEW ret \in BOOLEAN
  PROVE  /\ \A op \in Foldable \ {"STORE"} : Encoded(op, val, ret) = <<Closing(Opcode(op), ret)>>
         /\ Encoded("STORE", val, ret) = <<\h6123, Closing(Opcode("STORE"), ret)>>
         /\ Encoded("R_FROM", val, ret) = <<\h6B8D>>
         /\ Encoded("UNLOOP", val, ret) = <<\h600C, \h600C>>
         /\ ~Complemented(val) => Encoded("LITERAL", val, ret) = <<Literal(val)>>
         /\ Complemented(val) =>
              Encoded("LITERAL", val, ret) = <<Literal(-val - 1), Closing(Opcode("INVERT"), ret)>>
<1>1. ASSUME NEW op \in Foldable
      PROVE  Encoded(op, val, ret) = Append(Before(op), Closing(Opcode(op), ret))
  <2>1. op # "LITERAL" /\ op \notin Fixed
    BY DEF Foldable, Fixed
  <2> QED
    BY <2>1 DEF Encoded, Closing
<1>2. ASSUME NEW op \in Foldable \ {"STORE"}
      PROVE  Encoded(op, val, ret) = <<Closing(Opcode(op), ret)>>
  <2>1. Before(op) = <<>>
    BY DEF Before
  <2>2. \A c : Append(<<>>, c) = <<c>>
    OBVIOUS
  <2> QED
    BY <1>1, <2>1, <2>2
<1>3. Encoded("STORE", val, ret) = <<\h6123, Closing(Opcode("STORE"), ret)>>
  <2>1. PICK h : h = \h6123
    OBVIOUS
  <2>2. Before("STORE") = <<h>> /\ "STORE" \in Foldable
    BY <2>1 DEF Before, Foldable
  <2>3. Encoded("STORE", val, ret) = Append(Before("STORE"), Closing(Opcode("STORE"), ret))
    BY <1>1, <2>2
  <2>4. Encoded("STORE", val, ret) = <<h, Closing(Opcode("STORE"), ret)>>
    BY <2>2, <2>3, Pair, Zenon
  <2> QED
    BY <2>1, <2>4
<1>4. Encoded("R_FROM", val, ret) = <<\h6B8D>> /\ Encoded("UNLOOP", val, ret) = <<\h600C, \h600C>>
  BY DEF Encoded, Fixed, Foldable, FixedCode
<1>5. /\ ~Complemented(val) => Encoded("LITERAL", val, ret) = <<Literal(val)>>
      /\ Complemented(val) =>
           Encoded("LITERAL", val, ret) = <<Literal(-val - 1), Closing(Opcode("INVERT"), ret)>>
  BY DEF Encoded, Fixed, Foldable, Closing
<1> QED
  BY <1>2, <1>3, <1>4, <1>5

\* A literal is the number, cut to 16 bits.
LEMMA LiteralMeans ==
  ASSUME NEW val \in Int
  PROVE  \E c \in Word :
           /\ c < \h8000
           /\ ~Complemented(val) => Literal(val) = \h8000 + c /\ c = val % W
           /\ Complemented(val) => Literal(-val - 1) = \h8000 + c /\ W - 1 - c = val % W
<1>1. PICK q \in Int, r \in Int :
        /\ val = 32768 * q + r /\ 0 <= r /\ r <= 32767
        /\ q = val \div 32768 /\ r = val % 32768
  OBVIOUS
<1>2. CASE ~Complemented(val)
  <2>1. q % 2 = 0
    BY <1>1, <1>2 DEF Complemented
  <2>2. PICK p \in Int : q = 2 * p
    BY <2>1
  <2>3. val % 65536 = r
    BY <1>1, <2>2
  <2>4. Literal(val) = 32768 + r
    BY <1>1 DEF Literal
  <2> QED
    BY <1>1, <1>2, <2>3, <2>4, WordsAre
<1>3. CASE Complemented(val)
  <2>1. q % 2 = 1
    BY <1>1, <1>3 DEF Complemented
  <2>2. PICK p \in Int : q = 2 * p + 1
    BY <2>1
  <2>3. val % 65536 = 32768 + r
    BY <1>1, <2>2
  <2>4. (-val - 1) % 32768 = 32767 - r
    BY <1>1
  <2>5. Literal(-val - 1) = 32768 + (32767 - r)
    BY <2>4 DEF Literal
  <2>6. PICK c \in Int : c = 32767 - r
    BY <1>1
  <2>7. c \in Word /\ c < 32768 /\ W - 1 - c = val % W /\ Literal(-val - 1) = 32768 + c
    BY <1>1, <2>3, <2>5, <2>6, WordsAre
  <2> QED
    BY <1>3, <2>7
<1> QED
  BY <1>2, <1>3

-----------------------------------------------------------------------------
(* The course of a word: the inductive invariant and its steps. *)

\* Whether the return is folded in, as a bit of the instruction.
Turn == IF word.ret THEN 1 ELSE 0

\* The word is about to begin.
Ready(x, y, held) ==
  /\ Stands(<<7, y, x>>, Called(Turn, held))
  /\ Cell \in DOMAIN ram /\ ram[Cell] = held /\ vpc = Entry
  /\ left = Len(InstructionWords(word)) /\ left \in 1..2
  /\ insn = InstructionWords(word)[1]
  /\ left = 2 => Entry + 1 \in DOMAIN ram /\ ram[Entry + 1] = InstructionWords(word)[2]

\* A word of two instructions is between them.
Midway(x, y, held) ==
  /\ vpc = Entry + 1 /\ insn = InstructionWords(word)[2]
  /\ \/ word.op = "STORE" /\ Stands(<<7, y>>, Called(Turn, held)) /\ ram[Cell] = y
     \/ word.op = "UNLOOP" /\ Stands(<<7, y, x>>, <<9>>) /\ ram[Cell] = held
     \/ /\ word.op = "LITERAL" /\ Complemented(word.val) /\ ram[Cell] = held
        /\ \E c \in Word : /\ W - 1 - c = word.val % W
                           /\ Stands(<<7, y, x, c>>, Called(Turn, held))

\* The word has ended as it means to.
Ended ==
  /\ \E ds, rs, m : Gives(Meaning, ds, rs, m) /\ Stands(ds, rs) /\ ram[Cell] = m
  /\ vpc = IF word.ret THEN Back ELSE Entry + Len(InstructionWords(word))

Course(x, y, held) ==
  \/ Ready(x, y, held)
  \/ left = 1 /\ Len(InstructionWords(word)) = 2 /\ (Meant => Midway(x, y, held))
  \/ left = 0 /\ (Meant => Ended)

\* The words that code.c translates.
Translated == Words \cap {"NOOP", "2_DUP_XOR", "2_TO_R", "2_R_FROM", "2_R_FETCH"} = {}

\* One instruction of class 3 that touches no more than the data stack.
SingleWords ==
  Forth!Binary \cup {"DROP", "NIP", "STORE_NIP", "INVERT", "1_SUB", "FETCH", "2_DUP_STORE",
                     "SWAP", "DUP", "OVER", "DUP_FETCH", "2_DUP_EQUAL", "R_FETCH"}

LEMMA MeantWords ==
  ASSUME Translated, NEW x, NEW y, NEW held, Begun(x, y, held), Meant
  PROVE  /\ word.op \in SingleWords \cup {"TO_R", "DUP_TO_R", "R_FROM", "UNLOOP", "STORE", "LITERAL"}
         /\ word.op \in {"TO_R", "DUP_TO_R", "R_FROM", "UNLOOP", "R_FETCH"} => ~word.ret
<1>1. word.op \in Words /\ Words \subseteq Foldable \cup Fixed \cup {"LITERAL"}
  BY InstructionAssumption DEF Begun
<1>2. word.op # "LITERAL" => word.op \in Forth!Known /\ (word.ret => word.op \notin Forth!ReturnWords)
  BY MeantIs
<1>3. word.op \notin {"NOOP", "2_DUP_XOR", "2_TO_R", "2_R_FROM", "2_R_FETCH"}
  BY <1>1 DEF Translated
<1>4. Forth!Known \subseteq SingleWords \cup
        {"TO_R", "DUP_TO_R", "R_FROM", "UNLOOP", "STORE", "NOOP", "2_DUP_XOR", "2_TO_R", "2_R_FROM", "2_R_FETCH"}
  BY DEF Forth!Known, Forth!Unary, Forth!Pairs, Forth!Reads, Forth!Writes, Forth!ReturnWords, SingleWords
<1>5. word.op \in SingleWords \cup {"TO_R", "DUP_TO_R", "R_FROM", "UNLOOP", "STORE", "LITERAL"}
  BY <1>2, <1>3, <1>4
<1>6. word.op \in {"TO_R", "DUP_TO_R", "R_FROM", "UNLOOP", "R_FETCH"} => ~word.ret
  BY <1>2 DEF Forth!ReturnWords
<1> QED
  BY <1>5, <1>6

\* The fields of such an instruction.
LEMMA SingleCodes ==
  /\ \A op \in Forth!Binary : Opcode(op) = Code(0, Operation(op), 0, 0, 0, 0, 3) /\ Operation(op) \in 0..15
  /\ \A op \in SingleWords : op \in Foldable \ {"STORE"}
<1>1. \A op \in Forth!Binary : Opcode(op) = Code(0, Operation(op), 0, 0, 0, 0, 3) /\ Operation(op) \in 0..15
  <2> SUFFICES ASSUME NEW op \in Forth!Binary
               PROVE  Opcode(op) = Code(0, Operation(op), 0, 0, 0, 0, 3) /\ Operation(op) \in 0..15
    OBVIOUS
  <2>1. op \in {"ADD", "AND", "OR", "XOR", "EQUAL", "LT", "U_LT", "LSHIFT", "RSHIFT"}
    BY DEF Forth!Binary
  <2> QED
    BY <2>1, Codes DEF Operation
<1>2. \A op \in SingleWords : op \in Foldable \ {"STORE"}
  BY DEF SingleWords, Forth!Binary, Foldable
<1> QED
  BY <1>1, <1>2

\* How such a word begins.
LEMMA SingleBegins ==
  ASSUME NEW x, NEW y, NEW held, Begun(x, y, held), Ready(x, y, held), word.op \in SingleWords,
         NEW res \in 0..15, NEW tn \in 0..1, NEW st \in 0..1, NEW dd \in 0..3,
         Opcode(word.op) = Code(0, res, tn, 0, st, 0, dd)
  PROVE  /\ Executes(Turn, res, tn, 0, st, 3 * Turn, dd)
         /\ Len(InstructionWords(word)) = 1 /\ left = 1
<1>1. word.op \in Foldable \ {"STORE"} /\ word.val \in Int /\ word.ret \in BOOLEAN
  BY SingleCodes DEF Begun
<1>2. InstructionWords(word) = <<Closing(Opcode(word.op), word.ret)>>
  <2>1. PICK op \in Foldable \ {"STORE"}, val \in Int, ret \in BOOLEAN :
          op = word.op /\ val = word.val /\ ret = word.ret
    BY <1>1
  <2>2. Encoded(op, val, ret) = <<Closing(Opcode(op), ret)>>
    BY Emitted
  <2> QED
    BY <2>1, <2>2 DEF InstructionWords
<1>3. Len(InstructionWords(word)) = 1 /\ InstructionWords(word)[1] = Closing(Opcode(word.op), word.ret)
  BY <1>2
<1>4. insn = Closing(Opcode(word.op), word.ret) /\ left = 1
  BY <1>3 DEF Ready
<1>5. CASE word.ret
  <2>1. insn = Code(1, res, tn, 0, st, 3, dd)
    BY <1>4, <1>5, Returning DEF Closing
  <2>2. Turn = 1 /\ 3 * 1 = 3
    BY <1>5 DEF Turn
  <2> QED
    BY <1>3, <1>4, <2>1, <2>2 DEF Executes
<1>6. CASE ~word.ret
  <2>1. insn = Code(0, res, tn, 0, st, 0, dd)
    BY <1>4, <1>6 DEF Closing
  <2>2. Turn = 0 /\ 3 * 0 = 0
    BY <1>6 DEF Turn
  <2> QED
    BY <1>3, <1>4, <2>1, <2>2 DEF Executes
<1> QED
  BY <1>1, <1>5, <1>6

\* Such an instruction has left t on x, y and 7, in place of them or under x,
\* and goes on behind the word or at the caller.
Leaves(x, y, held, res, tn, st, dd, t) ==
  /\ tos = x /\ NOS = y /\ Field(256, 16) = res /\ t \in AluResults
  /\ tn = 0 /\ dd = 3 => Stands(<<7, t>>, <<9, held>>)'
  /\ tn = 0 /\ dd = 0 => Stands(<<7, y, t>>, <<9, held>>)'
  /\ tn = 1 /\ dd = 0 => Stands(<<7, x, t>>, <<9, held>>)'
  /\ tn = 1 /\ dd = 1 => Stands(<<7, y, x, t>>, <<9, held>>)'
  /\ st = 0 => ram' = ram /\ ram'[Cell] = held
  /\ st = 1 => ram' = Stored(x, y)
  /\ vpc' = IF word.ret THEN Back ELSE Entry + Len(InstructionWords(word))

LEMMA SingleEnds ==
  ASSUME Typed, BitsAreWords, Step, UNCHANGED <<word, base, start>>,
         NEW x, NEW y, NEW held, Begun(x, y, held), Ready(x, y, held), word.op \in SingleWords,
         NEW res \in 0..15, NEW tn \in 0..1, NEW st \in 0..1, NEW dd \in 0..3,
         Opcode(word.op) = Code(0, res, tn, 0, st, 0, dd), NEW t, t = tos'
  PROVE  Leaves(x, y, held, res, tn, st, dd, t)
<1>1. Executes(Turn, res, tn, 0, st, 3 * Turn, dd) /\ Len(InstructionWords(word)) = 1
  BY SingleBegins
<1>2. x \in Word /\ y \in Word /\ held \in Word /\ base \in 0..STACK_DEEP - 1
  BY DEF Begun
<1>3. Stands(<<7, y, x>>, Called(Turn, held)) /\ vpc = 1 /\ vpc \in 1..2 /\ ram[Cell] = held
  BY DEF Ready, Entry
<1>4. PICK ret : ret = Turn
  OBVIOUS
<1>5. Executes(ret, res, tn, 0, st, 3 * ret, dd) /\ Stands(<<7, y, x>>, Called(ret, held))
  BY <1>1, <1>3, <1>4
<1>6. /\ tos = x /\ NOS = y /\ Field(256, 16) = res /\ t \in AluResults
      /\ tn = 0 /\ dd = 3 => Stands(<<7, t>>, <<9, held>>)'
      /\ tn = 0 /\ dd = 0 => Stands(<<7, y, t>>, <<9, held>>)'
      /\ tn = 1 /\ dd = 0 => Stands(<<7, x, t>>, <<9, held>>)'
      /\ tn = 1 /\ dd = 1 => Stands(<<7, y, x, t>>, <<9, held>>)'
      /\ ram' = IF st = 1 THEN Stored(x, y) ELSE ram
      /\ vpc' = IF ret = 1 THEN Back ELSE vpc + 1
  BY <1>2, <1>3, <1>5, DataStep
<1>7. st = 0 => ram' = ram /\ ram'[Cell] = held
  BY <1>3, <1>6
<1>8. vpc' = IF word.ret THEN Back ELSE Entry + Len(InstructionWords(word))
  <2>1. ret = 1 <=> word.ret
    BY <1>4 DEF Turn
  <2> QED
    BY <1>1, <1>3, <1>6, <2>1 DEF Entry
<1>9. st = 1 => ram' = Stored(x, y)
  BY <1>6
<1> QED
  BY <1>6, <1>7, <1>8, <1>9 DEF Leaves

LEMMA SingleOpcodes ==
  \A op \in SingleWords :
    \E res \in 0..15, tn \in 0..1, st \in 0..1, dd \in 0..3 : Opcode(op) = Code(0, res, tn, 0, st, 0, dd)
<1> SUFFICES ASSUME NEW op \in SingleWords
             PROVE  \E res \in 0..15, tn \in 0..1, st \in 0..1, dd \in 0..3 :
                      Opcode(op) = Code(0, res, tn, 0, st, 0, dd)
  OBVIOUS
<1>1. CASE op \in Forth!Binary
  BY <1>1, SingleCodes
<1>2. CASE op \notin Forth!Binary
  BY <1>2, Codes DEF SingleWords
<1> QED
  BY <1>1, <1>2

LEMMA CellMemory ==
  ASSUME MEM_SIZE_IN_BYTE > 2 * Cell, Cell \in DOMAIN ram, NEW v
  PROVE  /\ Fetches(Cell) = {ram[Cell]} /\ Stored(Cell, v)[Cell] = v
         /\ \A a \in DOMAIN ram \ {Cell} : a \in DOMAIN Stored(Cell, v) /\ Stored(Cell, v)[a] = ram[a]
<1>1. 2 * Cell < MEM_SIZE_IN_BYTE /\ Cell < MEM_SIZE_IN_BYTE
  BY ChipAssumption DEF Cell
<1>2. Fetches(Cell) = {ram[Cell]}
  BY <1>1 DEF Fetches, Reads
<1>3. Stored(Cell, v) = [b \in DOMAIN ram \cup {Cell} |-> IF b = Cell THEN v ELSE ram[b]]
  BY <1>1 DEF Stored
<1> QED
  BY <1>2, <1>3

LEMMA Finished ==
  ASSUME UNCHANGED <<word, base, start>>, NEW ds, NEW rs, NEW m, Gives(Meaning, ds, rs, m),
         Stands(ds, rs)', ram'[Cell] = m,
         vpc' = IF word.ret THEN Back ELSE Entry + Len(InstructionWords(word))
  PROVE  Ended'
<1>1. Meaning' = Meaning
  BY DEF Meaning
<1>2. vpc' = IF word'.ret THEN Back ELSE Entry + Len(InstructionWords(word'))
  OBVIOUS
<1>3. Gives(Meaning', ds, rs, m)
  BY <1>1
<1> QED
  BY <1>2, <1>3 DEF Ended

\* Words of one instruction that leave the return stack alone.
LEMMA SingleWordEnds ==
  ASSUME Typed, BitsAreWords, MEM_SIZE_IN_BYTE > 2 * Cell, Step, UNCHANGED <<word, base, start>>, Meant,
         NEW x, NEW y, NEW held, Begun(x, y, held), Ready(x, y, held), word.op \in SingleWords
  PROVE  Ended'
<1>1. /\ x \in Word /\ y \in Word /\ held \in Word
      /\ Cell \in DOMAIN ram /\ ram[Cell] = held
  BY DEF Begun, Ready
<1>2. /\ word.op # "LITERAL"
      /\ word.op \in {"LSHIFT", "RSHIFT"} => x < 32
      /\ word.op \in Forth!Reads \cup Forth!Writes => x = Cell
      /\ word.op = "R_FETCH" => ~word.ret
  <2>1. word.op # "LITERAL"
    BY DEF SingleWords, Forth!Binary
  <2> QED
    BY <2>1, MeantIs DEF Forth!ReturnWords
<1>3. Meaning = Forth!Effect(word.op, Found(x, y, held))
  BY <1>2, MeaningIs
<1>4. PICK t : t = tos'
  OBVIOUS
<1>5. ASSUME NEW res \in 0..15, NEW tn \in 0..1, NEW st \in 0..1, NEW dd \in 0..3,
             Opcode(word.op) = Code(0, res, tn, 0, st, 0, dd)
      PROVE  Leaves(x, y, held, res, tn, st, dd, t)
  BY <1>4, <1>5, SingleEnds
<1>6. vpc' = IF word.ret THEN Back ELSE Entry + Len(InstructionWords(word))
  <2>1. \E res \in 0..15, tn \in 0..1, st \in 0..1, dd \in 0..3 : Opcode(word.op) = Code(0, res, tn, 0, st, 0, dd)
    BY SingleOpcodes
  <2> QED
    BY <1>5, <2>1 DEF Leaves
<1>7. ASSUME NEW ds, NEW m, Gives(Meaning, ds, <<9, held>>, m), Stands(ds, <<9, held>>)', ram'[Cell] = m
      PROVE  Ended'
  <2>1. PICK rs : rs = <<9, held>>
    OBVIOUS
  <2>2. Gives(Meaning, ds, rs, m) /\ Stands(ds, rs)'
    BY <1>7, <2>1
  <2> QED
    BY <1>6, <1>7, <2>2, Finished
<1>8. CASE word.op \in Forth!Binary
  <2>1. Leaves(x, y, held, Operation(word.op), 0, 0, 3, t)
    <3>1. PICK res \in 0..15 : res = Operation(word.op)
      BY <1>8, SingleCodes
    <3>2. Opcode(word.op) = Code(0, res, 0, 0, 0, 0, 3)
      BY <1>8, <3>1, SingleCodes
    <3>3. Leaves(x, y, held, res, 0, 0, 3, t)
      BY <1>5, <3>2
    <3> QED
      BY <3>1, <3>3
  <2>2. t = Forth!Yield(word.op, y, x)
    BY <1>1, <1>2, <1>8, <2>1, BinaryMeans DEF Leaves
  <2>3. Gives(Meaning, <<7, t>>, <<9, held>>, held)
    BY <1>3, <1>8, <2>2, DataEffects, Zenon
  <2> QED
    BY <1>7, <2>1, <2>3 DEF Leaves
<1>9. CASE word.op = "DROP"
  <2>1. Leaves(x, y, held, 1, 0, 0, 3, t)
    BY <1>5, <1>9, Codes
  <2>2. t = y
    BY <2>1, Outcomes DEF Leaves
  <2>3. Gives(Meaning, <<7, y>>, <<9, held>>, held)
    BY <1>3, <1>9, DataEffects, Zenon
  <2> QED
    BY <1>7, <2>1, <2>2, <2>3 DEF Leaves
<1>10. CASE word.op = "NIP"
  <2>1. Leaves(x, y, held, 0, 0, 0, 3, t)
    BY <1>5, <1>10, Codes
  <2>2. t = x
    BY <2>1, Outcomes DEF Leaves
  <2>3. Gives(Meaning, <<7, x>>, <<9, held>>, held)
    BY <1>3, <1>10, DataEffects, Zenon
  <2> QED
    BY <1>7, <2>1, <2>2, <2>3 DEF Leaves
<1>11. CASE word.op = "STORE_NIP"
  <2>1. Leaves(x, y, held, 0, 0, 1, 3, t)
    BY <1>5, <1>11, Codes
  <2>2. t = x /\ x = Cell
    BY <1>2, <1>11, <2>1, Outcomes DEF Leaves, Forth!Writes
  <2>3. Gives(Meaning, <<7, Cell>>, <<9, held>>, y)
    BY <1>3, <1>11, <2>2, MemoryEffects, Zenon
  <2>4. ram'[Cell] = y
    BY <1>1, <2>1, <2>2, CellMemory DEF Leaves
  <2> QED
    BY <1>7, <2>1, <2>2, <2>3, <2>4 DEF Leaves
<1>12. CASE word.op = "INVERT"
  <2>1. Leaves(x, y, held, 6, 0, 0, 0, t)
    BY <1>5, <1>12, Codes
  <2>2. t = W - 1 - x
    BY <2>1, Outcomes DEF Leaves
  <2>3. Gives(Meaning, <<7, y, W - 1 - x>>, <<9, held>>, held)
    BY <1>3, <1>12, DataEffects, Zenon
  <2> QED
    BY <1>7, <2>1, <2>2, <2>3 DEF Leaves
<1>13. CASE word.op = "1_SUB"
  <2>1. Leaves(x, y, held, 10, 0, 0, 0, t)
    BY <1>5, <1>13, Codes
  <2>2. t = (x - 1) % W
    BY <2>1, Outcomes DEF Leaves
  <2>3. Gives(Meaning, <<7, y, (x - 1) % W>>, <<9, held>>, held)
    BY <1>3, <1>13, DataEffects, Zenon
  <2> QED
    BY <1>7, <2>1, <2>2, <2>3 DEF Leaves
<1>14. CASE word.op = "FETCH"
  <2>1. Leaves(x, y, held, 12, 0, 0, 0, t)
    BY <1>5, <1>14, Codes
  <2>2. t = held /\ x = Cell
    <3>1. x = Cell
      BY <1>2, <1>14 DEF Forth!Reads
    <3>2. t \in Fetches(Cell)
      BY <2>1, <3>1, Outcomes DEF Leaves
    <3> QED
      BY <1>1, <3>1, <3>2, CellMemory
  <2>3. Gives(Meaning, <<7, y, held>>, <<9, held>>, held)
    BY <1>3, <1>14, <2>2, MemoryEffects, Zenon
  <2> QED
    BY <1>7, <2>1, <2>2, <2>3 DEF Leaves
<1>15. CASE word.op = "2_DUP_STORE"
  <2>1. Leaves(x, y, held, 0, 0, 1, 0, t)
    BY <1>5, <1>15, Codes
  <2>2. t = x /\ x = Cell
    BY <1>2, <1>15, <2>1, Outcomes DEF Leaves, Forth!Writes
  <2>3. Gives(Meaning, <<7, y, Cell>>, <<9, held>>, y)
    BY <1>3, <1>15, <2>2, MemoryEffects, Zenon
  <2>4. ram'[Cell] = y
    BY <1>1, <2>1, <2>2, CellMemory DEF Leaves
  <2> QED
    BY <1>7, <2>1, <2>2, <2>3, <2>4 DEF Leaves
<1>16. CASE word.op = "SWAP"
  <2>1. Leaves(x, y, held, 1, 1, 0, 0, t)
    BY <1>5, <1>16, Codes
  <2>2. t = y
    BY <2>1, Outcomes DEF Leaves
  <2>3. Gives(Meaning, <<7, x, y>>, <<9, held>>, held)
    BY <1>3, <1>16, DataEffects, Zenon
  <2> QED
    BY <1>7, <2>1, <2>2, <2>3 DEF Leaves
<1>17. CASE word.op = "DUP"
  <2>1. Leaves(x, y, held, 0, 1, 0, 1, t)
    BY <1>5, <1>17, Codes
  <2>2. t = x
    BY <2>1, Outcomes DEF Leaves
  <2>3. Gives(Meaning, <<7, y, x, x>>, <<9, held>>, held)
    BY <1>3, <1>17, DataEffects, Zenon
  <2> QED
    BY <1>7, <2>1, <2>2, <2>3 DEF Leaves
<1>18. CASE word.op = "OVER"
  <2>1. Leaves(x, y, held, 1, 1, 0, 1, t)
    BY <1>5, <1>18, Codes
  <2>2. t = y
    BY <2>1, Outcomes DEF Leaves
  <2>3. Gives(Meaning, <<7, y, x, y>>, <<9, held>>, held)
    BY <1>3, <1>18, DataEffects, Zenon
  <2> QED
    BY <1>7, <2>1, <2>2, <2>3 DEF Leaves
<1>19. CASE word.op = "DUP_FETCH"
  <2>1. Leaves(x, y, held, 12, 1, 0, 1, t)
    BY <1>5, <1>19, Codes
  <2>2. t = held /\ x = Cell
    <3>1. x = Cell
      BY <1>2, <1>19 DEF Forth!Reads
    <3>2. t \in Fetches(Cell)
      BY <2>1, <3>1, Outcomes DEF Leaves
    <3> QED
      BY <1>1, <3>1, <3>2, CellMemory
  <2>3. Gives(Meaning, <<7, y, Cell, held>>, <<9, held>>, held)
    BY <1>3, <1>19, <2>2, MemoryEffects, Zenon
  <2> QED
    BY <1>7, <2>1, <2>2, <2>3 DEF Leaves
<1>20. CASE word.op = "2_DUP_EQUAL"
  <2>1. Leaves(x, y, held, 7, 1, 0, 1, t)
    BY <1>5, <1>20, Codes
  <2>2. t = Flag(y = x)
    <3>1. t = Flag(x = y)
      BY <2>1, Outcomes DEF Leaves
    <3> QED
      BY <3>1 DEF Flag
  <2>3. Gives(Meaning, <<7, y, x, Flag(y = x)>>, <<9, held>>, held)
    BY <1>3, <1>20, DataEffects, Zenon
  <2> QED
    BY <1>7, <2>1, <2>2, <2>3 DEF Leaves
<1>21. CASE word.op = "R_FETCH"
  <2>1. Leaves(x, y, held, 11, 1, 0, 1, t)
    BY <1>5, <1>21, Codes
  <2>2. t = held
    <3>1. Stands(<<7, y, x>>, <<9, held>>)
      BY <1>2, <1>21 DEF Ready, Turn, Called
    <3>2. rstack[vrp] = held
      BY <3>1 DEF Stands
    <3> QED
      BY <2>1, <3>2, Outcomes DEF Leaves
  <2>3. Gives(Meaning, <<7, y, x, held>>, <<9, held>>, held)
    BY <1>3, <1>21, ReturnEffects, Zenon
  <2> QED
    BY <1>7, <2>1, <2>2, <2>3 DEF Leaves
<1> QED
  BY <1>8, <1>9, <1>10, <1>11, <1>12, <1>13, <1>14, <1>15, <1>16, <1>17, <1>18, <1>19, <1>20, <1>21 DEF SingleWords

LEMMA AppendIs ==
  ASSUME NEW S, NEW u \in Seq(S), NEW v \in S
  PROVE  /\ Append(u, v) \in Seq(S) /\ Len(Append(u, v)) = Len(u) + 1
         /\ Append(u, v)[Len(u) + 1] = v
         /\ \A i \in 1..Len(u) : Append(u, v)[i] = u[i]
OBVIOUS

LEMMA Pushed == ASSUME NEW a, NEW b, NEW c, NEW d PROVE Append(<<a, b, c>>, d) = <<a, b, c, d>>
<1> DEFINE s == <<a, b, c>>
           j == Append(s, d)
           t == <<a, b, c, d>>
           V == {a, b, c, d}
<1>1. s \in Seq(V) /\ Len(s) = 3 /\ s[1] = a /\ s[2] = b /\ s[3] = c /\ d \in V
  OBVIOUS
<1>2. t \in Seq(V) /\ Len(t) = 4 /\ t[1] = a /\ t[2] = b /\ t[3] = c /\ t[4] = d
  OBVIOUS
<1> HIDE DEF s, t, V
<1>3. j \in Seq(V) /\ Len(j) = 4 /\ j[4] = d /\ j[3] = c /\ j[2] = b /\ j[1] = a
  <2>2. /\ j \in Seq(V) /\ Len(j) = Len(s) + 1 /\ j[Len(s) + 1] = d
        /\ \A i \in 1..Len(s) : j[i] = s[i]
    BY <1>1, AppendIs, SMTT(30)
  <2> QED
    BY <1>1, <2>2
<1> HIDE DEF j
<1>4. j = t
  BY <1>2, <1>3, SameSequence
<1> QED
  BY <1>4 DEF j, s, t

\* The instructions of the other words.
LEMMA OtherWords ==
  ASSUME NEW x, NEW y, NEW held, Begun(x, y, held)
  PROVE  LET words == InstructionWords(word) IN
         /\ word.op = "TO_R" /\ ~word.ret => words = <<Code(0, 1, 0, 1, 0, 1, 3)>>
         /\ word.op = "DUP_TO_R" /\ ~word.ret => words = <<Code(0, 0, 0, 1, 0, 1, 0)>>
         /\ word.op = "R_FROM" => words = <<Code(0, 11, 1, 0, 0, 3, 1)>>
         /\ word.op = "UNLOOP" => words = <<Code(0, 0, 0, 0, 0, 3, 0), Code(0, 0, 0, 0, 0, 3, 0)>>
         /\ word.op = "STORE" => words = <<Code(0, 1, 0, 0, 1, 0, 3), Code(Turn, 1, 0, 0, 0, 3 * Turn, 3)>>
         /\ word.op = "LITERAL" /\ ~Complemented(word.val) => words = <<Literal(word.val)>>
         /\ word.op = "LITERAL" /\ Complemented(word.val) =>
              words = <<Literal(-word.val - 1), Code(Turn, 6, 0, 0, 0, 3 * Turn, 0)>>
<1> DEFINE words == InstructionWords(word)
<1>1. PICK op \in Words, val \in Int, ret \in BOOLEAN : op = word.op /\ val = word.val /\ ret = word.ret
  BY DEF Begun
<1>2. words = Encoded(op, val, ret)
  BY <1>1 DEF InstructionWords
<1>3. /\ \A o \in Foldable \ {"STORE"} : Encoded(o, val, ret) = <<Closing(Opcode(o), ret)>>
      /\ Encoded("STORE", val, ret) = <<\h6123, Closing(Opcode("STORE"), ret)>>
      /\ Encoded("R_FROM", val, ret) = <<\h6B8D>>
      /\ Encoded("UNLOOP", val, ret) = <<\h600C, \h600C>>
      /\ ~Complemented(val) => Encoded("LITERAL", val, ret) = <<Literal(val)>>
      /\ Complemented(val) =>
           Encoded("LITERAL", val, ret) = <<Literal(-val - 1), Closing(Opcode("INVERT"), ret)>>
  BY Emitted
<1>4. ASSUME NEW res \in 0..15, NEW st \in 0..1, NEW dd \in 0..3
      PROVE  Closing(Code(0, res, 0, 0, st, 0, dd), ret) = Code(Turn, res, 0, 0, st, 3 * Turn, dd)
  <2>1. CASE ret
    <3>1. Turn = 1 /\ 3 * 1 = 3
      BY <1>1, <2>1 DEF Turn
    <3> QED
      BY <2>1, <3>1, Returning DEF Closing
  <2>2. CASE ~ret
    <3>1. Turn = 0 /\ 3 * 0 = 0
      BY <1>1, <2>2 DEF Turn
    <3> QED
      BY <2>2, <3>1 DEF Closing
  <2> QED
    BY <2>1, <2>2
<1>5. op = "TO_R" /\ ~ret => words = <<Code(0, 1, 0, 1, 0, 1, 3)>>
  BY <1>2, <1>3, Codes DEF Foldable, Closing
<1>6. op = "DUP_TO_R" /\ ~ret => words = <<Code(0, 0, 0, 1, 0, 1, 0)>>
  BY <1>2, <1>3, Codes DEF Foldable, Closing
<1>7. op = "R_FROM" => words = <<Code(0, 11, 1, 0, 0, 3, 1)>>
  BY <1>2, <1>3, Codes
<1>8. op = "UNLOOP" => words = <<Code(0, 0, 0, 0, 0, 3, 0), Code(0, 0, 0, 0, 0, 3, 0)>>
  BY <1>2, <1>3, Codes
<1>9. op = "STORE" => words = <<Code(0, 1, 0, 0, 1, 0, 3), Code(Turn, 1, 0, 0, 0, 3 * Turn, 3)>>
  <2>1. Closing(Opcode("STORE"), ret) = Code(Turn, 1, 0, 0, 0, 3 * Turn, 3)
    BY <1>4, Codes
  <2> QED
    BY <1>2, <1>3, <2>1, Codes
<1>10. op = "LITERAL" /\ Complemented(val) => words = <<Literal(-val - 1), Code(Turn, 6, 0, 0, 0, 3 * Turn, 0)>>
  <2>1. Closing(Opcode("INVERT"), ret) = Code(Turn, 6, 0, 0, 0, 3 * Turn, 0)
    BY <1>4, Codes
  <2> QED
    BY <1>2, <1>3, <2>1
<1>11. op = "LITERAL" /\ ~Complemented(val) => words = <<Literal(val)>>
  BY <1>2, <1>3
<1> HIDE DEF words
<1> QED
  BY <1>1, <1>5, <1>6, <1>7, <1>8, <1>9, <1>10, <1>11 DEF words

\* Words of one instruction that move cells between the stacks.
LEMMA MovingWordEnds ==
  ASSUME Typed, BitsAreWords, Step, UNCHANGED <<word, base, start>>,
         NEW x, NEW y, NEW held, Begun(x, y, held), Ready(x, y, held),
         word.op \in {"TO_R", "DUP_TO_R", "R_FROM"}, ~word.ret
  PROVE  Ended' /\ Len(InstructionWords(word)) = 1
<1>1. x \in Word /\ y \in Word /\ held \in Word /\ base \in 0..STACK_DEEP - 1
  BY DEF Begun
<1>2. Stands(<<7, y, x>>, <<9, held>>) /\ vpc = 1 /\ vpc \in 1..2 /\ ram[Cell] = held /\ Entry = 1
  BY DEF Ready, Entry, Turn, Called
<1>3. word.op # "LITERAL" /\ Meaning = Forth!Effect(word.op, Found(x, y, held))
  BY MeaningIs
<1>4. ASSUME NEW ds, NEW rs, Gives(Meaning, ds, rs, held), Stands(ds, rs)', ram' = ram, vpc' = vpc + 1,
             Len(InstructionWords(word)) = 1
      PROVE  Ended'
  <2>1. vpc' = IF word.ret THEN Back ELSE Entry + Len(InstructionWords(word))
    BY <1>2, <1>4
  <2>2. ram'[Cell] = held
    BY <1>2, <1>4
  <2> QED
    BY <1>4, <2>1, <2>2, Finished
<1>5. CASE word.op = "TO_R"
  <2>1. InstructionWords(word) = <<Code(0, 1, 0, 1, 0, 1, 3)>>
    BY <1>5, OtherWords
  <2>2. Executes(0, 1, 0, 1, 0, 1, 3) /\ Len(InstructionWords(word)) = 1
    BY <2>1 DEF Ready, Executes
  <2>3. Stands(<<7, y>>, <<9, held, x>>)' /\ ram' = ram /\ vpc' = vpc + 1
    BY <1>1, <1>2, <2>2, OtherSteps
  <2>4. Gives(Meaning, <<7, y>>, <<9, held, x>>, held)
    BY <1>3, <1>5, ReturnEffects, Zenon
  <2> QED
    BY <1>4, <2>2, <2>3, <2>4
<1>6. CASE word.op = "DUP_TO_R"
  <2>1. InstructionWords(word) = <<Code(0, 0, 0, 1, 0, 1, 0)>>
    BY <1>6, OtherWords
  <2>2. Executes(0, 0, 0, 1, 0, 1, 0) /\ Len(InstructionWords(word)) = 1
    BY <2>1 DEF Ready, Executes
  <2>3. Stands(<<7, y, x>>, <<9, held, x>>)' /\ ram' = ram /\ vpc' = vpc + 1
    BY <1>1, <1>2, <2>2, OtherSteps
  <2>4. Gives(Meaning, <<7, y, x>>, <<9, held, x>>, held)
    BY <1>3, <1>6, ReturnEffects, Zenon
  <2> QED
    BY <1>4, <2>2, <2>3, <2>4
<1>7. CASE word.op = "R_FROM"
  <2>1. InstructionWords(word) = <<Code(0, 11, 1, 0, 0, 3, 1)>>
    BY <1>7, OtherWords
  <2>2. Executes(0, 11, 1, 0, 0, 3, 1) /\ Len(InstructionWords(word)) = 1
    BY <2>1 DEF Ready, Executes
  <2>3. Stands(<<7, y, x, held>>, <<9>>)' /\ ram' = ram /\ vpc' = vpc + 1
    BY <1>1, <1>2, <2>2, OtherSteps
  <2>4. Gives(Meaning, <<7, y, x, held>>, <<9>>, held)
    BY <1>3, <1>7, ReturnEffects, Zenon
  <2> QED
    BY <1>4, <2>2, <2>3, <2>4
<1> QED
  BY <1>5, <1>6, <1>7

\* The first of two instructions is followed by the second.
LEMMA SecondInstruction ==
  ASSUME Step, UNCHANGED <<word, base, start>>, NEW x, NEW y, NEW held, Ready(x, y, held), left = 2,
         vpc' = vpc + 1, Entry + 1 \in DOMAIN ram', ram'[Entry + 1] = ram[Entry + 1]
  PROVE  vpc' = Entry + 1 /\ insn' = InstructionWords(word)[2]
<1>1. vpc' = Entry + 1 /\ ram[Entry + 1] = InstructionWords(word)[2]
  BY DEF Ready
<1>2. insn' \in Reads(ram', Entry + 1)
  BY <1>1, NextInstruction
<1>3. insn' = ram'[Entry + 1]
  BY <1>2 DEF Reads
<1> QED
  BY <1>1, <1>3

LEMMA NumberEnds ==
  ASSUME Typed, BitsAreWords, Step, UNCHANGED <<word, base, start>>,
         NEW x, NEW y, NEW held, Begun(x, y, held), Ready(x, y, held), word.op = "LITERAL"
  PROVE  /\ Len(InstructionWords(word)) = 1 => Ended'
         /\ Len(InstructionWords(word)) = 2 => Midway(x, y, held)'
<1>1. /\ x \in Word /\ y \in Word /\ held \in Word /\ base \in 0..STACK_DEEP - 1
      /\ word.val \in Int /\ word.ret \in BOOLEAN
      /\ word.ret => Folds(word.op, word.val)
  BY DEF Begun
<1>2. /\ Stands(<<7, y, x>>, Called(Turn, held)) /\ vpc = 1 /\ vpc \in 1..2 /\ ram[Cell] = held /\ Entry = 1
      /\ Turn \in 0..1
  BY DEF Ready, Entry, Turn
<1>9. PICK val \in Int : val = word.val
  BY <1>1
<1>3. PICK ret \in 0..1 : val = word.val /\ ret = Turn
  BY <1>2, <1>9
<1>4. PICK c \in Word :
        /\ c < \h8000
        /\ ~Complemented(val) => Literal(val) = \h8000 + c /\ c = val % W
        /\ Complemented(val) => Literal(-val - 1) = \h8000 + c /\ W - 1 - c = val % W
  BY LiteralMeans
<1>5. insn = \h8000 + c /\ (Len(InstructionWords(word)) = 2 <=> Complemented(val))
  <2>1. CASE ~Complemented(val)
    <3>1. InstructionWords(word) = <<Literal(val)>>
      BY <1>3, <2>1, OtherWords
    <3>2. Len(InstructionWords(word)) = 1 /\ InstructionWords(word)[1] = Literal(val)
      BY <3>1
    <3> QED
      BY <1>4, <2>1, <3>2 DEF Ready
  <2>2. CASE Complemented(val)
    <3>1. InstructionWords(word) = <<Literal(-val - 1), Code(Turn, 6, 0, 0, 0, 3 * Turn, 0)>>
      BY <1>3, <2>2, OtherWords
    <3>2. Len(InstructionWords(word)) = 2 /\ InstructionWords(word)[1] = Literal(-val - 1)
      BY <3>1
    <3> QED
      BY <1>4, <2>2, <3>2 DEF Ready
  <2> QED
    BY <2>1, <2>2
<1>6. Stands(<<7, y, x, c>>, Called(ret, held))' /\ ram' = ram /\ vpc' = vpc + 1
  <2>1. Stands(<<7, y, x>>, Called(ret, held)) /\ vpc \in 1..2
    BY <1>2, <1>3
  <2>2. Pushes(c) /\ UNCHANGED base
    BY <1>4, <1>5 DEF Pushes
  <2> QED
    BY <1>1, <2>1, <2>2, LiteralPushed
<1>7. CASE Complemented(val)
  <2>6. Len(InstructionWords(word)) = 2
    BY <1>5, <1>7
  <2>1. left = 2 /\ Entry + 1 \in DOMAIN ram
    BY <2>6 DEF Ready
  <2>2. vpc' = Entry + 1 /\ insn' = InstructionWords(word)[2]
    BY <1>6, <2>1, SecondInstruction
  <2>3. Stands(<<7, y, x, c>>, Called(Turn, held))'
    BY <1>3, <1>6 DEF Turn
  <2>4. /\ word'.op = "LITERAL" /\ Complemented(word'.val) /\ ram'[Cell] = held /\ c \in Word
        /\ W - 1 - c = word'.val % W /\ insn' = InstructionWords(word')[2]
    BY <1>2, <1>3, <1>4, <1>6, <1>7, <2>2
  <2>5. Midway(x, y, held)'
    BY <2>2, <2>3, <2>4 DEF Midway
  <2> QED
    BY <1>5, <1>7, <2>5
<1>8. CASE ~Complemented(val)
  <2>8. ~word.ret
    BY <1>1, <1>3, <1>8 DEF Folds, Foldable
  <2>9. ret = 0
    BY <1>3, <2>8 DEF Turn
  <2>10. c = val % W /\ c = word.val % W
    BY <1>3, <1>4, <1>8
  <2>1. ~word.ret /\ ret = 0 /\ c = val % W /\ c = word.val % W
    BY <2>8, <2>9, <2>10
  <2>2. Len(InstructionWords(word)) = 1
    BY <1>3, <1>8, OtherWords
  <2>3. Gives(Meaning, <<7, y, x, c>>, <<9, held>>, held)
    <3>1. Meaning = [Found(x, y, held) EXCEPT !.ds = Append(@, word.val % W)]
      BY MeaningIs
    <3>2. Append(<<7, y, x>>, c) = <<7, y, x, c>>
      BY Pushed, Zenon
    <3> QED
      BY <2>1, <3>1, <3>2 DEF Gives, Found
  <2>4. Stands(<<7, y, x, c>>, <<9, held>>)'
    BY <1>6, <2>1 DEF Called
  <2>5. vpc' = IF word.ret THEN Back ELSE Entry + Len(InstructionWords(word))
    BY <1>2, <1>6, <2>1, <2>2
  <2>6. ram'[Cell] = held
    BY <1>2, <1>6
  <2>7. Ended'
    BY <2>3, <2>4, <2>5, <2>6, Finished
  <2> QED
    BY <1>5, <1>8, <2>2, <2>7
<1> QED
  BY <1>7, <1>8

LEMMA StoreBegins ==
  ASSUME Typed, BitsAreWords, MEM_SIZE_IN_BYTE > 2 * Cell, Step, UNCHANGED <<word, base, start>>, Meant,
         NEW x, NEW y, NEW held, Begun(x, y, held), Ready(x, y, held), word.op = "STORE"
  PROVE  Len(InstructionWords(word)) = 2 /\ Midway(x, y, held)'
<1>1. x \in Word /\ y \in Word /\ held \in Word /\ base \in 0..STACK_DEEP - 1
  BY DEF Begun
<1>2. /\ Stands(<<7, y, x>>, Called(Turn, held)) /\ vpc = 1 /\ vpc \in 1..2 /\ Entry = 1 /\ Turn \in 0..1
      /\ Cell \in DOMAIN ram
  BY DEF Ready, Entry, Turn
<1>3. InstructionWords(word) = <<Code(0, 1, 0, 0, 1, 0, 3), Code(Turn, 1, 0, 0, 0, 3 * Turn, 3)>>
  BY OtherWords
<1>4. Executes(0, 1, 0, 0, 1, 0, 3) /\ left = 2 /\ Len(InstructionWords(word)) = 2
  BY <1>3 DEF Ready, Executes
<1>5. x = Cell
  BY MeantIs DEF Forth!Writes
<1>6. PICK ret \in 0..1 : ret = Turn
  BY <1>2
<1>7. Stands(<<7, y>>, Called(ret, held))' /\ ram' = Stored(x, y) /\ vpc' = vpc + 1
  BY <1>1, <1>2, <1>4, <1>6, StoreSteps
<1>8. ram'[Cell] = y /\ Entry + 1 \in DOMAIN ram' /\ ram'[Entry + 1] = ram[Entry + 1]
  <2>1. Entry + 1 \in DOMAIN ram \ {Cell}
    BY <1>4 DEF Ready, Entry, Cell
  <2> QED
    BY <1>2, <1>5, <1>7, <2>1, CellMemory
<1>9. vpc' = Entry + 1 /\ insn' = InstructionWords(word)[2]
  BY <1>4, <1>7, <1>8, SecondInstruction
<1>10. Stands(<<7, y>>, Called(Turn, held))'
  BY <1>6, <1>7 DEF Turn
<1>11. Midway(x, y, held)'
  BY <1>8, <1>9, <1>10 DEF Midway
<1> QED
  BY <1>4, <1>11

LEMMA UnloopBegins ==
  ASSUME Typed, BitsAreWords, Step, UNCHANGED <<word, base, start>>,
         NEW x, NEW y, NEW held, Begun(x, y, held), Ready(x, y, held), word.op = "UNLOOP", ~word.ret
  PROVE  Len(InstructionWords(word)) = 2 /\ Midway(x, y, held)'
<1>1. x \in Word /\ y \in Word /\ held \in Word /\ base \in 0..STACK_DEEP - 1
  BY DEF Begun
<1>2. Stands(<<7, y, x>>, <<9, held>>) /\ vpc = 1 /\ vpc \in 1..2 /\ Entry = 1 /\ ram[Cell] = held
  BY DEF Ready, Entry, Turn, Called
<1>3. InstructionWords(word) = <<Code(0, 0, 0, 0, 0, 3, 0), Code(0, 0, 0, 0, 0, 3, 0)>>
  BY OtherWords
<1>4. Executes(0, 0, 0, 0, 0, 3, 0) /\ left = 2 /\ Len(InstructionWords(word)) = 2
  BY <1>3 DEF Ready, Executes
<1>5. Stands(<<7, y, x>>, <<9>>)' /\ ram' = ram /\ vpc' = vpc + 1
  BY <1>1, <1>2, <1>4, OtherSteps
<1>6. vpc' = Entry + 1 /\ insn' = InstructionWords(word)[2]
  <2>1. Entry + 1 \in DOMAIN ram
    BY <1>4 DEF Ready
  <2> QED
    BY <1>4, <1>5, <2>1, SecondInstruction
<1>7. Midway(x, y, held)'
  BY <1>2, <1>5, <1>6 DEF Midway
<1> QED
  BY <1>4, <1>7

\* The second of two instructions ends the word.
LEMMA SecondEnds ==
  ASSUME Typed, BitsAreWords, Step, UNCHANGED <<word, base, start>>, Meant,
         NEW x, NEW y, NEW held, Begun(x, y, held), Midway(x, y, held),
         Len(InstructionWords(word)) = 2, word.op = "UNLOOP" => ~word.ret
  PROVE  Ended'
<1>1. x \in Word /\ y \in Word /\ held \in Word /\ base \in 0..STACK_DEEP - 1 /\ word.ret \in BOOLEAN
  BY DEF Begun
<1>2. PICK ret \in 0..1 : ret = Turn /\ (ret = 1 <=> word.ret)
  BY <1>1 DEF Turn
<1>3. vpc = 2 /\ vpc \in 1..2 /\ Entry = 1 /\ insn = InstructionWords(word)[2]
  BY DEF Midway, Entry
<1>4. (vpc' = IF ret = 1 THEN Back ELSE vpc + 1) =>
        vpc' = IF word.ret THEN Back ELSE Entry + Len(InstructionWords(word))
  BY <1>2, <1>3
<1>5. CASE word.op = "STORE"
  <2>1. Stands(<<7, y>>, Called(ret, held)) /\ ram[Cell] = y
    BY <1>2, <1>5 DEF Midway
  <2>2. Executes(ret, 1, 0, 0, 0, 3 * ret, 3)
    <3>1. InstructionWords(word) = <<Code(0, 1, 0, 0, 1, 0, 3), Code(ret, 1, 0, 0, 0, 3 * ret, 3)>>
      BY <1>2, <1>5, OtherWords
    <3>2. insn = Code(ret, 1, 0, 0, 0, 3 * ret, 3)
      BY <1>3, <3>1
    <3> QED
      BY <3>2 DEF Executes
  <2>3. Stands(<<7>>, <<9, held>>)' /\ ram' = ram /\ vpc' = IF ret = 1 THEN Back ELSE vpc + 1
    BY <1>1, <1>3, <2>1, <2>2, StoreSteps
  <2>4. Gives(Meaning, <<7>>, <<9, held>>, y)
    <3>1. x = Cell /\ Meaning = Forth!Effect("STORE", Found(x, y, held))
      BY <1>5, MeantIs, MeaningIs DEF Forth!Writes
    <3> QED
      BY <3>1, MemoryEffects, Zenon
  <2>5. ram'[Cell] = y
    BY <2>1, <2>3
  <2> QED
    BY <1>4, <2>3, <2>4, <2>5, Finished
<1>6. CASE word.op = "UNLOOP"
  <2>1. Stands(<<7, y, x>>, <<9>>) /\ ram[Cell] = held
    BY <1>6 DEF Midway
  <2>2. Executes(0, 0, 0, 0, 0, 3, 0)
    <3>1. InstructionWords(word) = <<Code(0, 0, 0, 0, 0, 3, 0), Code(0, 0, 0, 0, 0, 3, 0)>>
      BY <1>6, OtherWords
    <3>2. insn = Code(0, 0, 0, 0, 0, 3, 0)
      BY <1>3, <3>1
    <3> QED
      BY <3>2 DEF Executes
  <2>3. Stands(<<7, y, x>>, <<>>)' /\ ram' = ram /\ vpc' = vpc + 1
    BY <1>1, <1>3, <2>1, <2>2, OtherSteps
  <2>4. Gives(Meaning, <<7, y, x>>, <<>>, held)
    <3>1. Meaning = Forth!Effect("UNLOOP", Found(x, y, held))
      BY <1>6, MeaningIs
    <3> QED
      BY <3>1, ReturnEffects, Zenon
  <2>5. ram'[Cell] = held
    BY <2>1, <2>3
  <2>6. ret = 0
    BY <1>2, <1>6
  <2> QED
    BY <1>4, <2>3, <2>4, <2>5, <2>6, Finished
<1>7. CASE word.op = "LITERAL"
  <2>1. PICK c \in Word : W - 1 - c = word.val % W /\ Stands(<<7, y, x, c>>, Called(ret, held))
    BY <1>2, <1>7 DEF Midway
  <2>2. Complemented(word.val) /\ ram[Cell] = held
    BY <1>7 DEF Midway
  <2>3. Executes(ret, 6, 0, 0, 0, 3 * ret, 0)
    <3>1. InstructionWords(word) = <<Literal(-word.val - 1), Code(ret, 6, 0, 0, 0, 3 * ret, 0)>>
      BY <1>2, <1>7, <2>2, OtherWords
    <3>2. insn = Code(ret, 6, 0, 0, 0, 3 * ret, 0)
      BY <1>3, <3>1
    <3> QED
      BY <3>2 DEF Executes
  <2>4. /\ Stands(<<7, y, x, W - 1 - c>>, <<9, held>>)' /\ ram' = ram
        /\ vpc' = IF ret = 1 THEN Back ELSE vpc + 1
    <3>1. UNCHANGED base
      OBVIOUS
    <3> QED
      BY <1>1, <1>3, <2>1, <2>3, <3>1, LiteralInverted
  <2>5. Gives(Meaning, <<7, y, x, W - 1 - c>>, <<9, held>>, held)
    <3>1. Meaning = [Found(x, y, held) EXCEPT !.ds = Append(@, word.val % W)]
      BY <1>7, MeaningIs
    <3>2. PICK v : v = word.val % W /\ v = W - 1 - c
      BY <2>1
    <3>3. Append(<<7, y, x>>, v) = <<7, y, x, v>>
      BY Pushed, Zenon
    <3>4. Gives(Meaning, <<7, y, x, v>>, <<9, held>>, held)
      BY <3>1, <3>2, <3>3 DEF Gives, Found
    <3> QED
      BY <3>2, <3>4
  <2>6. ram'[Cell] = held
    BY <2>2, <2>4
  <2> QED
    BY <1>4, <2>4, <2>5, <2>6, Finished
<1> QED
  BY <1>5, <1>6, <1>7 DEF Midway

LEMMA WordLengths ==
  ASSUME Translated, NEW op \in Words, NEW val \in Int, NEW ret \in BOOLEAN
  PROVE  Len(Encoded(op, val, ret)) \in 1..2
<1>1. op \in (Foldable \ {"STORE"}) \cup {"STORE", "R_FROM", "UNLOOP", "LITERAL"}
  <2>1. op \in Foldable \cup Fixed \cup {"LITERAL"} /\ op \notin {"2_TO_R", "2_R_FROM", "2_R_FETCH"}
    BY InstructionAssumption DEF Translated
  <2> QED
    BY <2>1 DEF Fixed
<1>2. /\ \A o \in Foldable \ {"STORE"} : Encoded(o, val, ret) = <<Closing(Opcode(o), ret)>>
      /\ Encoded("STORE", val, ret) = <<\h6123, Closing(Opcode("STORE"), ret)>>
      /\ Encoded("R_FROM", val, ret) = <<\h6B8D>>
      /\ Encoded("UNLOOP", val, ret) = <<\h600C, \h600C>>
      /\ ~Complemented(val) => Encoded("LITERAL", val, ret) = <<Literal(val)>>
      /\ Complemented(val) =>
           Encoded("LITERAL", val, ret) = <<Literal(-val - 1), Closing(Opcode("INVERT"), ret)>>
  BY Emitted
<1>3. \A u, v : Len(<<u>>) = 1 /\ Len(<<u, v>>) = 2
  OBVIOUS
<1>4. CASE op \in Foldable \ {"STORE"}
  BY <1>2, <1>3, <1>4
<1>5. CASE op \in {"STORE", "R_FROM", "UNLOOP"}
  BY <1>2, <1>3, <1>5
<1>6. CASE op = "LITERAL"
  BY <1>2, <1>3, <1>6
<1> QED
  BY <1>1, <1>4, <1>5, <1>6

\* A stack laid out from b holds its cells above b.
LEMMA Laid ==
  ASSUME NEW cells, NEW V, cells \in Seq(V), Len(cells) \in 0..3, NEW b \in 0..STACK_DEEP - 1
  PROVE  \A i \in 1..Len(cells) : Holding(cells, b)[Slot(b, i)] = cells[i]
<1> SUFFICES ASSUME NEW i \in 1..Len(cells) PROVE Holding(cells, b)[Slot(b, i)] = cells[i]
  OBVIOUS
<1>1. i \in 0..6 /\ i \in DOMAIN cells
  OBVIOUS
<1>2. Slot(b, i) \in 0..STACK_DEEP - 1 /\ (Slot(b, i) - b) % STACK_DEEP = i
  BY <1>1, Circle
<1> QED
  BY <1>1, <1>2 DEF Holding

LEMMA BeginsReady ==
  ASSUME Translated, Init
  PROVE  \E x, y, held : Begun(x, y, held) /\ Ready(x, y, held)
<1>1. PICK op \in Words, val \in Int, ret \in BOOLEAN, b \in Bases,
           x \in Samples, y \in Samples, held \in Samples :
        /\ ret => Folds(op, val)
        /\ Given([op |-> op, val |-> val, ret |-> ret], b, x, y, held)
  BY Beginning
<1>2. /\ x \in Word /\ y \in Word /\ held \in Word /\ 7 \in Word /\ 9 \in Word /\ 2 * Back \in Word
      /\ b \in 0..STACK_DEEP - 1
  BY InstructionAssumption, WordsAre DEF Back
<1> DEFINE words == Encoded(op, val, ret)
           back  == IF ret THEN <<9, held, 2 * Back>> ELSE <<9, held>>
<1>3. /\ word = [op |-> op, val |-> val, ret |-> ret] /\ base = b
      /\ start = [ds |-> <<7, y, x>>, rs |-> back, mem |-> [a \in {Cell} |-> held]]
      /\ left = Len(words)
      /\ ram = [a \in Entry..Entry + Len(words) - 1 \cup {Cell} |-> IF a = Cell THEN held ELSE words[a]]
      /\ dstack = Holding(<<7, y>>, b) /\ tos = x /\ vdp = (b + 2) % STACK_DEEP
      /\ rstack = Holding(back, b) /\ vrp = (b + Len(back)) % STACK_DEEP
      /\ vpc = Entry /\ insn \in Reads(ram, Entry)
  BY <1>1 DEF Given, InstructionWords
<1>4. word.op = op /\ word.val = val /\ word.ret = ret /\ InstructionWords(word) = words
  BY <1>3 DEF InstructionWords
<1>5. Len(words) \in 1..2
  BY WordLengths
<1>6. back = Called(Turn, held)
  BY <1>4 DEF Called, Turn
<1>7. Begun(x, y, held)
  BY <1>1, <1>2, <1>3, <1>4 DEF Begun
<1>8. back \in Seq(Word) /\ Len(back) \in 2..3
  <2>1. CASE ret
    BY <1>2, <2>1
  <2>2. CASE ~ret
    BY <1>2, <2>2
  <2> QED
    BY <2>1, <2>2
<1> HIDE DEF words, back
<1>9. Stands(<<7, y, x>>, back)
  <2>1. PICK ds \in Seq(Word) : ds = <<7, y, x>> /\ Len(ds) = 3 /\ ds[1] = 7 /\ ds[2] = y /\ ds[3] = x
    <3>1. <<7, y, x>> \in Seq(Word)
      BY <1>2
    <3> QED
      BY <3>1
  <2>2. \A i \in 1..2 : dstack[Slot(b, i)] = ds[i]
    <3>1. PICK c \in Seq(Word) : c = <<7, y>> /\ Len(c) = 2 /\ c[1] = 7 /\ c[2] = y
      <4>1. <<7, y>> \in Seq(Word)
        BY <1>2
      <4> QED
        BY <4>1
    <3>4. \A i \in 1..Len(c) : Holding(c, b)[Slot(b, i)] = c[i]
      <4>1. Len(c) \in 0..3
        BY <3>1
      <4> QED
        BY <1>2, <4>1, Laid
    <3>2. \A i \in 1..2 : Holding(c, b)[Slot(b, i)] = c[i]
      BY <3>1, <3>4
    <3>3. dstack = Holding(c, b)
      BY <1>3, <3>1
    <3> QED
      BY <2>1, <3>1, <3>2, <3>3
  <2>3. \A i \in 1..Len(back) : rstack[Slot(b, i)] = back[i]
    BY <1>2, <1>3, <1>8, Laid
  <2>4. vdp = Slot(b, 2) /\ vrp = Slot(b, Len(back))
    BY <1>3 DEF Slot
  <2>5. Stands(ds, back)
    BY <1>3, <1>8, <2>1, <2>2, <2>3, <2>4 DEF Stands
  <2> QED
    BY <2>1, <2>5
<1>10. /\ Cell \in DOMAIN ram /\ ram[Cell] = held
       /\ insn = words[1]
       /\ left = 2 => Entry + 1 \in DOMAIN ram /\ ram[Entry + 1] = words[2]
  <2>1. Cell \in DOMAIN ram /\ ram[Cell] = held
    BY <1>3
  <2>2. Entry \in DOMAIN ram /\ ram[Entry] = words[1]
    BY <1>3, <1>5 DEF Entry, Cell
  <2>3. left = 2 => Entry + 1 \in DOMAIN ram /\ ram[Entry + 1] = words[2]
    BY <1>3, <1>5 DEF Entry, Cell
  <2>4. insn = words[1]
    BY <1>3, <2>2 DEF Reads
  <2> QED
    BY <2>1, <2>3, <2>4
<1>11. Ready(x, y, held)
  BY <1>3, <1>4, <1>5, <1>6, <1>9, <1>10 DEF Ready
<1> QED
  BY <1>7, <1>11

\* The first instruction ends a word of one, and leads a word of two midway.
LEMMA FirstStep ==
  ASSUME Typed, BitsAreWords, MEM_SIZE_IN_BYTE > 2 * Cell, Translated, Step,
         UNCHANGED <<word, base, start>>, Meant,
         NEW x, NEW y, NEW held, Begun(x, y, held), Ready(x, y, held)
  PROVE  /\ Len(InstructionWords(word)) = 1 => Ended'
         /\ Len(InstructionWords(word)) = 2 => Midway(x, y, held)'
<1>1. /\ word.op \in SingleWords \cup {"TO_R", "DUP_TO_R", "R_FROM", "UNLOOP", "STORE", "LITERAL"}
      /\ word.op \in {"TO_R", "DUP_TO_R", "R_FROM", "UNLOOP", "R_FETCH"} => ~word.ret
  BY MeantWords
<1>2. CASE word.op \in SingleWords
  <2>1. Ended'
    BY <1>2, SingleWordEnds
  <2>2. Len(InstructionWords(word)) = 1
    <3>1. \E res \in 0..15, tn \in 0..1, st \in 0..1, dd \in 0..3 : Opcode(word.op) = Code(0, res, tn, 0, st, 0, dd)
      BY <1>2, SingleOpcodes
    <3> QED
      BY <1>2, <3>1, SingleBegins
  <2> QED
    BY <2>1, <2>2
<1>3. CASE word.op \in {"TO_R", "DUP_TO_R", "R_FROM"}
  BY <1>1, <1>3, MovingWordEnds
<1>4. CASE word.op = "UNLOOP"
  BY <1>1, <1>4, UnloopBegins
<1>5. CASE word.op = "STORE"
  BY <1>5, StoreBegins
<1>6. CASE word.op = "LITERAL"
  BY <1>6, NumberEnds
<1> QED
  BY <1>1, <1>2, <1>3, <1>4, <1>5, <1>6

\* Where a word is while its instructions execute.
Coursing == Typed /\ \E x, y, held : Begun(x, y, held) /\ Course(x, y, held)

LEMMA CourseKept ==
  ASSUME BitsAreWords, MEM_SIZE_IN_BYTE > 2 * Cell, Translated, Coursing, Execute
  PROVE  Coursing'
<1>1. PICK x, y, held : Begun(x, y, held) /\ Course(x, y, held)
  BY DEF Coursing
<1>2. Typed /\ Step /\ UNCHANGED <<word, base, start>> /\ left > 0 /\ left' = left - 1
  BY DEF Coursing, Execute
<1>3. Typed'
  BY <1>2, StepTypes
<1>4. Begun(x, y, held)'
  BY <1>1, <1>2 DEF Begun
<1>5. Meant' = Meant /\ InstructionWords(word)' = InstructionWords(word)
  BY <1>2 DEF Meant
<1>6. Course(x, y, held)'
  <2>1. CASE Ready(x, y, held)
    <3>1. Meant => /\ Len(InstructionWords(word)) = 1 => Ended'
                   /\ Len(InstructionWords(word)) = 2 => Midway(x, y, held)'
      BY <1>1, <1>2, <2>1, FirstStep
    <3>2. left = Len(InstructionWords(word)) /\ left \in 1..2
      BY <2>1 DEF Ready
    <3>3. CASE left = 1
      <4>1. left' = 0 /\ (Meant' => Ended')
        BY <1>2, <1>5, <3>1, <3>2, <3>3
      <4> QED
        BY <4>1 DEF Course
    <3>4. CASE left = 2
      <4>1. left' = 1 /\ Len(InstructionWords(word))' = 2 /\ (Meant' => Midway(x, y, held)')
        BY <1>2, <1>5, <3>1, <3>2, <3>4
      <4> QED
        BY <4>1 DEF Course
    <3> QED
      BY <3>2, <3>3, <3>4
  <2>2. CASE left = 1 /\ Len(InstructionWords(word)) = 2 /\ (Meant => Midway(x, y, held))
    <3>1. Meant => Ended'
      <4> SUFFICES ASSUME Meant PROVE Ended'
        OBVIOUS
      <4>1. word.op = "UNLOOP" => ~word.ret
        BY <1>1, MeantWords
      <4> QED
        BY <1>1, <1>2, <2>2, <4>1, SecondEnds
    <3>2. left' = 0 /\ (Meant' => Ended')
      BY <1>2, <1>5, <2>2, <3>1
    <3> QED
      BY <3>2 DEF Course
  <2>3. CASE left = 0 /\ (Meant => Ended)
    BY <1>2, <2>3
  <2> QED
    BY <1>1, <2>1, <2>2, <2>3 DEF Course
<1> QED
  BY <1>3, <1>4, <1>6 DEF Coursing

(***************************************************************************)
(* Whatever the stacks hold and wherever they lie in their circles, the    *)
(* instructions of a translated word or of a literal of any width do what  *)
(* the word means.                                                         *)
(***************************************************************************)
THEOREM EveryWordIsMeant ==
  ASSUME BitsAreWords, MEM_SIZE_IN_BYTE > 2 * Cell, Translated
  PROVE  InstructionSpec => []InstructionsMean
<1>1. Init => Coursing
  <2> SUFFICES ASSUME Init PROVE Coursing
    OBVIOUS
  <2>1. Typed
    BY InitTypes
  <2>2. PICK x, y, held : Begun(x, y, held) /\ Ready(x, y, held)
    BY BeginsReady
  <2> QED
    BY <2>1, <2>2 DEF Coursing, Course
<1>2. Coursing /\ [Execute]_instructionVars => Coursing'
  <2> SUFFICES ASSUME Coursing, [Execute]_instructionVars PROVE Coursing'
    OBVIOUS
  <2>1. CASE Execute
    BY <2>1, CourseKept
  <2>2. CASE UNCHANGED instructionVars
    <3>1. UNCHANGED <<ram, tos, dstack, vdp, rstack, vrp, vpc, insn, running, word, base, start, left>>
      BY <2>2 DEF instructionVars, vars, chip
    <3>2. Typed'
      BY <3>1 DEF Coursing, Typed, TypeOK, Stack, Word
    <3>3. PICK x, y, held : Begun(x, y, held) /\ Course(x, y, held)
      BY DEF Coursing
    <3>4. Begun(x, y, held)'
      BY <3>1, <3>3 DEF Begun
    <3>5. /\ \A ds, rs : Stands(ds, rs)' <=> Stands(ds, rs)
          /\ Turn' = Turn /\ (Meant' <=> Meant) /\ Meaning' = Meaning
      BY <3>1 DEF Stands, Turn, Meant, Meaning
    <3>6. Course(x, y, held)'
      BY <3>1, <3>3, <3>5 DEF Course, Ready, Midway, Ended
    <3> QED
      BY <3>2, <3>4, <3>6 DEF Coursing
  <2> QED
    BY <2>1, <2>2
<1>3. Coursing => InstructionsMean
  <2> SUFFICES ASSUME Coursing, left = 0, Meant PROVE Agrees
    BY DEF InstructionsMean
  <2>1. PICK x, y, held : Begun(x, y, held) /\ Course(x, y, held)
    BY DEF Coursing
  <2>2. Ended
    BY <2>1 DEF Course, Ready
  <2>3. PICK ds, rs, m : Gives(Meaning, ds, rs, m) /\ Stands(ds, rs) /\ ram[Cell] = m
    BY <2>2 DEF Ended
  <2>4. DataStack = ds /\ ReturnStack = rs
    BY <2>1, <2>3, Standing DEF Coursing, Begun
  <2> QED
    BY <2>2, <2>3, <2>4 DEF Agrees, Ended, Gives
<1> QED
  BY <1>1, <1>2, <1>3, PTL DEF InstructionSpec

=============================================================================
