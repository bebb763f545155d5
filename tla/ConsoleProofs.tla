--------------------------- MODULE ConsoleProofs ---------------------------
(***************************************************************************)
(* Proofs, for every value of the constants, about sessions: the types of  *)
(* the state, that finished macros never change, and that a macro's return *)
(* ends its run.                                                           *)
(*                                                                         *)
(* A macro runs through whatever cells its branches and calls lead it to.  *)
(* So the invariant says of the cells alone (Code) that no way leads out   *)
(* of the finished ones: that is what keeps pc and the return stack typed  *)
(* in a session whose macros are damaged by UNTIL or LEAVE, or in whose    *)
(* file a definition failed.                                               *)
(***************************************************************************)
EXTENDS Console, HostStackProofs, WellFoundedInduction

BodyWords ==
  Primitives \cup {"SYMBOL", "NUM", "IF", "ELSE", "THEN", "BEGIN", "WHILE", "REPEAT",
                   "UNTIL", "DO", "LOOP", "LEAVE", "FOR", "NEXT"}

CodeCell == [op : Primitives \cup Wide \cup {"(NEXT)", "SYMBOL", "NUM", "ADDR"}, arg : Int]

Entry == [id : {"IF", "BEGIN", "WHILE", "DO", "FOR"}, pos : Nat]

MacroSymbol == [name : Names, type : {"MACRO", "CONSTANT"}, hidden : BOOLEAN, value : Int]

\* The newest symbol is a macro that has not got its name.
Opened == dict # <<>> /\ dict[Len(dict)].hidden

\* The last cell of the finished macros.
Base == IF Opened THEN dict[Len(dict)].value - 1 ELSE Len(code)

Typed ==
  /\ state \in States
  /\ dict \in Seq(MacroSymbol)
  /\ code \in Seq(CodeCell)
  /\ cs \in Seq(Entry)
  /\ source \in Seq(Seq([op : BodyWords, arg : Int]))
  /\ Len(source) = Len(dict)

\* Only the newest symbol is hidden, and visible macros begin in finished cells.
Dictionary ==
  /\ \A s \in 1..Len(dict) :
       /\ dict[s].hidden => s = Len(dict) /\ dict[s].type = "MACRO" /\ dict[s].value \in 1..Len(code) + 1
       /\ ~dict[s].hidden => dict[s].value \in IF dict[s].type = "MACRO" THEN 1..Base ELSE Cells
  /\ state = "MACRO" => Opened
  /\ state = "INTERPRET" => ~Opened

\* An instruction has its operand behind it; an operand of a finished macro
\* is a finished cell, or NULL where LEAVE came between.
CellOK(nodes, i) ==
  /\ nodes[i].op \in Wide =>
       /\ i < Len(nodes)
       /\ nodes[i + 1].op = IF nodes[i].op = "(DOLIT)" THEN "NUM" ELSE "ADDR"
  /\ nodes[i].op = "ADDR" => nodes[i].arg \in 0..IF i <= Base THEN Base ELSE Len(nodes) + 1
  /\ nodes[i].op = "NUM" => nodes[i].arg \in Cells
  /\ nodes[i].op = "SYMBOL" => nodes[i].arg \in 1..Len(dict) /\ ~dict[nodes[i].arg].hidden
  /\ nodes[i].op = "(NEXT)" => i <= Base

\* What is finished ends in a return.
Code ==
  /\ \A i \in 1..Len(code) : CellOK(code, i)
  /\ Base > 0 => code[Base].op = "(NEXT)"

\* Control entries lead into the macro being compiled, and not to a number.
Place(nodes, p) ==
  /\ p \in Base + 1..Len(nodes) + 1
  /\ p <= Len(nodes) => nodes[p].op # "NUM"

Fits(nodes, entries) ==
  \A k \in 1..Len(entries) :
    /\ Place(nodes, entries[k].pos)
    /\ entries[k].id = "WHILE" => k > 1 /\ entries[k - 1].id = "BEGIN"

Control ==
  /\ cs # <<>> => Opened
  /\ Fits(code, cs)

\* The return stack holds finished cells and ends in NULL.
Stacks ==
  /\ mem \in [Slots -> Int] /\ tos \in Cells
  /\ rp \in 0..STACK_DEEP_SIZE - 1 /\ dp \in 0..rp
  /\ \A i \in Nat : i < dp => mem[i] \in Cells
  /\ \A i \in rp..STACK_DEEP_SIZE - 1 : mem[i] \in 0..Base
  /\ mem[STACK_DEEP_SIZE - 1] = NULL

\* A running macro has yet to reach that NULL.
Machine ==
  /\ Stacks
  /\ pc \in 0..Base
  /\ pc # NULL => rp < STACK_DEEP_SIZE - 1 /\ state \notin {"MACRO", "LOST"}

Compiler == Typed /\ Dictionary /\ Code /\ Control

IInv == Compiler /\ Machine

\* Without LEAVE a branch that has no target yet is remembered by its entry.
Held(nodes, entries) ==
  \A i \in 1..Len(nodes) :
    nodes[i].op = "ADDR" /\ nodes[i].arg = NULL =>
      \E k \in 1..Len(entries) : entries[k].id \in {"IF", "WHILE"} /\ entries[k].pos = i

Targets == NoLeave => Held(code, cs)

Ends == NoLeave /\ pc = NULL => mem[rp] = NULL

-----------------------------------------------------------------------------
(* The parts of the invariant. *)

\* Types that the other parts rest on.
LEMMA Basics ==
  ASSUME Typed, Dictionary
  PROVE  /\ Len(code) \in Nat /\ Len(dict) \in Nat /\ Len(cs) \in Nat
         /\ DOMAIN code = 1..Len(code) /\ DOMAIN dict = 1..Len(dict) /\ DOMAIN cs = 1..Len(cs)
         /\ Base \in 0..Len(code)
         /\ \A s \in 1..Len(dict) : dict[s] \in MacroSymbol
         /\ \A i \in 1..Len(code) : code[i] \in CodeCell
         /\ \A k \in 1..Len(cs) : cs[k] \in Entry
         /\ Opened => Len(dict) \in 1..Len(dict) /\ dict[Len(dict)].value = Base + 1
<1>1. /\ Len(code) \in Nat /\ Len(dict) \in Nat /\ Len(cs) \in Nat
      /\ DOMAIN code = 1..Len(code) /\ DOMAIN dict = 1..Len(dict) /\ DOMAIN cs = 1..Len(cs)
      /\ \A s \in 1..Len(dict) : dict[s] \in MacroSymbol
      /\ \A i \in 1..Len(code) : code[i] \in CodeCell
      /\ \A k \in 1..Len(cs) : cs[k] \in Entry
  BY DEF Typed
<1>2. CASE Opened
  <2>1. Len(dict) \in 1..Len(dict) /\ dict[Len(dict)].hidden
    BY <1>1, <1>2 DEF Opened, Typed
  <2>2. dict[Len(dict)].value \in 1..Len(code) + 1
    BY <2>1 DEF Dictionary
  <2> QED
    BY <1>1, <1>2, <2>1, <2>2 DEF Base
<1>3. CASE ~Opened
  BY <1>1, <1>3 DEF Base
<1> QED
  BY <1>1, <1>2, <1>3

\* A step that leaves the compiler alone leaves its part of the invariant.
LEMMA CompilerSame ==
  ASSUME Typed, Dictionary, Code, Control, UNCHANGED compilerVars
  PROVE  Typed' /\ Dictionary' /\ Code' /\ Control' /\ Base' = Base
BY DEF compilerVars, Typed, Dictionary, Code, CellOK, Control, Fits, Place, Base, Opened

\* Sizes and places on the two stacks.
LEMMA StackPlaces ==
  ASSUME Stacks
  PROVE  /\ Sound(Int) /\ STACK_DEEP_SIZE \in Nat \ {0, 1}
         /\ dp \in Nat /\ rp \in Nat /\ dp <= rp /\ rp < STACK_DEEP_SIZE /\ tos \in Int
         /\ \A i \in 0..STACK_DEEP_SIZE : i \in Slots /\ i \in DOMAIN mem
BY HostStackAssumption, CellsAreNumbers DEF Stacks, Sound, Slots

\* A word that works on the data stack keeps the return stack, unless they meet.
LEMMA StacksKeep ==
  ASSUME Stacks, Base \in Nat, Base' = Base, rp' = rp, Keeps(Int), Apart
  PROVE  Stacks' /\ mem'[rp'] = mem[rp]
<1>1. /\ dp' \in 0..dp + 1 /\ dp + 1 < rp /\ mem' \in [Slots -> Int] /\ tos' \in Cells
      /\ \A i \in Nat : i < dp' => mem'[i] \in Cells
  BY DEF Keeps, Apart
<1>2. \A i \in rp..STACK_DEEP_SIZE - 1 : mem'[i] = mem[i]
  BY <1>1, StackPlaces DEF Keeps
<1>3. /\ rp \in 0..STACK_DEEP_SIZE - 1
      /\ \A i \in rp..STACK_DEEP_SIZE - 1 : mem[i] \in 0..Base
      /\ mem[STACK_DEEP_SIZE - 1] = NULL
  BY DEF Stacks
<1>4. dp' \in 0..rp' /\ rp' \in 0..STACK_DEEP_SIZE - 1
  BY <1>1, <1>3, StackPlaces
<1>5. \A i \in rp'..STACK_DEEP_SIZE - 1 : mem'[i] \in 0..Base'
  BY <1>2, <1>3, StackPlaces
<1>6. mem'[STACK_DEEP_SIZE - 1] = NULL /\ mem'[rp'] = mem[rp]
  BY <1>2, <1>3, StackPlaces
<1> QED
  BY <1>1, <1>4, <1>5, <1>6 DEF Stacks

\* So does one that drops cells, and finished cells stay so when there are more.
LEMMA StacksDrop ==
  ASSUME Stacks, Base \in Nat, Base' \in Nat, Base <= Base',
         rp' = rp, mem' = mem, dp' \in 0..dp, tos' \in Cells
  PROVE  Stacks' /\ mem'[rp'] = mem[rp]
<1>1. dp' \in Int /\ dp' <= dp /\ 0 <= dp'
  BY StackPlaces
<1>2. dp' \in 0..rp' /\ rp' \in 0..STACK_DEEP_SIZE - 1
  BY <1>1, StackPlaces
<1>3. \A i \in Nat : i < dp' => mem'[i] \in Cells
  BY <1>1, StackPlaces DEF Stacks
<1>4. \A i \in rp'..STACK_DEEP_SIZE - 1 : mem'[i] \in 0..Base'
  BY StackPlaces DEF Stacks
<1>5. mem' \in [Slots -> Int] /\ tos' \in Cells /\ mem'[STACK_DEEP_SIZE - 1] = NULL
  BY StackPlaces DEF Stacks
<1> QED
  BY <1>2, <1>3, <1>4, <1>5 DEF Stacks

\* Nor does one that only brings the session to an end.
LEMMA CompilerStops ==
  ASSUME Typed, Dictionary, Code, Control, UNCHANGED <<dict, code, cs, stray, source>>,
         state' \in States \ {"INTERPRET", "MACRO"}
  PROVE  Typed' /\ Dictionary' /\ Code' /\ Control' /\ Base' = Base
BY DEF Typed, Dictionary, Code, CellOK, Control, Fits, Place, Base, Opened

-----------------------------------------------------------------------------
(* One turn of the loop in macro_execute. *)

\* Words of the VM are not built-in ones.
LEMMA PrimitivesApart ==
  Primitives \cap (Wide \cup {"(NEXT)", "SYMBOL", "NUM", "ADDR"}) = {}
BY DEF Primitives, Moving, Indexed, Unary, Binary, FloatUnary, FloatBinary, FloatTests, Wide, Branches

\* What a running macro finds at pc and behind it.
LEMMA CellsAhead ==
  ASSUME Typed, Dictionary, Code, NEW i \in 1..Base
  PROVE  /\ code[i] \in CodeCell
         /\ code[i].op # "(NEXT)" => i + 1 \in 1..Base
         /\ code[i].op \in Wide =>
              /\ i + 2 \in 1..Base
              /\ code[i].op = "(DOLIT)" => code[i + 1].arg \in Cells
              /\ code[i].op # "(DOLIT)" => code[i + 1].op = "ADDR" /\ code[i + 1].arg \in 0..Base
         /\ code[i].op = "SYMBOL" =>
              LET s == code[i].arg IN
                /\ s \in 1..Len(dict) /\ ~dict[s].hidden
                /\ dict[s].type = "MACRO" => dict[s].value \in 1..Base
                /\ dict[s].type # "MACRO" => dict[s].value \in Cells
<1>1. /\ Base \in 0..Len(code) /\ Len(code) \in Nat /\ i \in 1..Len(code) /\ i + 1 \in Nat
      /\ code[i] \in CodeCell /\ CellOK(code, i)
      /\ Base > 0 /\ code[Base].op = "(NEXT)"
      /\ i + 1 <= Base => i + 1 \in 1..Len(code) /\ CellOK(code, i + 1)
  BY Basics DEF Code
<1>2. code[i].op # "(NEXT)" => i + 1 \in 1..Base
  BY <1>1
<1>3. ASSUME code[i].op \in Wide
      PROVE  /\ i + 2 \in 1..Base
             /\ code[i].op = "(DOLIT)" => code[i + 1].arg \in Cells
             /\ code[i].op # "(DOLIT)" => code[i + 1].op = "ADDR" /\ code[i + 1].arg \in 0..Base
  <2>1. code[i].op # "(NEXT)"
    BY <1>3 DEF Wide, Branches
  <2>2. /\ i + 1 \in 1..Base
        /\ code[i + 1].op = IF code[i].op = "(DOLIT)" THEN "NUM" ELSE "ADDR"
    BY <1>1, <1>2, <1>3, <2>1 DEF CellOK
  <2>3. i + 1 # Base
    BY <1>1, <2>2
  <2> QED
    BY <1>1, <2>2, <2>3 DEF CellOK
<1>4. ASSUME code[i].op = "SYMBOL", NEW s, s = code[i].arg
      PROVE  /\ s \in 1..Len(dict) /\ ~dict[s].hidden
             /\ dict[s].type = "MACRO" => dict[s].value \in 1..Base
             /\ dict[s].type # "MACRO" => dict[s].value \in Cells
  BY <1>1, <1>4 DEF CellOK, Dictionary
<1> QED
  BY <1>1, <1>2, <1>3, <1>4

\* A call puts a finished cell on the return stack.
LEMMA EnterStacks ==
  ASSUME Stacks, Base \in Nat, Base' = Base, Apart, NEW s, NEW next \in 0..Base, Enter(s, next)
  PROVE  Stacks' /\ rp' < STACK_DEEP_SIZE - 1 /\ pc' = dict[s].value
<1>1. mem' = [mem EXCEPT ![rp - 1] = next] /\ rp' = rp - 1 /\ dp' = dp /\ tos' = tos /\ pc' = dict[s].value
  BY DEF Enter, Jump
<1>2. rp - 1 \in 0..STACK_DEEP_SIZE - 1 /\ dp < rp - 1 /\ rp - 1 < STACK_DEEP_SIZE - 1
  BY StackPlaces DEF Apart
<1>3. mem' \in [Slots -> Int] /\ \A i \in Nat : i < dp => mem'[i] \in Cells
  BY <1>1, <1>2, StackPlaces DEF Stacks
<1>4. \A i \in (rp - 1)..STACK_DEEP_SIZE - 1 : mem'[i] \in 0..Base
  BY <1>1, <1>2, StackPlaces DEF Stacks
<1>5. mem'[STACK_DEEP_SIZE - 1] = NULL /\ tos \in Cells
  BY <1>1, <1>2, StackPlaces DEF Stacks
<1> QED
  BY <1>1, <1>2, <1>3, <1>4, <1>5, StackPlaces DEF Stacks

\* What the words of the VM itself take off the data stack.
LEMMA VMNeeds ==
  Needs("(0BRANCH)") = 1 /\ Needs("(FOR-NEXT)") = 1 /\ Needs("(LOOP)") = 2
<1>1. "(0BRANCH)" \notin Primitives /\ "(FOR-NEXT)" \notin Primitives /\ "(LOOP)" \notin Primitives
  BY PrimitivesApart DEF Wide, Branches
<1> QED
  BY <1>1 DEF Needs

\* The words that take cells off the data stack and go on or branch.
LEMMA Drops ==
  ASSUME Stacks, dp >= 1, Base \in Nat, Base' = Base, rp' = rp, Pop
  PROVE  Stacks' /\ mem'[rp'] = mem[rp]
<1>1. dp' \in 0..dp /\ tos' \in Cells /\ mem' = mem
  BY StackPlaces DEF Pop, Stacks
<1> QED
  BY <1>1, StacksDrop

LEMMA Counts ==
  ASSUME Stacks, dp >= Needs(code[pc].op), Base \in Nat, Base' = Base,
         \/ code[pc].op = "(FOR-NEXT)" /\ fp_do_for_next
         \/ code[pc].op = "(LOOP)" /\ fp_do_loop
  PROVE  Stacks' /\ mem'[rp'] = mem[rp] /\ rp' = rp /\ pc' \in {Operand, Next2}
<1>1. CASE code[pc].op = "(FOR-NEXT)" /\ fp_do_for_next
  <2>1. dp >= 1 /\ rp' = rp /\ pc' \in {Operand, Next2}
    BY <1>1, VMNeeds DEF fp_do_for_next, Jump
  <2>2. CASE Pop
    BY <2>1, <2>2, Drops
  <2>3. CASE ~Pop
    <3>1. tos' = Wrap(tos - 1) /\ mem' = mem /\ dp' = dp
      BY <1>1, <2>3 DEF fp_do_for_next
    <3> QED
      BY <2>1, <3>1, StacksDrop, StackPlaces, WrapIsCell
  <2> QED
    BY <2>2, <2>3
<1>2. CASE code[pc].op = "(LOOP)" /\ fp_do_loop
  <2>1. dp >= 2 /\ mem' = mem /\ rp' = rp /\ pc' \in {Operand, Next2}
    BY <1>2, VMNeeds DEF fp_do_loop, Jump
  <2>2. CASE Wrap(tos + 1) < nos
    <3>1. tos' = Wrap(tos + 1) /\ dp' = dp
      BY <1>2, <2>2 DEF fp_do_loop
    <3> QED
      BY <2>1, <3>1, StacksDrop, StackPlaces, WrapIsCell
  <2>3. CASE ~(Wrap(tos + 1) < nos)
    <3>1. tos' = mem[dp - 2] /\ dp' = dp - 2
      BY <1>2, <2>3 DEF fp_do_loop
    <3>2. tos' \in Cells /\ dp' \in 0..dp
      BY <2>1, <3>1, StackPlaces DEF Stacks
    <3> QED
      BY <2>1, <3>2, StacksDrop
  <2> QED
    BY <2>2, <2>3
<1> QED
  BY <1>1, <1>2

\* A branch whose operand nothing has filled in.
Unfilled(i) == code[i].op \in Wide /\ code[i + 1].op = "ADDR" /\ code[i + 1].arg = NULL

\* A turn leads to a finished cell, or ends the run: at a return, which then
\* has left NULL where the next one reads, or at a branch without a target.
LEMMA Turn ==
  ASSUME Typed, Dictionary, Code, Machine, Running, Execute, UNCHANGED compilerVars
  PROVE  Machine' /\ (pc' = NULL => mem'[rp'] = NULL \/ Unfilled(pc))
<1> DEFINE op == code[pc].op
<1>1. /\ Base \in Nat /\ Base' = Base /\ pc \in 1..Base /\ Stacks /\ state' = state
      /\ state \in {"INTERPRET", "INTERACTIVE"} /\ rp < STACK_DEEP_SIZE - 1
  BY Basics DEF Machine, Running, NULL, compilerVars, Base, Opened
<1>2. SUFFICES Stacks' /\ pc' \in 0..Base /\ (pc' # NULL => rp' < STACK_DEEP_SIZE - 1)
               /\ (pc' = NULL => mem'[rp'] = NULL \/ Unfilled(pc))
  BY <1>1 DEF Machine
<1>3. ASSUME op \in Wide PROVE Next2 \in 1..Base
  BY <1>1, <1>3, CellsAhead DEF Next2
<1>4. ASSUME op \in Wide, op # "(DOLIT)"
      PROVE  Operand \in 0..Base /\ (Operand = NULL => Unfilled(pc))
  BY <1>1, <1>4, CellsAhead DEF Operand, Unfilled
<1>5. CASE Executes("(0BRANCH)") /\ fp_0branch
  <2>1. op \in Wide /\ op # "(DOLIT)" /\ dp >= 1
    BY <1>5, VMNeeds DEF Executes, Able, Wide, Branches
  <2>2. rp' = rp /\ Pop /\ pc' \in {Operand, Next2}
    BY <1>5 DEF fp_0branch, Jump
  <2> QED
    BY <1>1, <1>3, <1>4, <2>1, <2>2, Drops DEF NULL
<1>6. CASE fp_branch /\ (Executes("(BRANCH)") \/ Executes("(LEAVE)"))
  <2>1. op \in Wide /\ op # "(DOLIT)"
    BY <1>6 DEF Executes, Wide, Branches
  <2>2. rp' = rp /\ mem' = mem /\ dp' = dp /\ tos' = tos /\ pc' = Operand
    BY <1>6 DEF fp_branch, Jump, stackVars
  <2>3. Stacks'
    BY <1>1, <2>2, StacksDrop, StackPlaces DEF Stacks
  <2> QED
    BY <1>1, <1>4, <2>1, <2>2, <2>3
<1>7. CASE Executes("(DOLIT)") /\ fp_doliteral
  <2>1. op \in Wide /\ op = "(DOLIT)" /\ Apart
    BY <1>7 DEF Executes, Able, Wide, Branches
  <2>2. Operand \in Cells
    BY <1>1, <2>1, CellsAhead DEF Operand
  <2>3. rp' = rp /\ Push(Operand) /\ pc' = Next2
    BY <1>7 DEF fp_doliteral, Jump
  <2>4. Keeps(Int)
    BY <1>1, <2>2, <2>3, PushKeeps, StackPlaces, CellsAreNumbers
  <2> QED
    BY <1>1, <1>3, <2>1, <2>3, <2>4, StacksKeep DEF NULL
<1>8. CASE \/ Executes("(FOR-NEXT)") /\ fp_do_for_next
           \/ Executes("(LOOP)") /\ fp_do_loop
  <2>1. op \in Wide /\ op # "(DOLIT)" /\ dp >= Needs(op)
    BY <1>8 DEF Executes, Able, Wide, Branches
  <2>2. Stacks' /\ mem'[rp'] = mem[rp] /\ rp' = rp /\ pc' \in {Operand, Next2}
    BY <1>1, <1>8, <2>1, Counts DEF Executes
  <2> QED
    BY <1>1, <1>3, <1>4, <2>1, <2>2 DEF NULL
<1>9. CASE Executes("(NEXT)") /\ fp_donext
  <2>1. rp' = rp + 1 /\ pc' = mem[rp + 1] /\ mem' = mem /\ dp' = dp /\ tos' = tos
    BY <1>9 DEF fp_donext, Jump, stackVars
  <2>2. pc' \in 0..Base /\ (pc' # NULL => rp' < STACK_DEEP_SIZE - 1)
    BY <1>1, <2>1, StackPlaces DEF Stacks
  <2>3. dp \in 0..rp' /\ rp' \in 0..STACK_DEEP_SIZE - 1
    BY <1>1, <2>1, StackPlaces
  <2>4. Stacks'
    BY <1>1, <2>1, <2>3, StackPlaces DEF Stacks
  <2> QED
    BY <2>1, <2>2, <2>4
<1>10. CASE Executes("SYMBOL") /\ symbol(code[pc].arg)
  <2> DEFINE s == code[pc].arg
  <2>1. op = "SYMBOL" /\ Apart /\ pc + 1 \in 1..Base
    BY <1>1, <1>10, CellsAhead DEF Executes, Able
  <2>2. /\ dict[s].type = "MACRO" => dict[s].value \in 1..Base
        /\ dict[s].type # "MACRO" => dict[s].value \in Cells
    BY <1>1, <2>1, CellsAhead
  <2>3. CASE dict[s].type = "MACRO"
    <3>1. Enter(s, pc + 1)
      BY <1>10, <2>3 DEF symbol
    <3> QED
      BY <1>1, <2>1, <2>2, <2>3, <3>1, EnterStacks DEF NULL
  <2>4. CASE dict[s].type # "MACRO"
    <3>1. Push(dict[s].value) /\ pc' = pc + 1 /\ rp' = rp
      BY <1>10, <2>4 DEF symbol, Jump
    <3>2. Keeps(Int)
      BY <1>1, <2>2, <2>4, <3>1, PushKeeps, StackPlaces, CellsAreNumbers
    <3> QED
      BY <1>1, <2>1, <3>1, <3>2, StacksKeep DEF NULL
  <2> QED
    BY <2>3, <2>4
<1>11. CASE \E w \in Uses \cap Primitives : Executes(w) /\ primitive(w)
  <2>1. PICK w \in Primitives : Executes(w) /\ primitive(w)
    BY <1>11
  <2>2. op = w /\ dp >= Operands(w) /\ ~Fatal(w) /\ Apart
    <3>1. w \notin {"(0BRANCH)", "(FOR-NEXT)", "(LOOP)"}
      BY PrimitivesApart DEF Wide, Branches
    <3> QED
      BY <2>1, <3>1 DEF Executes, Able, Needs
  <2>3. pc + 1 \in 1..Base
    BY <1>1, <2>2, CellsAhead, PrimitivesApart
  <2>4. Primitive(w) /\ pc' = pc + 1 /\ rp' = rp
    BY <2>1 DEF primitive, Jump
  <2>5. Keeps(Int)
    BY <1>1, <2>2, <2>4, PrimitiveKeeps, StackPlaces, CellsAreNumbers
  <2> QED
    BY <1>1, <2>2, <2>3, <2>4, <2>5, StacksKeep DEF NULL
<1> QED
  BY <1>5, <1>6, <1>7, <1>8, <1>9, <1>10, <1>11 DEF Execute

-----------------------------------------------------------------------------
(* Words that the interpreter takes. *)

\* A set of numbers has a least one.
LEMMA Least ==
  ASSUME NEW T, T \subseteq Nat, T # {}
  PROVE  \E x \in T : \A y \in T : x <= y
<1>1. PICK x \in T : \A y \in T : ~(<<y, x>> \in OpToRel(<, Nat))
  BY NatLessThanWellFounded, WFMin
<1>2. ASSUME NEW y \in T PROVE x <= y
  <2>1. ~(y < x)
    BY <1>1, <1>2 DEF OpToRel
  <2> QED
    BY <2>1
<1> QED
  BY <1>2

\* A name that is found is a visible symbol.
LEMMA NewestIsVisible ==
  ASSUME Typed, Dictionary, NEW name, Visible(name) # {}
  PROVE  Newest(name) \in Visible(name)
<1> DEFINE T == {Len(dict) - s : s \in Visible(name)}
<1>1. Visible(name) \subseteq 1..Len(dict) /\ Len(dict) \in Nat
  BY Basics DEF Visible
<1>2. T \subseteq Nat /\ T # {}
  BY <1>1
<1>3. PICK x \in T : \A y \in T : x <= y
  BY <1>2, Least
<1>4. PICK s \in Visible(name) : x = Len(dict) - s
  BY <1>3
<1>5. ASSUME NEW t \in Visible(name) PROVE t <= s
  <2>1. x <= Len(dict) - t
    BY <1>3
  <2> QED
    BY <1>1, <1>4, <2>1
<1> QED
  BY <1>5 DEF Newest

\* A visible symbol leads to a finished cell or holds a number.
LEMMA VisibleSymbols ==
  ASSUME Typed, Dictionary, NEW name, NEW s \in Visible(name)
  PROVE  /\ s \in 1..Len(dict) /\ ~dict[s].hidden
         /\ dict[s].type = "MACRO" => dict[s].value \in 1..Base
         /\ dict[s].type # "MACRO" => dict[s].value \in Cells
BY Basics DEF Visible, Dictionary

\* A word in the file or at the prompt keeps the machine sound; unless it
\* starts a macro, the cell that a return will read stays NULL.
LEMMA Interprets ==
  ASSUME Typed, Dictionary, Code, Machine, Interpret
  PROVE  /\ UNCHANGED compilerVars /\ pc = NULL /\ Machine'
         /\ pc' = NULL => mem'[rp'] \in {NULL, mem[rp]}
<1>1. Reads
  BY DEF Interpret, TypeName, TypePrimitive, TypeNumber, forth_clear, Types
<1>2. /\ UNCHANGED compilerVars /\ pc = NULL /\ Base \in Nat /\ Base' = Base /\ Stacks
      /\ state' = state /\ state \in {"INTERPRET", "INTERACTIVE"}
  BY <1>1, Basics, CompilerSame DEF Reads, Interpreting, Machine, compilerVars, Base, Opened
<1>3. SUFFICES /\ Stacks' /\ pc' \in 0..Base /\ (pc' # NULL => rp' < STACK_DEEP_SIZE - 1)
               /\ pc' = NULL => mem'[rp'] \in {NULL, mem[rp]}
  BY <1>2 DEF Machine
<1>4. ASSUME Keeps(Int), Apart, UNCHANGED vmVars
      PROVE  /\ Stacks' /\ pc' \in 0..Base /\ (pc' # NULL => rp' < STACK_DEEP_SIZE - 1)
             /\ mem'[rp'] = mem[rp]
  BY <1>2, <1>4, StacksKeep DEF vmVars, NULL
<1>5. CASE \E name \in Names : TypeName(name)
  <2>1. PICK name \in Names : TypeName(name)
    BY <1>5
  <2> DEFINE s == Newest(name)
  <2>2. Apart /\ s \in Visible(name)
    BY <2>1, NewestIsVisible DEF TypeName, Types, Finds
  <2>3. CASE dict[s].type = "MACRO"
    <3>1. Enter(s, NULL) /\ dict[s].value \in 1..Base
      BY <2>1, <2>2, <2>3, VisibleSymbols DEF TypeName
    <3> QED
      BY <1>2, <2>2, <3>1, EnterStacks DEF NULL
  <2>4. CASE dict[s].type # "MACRO"
    <3>1. Push(dict[s].value) /\ UNCHANGED vmVars /\ dict[s].value \in Cells
      BY <2>1, <2>2, <2>4, VisibleSymbols DEF TypeName
    <3> QED
      BY <1>2, <1>4, <2>2, <3>1, PushKeeps, StackPlaces, CellsAreNumbers
  <2> QED
    BY <2>3, <2>4
<1>6. CASE \E w \in Uses \cap Primitives : TypePrimitive(w)
  <2>1. PICK w \in Primitives : TypePrimitive(w)
    BY <1>6
  <2>2. Apart /\ dp >= Operands(w) /\ ~Fatal(w) /\ Primitive(w) /\ UNCHANGED vmVars
    BY <2>1 DEF TypePrimitive, Types
  <2> QED
    BY <1>2, <1>4, <2>2, PrimitiveKeeps, StackPlaces, CellsAreNumbers
<1>7. CASE \E n \in Numbers : TypeNumber(n)
  <2>1. PICK n \in Cells : Apart /\ Push(n) /\ UNCHANGED vmVars
    BY <1>7, NumbersAssumption DEF TypeNumber, Types
  <2> QED
    BY <1>2, <1>4, <2>1, PushKeeps, StackPlaces, CellsAreNumbers
<1>8. CASE forth_clear
  <2>1. mem' = mem /\ tos' = tos /\ pc' = pc /\ dp' = 0 /\ rp' = STACK_DEEP_SIZE - 1
    BY <1>8 DEF forth_clear
  <2>2. mem[STACK_DEEP_SIZE - 1] = NULL
    BY <1>2 DEF Stacks
  <2>3. \A i \in rp'..STACK_DEEP_SIZE - 1 : mem'[i] \in 0..Base
    BY <1>2, <2>1, <2>2, StackPlaces DEF NULL
  <2>4. Stacks'
    BY <1>2, <2>1, <2>2, <2>3, StackPlaces DEF Stacks
  <2> QED
    BY <1>2, <2>1, <2>2, <2>4 DEF NULL
<1> QED
  BY <1>5, <1>6, <1>7, <1>8 DEF Interpret

-----------------------------------------------------------------------------
(* Words of a macro's body. *)

\* The cells that such a word may leave: those of the finished macros are the
\* same, every one is sound, and none became a number but at the end.
WellFormed(nodes) ==
  /\ nodes \in Seq(CodeCell) /\ Len(code) <= Len(nodes)
  /\ \A i \in 1..Base : nodes[i] = code[i]
  /\ \A i \in 1..Len(nodes) : CellOK(nodes, i)
  /\ \A i \in 1..Len(code) + 1 :
       i <= Len(nodes) /\ nodes[i].op = "NUM" => i <= Len(code) /\ code[i].op = "NUM"

\* Cells that are not touched.
LEMMA NoCell ==
  ASSUME Typed, Dictionary, Code
  PROVE  WellFormed(code)
BY Basics DEF WellFormed, Code, Typed

\* A name or a primitive.
LEMMA OneCell ==
  ASSUME Typed, Dictionary, Code, Opened, NEW c \in CodeCell,
         c.op \notin Wide \cup {"(NEXT)", "NUM", "ADDR"},
         c.op = "SYMBOL" => c.arg \in 1..Len(dict) /\ ~dict[c.arg].hidden
  PROVE  /\ WellFormed(Append(code, c))
         /\ \A i \in 1..Len(Append(code, c)) :
              Append(code, c)[i].op = "ADDR" => i <= Len(code) /\ Append(code, c)[i] = code[i]
<1> DEFINE nodes == Append(code, c)
<1>1. /\ code \in Seq(CodeCell) /\ Len(code) \in Nat /\ Base \in 0..Len(code)
      /\ \A i \in 1..Len(code) : code[i] \in CodeCell /\ CellOK(code, i)
  BY Basics DEF Code, Typed
<1>2. /\ nodes \in Seq(CodeCell) /\ Len(nodes) = Len(code) + 1 /\ nodes[Len(code) + 1] = c
      /\ \A i \in 1..Len(code) : nodes[i] = code[i]
  BY <1>1
<1> HIDE DEF nodes
<1>3. ASSUME NEW i \in 1..Len(code) PROVE CellOK(nodes, i)
  <2>1. CellOK(code, i) /\ nodes[i] = code[i] /\ i \in Nat
    BY <1>1, <1>2
  <2>2. i < Len(code) => i < Len(nodes) /\ nodes[i + 1] = code[i + 1]
    BY <1>1, <1>2
  <2>3. 0..Len(code) + 1 \subseteq 0..Len(nodes) + 1
    BY <1>1, <1>2
  <2> QED
    BY <2>1, <2>2, <2>3 DEF CellOK
<1>4. CellOK(nodes, Len(code) + 1)
  BY <1>1, <1>2 DEF CellOK
<1>5. WellFormed(nodes)
  BY <1>1, <1>2, <1>3, <1>4 DEF WellFormed
<1> QED
  BY <1>1, <1>2, <1>5 DEF nodes

\* An instruction and its operand.
LEMMA TwoCells ==
  ASSUME Typed, Dictionary, Code, Opened, NEW nodes \in Seq(CodeCell),
         Len(nodes) = Len(code) + 2,
         \A i \in 1..Len(code) : nodes[i] = code[i],
         nodes[Len(code) + 1].op \in Wide,
         nodes[Len(code) + 2].op = IF nodes[Len(code) + 1].op = "(DOLIT)" THEN "NUM" ELSE "ADDR",
         nodes[Len(code) + 2].op = "NUM" => nodes[Len(code) + 2].arg \in Cells,
         nodes[Len(code) + 2].op = "ADDR" => nodes[Len(code) + 2].arg \in 0..Len(code) + 3
  PROVE  WellFormed(nodes)
<1> DEFINE c == nodes[Len(code) + 2]
           op == nodes[Len(code) + 1].op
<1>1. /\ Len(code) \in Nat /\ Base \in 0..Len(code) /\ Len(nodes) \in Nat /\ Len(code) <= Len(nodes)
      /\ \A i \in 1..Len(code) : CellOK(code, i)
      /\ \A i \in 1..Len(nodes) : i \in 1..Len(code) \/ i = Len(code) + 1 \/ i = Len(code) + 2
  BY Basics DEF Code
<1>2. ASSUME NEW i \in 1..Len(code) PROVE CellOK(nodes, i)
  BY <1>1 DEF CellOK
<1>3. op \notin {"(NEXT)", "NUM", "ADDR", "SYMBOL"} /\ c.op \notin Wide \cup {"(NEXT)", "SYMBOL"}
  BY DEF Wide, Branches
<1>4. CellOK(nodes, Len(code) + 1) /\ CellOK(nodes, Len(code) + 2)
  BY <1>1, <1>3 DEF CellOK
<1>5. \A i \in 1..Len(nodes) : CellOK(nodes, i)
  BY <1>1, <1>2, <1>4
<1>6. \A i \in 1..Base : nodes[i] = code[i]
  BY <1>1
<1>7. \A i \in 1..Len(code) + 1 :
        i <= Len(nodes) /\ nodes[i].op = "NUM" => i <= Len(code) /\ code[i].op = "NUM"
  BY <1>1, <1>3
<1> QED
  BY <1>1, <1>5, <1>6, <1>7 DEF WellFormed

\* An operand that is filled in, or the first cell of a loop that UNTIL takes
\* for one; past the end the code would write where the next cell goes.
Filled(nodes, i, t) == [nodes EXCEPT ![i] = Addr(t)]

LEMMA FilledCells ==
  ASSUME Typed, Dictionary, Code, Opened, NEW before, WellFormed(before),
         NEW p \in Nat, Place(before, p), NEW t \in 0..Len(before) + 1
  PROVE  /\ WellFormed(Filled(before, p, t))
         /\ Len(Filled(before, p, t)) = Len(before)
         /\ p <= Len(before) => Filled(before, p, t)[p] = Addr(t)
         /\ \A i \in 1..Len(before) : i # p => Filled(before, p, t)[i] = before[i]
<1> DEFINE nodes == Filled(before, p, t)
<1> HIDE DEF nodes
<1>1. /\ before \in Seq(CodeCell) /\ Len(code) \in Nat /\ Base \in 0..Len(code) /\ Len(before) \in Nat
      /\ Len(code) <= Len(before)
      /\ \A i \in 1..Len(before) : before[i] \in CodeCell /\ CellOK(before, i)
  BY Basics DEF WellFormed
<1>2. Addr(t) \in CodeCell /\ Addr(t).op = "ADDR" /\ Addr(t).arg = t
  BY <1>1 DEF CodeCell, Cell, Addr
<1>3. /\ nodes \in Seq(CodeCell) /\ Len(nodes) = Len(before)
      /\ p \in 1..Len(before) => nodes[p] = Addr(t)
      /\ \A i \in 1..Len(before) : i # p => nodes[i] = before[i]
  <2>1. DOMAIN before = 1..Len(before) /\ before \in [1..Len(before) -> CodeCell]
    BY <1>1
  <2>2. nodes \in [1..Len(before) -> CodeCell]
    BY <1>2, <2>1 DEF nodes, Filled
  <2>3. nodes \in Seq(CodeCell) /\ DOMAIN nodes = 1..Len(before)
    BY <1>1, <2>2
  <2>4. Len(nodes) = Len(before)
    BY <1>1, <2>3
  <2> QED
    BY <2>1, <2>3, <2>4 DEF nodes, Filled
<1>4. p \in Base + 1..Len(before) + 1 /\ p \in Nat /\ (p <= Len(before) => before[p].op # "NUM")
  BY <1>1 DEF Place
<1>5. ASSUME NEW i \in 1..Len(nodes), i # p PROVE CellOK(nodes, i)
  <2>1. nodes[i] = before[i] /\ CellOK(before, i)
    BY <1>1, <1>3, <1>5
  <2>2. i + 1 = p /\ i < Len(nodes) => before[i + 1].op # "NUM" /\ nodes[i + 1].op = "ADDR"
    BY <1>1, <1>2, <1>3, <1>4
  <2>3. i + 1 # p /\ i < Len(nodes) => nodes[i + 1] = before[i + 1]
    BY <1>1, <1>3
  <2> QED
    BY <1>1, <1>3, <2>1, <2>2, <2>3 DEF CellOK
<1>6. p <= Len(nodes) => CellOK(nodes, p)
  <2>1. "ADDR" \notin Wide
    BY DEF Wide, Branches
  <2> QED
    BY <1>1, <1>2, <1>3, <1>4, <2>1 DEF CellOK
<1>7. ASSUME NEW i \in 1..Len(nodes) PROVE CellOK(nodes, i)
  <2>1. CASE i = p
    BY <1>1, <1>3, <1>6, <2>1
  <2>2. CASE i # p
    BY <1>5, <2>2
  <2> QED
    BY <2>1, <2>2
<1>8. \A i \in 1..Base : nodes[i] = code[i]
  BY <1>1, <1>3, <1>4 DEF WellFormed
<1>9. \A i \in 1..Len(code) + 1 :
        i <= Len(nodes) /\ nodes[i].op = "NUM" => i <= Len(code) /\ code[i].op = "NUM"
  BY <1>1, <1>2, <1>3, <1>4 DEF WellFormed
<1>10. WellFormed(nodes)
  <2>1. nodes \in Seq(CodeCell) /\ Len(code) <= Len(nodes)
    BY <1>1, <1>3
  <2> QED
    BY <1>7, <1>8, <1>9, <2>1 DEF WellFormed
<1>11. p <= Len(before) => nodes[p] = Addr(t)
  BY <1>1, <1>3, <1>4
<1> QED
  BY <1>3, <1>10, <1>11 DEF nodes

\* The control entries still fit the cells that a word leaves.
LEMMA FitsStays ==
  ASSUME Typed, Dictionary, Code, Control, NEW nodes, WellFormed(nodes)
  PROVE  Fits(nodes, cs)
<1> SUFFICES ASSUME NEW k \in 1..Len(cs) PROVE Place(nodes, cs[k].pos)
  BY DEF Fits, Control
<1>1. /\ Len(code) \in Nat /\ Len(nodes) \in Nat /\ Len(code) <= Len(nodes)
      /\ Base \in 0..Len(code) /\ Place(code, cs[k].pos)
  BY Basics DEF WellFormed, Control, Fits
<1>2. cs[k].pos \in 1..Len(code) + 1 /\ cs[k].pos \in Base + 1..Len(nodes) + 1
  BY <1>1 DEF Place
<1>3. cs[k].pos <= Len(nodes) => nodes[cs[k].pos].op # "NUM"
  BY <1>1, <1>2 DEF Place, WellFormed
<1> QED
  BY <1>2, <1>3 DEF Place

\* A new entry, one that is gone, and one that got another position.
LEMMA PushedFits ==
  ASSUME cs \in Seq(Entry), NEW nodes, Fits(nodes, cs),
         NEW id \in {"IF", "BEGIN", "WHILE", "DO", "FOR"}, id = "WHILE" => Matches("BEGIN"),
         NEW pos \in Nat, Place(nodes, pos)
  PROVE  Pushed(id, pos) \in Seq(Entry) /\ Fits(nodes, Pushed(id, pos))
<1> DEFINE e == [id |-> id, pos |-> pos]
           entries == Pushed(id, pos)
<1>1. e \in Entry /\ e.id = id /\ Len(cs) \in Nat
  BY DEF Entry
<1>2. /\ entries \in Seq(Entry) /\ Len(entries) = Len(cs) + 1 /\ entries[Len(cs) + 1] = e
      /\ \A k \in 1..Len(cs) : entries[k] = cs[k]
  BY <1>1 DEF Pushed
<1>3. id = "WHILE" => Len(cs) >= 1 /\ cs[Len(cs)].id = "BEGIN"
  BY <1>1 DEF Matches, Top
<1> HIDE DEF e, entries
<1>4. ASSUME NEW k \in 1..Len(entries)
      PROVE  /\ Place(nodes, entries[k].pos)
             /\ entries[k].id = "WHILE" => k > 1 /\ entries[k - 1].id = "BEGIN"
  <2>1. CASE k = Len(cs) + 1
    BY <1>1, <1>2, <1>3, <2>1 DEF e
  <2>2. CASE k # Len(cs) + 1
    <3>1. k \in 1..Len(cs) /\ entries[k] = cs[k]
      BY <1>1, <1>2, <2>2
    <3>2. k > 1 => entries[k - 1] = cs[k - 1]
      BY <1>1, <1>2, <3>1
    <3> QED
      BY <3>1, <3>2 DEF Fits
  <2> QED
    BY <2>1, <2>2
<1>5. Fits(nodes, entries)
  BY <1>4 DEF Fits
<1> QED
  BY <1>2, <1>5 DEF entries

LEMMA DroppedFits ==
  ASSUME cs \in Seq(Entry), NEW nodes, Fits(nodes, cs), NEW n \in {1, 2}, n <= Len(cs)
  PROVE  /\ Dropped(n) \in Seq(Entry) /\ Fits(nodes, Dropped(n))
         /\ Len(Dropped(n)) = Len(cs) - n
         /\ \A k \in 1..Len(cs) - n : Dropped(n)[k] = cs[k]
<1> DEFINE entries == Dropped(n)
<1>1. /\ Len(cs) \in Nat /\ entries \in Seq(Entry) /\ Len(entries) = Len(cs) - n
      /\ \A k \in 1..Len(cs) - n : entries[k] = cs[k]
  BY DEF Dropped
<1> HIDE DEF entries
<1>2. ASSUME NEW k \in 1..Len(entries)
      PROVE  /\ Place(nodes, entries[k].pos)
             /\ entries[k].id = "WHILE" => k > 1 /\ entries[k - 1].id = "BEGIN"
  <2>1. k \in 1..Len(cs) /\ entries[k] = cs[k] /\ (k > 1 => entries[k - 1] = cs[k - 1])
    BY <1>1
  <2> QED
    BY <2>1 DEF Fits
<1>3. Fits(nodes, entries)
  BY <1>2 DEF Fits
<1> QED
  BY <1>1, <1>3 DEF entries

LEMMA ReplacedFits ==
  ASSUME cs \in Seq(Entry), cs # <<>>, NEW nodes, Fits(nodes, cs),
         NEW pos \in Nat, Place(nodes, pos),
         NEW entries, entries = [cs EXCEPT ![Len(cs)].pos = pos]
  PROVE  entries \in Seq(Entry) /\ Fits(nodes, entries)
<1>1. /\ Len(cs) \in Nat \ {0} /\ DOMAIN cs = 1..Len(cs) /\ cs \in [1..Len(cs) -> Entry] /\ Top \in Entry
  BY DEF Top
<1>2. entries[Len(cs)] = [id |-> Top.id, pos |-> pos] /\ entries[Len(cs)] \in Entry
  BY <1>1 DEF Entry, Top
<1>3. /\ DOMAIN entries = 1..Len(cs)
      /\ \A k \in 1..Len(cs) : k # Len(cs) => entries[k] = cs[k]
  BY <1>1
<1>4. entries \in [1..Len(cs) -> Entry]
  BY <1>1, <1>2, <1>3
<1>5. entries \in Seq(Entry) /\ Len(entries) = Len(cs)
  BY <1>1, <1>4
<1>6. ASSUME NEW k \in 1..Len(entries)
      PROVE  /\ Place(nodes, entries[k].pos)
             /\ entries[k].id = "WHILE" => k > 1 /\ entries[k - 1].id = "BEGIN"
  <2>1. entries[k].id = cs[k].id
    BY <1>1, <1>2, <1>3, <1>5 DEF Top
  <2>2. k > 1 => entries[k - 1] = cs[k - 1]
    BY <1>1, <1>3, <1>5
  <2>3. Place(nodes, entries[k].pos)
    BY <1>1, <1>2, <1>3, <1>5 DEF Fits
  <2> QED
    BY <1>5, <2>1, <2>2, <2>3 DEF Fits
<1>7. Fits(nodes, entries)
  BY <1>6 DEF Fits
<1> QED
  BY <1>5, <1>7

\* An operand without a target.
Zero(nodes, i) == i \in 1..Len(nodes) /\ nodes[i].op = "ADDR" /\ nodes[i].arg = NULL

\* What a word of the body makes of the cells and of the control entries.
Shaped ==
  /\ WellFormed(code')
  /\ cs' \in Seq(Entry) /\ Fits(code', cs')

LEMMA BodyFacts ==
  ASSUME Typed, Dictionary, Code, Control
  PROVE  /\ Len(code) \in Nat /\ Base \in 0..Len(code) /\ here = Len(code) + 1
         /\ cs \in Seq(Entry) /\ Len(cs) \in Nat
         /\ WellFormed(code) /\ Fits(code, cs)
         /\ cs # <<>> => /\ Len(cs) >= 1 /\ Top = cs[Len(cs)] /\ Top \in Entry
                         /\ Place(code, Top.pos) /\ Top.pos \in 1..Len(code) + 1
<1>1. /\ Len(code) \in Nat /\ Base \in 0..Len(code) /\ here = Len(code) + 1
      /\ cs \in Seq(Entry) /\ Len(cs) \in Nat
      /\ WellFormed(code) /\ Fits(code, cs)
  BY Basics, NoCell DEF here, Typed, Control
<1>2. ASSUME cs # <<>>
      PROVE  /\ Len(cs) >= 1 /\ Top = cs[Len(cs)] /\ Top \in Entry
             /\ Place(code, Top.pos) /\ Top.pos \in 1..Len(code) + 1
  <2>1. Len(cs) \in 1..Len(cs) /\ Top = cs[Len(cs)]
    BY <1>1, <1>2 DEF Top
  <2> QED
    BY <1>1, <2>1 DEF Fits, Place
<1> QED
  BY <1>1, <1>2

\* A branch word and its operand, known or not.
LEMMA BranchCells ==
  ASSUME Typed, Dictionary, Code, Control, Opened,
         NEW op \in Wide \ {"(DOLIT)"}, NEW pos \in 0..Len(code) + 3,
         NEW nodes, nodes = BranchTo(op, pos)
  PROVE  /\ WellFormed(nodes) /\ Fits(nodes, cs) /\ Len(nodes) = Len(code) + 2
         /\ nodes[Len(code) + 1].op \notin {"NUM", "ADDR"}
         /\ nodes[Len(code) + 2].op = "ADDR" /\ nodes[Len(code) + 2].arg = pos
         /\ \A i \in 1..Len(code) : nodes[i] = code[i]
<1>1. /\ Addr(pos) \in CodeCell /\ Addr(pos).op = "ADDR" /\ Addr(pos).arg = pos
      /\ Cell(op, 0) \in CodeCell /\ Cell(op, 0).op = op
      /\ op \notin {"NUM", "ADDR"} /\ op # "(DOLIT)" /\ op \in Wide
      /\ code \in Seq(CodeCell) /\ Len(code) \in Nat
  BY Basics DEF CodeCell, Addr, Cell, Wide, Branches, Typed
<1>2. nodes = code \o <<Cell(op, 0), Addr(pos)>>
  BY DEF BranchTo
<1>3. /\ nodes \in Seq(CodeCell) /\ Len(nodes) = Len(code) + 2
      /\ nodes[Len(code) + 1] = Cell(op, 0) /\ nodes[Len(code) + 2] = Addr(pos)
      /\ \A i \in 1..Len(code) : nodes[i] = code[i]
  BY <1>1, <1>2
<1>4. WellFormed(nodes)
  BY <1>1, <1>3, TwoCells
<1> QED
  BY <1>1, <1>3, <1>4, FitsStays

\* Without LEAVE no operand loses the entry that remembers it.
LEMMA HeldPushed ==
  ASSUME cs \in Seq(Entry), Held(code, cs), NEW nodes, NEW id, NEW pos \in Nat,
         \A i \in 1..Len(nodes) :
           Zero(nodes, i) => Zero(code, i) \/ (i = pos /\ id \in {"IF", "WHILE"})
  PROVE  Held(nodes, Pushed(id, pos))
<1> DEFINE entries == Pushed(id, pos)
<1>1. /\ Len(cs) \in Nat /\ Len(entries) = Len(cs) + 1
      /\ entries[Len(cs) + 1] = [id |-> id, pos |-> pos]
      /\ \A k \in 1..Len(cs) : entries[k] = cs[k]
  BY DEF Pushed
<1> HIDE DEF entries
<1>2. ASSUME NEW i \in 1..Len(nodes), Zero(nodes, i)
      PROVE  \E k \in 1..Len(entries) : entries[k].id \in {"IF", "WHILE"} /\ entries[k].pos = i
  <2>1. CASE Zero(code, i)
    <3>1. PICK k \in 1..Len(cs) : cs[k].id \in {"IF", "WHILE"} /\ cs[k].pos = i
      BY <2>1 DEF Held, Zero
    <3> QED
      BY <1>1, <3>1
  <2>2. CASE i = pos /\ id \in {"IF", "WHILE"}
    BY <1>1, <2>2
  <2> QED
    BY <1>2, <2>1, <2>2
<1>3. Held(nodes, entries)
  BY <1>2 DEF Held, Zero
<1> QED
  BY <1>3 DEF entries

LEMMA HeldDropped ==
  ASSUME cs \in Seq(Entry), cs # <<>>, Held(code, cs), NEW nodes,
         NEW n \in {1, 2}, n <= Len(cs),
         n = 2 => cs[Len(cs) - 1].id = "BEGIN",
         Fits(code, cs),
         \A i \in 1..Len(nodes) :
           Zero(nodes, i) => Zero(code, i) /\ (i # Top.pos \/ Top.id \notin {"IF", "WHILE"})
  PROVE  Held(nodes, Dropped(n))
<1>1. /\ Len(cs) \in Nat /\ Len(Dropped(n)) = Len(cs) - n
      /\ \A k \in 1..Len(cs) - n : Dropped(n)[k] = cs[k]
  BY DroppedFits
<1>2. ASSUME NEW i \in 1..Len(nodes), Zero(nodes, i)
      PROVE  \E k \in 1..Len(Dropped(n)) : Dropped(n)[k].id \in {"IF", "WHILE"} /\ Dropped(n)[k].pos = i
  <2>1. PICK k \in 1..Len(cs) : cs[k].id \in {"IF", "WHILE"} /\ cs[k].pos = i
    BY <1>2 DEF Held, Zero
  <2>2. k # Len(cs)
    BY <1>2, <2>1 DEF Top
  <2>3. n = 2 => k # Len(cs) - 1
    BY <2>1
  <2>4. k \in 1..Len(cs) - n
    BY <1>1, <2>2, <2>3
  <2> QED
    BY <1>1, <2>1, <2>4
<1> QED
  BY <1>2 DEF Held, Zero

LEMMA HeldSame ==
  ASSUME Held(code, cs), NEW nodes, \A i \in 1..Len(nodes) : Zero(nodes, i) => Zero(code, i)
  PROVE  Held(nodes, cs)
BY DEF Held, Zero

\* IF and WHILE remember the operand that they leave open.
LEMMA OpeningShapes ==
  ASSUME Typed, Dictionary, Code, Control, Opened, cfp_if \/ cfp_while
  PROVE  Shaped /\ (Held(code, cs) => Held(code', cs'))
<1>1. PICK nodes : nodes = BranchTo("(0BRANCH)", 0)
  OBVIOUS
<1>2. PICK id \in {"IF", "WHILE"} :
        code' = nodes /\ cs' = Pushed(id, here + 1) /\ (id = "WHILE" => Matches("BEGIN"))
  BY <1>1 DEF cfp_if, cfp_while, Hole, NULL
<1>3. "(0BRANCH)" \in Wide \ {"(DOLIT)"} /\ 0 \in 0..Len(code) + 3
  BY BodyFacts DEF Wide, Branches
<1>4. /\ WellFormed(nodes) /\ Fits(nodes, cs) /\ Len(nodes) = Len(code) + 2
      /\ nodes[Len(code) + 1].op \notin {"NUM", "ADDR"} /\ nodes[Len(code) + 2].op = "ADDR"
      /\ \A i \in 1..Len(code) : nodes[i] = code[i]
  BY <1>1, <1>3, BranchCells
<1>5. Place(nodes, here + 1) /\ here + 1 \in Nat
  BY <1>4, BodyFacts DEF Place
<1>6. Pushed(id, here + 1) \in Seq(Entry) /\ Fits(nodes, Pushed(id, here + 1))
  BY <1>2, <1>4, <1>5, BodyFacts, PushedFits
<1>7. ASSUME Held(code, cs) PROVE Held(nodes, Pushed(id, here + 1))
  <2>1. \A i \in 1..Len(nodes) : Zero(nodes, i) => Zero(code, i) \/ i = here + 1
    BY <1>4, BodyFacts DEF Zero
  <2> QED
    BY <1>5, <1>7, <2>1, BodyFacts, HeldPushed
<1> QED
  BY <1>2, <1>4, <1>6, <1>7 DEF Shaped

\* BEGIN, DO and FOR.
LEMMA MarkShapes ==
  ASSUME Typed, Dictionary, Code, Control, Opened, NEW id \in {"BEGIN", "DO", "FOR"}, Mark(id)
  PROVE  Shaped /\ (Held(code, cs) => Held(code', cs'))
<1>1. code' = code /\ cs' = Pushed(id, here)
  BY DEF Mark
<1>2. Place(code, here) /\ here \in Nat
  BY BodyFacts DEF Place
<1>3. Pushed(id, here) \in Seq(Entry) /\ Fits(code, Pushed(id, here))
  BY <1>2, BodyFacts, PushedFits
<1>4. Held(code, cs) => Held(code, Pushed(id, here))
  BY <1>2, BodyFacts, HeldPushed
<1> QED
  BY <1>1, <1>3, <1>4, BodyFacts DEF Shaped

\* THEN fills the operand and forgets it.
LEMMA ThenShapes ==
  ASSUME Typed, Dictionary, Code, Control, Opened, cfp_endif
  PROVE  Shaped /\ (Held(code, cs) => Held(code', cs'))
<1>1. PICK nodes : nodes = Filled(code, Top.pos, here)
  OBVIOUS
<1>2. code' = nodes /\ cs' = Dropped(1) /\ cs # <<>>
  BY <1>1 DEF cfp_endif, Matches, Filled
<1>3. here \in 0..Len(code) + 1 /\ 1 <= Len(cs) /\ Len(cs) \in Nat
  BY <1>2, BodyFacts
<1>4. /\ WellFormed(nodes) /\ Len(nodes) = Len(code)
      /\ Top.pos <= Len(code) => nodes[Top.pos] = Addr(here)
      /\ \A i \in 1..Len(code) : i # Top.pos => nodes[i] = code[i]
  BY <1>1, <1>2, <1>3, BodyFacts, FilledCells
<1>5. Dropped(1) \in Seq(Entry) /\ Fits(nodes, Dropped(1))
  BY <1>3, <1>4, BodyFacts, FitsStays, DroppedFits
<1>6. ASSUME Held(code, cs) PROVE Held(nodes, Dropped(1))
  <2>1. \A i \in 1..Len(nodes) : Zero(nodes, i) => Zero(code, i) /\ i # Top.pos
    BY <1>2, <1>4, BodyFacts DEF Zero, Addr, Cell, NULL
  <2> QED
    BY <1>2, <1>3, <1>6, <2>1, BodyFacts, HeldDropped
<1> QED
  BY <1>2, <1>4, <1>5, <1>6 DEF Shaped

\* LOOP and NEXT go back to where their loop stands.
LEMMA LoopShapes ==
  ASSUME Typed, Dictionary, Code, Control, Opened, cfp_loop \/ cfp_next
  PROVE  Shaped /\ (Held(code, cs) => Held(code', cs'))
<1>1. PICK op \in {"(LOOP)", "(FOR-NEXT)"} :
        /\ code' = BranchTo(op, Top.pos) /\ cs' = Dropped(1) /\ cs # <<>>
        /\ Top.id \notin {"IF", "WHILE"}
  BY DEF cfp_loop, cfp_next, Matches
<1>2. PICK nodes : nodes = BranchTo(op, Top.pos)
  OBVIOUS
<1>3. /\ op \in Wide \ {"(DOLIT)"} /\ Top.pos \in 0..Len(code) + 3 /\ Top.pos # 0
      /\ 1 <= Len(cs) /\ Len(cs) \in Nat
  BY <1>1, BodyFacts DEF Wide, Branches
<1>4. /\ WellFormed(nodes) /\ Fits(nodes, cs) /\ Len(nodes) = Len(code) + 2
      /\ nodes[Len(code) + 1].op \notin {"NUM", "ADDR"} /\ nodes[Len(code) + 2].arg = Top.pos
      /\ \A i \in 1..Len(code) : nodes[i] = code[i]
  BY <1>2, <1>3, BranchCells
<1>5. Dropped(1) \in Seq(Entry) /\ Fits(nodes, Dropped(1))
  BY <1>3, <1>4, BodyFacts, DroppedFits
<1>6. ASSUME Held(code, cs) PROVE Held(nodes, Dropped(1))
  <2>1. \A i \in 1..Len(nodes) : Zero(nodes, i) => Zero(code, i)
    BY <1>3, <1>4, BodyFacts, SMTT(30) DEF Zero, NULL
  <2> QED
    BY <1>1, <1>3, <1>6, <2>1, BodyFacts, HeldDropped
<1> QED
  BY <1>1, <1>2, <1>4, <1>5, <1>6 DEF Shaped

\* A branch word, and a target filled in at the top entry.
LEMMA BranchAndFill ==
  ASSUME Typed, Dictionary, Code, Control, Opened, cs # <<>>,
         NEW op \in Wide \ {"(DOLIT)"}, NEW pos \in 0..Len(code) + 3,
         NEW nodes, nodes = Filled(BranchTo(op, pos), Top.pos, here + 2)
  PROVE  /\ WellFormed(nodes) /\ Fits(nodes, cs) /\ Len(nodes) = Len(code) + 2
         /\ Top.pos # Len(code) + 2
         /\ nodes[Len(code) + 2].op = "ADDR" /\ nodes[Len(code) + 2].arg = pos
         /\ \A i \in 1..Len(nodes) : i # Len(code) + 2 /\ Zero(nodes, i) => Zero(code, i) /\ i # Top.pos
<1>1. PICK before : before = BranchTo(op, pos)
  OBVIOUS
<1>2. /\ WellFormed(before) /\ Fits(before, cs) /\ Len(before) = Len(code) + 2
      /\ before[Len(code) + 1].op \notin {"NUM", "ADDR"}
      /\ before[Len(code) + 2].op = "ADDR" /\ before[Len(code) + 2].arg = pos
      /\ \A i \in 1..Len(code) : before[i] = code[i]
  BY <1>1, BranchCells
<1>3. /\ Len(code) \in Nat /\ here + 2 \in 0..Len(before) + 1 /\ here + 2 # 0
      /\ Top.pos \in 1..Len(code) + 1 /\ Top.pos \in Nat /\ Place(before, Top.pos)
  BY <1>2, BodyFacts DEF Fits
<1>4. nodes = Filled(before, Top.pos, here + 2)
  BY <1>1
<1>5. /\ WellFormed(nodes) /\ Len(nodes) = Len(before)
      /\ Top.pos <= Len(before) => nodes[Top.pos] = Addr(here + 2)
      /\ \A i \in 1..Len(before) : i # Top.pos => nodes[i] = before[i]
  BY <1>2, <1>3, <1>4, FilledCells
<1>6. ~Zero(nodes, Top.pos)
  BY <1>2, <1>3, <1>5 DEF Zero, Addr, Cell, NULL
<1>7. ASSUME NEW i \in 1..Len(nodes), i # Len(code) + 2, Zero(nodes, i)
      PROVE  Zero(code, i) /\ i # Top.pos
  <2>1. i # Top.pos /\ nodes[i] = before[i]
    BY <1>2, <1>5, <1>6, <1>7
  <2>2. i \in 1..Len(code)
    BY <1>2, <1>3, <1>5, <1>7, <2>1, SMTT(30) DEF Zero
  <2> QED
    BY <1>2, <1>7, <2>1, <2>2 DEF Zero
<1>8. Fits(nodes, cs)
  BY <1>5, FitsStays
<1> QED
  BY <1>2, <1>3, <1>5, <1>7, <1>8

LEMMA ElseShapes ==
  ASSUME Typed, Dictionary, Code, Control, Opened, cfp_else
  PROVE  Shaped /\ (Held(code, cs) => Held(code', cs'))
<1>1. PICK nodes : nodes = Filled(BranchTo("(BRANCH)", 0), Top.pos, here + 2)
  OBVIOUS
<1>2. PICK entries : entries = [cs EXCEPT ![Len(cs)].pos = here + 1]
  OBVIOUS
<1>3. code' = nodes /\ cs' = entries /\ cs # <<>> /\ Top.id = "IF"
  BY <1>1, <1>2 DEF cfp_else, Matches, Filled, Hole, NULL
<1>4. "(BRANCH)" \in Wide \ {"(DOLIT)"} /\ 0 \in 0..Len(code) + 3
  BY BodyFacts DEF Wide, Branches
<1>5. /\ WellFormed(nodes) /\ Fits(nodes, cs) /\ Len(nodes) = Len(code) + 2
      /\ nodes[Len(code) + 2].op = "ADDR"
      /\ \A i \in 1..Len(nodes) : i # Len(code) + 2 /\ Zero(nodes, i) => Zero(code, i) /\ i # Top.pos
  BY <1>1, <1>3, <1>4, BranchAndFill
<1>6. Place(nodes, here + 1) /\ here + 1 \in Nat /\ here + 1 = Len(code) + 2
  BY <1>5, BodyFacts DEF Place
<1>7. /\ entries \in Seq(Entry) /\ Fits(nodes, entries) /\ Len(entries) = Len(cs)
      /\ entries[Len(cs)].id = Top.id /\ entries[Len(cs)].pos = here + 1
      /\ \A k \in 1..Len(cs) : k # Len(cs) => entries[k] = cs[k]
  <2>1. entries \in Seq(Entry) /\ Fits(nodes, entries)
    BY <1>2, <1>3, <1>5, <1>6, BodyFacts, ReplacedFits
  <2>2. cs \in Seq(Entry) /\ DOMAIN cs = 1..Len(cs) /\ Len(cs) \in 1..Len(cs) /\ Top = cs[Len(cs)]
    BY <1>3, BodyFacts
  <2>3. Top \in Entry
    BY <1>3, BodyFacts
  <2>4. /\ DOMAIN entries = 1..Len(cs)
        /\ entries[Len(cs)].id = Top.id /\ entries[Len(cs)].pos = here + 1
        /\ \A k \in 1..Len(cs) : k # Len(cs) => entries[k] = cs[k]
    BY <1>2, <2>2, <2>3 DEF Entry
  <2>5. Len(entries) = Len(cs)
    <3>1. entries \in [1..Len(cs) -> Entry] /\ Len(cs) \in Nat
      BY <2>1, <2>4, BodyFacts
    <3> QED
      BY <3>1
  <2> QED
    BY <2>1, <2>4, <2>5
<1>8. ASSUME Held(code, cs) PROVE Held(nodes, entries)
  <2>1. ASSUME NEW i \in 1..Len(nodes), Zero(nodes, i)
        PROVE  \E k \in 1..Len(entries) : entries[k].id \in {"IF", "WHILE"} /\ entries[k].pos = i
    <3>1. CASE i = here + 1
      <4>1. Len(cs) \in 1..Len(entries)
        BY <1>3, <1>7, BodyFacts
      <4> QED
        BY <1>3, <1>7, <3>1, <4>1
    <3>2. CASE i # here + 1
      <4>1. Zero(code, i) /\ i # Top.pos
        BY <1>5, <1>6, <2>1, <3>2
      <4>2. PICK k \in 1..Len(cs) : cs[k].id \in {"IF", "WHILE"} /\ cs[k].pos = i
        BY <1>8, <4>1 DEF Held, Zero
      <4>3. k # Len(cs)
        BY <4>1, <4>2 DEF Top
      <4> QED
        BY <1>7, <4>2, <4>3
    <3> QED
      BY <3>1, <3>2
  <2> QED
    BY <2>1 DEF Held, Zero
<1> QED
  BY <1>3, <1>5, <1>7, <1>8 DEF Shaped

LEMMA RepeatShapes ==
  ASSUME Typed, Dictionary, Code, Control, Opened, cfp_repeat
  PROVE  Shaped /\ (Held(code, cs) => Held(code', cs'))
<1>1. cs # <<>> /\ Top.id = "WHILE" /\ cs' = Dropped(2)
  BY DEF cfp_repeat, Matches
<1>2. Len(cs) \in Nat /\ Len(cs) >= 1 /\ Top = cs[Len(cs)]
  BY <1>1, BodyFacts
<1>3. Len(cs) - 1 \in 1..Len(cs) /\ cs[Len(cs) - 1].id = "BEGIN" /\ 2 <= Len(cs)
  BY <1>1, <1>2, BodyFacts DEF Fits
<1>4. PICK pos : pos = cs[Len(cs) - 1].pos
  OBVIOUS
<1>5. pos \in 0..Len(code) + 3 /\ pos # 0 /\ "(BRANCH)" \in Wide \ {"(DOLIT)"}
  BY <1>3, <1>4, BodyFacts DEF Fits, Place, Wide, Branches
<1>6. PICK nodes : nodes = Filled(BranchTo("(BRANCH)", pos), Top.pos, here + 2)
  OBVIOUS
<1>7. code' = nodes
  BY <1>4, <1>6 DEF cfp_repeat, Filled
<1>8. /\ WellFormed(nodes) /\ Fits(nodes, cs) /\ Len(nodes) = Len(code) + 2
      /\ nodes[Len(code) + 2].arg = pos
      /\ \A i \in 1..Len(nodes) : i # Len(code) + 2 /\ Zero(nodes, i) => Zero(code, i) /\ i # Top.pos
  BY <1>1, <1>5, <1>6, BranchAndFill
<1>9. Dropped(2) \in Seq(Entry) /\ Fits(nodes, Dropped(2))
  BY <1>3, <1>8, BodyFacts, DroppedFits
<1>10. ASSUME Held(code, cs) PROVE Held(nodes, Dropped(2))
  <2>1. \A i \in 1..Len(nodes) : Zero(nodes, i) => Zero(code, i) /\ i # Top.pos
    BY <1>5, <1>8 DEF Zero, NULL
  <2> QED
    BY <1>1, <1>3, <1>10, <2>1, BodyFacts, HeldDropped
<1> QED
  BY <1>1, <1>7, <1>8, <1>9, <1>10 DEF Shaped

LEMMA UntilShapes ==
  ASSUME Typed, Dictionary, Code, Control, Opened, cfp_until
  PROVE  Shaped /\ (Held(code, cs) => Held(code', cs'))
<1>1. cs # <<>> /\ Top.id = "BEGIN" /\ cs' = Dropped(1)
  BY DEF cfp_until, Matches
<1>2. /\ "(0BRANCH)" \in Wide \ {"(DOLIT)"} /\ Top.pos \in 0..Len(code) + 3 /\ Top.pos # 0
      /\ 1 <= Len(cs) /\ Len(code) \in Nat
  BY <1>1, BodyFacts DEF Wide, Branches
<1>3. PICK nodes : nodes = code'
  OBVIOUS
<1>4. /\ WellFormed(nodes) /\ Fits(nodes, cs)
      /\ \A i \in 1..Len(nodes) : Zero(nodes, i) => Zero(code, i)
  <2>1. CASE Top.pos = here
    <3>1. nodes = BranchTo("(0BRANCH)", Top.pos)
      BY <1>3, <2>1 DEF cfp_until
    <3>2. /\ WellFormed(nodes) /\ Fits(nodes, cs) /\ Len(nodes) = Len(code) + 2
          /\ nodes[Len(code) + 1].op \notin {"NUM", "ADDR"} /\ nodes[Len(code) + 2].arg = Top.pos
          /\ \A i \in 1..Len(code) : nodes[i] = code[i]
      BY <1>2, <3>1, BranchCells
    <3> QED
      BY <1>2, <3>2, BodyFacts DEF Zero, NULL
  <2>2. CASE Top.pos # here
    <3>1. nodes = Filled(BranchTo("(0BRANCH)", Top.pos), Top.pos, here + 2)
      BY <1>3, <2>2 DEF cfp_until, Filled
    <3>2. /\ WellFormed(nodes) /\ Fits(nodes, cs) /\ nodes[Len(code) + 2].arg = Top.pos
          /\ \A i \in 1..Len(nodes) : i # Len(code) + 2 /\ Zero(nodes, i) => Zero(code, i)
      BY <1>1, <1>2, <3>1, BranchAndFill
    <3> QED
      BY <1>2, <3>2 DEF Zero, NULL
  <2> QED
    BY <2>1, <2>2
<1>5. Dropped(1) \in Seq(Entry) /\ Fits(nodes, Dropped(1))
  BY <1>2, <1>4, BodyFacts, DroppedFits
<1>6. Held(code, cs) => Held(nodes, Dropped(1))
  BY <1>1, <1>2, <1>4, BodyFacts, HeldDropped
<1> QED
  BY <1>1, <1>3, <1>4, <1>5, <1>6 DEF Shaped

\* LEAVE takes the position of the top entry, whatever that is.
LEMMA LeaveShapes ==
  ASSUME Typed, Dictionary, Code, Control, Opened, cfp_leave
  PROVE  Shaped
<1>1. PICK nodes : nodes = BranchTo("(LEAVE)", 0)
  OBVIOUS
<1>2. PICK entries : entries = [cs EXCEPT ![Len(cs)].pos = here + 1]
  OBVIOUS
<1>3. code' = nodes /\ cs' = entries /\ cs # <<>>
  BY <1>1, <1>2 DEF cfp_leave, Hole, NULL, InDo
<1>4. "(LEAVE)" \in Wide \ {"(DOLIT)"} /\ 0 \in 0..Len(code) + 3
  BY BodyFacts DEF Wide
<1>5. /\ WellFormed(nodes) /\ Fits(nodes, cs) /\ Len(nodes) = Len(code) + 2
      /\ nodes[Len(code) + 2].op = "ADDR"
  BY <1>1, <1>4, BranchCells
<1>6. Place(nodes, here + 1) /\ here + 1 \in Nat
  BY <1>5, BodyFacts DEF Place
<1>7. entries \in Seq(Entry) /\ Fits(nodes, entries)
  BY <1>2, <1>3, <1>5, <1>6, BodyFacts, ReplacedFits
<1> QED
  BY <1>3, <1>5, <1>7 DEF Shaped

\* Names, primitives and numbers.
LEMMA NameShapes ==
  ASSUME Typed, Dictionary, Code, Control, Opened,
         \/ \E name \in Names : CompileName(name)
         \/ \E w \in Uses \cap Primitives : CompilePrimitive(w)
  PROVE  Shaped /\ (Held(code, cs) => Held(code', cs'))
<1>1. PICK op, arg :
        /\ code' = Append(code, Cell(op, arg)) /\ cs' = cs
        /\ \/ op \in Primitives /\ arg = 0
           \/ op = "SYMBOL" /\ arg \in 1..Len(dict) /\ ~dict[arg].hidden
  <2>1. CASE \E name \in Names : CompileName(name)
    <3>1. PICK name \in Names : CompileName(name)
      BY <2>1
    <3>2. Newest(name) \in 1..Len(dict) /\ ~dict[Newest(name)].hidden
      BY <3>1, NewestIsVisible, VisibleSymbols DEF CompileName
    <3> QED
      BY <3>1, <3>2 DEF CompileName
  <2>2. CASE \E w \in Uses \cap Primitives : CompilePrimitive(w)
    BY <2>2 DEF CompilePrimitive
  <2> QED
    BY <2>1, <2>2
<1>2. PICK c : c = Cell(op, arg)
  OBVIOUS
<1>3. /\ c \in CodeCell /\ c.op = op /\ c.arg = arg
      /\ c.op \notin Wide \cup {"(NEXT)", "NUM", "ADDR"}
      /\ c.op = "SYMBOL" => c.arg \in 1..Len(dict) /\ ~dict[c.arg].hidden
  <2>1. c.op = op /\ c.arg = arg
    BY <1>2 DEF Cell
  <2>2. arg \in Int
    BY <1>1
  <2>3. c \in CodeCell
    BY <1>1, <1>2, <2>2 DEF CodeCell, Cell
  <2>4. op \notin Wide \cup {"(NEXT)", "NUM", "ADDR"} /\ (op = "SYMBOL" => op \notin Primitives)
    BY <1>1, PrimitivesApart DEF Wide, Branches
  <2> QED
    BY <1>1, <2>1, <2>3, <2>4
<1>4. PICK nodes : nodes = Append(code, c)
  OBVIOUS
<1>5. /\ WellFormed(nodes)
      /\ \A i \in 1..Len(nodes) : nodes[i].op = "ADDR" => i <= Len(code) /\ nodes[i] = code[i]
  BY <1>3, <1>4, OneCell
<1>6. Fits(nodes, cs)
  BY <1>5, FitsStays
<1>7. \A i \in 1..Len(nodes) : Zero(nodes, i) => Zero(code, i)
  BY <1>5, BodyFacts DEF Zero
<1>8. Held(code, cs) => Held(nodes, cs)
  BY <1>7, HeldSame
<1>9. code' = nodes /\ cs' = cs
  BY <1>1, <1>2, <1>4
<1> QED
  BY <1>5, <1>6, <1>8, <1>9, BodyFacts DEF Shaped

LEMMA NumberShapes ==
  ASSUME Typed, Dictionary, Code, Control, Opened, \E n \in Numbers : CompileNumber(n)
  PROVE  Shaped /\ (Held(code, cs) => Held(code', cs'))
<1>1. PICK n \in Cells : CompileNumber(n)
  BY NumbersAssumption
<1>2. PICK nodes : nodes = code \o <<Cell("(DOLIT)", 0), Cell("NUM", n)>>
  OBVIOUS
<1>3. code' = nodes /\ cs' = cs
  BY <1>1, <1>2 DEF CompileNumber
<1>4. /\ Cell("(DOLIT)", 0) \in CodeCell /\ Cell("(DOLIT)", 0).op = "(DOLIT)" /\ "(DOLIT)" \in Wide
      /\ Cell("NUM", n) \in CodeCell /\ Cell("NUM", n).op = "NUM" /\ Cell("NUM", n).arg = n
      /\ code \in Seq(CodeCell) /\ Len(code) \in Nat
  BY CellsAreNumbers, Basics DEF CodeCell, Cell, Wide, Typed
<1>5. /\ nodes \in Seq(CodeCell) /\ Len(nodes) = Len(code) + 2
      /\ nodes[Len(code) + 1] = Cell("(DOLIT)", 0) /\ nodes[Len(code) + 2] = Cell("NUM", n)
      /\ \A i \in 1..Len(code) : nodes[i] = code[i]
  BY <1>2, <1>4
<1>6. WellFormed(nodes)
  BY <1>1, <1>4, <1>5, TwoCells
<1>7. Fits(nodes, cs)
  BY <1>6, FitsStays
<1>8. \A i \in 1..Len(nodes) : Zero(nodes, i) => Zero(code, i)
  BY <1>4, <1>5 DEF Zero
<1>9. Held(code, cs) => Held(nodes, cs)
  BY <1>8, HeldSame
<1> QED
  BY <1>3, <1>6, <1>7, <1>9, BodyFacts DEF Shaped

\* A word of the body in the history.
LEMMA Noted ==
  ASSUME Typed, Opened, NEW op \in BodyWords, NEW arg \in Int, Note(op, arg)
  PROVE  /\ source' \in Seq(Seq([op : BodyWords, arg : Int])) /\ Len(source') = Len(source)
         /\ NoLeave' => NoLeave /\ op # "LEAVE"
<1> DEFINE Body == Seq([op : BodyWords, arg : Int])
           s == Len(source)
           body == Append(source[s], Cell(op, arg))
<1>1. source \in Seq(Body) /\ s \in Nat /\ s \in 1..s /\ DOMAIN source = 1..s
  BY DEF Typed, Opened
<1>2. source[s] \in Body /\ Cell(op, arg) \in [op : BodyWords, arg : Int] /\ Cell(op, arg).op = op
  BY <1>1 DEF Cell
<1>3. /\ body \in Body
      /\ Len(source[s]) + 1 \in DOMAIN body /\ body[Len(source[s]) + 1] = Cell(op, arg)
      /\ \A i \in DOMAIN source[s] : i \in DOMAIN body /\ body[i] = source[s][i]
  BY <1>2
<1>4. source' = [source EXCEPT ![s] = body]
  BY DEF Note
<1> HIDE DEF body
<1>5. /\ DOMAIN source' = 1..s /\ source'[s] = body
      /\ \A t \in 1..s : t # s => source'[t] = source[t]
  BY <1>1, <1>4
<1>6. PICK after : after = source'
  OBVIOUS
<1>7. after \in Seq(Body) /\ Len(after) = s
  <2>1. source \in [1..s -> Body] /\ after = [source EXCEPT ![s] = body]
    BY <1>1, <1>4, <1>6
  <2>2. after \in [1..s -> Body]
    BY <1>3, <2>1
  <2> HIDE DEF Body, s
  <2> QED
    BY <1>1, <2>2
<1>8. ASSUME NoLeave' PROVE NoLeave /\ op # "LEAVE"
  <2>1. \A t \in 1..s : \A i \in DOMAIN source'[t] : source'[t][i].op # "LEAVE"
    BY <1>5, <1>8 DEF NoLeave
  <2>2. op # "LEAVE"
    BY <1>1, <1>2, <1>3, <1>5, <2>1
  <2>3. ASSUME NEW t \in 1..s, NEW i \in DOMAIN source[t] PROVE source[t][i].op # "LEAVE"
    BY <1>1, <1>3, <1>5, <2>1
  <2> QED
    BY <1>1, <2>2, <2>3 DEF NoLeave
<1> QED
  BY <1>6, <1>7, <1>8

\* A word that is compiled into a body.
BodyWord ==
  \/ Structure
  \/ \E name \in Names : CompileName(name)
  \/ \E w \in Uses \cap Primitives : CompilePrimitive(w)
  \/ \E n \in Numbers : CompileNumber(n)

\* Its effect on the cells, on the control entries and on the history.
LEMMA BodyWordShapes ==
  ASSUME Typed, Dictionary, Code, Control, BodyWord
  PROVE  /\ Opened /\ Shaped /\ UNCHANGED <<state, dict>>
         /\ source' \in Seq(Seq([op : BodyWords, arg : Int])) /\ Len(source') = Len(source)
         /\ NoLeave' => NoLeave /\ (Held(code, cs) => Held(code', cs'))
<1>1. Opened
  <2>1. state = "MACRO"
    BY DEF BodyWord, Structure, cfp_if, cfp_else, cfp_endif, cfp_while, cfp_repeat, cfp_until,
           cfp_loop, cfp_next, cfp_leave, Mark, Open, Room, CompileName, CompilePrimitive, CompileNumber
  <2> QED
    BY <2>1 DEF Dictionary
<1>2. CASE cfp_leave
  <2>1. Shaped
    BY <1>1, <1>2, LeaveShapes
  <2>2. Note("LEAVE", 0) /\ UNCHANGED <<state, dict>> /\ "LEAVE" \in BodyWords /\ 0 \in Int
    BY <1>2 DEF cfp_leave, Compile, BodyWords
  <2> QED
    BY <1>1, <2>1, <2>2, Noted
<1>3. CASE Structure /\ ~cfp_leave
  <2>1. Shaped /\ (Held(code, cs) => Held(code', cs'))
    BY <1>1, <1>3, OpeningShapes, MarkShapes, ThenShapes, LoopShapes, ElseShapes, RepeatShapes,
       UntilShapes DEF Structure
  <2>2. PICK word \in BodyWords : Compile(word)
    <3>1. CASE \E word \in {"BEGIN", "DO", "FOR"} : Mark(word)
      BY <3>1 DEF Mark, BodyWords
    <3> QED
      BY <1>3, <3>1 DEF Structure, cfp_if, cfp_else, cfp_endif, cfp_while, cfp_repeat,
                        cfp_until, cfp_loop, cfp_next, BodyWords
  <2>3. Note(word, 0) /\ UNCHANGED <<state, dict>> /\ 0 \in Int
    BY <2>2 DEF Compile
  <2> QED
    BY <1>1, <2>1, <2>3, Noted
<1>4. CASE \E name \in Names : CompileName(name)
  <2>1. PICK name \in Names : CompileName(name)
    BY <1>4
  <2>2. Note("SYMBOL", Newest(name)) /\ UNCHANGED <<state, dict>>
    BY <2>1 DEF CompileName
  <2>3. Newest(name) \in Int /\ "SYMBOL" \in BodyWords
    BY <2>1, NewestIsVisible, VisibleSymbols DEF CompileName, BodyWords
  <2> QED
    BY <1>1, <1>4, <2>2, <2>3, Noted, NameShapes
<1>5. CASE \E w \in Uses \cap Primitives : CompilePrimitive(w)
  <2>1. PICK w \in Primitives : Note(w, 0) /\ UNCHANGED <<state, dict>>
    BY <1>5 DEF CompilePrimitive, Compile
  <2>2. w \in BodyWords /\ 0 \in Int
    BY DEF BodyWords
  <2> QED
    BY <1>1, <1>5, <2>1, <2>2, Noted, NameShapes
<1>6. CASE \E n \in Numbers : CompileNumber(n)
  <2>1. PICK n \in Cells : Note("NUM", n) /\ UNCHANGED <<state, dict>>
    BY <1>6, NumbersAssumption DEF CompileNumber
  <2>2. "NUM" \in BodyWords /\ n \in Int
    BY CellsAreNumbers DEF BodyWords
  <2> QED
    BY <1>1, <1>6, <2>1, <2>2, Noted, NumberShapes
<1> QED
  BY <1>2, <1>3, <1>4, <1>5, <1>6 DEF BodyWord

\* What is finished stays as it is.
Frozen ==
  /\ \A s \in 1..Len(dict) : ~dict[s].hidden => s \in 1..Len(dict)' /\ dict'[s] = dict[s]
  /\ \A i \in 1..Base : i \in 1..Len(code)' /\ code'[i] = code[i]

LEMMA BodyWordKeeps ==
  ASSUME Compiler, BodyWord
  PROVE  Compiler' /\ Base' = Base /\ Frozen /\ (NoLeave' => NoLeave)
         /\ (Targets => Targets')
<1> USE DEF Compiler
<1>1. /\ Opened /\ WellFormed(code') /\ cs' \in Seq(Entry) /\ Fits(code', cs')
      /\ state' = state /\ dict' = dict
      /\ source' \in Seq(Seq([op : BodyWords, arg : Int])) /\ Len(source') = Len(source)
      /\ NoLeave' => NoLeave /\ (Held(code, cs) => Held(code', cs'))
  BY BodyWordShapes DEF Shaped
<1>2. /\ Base' = Base /\ Opened' /\ Base \in 0..Len(code) /\ Len(code) \in Nat /\ Len(dict) \in Nat
      /\ code' \in Seq(CodeCell) /\ Len(code') \in Nat /\ Len(code) <= Len(code')
  BY <1>1, Basics DEF Base, Opened, WellFormed
<1>3. Typed'
  BY <1>1, <1>2 DEF Typed
<1>4. Dictionary'
  BY <1>1, <1>2 DEF Dictionary
<1>5. Code'
  <2>1. \A i \in 1..Len(code') : CellOK(code', i)
    BY <1>1 DEF WellFormed
  <2>2. \A i \in 1..Len(code') : CellOK(code, i)'
    BY <1>1, <1>2, <2>1 DEF CellOK
  <2>3. Base > 0 => code'[Base].op = "(NEXT)"
    BY <1>1, <1>2 DEF Code, WellFormed
  <2> QED
    BY <1>2, <2>2, <2>3 DEF Code
<1>6. Control'
  <2>1. Fits(code, cs)'
    BY <1>1, <1>2 DEF Fits, Place
  <2> QED
    BY <1>2, <2>1 DEF Control
<1>7. Frozen
  BY <1>1, <1>2 DEF Frozen, WellFormed
<1>8. Targets => Targets'
  <2>1. NoLeave' /\ Targets => Held(code', cs')
    BY <1>1 DEF Targets
  <2>2. Held(code', cs') => Held(code, cs)'
    BY DEF Held
  <2> QED
    BY <2>1, <2>2 DEF Targets
<1> QED
  BY <1>1, <1>2, <1>3, <1>4, <1>5, <1>6, <1>7, <1>8

-----------------------------------------------------------------------------
(* The rest of the load. *)

\* What a step of the load keeps of the finished macros.
Loads ==
  /\ Compiler' /\ Base' \in Nat /\ Base <= Base' /\ Frozen
  /\ NoLeave' => NoLeave
  /\ Targets => Targets'

\* A definition that is begun or made whole in one step.
LEMMA DefinitionsLoad ==
  ASSUME Compiler, tos \in Cells,
         \E name \in Names : cfp_macro(name) \/ cfp_constant(name)
  PROVE  Loads
<1> USE DEF Compiler
<1>1. PICK sym \in MacroSymbol :
        /\ dict' = Append(dict, sym) /\ source' = Append(source, <<>>) /\ code' = code
        /\ state = "INTERPRET"
        /\ \/ sym.type = "MACRO" /\ sym.hidden /\ sym.value = Len(code) + 1 /\ cs' = <<>> /\ state' = "MACRO"
           \/ sym.type = "CONSTANT" /\ ~sym.hidden /\ sym.value \in Cells /\ cs' = cs /\ state' = "INTERPRET"
  <2>1. PICK name \in Names : cfp_macro(name) \/ cfp_constant(name)
    OBVIOUS
  <2>2. CASE cfp_macro(name)
    <3> DEFINE sym == [name |-> name, type |-> "MACRO", hidden |-> TRUE, value |-> Len(code) + 1]
    <3>1. sym \in MacroSymbol
      BY Basics DEF MacroSymbol
    <3> QED
      BY <2>2, <3>1 DEF cfp_macro, here
  <2>3. CASE cfp_constant(name)
    <3> DEFINE sym == [name |-> name, type |-> "CONSTANT", hidden |-> FALSE, value |-> tos]
    <3>1. sym \in MacroSymbol
      BY CellsAreNumbers DEF MacroSymbol
    <3> QED
      BY <2>3, <3>1 DEF cfp_constant
  <2> QED
    BY <2>1, <2>2, <2>3
<1>2. /\ Len(code) \in Nat /\ Len(dict) \in Nat /\ Len(dict') = Len(dict) + 1
      /\ dict' \in Seq(MacroSymbol) /\ dict'[Len(dict) + 1] = sym
      /\ \A s \in 1..Len(dict) : dict'[s] = dict[s] /\ ~dict[s].hidden
  <2>1. dict \in Seq(MacroSymbol) /\ Len(dict) \in Nat /\ Len(code) \in Nat
    BY Basics DEF Typed
  <2>2. \A s \in 1..Len(dict) : ~dict[s].hidden
    BY <1>1, <2>1 DEF Dictionary, Opened
  <2> QED
    BY <1>1, <2>1, <2>2
<1>3. Base = Len(code) /\ Base' = Len(code) /\ (Opened' <=> sym.hidden) /\ cs = <<>>
  <2>1. ~Opened /\ cs = <<>>
    BY <1>1 DEF Dictionary, Control
  <2>2. dict' # <<>> /\ dict'[Len(dict')] = sym
    BY <1>2
  <2> QED
    BY <1>1, <1>2, <2>1, <2>2 DEF Base, Opened
<1>4. Typed'
  <2>1. /\ source \in Seq(Seq([op : BodyWords, arg : Int])) /\ Len(source) = Len(dict)
        /\ code \in Seq(CodeCell) /\ cs' = <<>>
    BY <1>1, <1>3 DEF Typed
  <2>2. <<>> \in Seq([op : BodyWords, arg : Int])
    OBVIOUS
  <2>3. source' \in Seq(Seq([op : BodyWords, arg : Int])) /\ Len(source') = Len(dict')
    BY <1>1, <1>2, <2>1, <2>2
  <2>4. cs' \in Seq(Entry)
    BY <2>1
  <2> QED
    BY <1>1, <1>2, <2>1, <2>3, <2>4 DEF Typed, States
<1>5. Dictionary'
  <2>1. ASSUME NEW s \in 1..Len(dict')
        PROVE  /\ dict'[s].hidden => s = Len(dict') /\ dict'[s].type = "MACRO" /\ dict'[s].value \in 1..Len(code') + 1
               /\ ~dict'[s].hidden => dict'[s].value \in IF dict'[s].type = "MACRO" THEN 1..Base' ELSE Cells
    <3>1. CASE s = Len(dict) + 1
      BY <1>1, <1>2, <3>1
    <3>2. CASE s # Len(dict) + 1
      <4>1. s \in 1..Len(dict)
        BY <1>2, <3>2
      <4> QED
        BY <1>2, <1>3, <4>1 DEF Dictionary
    <3> QED
      BY <3>1, <3>2
  <2>2. (state' = "MACRO" => Opened') /\ (state' = "INTERPRET" => ~Opened')
    BY <1>1, <1>3
  <2> QED
    BY <2>1, <2>2 DEF Dictionary
<1>6. Code'
  <2>1. \A i \in 1..Len(code) : CellOK(code, i)'
    BY <1>1, <1>2, <1>3 DEF Code, CellOK
  <2> QED
    BY <1>1, <1>3, <2>1 DEF Code
<1>7. Control'
  BY <1>1, <1>3 DEF Control, Fits
<1>8. Frozen
  BY <1>1, <1>2, <1>3 DEF Frozen
<1>9. NoLeave' => NoLeave
  <2>1. /\ source \in Seq(Seq([op : BodyWords, arg : Int])) /\ <<>> \in Seq([op : BodyWords, arg : Int])
    BY DEF Typed
  <2>2. \A s \in DOMAIN source : s \in DOMAIN source' /\ source'[s] = source[s]
    BY <1>1, <2>1
  <2> QED
    BY <2>2 DEF NoLeave
<1>10. Targets => Targets'
  BY <1>1, <1>3, <1>9 DEF Targets, Held
<1> QED
  BY <1>2, <1>3, <1>4, <1>5, <1>6, <1>7, <1>8, <1>9, <1>10 DEF Loads

\* A load that fails, at a word or at the end of the file.
LEMMA FailLoads ==
  ASSUME Compiler, Fail
  PROVE  Loads
<1> USE DEF Compiler
<1>1. UNCHANGED <<dict, code, cs, stray, source>> /\ state' \in States \ {"INTERPRET", "MACRO"}
  BY DEF Fail, AfterLoad, States
<1>2. Compiler' /\ Base' = Base /\ Base \in Nat
  BY <1>1, CompilerStops, Basics
<1>3. Frozen
  BY <1>1, <1>2, Basics DEF Frozen
<1>4. (NoLeave' => NoLeave) /\ (Targets => Targets')
  BY <1>1 DEF NoLeave, Targets, Held
<1> QED
  BY <1>2, <1>3, <1>4 DEF Loads

\* ;; finishes the macro: its cells are finished from now on.
LEMMA SemicolonLoads ==
  ASSUME Compiler, cfp_macro_semicolon
  PROVE  Loads
<1> USE DEF Compiler
<1> DEFINE n == Len(dict)
           last == Len(code) + 1
<1>1. CASE Fail
  BY <1>1, FailLoads
<1>2. CASE ~Fail
  <2>1. /\ Opened /\ cs = <<>> /\ cs' = <<>> /\ source' = source /\ state' = "INTERPRET"
        /\ code' = Append(code, Cell("(NEXT)", 0))
        /\ dict' = [dict EXCEPT ![n].hidden = FALSE]
    BY <1>2 DEF cfp_macro_semicolon, Dictionary
  <2>2. /\ Len(code) \in Nat /\ n \in Nat /\ n \in 1..n /\ dict[n] \in MacroSymbol /\ dict[n].hidden
        /\ dict[n].type = "MACRO" /\ dict[n].value = Base + 1 /\ Base \in 0..Len(code)
        /\ code \in Seq(CodeCell) /\ dict \in [1..n -> MacroSymbol]
    BY <2>1, Basics DEF Opened, Dictionary, Typed
  <2>3. Cell("(NEXT)", 0) \in CodeCell /\ Cell("(NEXT)", 0).op = "(NEXT)"
    BY DEF Cell, CodeCell
  <2>4. /\ code' \in Seq(CodeCell) /\ Len(code') = last /\ code'[last].op = "(NEXT)"
        /\ \A i \in 1..Len(code) : code'[i] = code[i]
    BY <2>1, <2>2, <2>3
  <2>5. PICK after : after = dict'
    OBVIOUS
  <2>6. /\ after \in [1..n -> MacroSymbol]
        /\ after[n].hidden = FALSE /\ after[n].type = "MACRO" /\ after[n].value = Base + 1
        /\ \A s \in 1..n : s # n => after[s] = dict[s]
    <3>1. [dict[n] EXCEPT !.hidden = FALSE] \in MacroSymbol
      BY <2>2 DEF MacroSymbol
    <3> QED
      BY <2>1, <2>2, <2>5, <3>1 DEF MacroSymbol
  <2>7. after \in Seq(MacroSymbol) /\ Len(after) = n
    <3> HIDE DEF n
    <3> QED
      BY <2>2, <2>6
  <2>8. ~Opened' /\ Base' = last /\ last \in Nat /\ Base <= last
    <3>1. ~dict'[Len(dict')].hidden
      BY <2>5, <2>6, <2>7
    <3>2. ~Opened'
      BY <3>1 DEF Opened
    <3>3. Base' = last
      BY <2>4, <3>2 DEF Base
    <3> QED
      BY <2>2, <3>2, <3>3
  <2>9. \A s \in 1..n : s # n => ~dict[s].hidden
    BY <2>2 DEF Dictionary
  <2>10. Typed'
    BY <2>1, <2>4, <2>5, <2>7 DEF Typed, States
  <2>11. Dictionary'
    <3>1. ASSUME NEW s \in 1..n
          PROVE  /\ ~after[s].hidden
                 /\ after[s].value \in IF after[s].type = "MACRO" THEN 1..last ELSE Cells
      <4>1. CASE s = n
        <5>1. Base + 1 \in 1..last
          BY <2>2
        <5> QED
          BY <2>6, <4>1, <5>1
      <4>2. CASE s # n
        <5>1. after[s] = dict[s] /\ ~dict[s].hidden
          BY <2>6, <2>9, <4>2
        <5>2. 1..Base \subseteq 1..last
          BY <2>2
        <5> QED
          BY <5>1, <5>2 DEF Dictionary
      <4> QED
        BY <4>1, <4>2
    <3> QED
      BY <2>1, <2>5, <2>7, <2>8, <3>1 DEF Dictionary
  <2>12. Code'
    <3>1. ASSUME NEW i \in 1..Len(code) PROVE CellOK(code, i)'
      <4>1. CellOK(code, i)
        BY DEF Code
      <4>2. /\ code'[i] = code[i] /\ (i < Len(code) => i < Len(code') /\ code'[i + 1] = code[i + 1])
            /\ i <= Base' /\ i \in Int
        BY <2>2, <2>4, <2>8
      <4>3. 0..Base \subseteq 0..Base' /\ 0..Len(code) + 1 \subseteq 0..Base'
        BY <2>2, <2>8
      <4>4. code[i].op = "ADDR" => code[i].arg \in 0..Base'
        BY <4>1, <4>3 DEF CellOK
      <4>5. code[i].op = "SYMBOL" => code[i].arg \in 1..Len(dict') /\ ~dict'[code[i].arg].hidden
        BY <2>5, <2>6, <2>7, <4>1 DEF CellOK
      <4> QED
        BY <4>1, <4>2, <4>4, <4>5 DEF CellOK
    <3>2. ASSUME NEW i \in 1..Len(code'), i \notin 1..Len(code) PROVE CellOK(code, i)'
      <4>1. "(NEXT)" \notin Wide
        BY DEF Wide, Branches
      <4>2. code'[i].op = "(NEXT)" /\ i <= Base'
        BY <2>2, <2>4, <2>8, <3>2
      <4> QED
        BY <4>1, <4>2 DEF CellOK
    <3>4. \A i \in 1..Len(code') : CellOK(code, i)'
      BY <3>1, <3>2
    <3>5. Base' > 0 => code'[Base'].op = "(NEXT)"
      BY <2>4, <2>8
    <3> QED
      BY <3>4, <3>5 DEF Code
  <2>13. Control'
    BY <2>1 DEF Control, Fits
  <2>14. Frozen
    <3>1. ASSUME NEW s \in 1..Len(dict), ~dict[s].hidden PROVE s \in 1..Len(dict)' /\ dict'[s] = dict[s]
      BY <2>2, <2>5, <2>6, <2>7, <3>1
    <3>2. ASSUME NEW i \in 1..Base PROVE i \in 1..Len(code)' /\ code'[i] = code[i]
      <4>1. i \in 1..Len(code) /\ i \in 1..last
        BY <2>2
      <4> QED
        BY <2>4, <4>1
    <3> QED
      BY <3>1, <3>2 DEF Frozen
  <2>15. NoLeave' => NoLeave
    BY <2>1 DEF NoLeave
  <2>16. Targets => Targets'
    <3>1. ASSUME NoLeave', Targets PROVE Held(code, cs)'
      <4>1. Held(code, cs)
        BY <2>15, <3>1 DEF Targets
      <4>2. \A i \in 1..Len(code) : ~(code[i].op = "ADDR" /\ code[i].arg = NULL)
        BY <2>1, <4>1 DEF Held
      <4>3. \A i \in 1..last : i \in 1..Len(code) \/ i = last
        BY <2>2
      <4>4. \A i \in 1..Len(code') : ~(code'[i].op = "ADDR" /\ code'[i].arg = NULL)
        BY <2>4, <4>2, <4>3
      <4> QED
        BY <4>4 DEF Held
    <3> QED
      BY <3>1 DEF Targets
  <2> QED
    BY <2>2, <2>8, <2>10, <2>11, <2>12, <2>13, <2>14, <2>15, <2>16 DEF Loads
<1> QED
  BY <1>1, <1>2

\* One step of the load; # and ALLOT take a cell off the stack, CONSTANT too.
LEMMA LoadKeeps ==
  ASSUME Compiler, Stacks, Load
  PROVE  Loads /\ mem' = mem /\ dp' \in 0..dp /\ tos' \in Cells
<1> USE DEF Compiler
<1>1. tos \in Cells /\ dp \in Nat /\ (\A i \in Nat : i < dp => mem[i] \in Cells)
  BY StackPlaces DEF Stacks
<1>2. /\ dp > 0 /\ Pop => mem' = mem /\ dp' \in 0..dp /\ tos' \in Cells
      /\ UNCHANGED stackVars => mem' = mem /\ dp' \in 0..dp /\ tos' \in Cells
  BY <1>1 DEF Pop, stackVars
<1>3. CASE BodyWord /\ UNCHANGED stackVars
  <2>1. Loads
    BY <1>3, BodyWordKeeps, Basics DEF Loads
  <2> QED
    BY <1>2, <1>3, <2>1
<1>4. CASE UNCHANGED stackVars /\ \E name \in Names : cfp_macro(name)
  BY <1>1, <1>2, <1>4, DefinitionsLoad
<1>5. CASE UNCHANGED stackVars /\ (Misplaced \/ EndOfFile \/ cfp_macro_semicolon)
  BY <1>2, <1>5, FailLoads, SemicolonLoads DEF Misplaced, EndOfFile
<1>6. CASE \E name \in Names : cfp_constant(name)
  <2>1. dp > 0 /\ Pop
    BY <1>6 DEF cfp_constant
  <2> QED
    BY <1>1, <1>2, <1>6, <2>1, DefinitionsLoad
<1>7. CASE TakeOperand
  <2>1. dp > 0 /\ Pop /\ UNCHANGED compilerVars
    BY <1>7 DEF TakeOperand
  <2>2. Compiler' /\ Base' = Base /\ Base \in Nat
    BY <2>1, CompilerSame, Basics
  <2>3. Frozen /\ (NoLeave' => NoLeave) /\ (Targets => Targets')
    BY <2>1, <2>2, Basics DEF compilerVars, Frozen, NoLeave, Targets, Held
  <2> QED
    BY <1>2, <2>1, <2>2, <2>3 DEF Loads
<1> QED
  BY <1>3, <1>4, <1>5, <1>6, <1>7 DEF Load, BodyWord

-----------------------------------------------------------------------------
(* The invariant. *)

\* It holds of a session that has not begun.
LEMMA InitIInv ==
  ASSUME Init
  PROVE  IInv /\ Targets /\ Ends
<1>1. /\ state = "INTERPRET" /\ dict = <<>> /\ code = <<>> /\ cs = <<>> /\ source = <<>>
      /\ mem = [i \in Slots |-> 0] /\ dp = 0 /\ tos = 0
      /\ pc = NULL /\ rp = STACK_DEEP_SIZE - 1
  BY DEF Init, CompilerInit, VMInit, StackInit
<1>2. ~Opened /\ Base = 0
  BY <1>1 DEF Opened, Base
<1>3. Typed /\ Dictionary /\ Code /\ Control
  BY <1>1, <1>2 DEF Typed, Dictionary, Code, Control, Fits, States
<1>4. Stacks
  <2>1. 0 \in Cells /\ STACK_DEEP_SIZE \in Nat /\ STACK_DEEP_SIZE >= 2
    BY HostStackAssumption, CellsAreNumbers
  <2>2. \A i \in 0..STACK_DEEP_SIZE : mem[i] = 0
    BY <1>1, <2>1 DEF Slots
  <2> QED
    BY <1>1, <1>2, <2>1, <2>2 DEF Stacks, NULL
<1>5. Machine
  BY <1>1, <1>2, <1>4 DEF Machine, NULL
<1>6. Targets
  BY <1>1 DEF Targets, Held
<1>7. Ends
  BY <1>1, <1>4 DEF Ends, Stacks
<1> QED
  BY <1>3, <1>5, <1>6, <1>7 DEF IInv, Compiler

\* An operand of a finished macro that has no target would be in a macro that
\* is not finished.
LEMMA NothingUnfilled ==
  ASSUME Compiler, Targets, NoLeave, NEW i \in 1..Base
  PROVE  ~Unfilled(i)
<1> SUFFICES ASSUME Unfilled(i) PROVE FALSE
  OBVIOUS
<1>1. /\ code[i].op \in Wide /\ code[i + 1].op = "ADDR" /\ code[i + 1].arg = NULL
      /\ Base \in 0..Len(code) /\ Len(code) \in Nat
  BY Basics DEF Unfilled, Compiler
<1>2. code[i].op # "(NEXT)"
  BY <1>1 DEF Wide, Branches
<1>3. i + 1 \in 1..Base /\ i + 1 \in 1..Len(code)
  BY <1>1, <1>2, CellsAhead DEF Compiler
<1>4. PICK k \in 1..Len(cs) : cs[k].pos = i + 1
  BY <1>1, <1>3 DEF Targets, Held
<1>5. cs[k].pos \in Base + 1..Len(code) + 1
  BY DEF Compiler, Control, Fits, Place
<1> QED
  BY <1>1, <1>3, <1>4, <1>5

\* Every step keeps it, and what is finished.
LEMMA NextIInv ==
  ASSUME IInv, [Next]_vars
  PROVE  IInv' /\ Frozen /\ (Targets /\ Ends => Targets' /\ Ends')
<1>1. Compiler /\ Machine /\ Stacks /\ Typed /\ Dictionary /\ Code /\ Control /\ Base \in Nat
  BY Basics DEF IInv, Compiler, Machine
<1>2. ASSUME UNCHANGED <<dict, code, cs, source>>, Base' = Base
      PROVE  Frozen /\ (NoLeave' <=> NoLeave) /\ (Targets => Targets')
  BY <1>1, <1>2, Basics DEF Frozen, NoLeave, Targets, Held
<1>3. ASSUME UNCHANGED compilerVars
      PROVE  Compiler' /\ Base' = Base /\ Frozen /\ (NoLeave' <=> NoLeave) /\ (Targets => Targets')
  <2>1. Compiler' /\ Base' = Base
    BY <1>1, <1>3, CompilerSame DEF Compiler
  <2> QED
    BY <1>2, <1>3, <2>1 DEF compilerVars
<1>4. CASE LoadStep
  <2>1. pc = NULL /\ pc' = pc /\ rp' = rp /\ Load
    BY <1>4 DEF LoadStep, vmVars
  <2>2. Loads /\ mem' = mem /\ dp' \in 0..dp /\ tos' \in Cells
    BY <1>1, <2>1, LoadKeeps
  <2>3. Stacks' /\ mem'[rp'] = mem[rp]
    BY <1>1, <2>1, <2>2, StacksDrop DEF Loads
  <2>4. Machine'
    BY <2>1, <2>2, <2>3 DEF Machine, Loads, NULL
  <2> QED
    BY <2>1, <2>2, <2>3, <2>4 DEF IInv, Loads, Ends
<1>5. CASE Interpret
  <2>1. /\ UNCHANGED compilerVars /\ pc = NULL /\ Machine'
        /\ pc' = NULL => mem'[rp'] \in {NULL, mem[rp]}
    BY <1>1, <1>5, Interprets
  <2> QED
    BY <1>3, <2>1 DEF IInv, Ends
<1>6. CASE UNCHANGED <<compilerVars, machineVars>>
  <2>1. Compiler' /\ Base' = Base /\ Frozen /\ (NoLeave' <=> NoLeave) /\ (Targets => Targets')
    BY <1>3, <1>6
  <2>2. mem' = mem /\ dp' = dp /\ tos' = tos /\ pc' = pc /\ rp' = rp /\ state' = state
    BY <1>6 DEF machineVars, stackVars, vmVars, compilerVars
  <2>3. Machine'
    BY <1>1, <2>1, <2>2 DEF Machine, Stacks
  <2> QED
    BY <2>1, <2>2, <2>3 DEF IInv, Ends
<1>7. CASE VMStep
  <2>1. CASE Running /\ Execute /\ UNCHANGED compilerVars
    <3>1. Machine' /\ (pc' = NULL => mem'[rp'] = NULL \/ Unfilled(pc))
      BY <1>1, <2>1, Turn
    <3>2. pc \in 1..Base
      BY <1>1, <2>1 DEF Running, Machine, NULL
    <3>3. Targets /\ NoLeave => ~Unfilled(pc)
      BY <1>1, <3>2, NothingUnfilled
    <3> QED
      BY <1>3, <2>1, <3>1, <3>3 DEF IInv, Ends
  <2>2. CASE Running /\ (Crash \/ LeaveModel)
    <3>1. /\ UNCHANGED <<dict, code, cs, stray, source>> /\ UNCHANGED machineVars
          /\ state' \in States \ {"INTERPRET", "MACRO", "LOST"}
      BY <2>2 DEF Crash, LeaveModel, States
    <3>2. Compiler' /\ Base' = Base
      BY <1>1, <3>1, CompilerStops DEF Compiler
    <3>3. Frozen /\ (NoLeave' <=> NoLeave) /\ (Targets => Targets')
      BY <1>2, <3>1, <3>2
    <3>4. mem' = mem /\ dp' = dp /\ tos' = tos /\ pc' = pc /\ rp' = rp
      BY <3>1 DEF machineVars, stackVars, vmVars
    <3>5. Machine'
      BY <1>1, <3>1, <3>2, <3>4 DEF Machine, Stacks
    <3> QED
      BY <3>2, <3>3, <3>4, <3>5 DEF IInv, Ends
  <2> QED
    BY <1>7, <2>1, <2>2 DEF VMStep, Step
<1> QED
  BY <1>4, <1>5, <1>6, <1>7 DEF Next, Interrupt, vars

-----------------------------------------------------------------------------

(***************************************************************************)
(* The session's state keeps its types: whatever a macro's branches, calls *)
(* and returns are made of, pc and the cells above rp are finished cells.  *)
(***************************************************************************)
THEOREM SessionTypes == Spec => []TypeOK
<1>1. IInv => TypeOK
  <2> SUFFICES ASSUME IInv PROVE TypeOK
    OBVIOUS
  <2>1. Typed /\ Dictionary /\ Control /\ Machine /\ Stacks
    BY DEF IInv, Compiler, Machine
  <2>2. /\ state \in States /\ Len(source) = Len(dict)
        /\ \A s \in DOMAIN dict :
             /\ dict[s].name \in Names /\ dict[s].type \in {"MACRO", "CONSTANT"}
             /\ dict[s].hidden => s = Len(dict) /\ dict[s].type = "MACRO"
    BY <2>1, Basics DEF Typed, Dictionary, MacroSymbol
  <2>3. cs # <<>> => \E s \in DOMAIN dict : dict[s].hidden
    BY <2>1, Basics DEF Control, Opened
  <2>4. \A i \in DOMAIN cs : cs[i].pos \in 1..here
    BY <2>1, Basics DEF Control, Fits, Place, here
  <2>5. /\ dp \in 0..rp /\ rp \in 0..STACK_DEEP_SIZE - 1 /\ tos \in Cells
        /\ \A i \in 0..dp - 1 : mem[i] \in Cells
    BY <2>1, StackPlaces DEF Stacks
  <2>6. pc \in 0..Len(code)
    BY <2>1, Basics DEF Machine
  <2> QED
    BY <2>2, <2>3, <2>4, <2>5, <2>6 DEF TypeOK
<1>2. Init => IInv
  BY InitIInv
<1>3. IInv /\ [Next]_vars => IInv'
  BY NextIInv
<1> QED
  BY <1>1, <1>2, <1>3, PTL DEF Spec

(***************************************************************************)
(* Once a macro has its name, neither its symbol nor a cell of it changes: *)
(* no control entry, not one that LEAVE or UNTIL misuses and not one that  *)
(* a failed load leaves behind, reaches below the macro being compiled.    *)
(***************************************************************************)
THEOREM FinishedMacrosStay == Spec => FinishedMacrosFrozen
<1> DEFINE Stays ==
      /\ \A s \in DOMAIN dict : ~dict[s].hidden => s \in DOMAIN dict' /\ dict'[s] = dict[s]
      /\ \A i \in FinishedCells : i \in DOMAIN code' /\ code'[i] = code[i]
<1>1. IInv /\ [Next]_vars => Stays
  <2> SUFFICES ASSUME IInv, [Next]_vars PROVE Stays
    OBVIOUS
  <2>1. Frozen /\ Typed /\ Dictionary /\ Typed' /\ Dictionary'
    BY NextIInv DEF IInv, Compiler
  <2>2. /\ DOMAIN dict = 1..Len(dict) /\ DOMAIN code = 1..Len(code) /\ Len(code) \in Nat
        /\ DOMAIN dict' = 1..Len(dict') /\ DOMAIN code' = 1..Len(code')
    BY <2>1, Basics DEF Typed
  <2>3. FinishedCells \subseteq 1..Base
    <3> SUFFICES ASSUME NEW i \in FinishedCells PROVE i \in 1..Base
      OBVIOUS
    <3>1. i \in 1..Len(code) /\ \A s \in 1..Len(dict) : dict[s].hidden => i < dict[s].value
      BY <2>2 DEF FinishedCells, First
    <3>2. CASE Opened
      <4>1. /\ Len(dict) \in 1..Len(dict) /\ dict[Len(dict)].hidden
            /\ dict[Len(dict)].value = Base + 1 /\ Base \in Nat
        BY <2>1, <3>2, Basics DEF Opened
      <4> QED
        BY <2>2, <3>1, <4>1
    <3>3. CASE ~Opened
      BY <3>1, <3>3 DEF Base
    <3> QED
      BY <3>2, <3>3
  <2> QED
    BY <2>1, <2>2, <2>3 DEF Frozen
<1>2. Init => IInv
  BY InitIInv
<1>3. IInv /\ [Next]_vars => IInv'
  BY NextIInv
<1> QED
  BY <1>1, <1>2, <1>3, PTL DEF Spec, FinishedMacrosFrozen

(***************************************************************************)
(* In a session without LEAVE, the cell that a return reads is NULL        *)
(* whenever no macro runs: a run can only end where a return has read it,  *)
(* for a branch without a target is one of a macro that is not finished.   *)
(***************************************************************************)
THEOREM ReturnsEndRuns == Spec => []NextReturnEnds
<1> DEFINE I == IInv /\ Targets /\ Ends
<1>1. I => NextReturnEnds
  BY DEF Ends, NextReturnEnds, Interpreting
<1>2. Init => I
  BY InitIInv
<1>3. I /\ [Next]_vars => I'
  BY NextIInv
<1> HIDE DEF I
<1> QED
  BY <1>1, <1>2, <1>3, PTL DEF Spec

=============================================================================
