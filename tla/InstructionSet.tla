--------------------------- MODULE InstructionSet ---------------------------
(***************************************************************************)
(* One extension word at a time, as code.c encodes it, executed by the     *)
(* simulator from any small state of the stacks and compared with what the *)
(* word means.                                                             *)
(***************************************************************************)
EXTENDS J1, J1Code, SequencesExt

CONSTANTS
  Words,       \* the words tried, with and without a return folded in
  Numbers,     \* operands of LITERAL
  Samples,     \* what the cells hold
  Bases        \* where the stacks begin in their 32 cells

ASSUME InstructionAssumption ==
  /\ Words \subseteq Foldable \cup Fixed \cup {"LITERAL"}
  /\ Numbers \subseteq Int /\ Samples \subseteq Word /\ Bases \subseteq 0..STACK_DEEP - 1

Forth == INSTANCE ForthWords

Entry == 1           \* where the code lies
Back  == 11          \* where a return leads
Cell  == 13          \* a memory cell; its address may be on the stack

VARIABLES
  word,        \* [op, val, ret]: the node and whether its return is folded in
  base,        \* the empty position of both stacks
  start,       \* the state as the word finds it: ds, rs and mem
  left         \* instructions still to execute

instructionVars == <<vars, word, base, start, left>>

InstructionWords(w) == Encoded(w.op, w.val, w.ret)

\* The n cells of a circular stack above its base.
Above(stack, n) == [i \in 1..n |-> stack[(base + i) % STACK_DEEP]]

DataStack   == Append(Above(dstack, (vdp - base) % STACK_DEEP), tos)
ReturnStack == Above(rstack, (vrp - base) % STACK_DEEP)

Holding(cells, b) ==
  [i \in 0..STACK_DEEP - 1 |->
     LET k == (i - b) % STACK_DEEP IN IF k \in DOMAIN cells THEN cells[k] ELSE 0]

\* The stacks and the memory as the word finds them, and the chip about to
\* execute the word from them.
Given(node, b, x, y, held) ==
  LET words == InstructionWords(node)
      data  == <<7, y, x>>
      back  == IF node.ret THEN <<9, held, 2 * Back>> ELSE <<9, held>>
  IN
    /\ word = node
    /\ base = b
    /\ start = [ds |-> data, rs |-> back, mem |-> [a \in {Cell} |-> held]]
    /\ left = Len(words)
    /\ ram = [a \in Entry..Entry + Len(words) - 1 \cup {Cell} |->
                 IF a = Cell THEN held ELSE words[a]]
    /\ dstack = Holding(<<7, y>>, b) /\ tos = x
    /\ vdp = (b + 2) % STACK_DEEP
    /\ rstack = Holding(back, b)
    /\ vrp = (b + Len(back)) % STACK_DEEP
    /\ vpc = Entry
    /\ insn \in Reads(ram, Entry)
    /\ running = TRUE

Init ==
  \E op \in Words, number \in Numbers, b \in Bases,
     x \in Samples, y \in Samples, held \in Samples :
    LET val == IF op = "LITERAL" THEN number ELSE 0 IN
    \E ret \in IF Folds(op, val) THEN BOOLEAN ELSE {FALSE} :
      Given([op |-> op, val |-> val, ret |-> ret], b, x, y, held)

Execute ==
  /\ left > 0
  /\ Step
  /\ left' = left - 1
  /\ UNCHANGED <<word, base, start>>

InstructionSpec == Init /\ [][Execute]_instructionVars

-----------------------------------------------------------------------------

Meaning ==
  LET s == [start EXCEPT !.rs = IF word.ret THEN Front(@) ELSE @] IN
  IF word.op = "LITERAL" THEN [s EXCEPT !.ds = Append(@, word.val % W)]
  ELSE Forth!Effect(word.op, s)

\* A return folded into a word of the return stack is the cell it works on.
Meant ==
  \/ word.op = "LITERAL"
  \/ /\ Forth!Defined(word.op, start)
     /\ word.ret => word.op \notin Forth!ReturnWords

\* The word has done what it means and goes on behind itself or, with a return
\* folded in, at the caller.
Agrees ==
  /\ DataStack = Meaning.ds
  /\ ReturnStack = Meaning.rs
  /\ ram[Cell] = Meaning.mem[Cell]
  /\ vpc = IF word.ret THEN Back ELSE Entry + Len(InstructionWords(word))

(***************************************************************************)
(* The instructions of an extension word or a literal do to the stacks and *)
(* the memory what the word means, and go on behind it or, with a return   *)
(* folded in, return to the caller.                                        *)
(***************************************************************************)
InstructionsMean == left = 0 /\ Meant => Agrees

(***************************************************************************)
(* "2r>", "2>r", "2r@", "2dupxor" (compiler.c:203-205), "No Operation."    *)
(* (compiler.c:285): every extension word does what it is named for.       *)
(***************************************************************************)
NamesMean == left = 0 /\ Forth!Defined(word.op, start) /\ ~word.ret => Agrees

=============================================================================
