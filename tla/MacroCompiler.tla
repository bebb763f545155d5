--------------------------- MODULE MacroCompiler ---------------------------
(***************************************************************************)
(* The macro compiler: qlforth_macro (qlforth.c) and the MACRO mode of the *)
(* defining and control-flow words (forth.c).  A macro is a run of cells   *)
(* in the dictionary buffer: pointers to symbols, each of some followed by *)
(* an operand, a number or the address of a cell.                          *)
(*                                                                         *)
(* A cell is a record of what it points to or holds; cells are numbered    *)
(* from 1 and symbol headers, which lie between macros, take no number.    *)
(* A word of the file is taken whole, in one step.                         *)
(***************************************************************************)
EXTENDS HostStack, Sequences, FiniteSets

CONSTANTS
  Names,       \* names that the file may define
  Uses,        \* the control-flow words, primitives and marks it may use
  Numbers,     \* the numbers it may use
  MaxMacros,   \* bound: definitions begun
  MaxWords     \* bound: words in the bodies of all of them

ASSUME NumbersAssumption == Numbers \subseteq Cells

VARIABLES
  state,       \* ql4thvm_state, or how the session came to its end
  dict,        \* the symbols of root_bucket that the file added, oldest first
  code,        \* the cells behind them; ql4thvm_here is the next one
  cs,          \* the control stack above the macro's own entry
  stray,       \* the SST has a node that NEXT left outside any word
  source       \* history: the words of each macro, names resolved

compilerVars == <<state, dict, code, cs, stray, source>>

\* Mode of the file and the prompt; LOST is a longjmp into a dead frame,
\* CRASHED a wild jump, OUTSIDE an underflow that this model leaves open.
States ==
  {"INTERPRET", "MACRO", "INTERACTIVE", "LOST", "CRASHED", "OUTSIDE"}

here == Len(code) + 1

Cell(op, arg) == [op |-> op, arg |-> arg]
Addr(i) == Cell("ADDR", i)
NULL == 0

CompilerInit ==
  /\ state = "INTERPRET"
  /\ dict = <<>> /\ code = <<>> /\ cs = <<>>
  /\ stray = FALSE
  /\ source = <<>>

-----------------------------------------------------------------------------

\* The search goes from the newest symbol to the oldest and skips hidden ones.
Visible(name) == {s \in DOMAIN dict : dict[s].name = name /\ ~dict[s].hidden}

\* Mutant: hidden symbols are found as well.
MutNewest(name) == CHOOSE s \in DOMAIN dict :
  dict[s].name = name /\ \A t \in s + 1..Len(dict) : dict[t].name # name

Newest(name) == CHOOSE s \in Visible(name) : \A t \in Visible(name) : t <= s

\* QLForth_init goes on after the load, complete or not: code generation
\* looks (NEXT) up for a stray node, finds no such word, and reports an error
\* through the jump buffer of the interpreter that has returned.
AfterLoad == IF stray THEN "LOST" ELSE "INTERACTIVE"

Fail ==
  /\ state' = AfterLoad
  /\ UNCHANGED <<dict, code, cs, stray, source>>

-----------------------------------------------------------------------------

\* :: name.  The control stack is emptied, whatever it held.
cfp_macro(name) ==
  /\ state = "INTERPRET" /\ Len(dict) < MaxMacros
  /\ dict' = Append(dict, [name |-> name, type |-> "MACRO", hidden |-> TRUE, value |-> here])
  /\ cs' = <<>>
  /\ state' = "MACRO"
  /\ source' = Append(source, <<>>)
  /\ UNCHANGED <<code, stray>>

\* CONSTANT name, with the value that is on the stack.
cfp_constant(name) ==
  /\ state = "INTERPRET" /\ Len(dict) < MaxMacros /\ dp > 0
  /\ dict' = Append(dict, [name |-> name, type |-> "CONSTANT", hidden |-> FALSE, value |-> tos])
  /\ source' = Append(source, <<>>)
  /\ Pop
  /\ UNCHANGED <<state, code, cs, stray>>

Bodies == UNION {{<<s, i>> : i \in DOMAIN source[s]} : s \in DOMAIN source}

Room == state = "MACRO" /\ Cardinality(Bodies) < MaxWords

Open(word) == Room /\ word \in Uses

\* A word of the body goes into the history.
Note(op, arg) == source' = [source EXCEPT ![Len(source)] = Append(@, Cell(op, arg))]

Compile(op) == Note(op, 0) /\ UNCHANGED <<state, dict>>

Top == cs[Len(cs)]
Dropped(n) == SubSeq(cs, 1, Len(cs) - n)

Matches(id) == cs # <<>> /\ Top.id = id

\* Mutant: the place of the operand is taken before the branch is written.
MutPushed(id, pos) == Append(cs, [id |-> id, pos |-> pos - 2])

Pushed(id, pos) == Append(cs, [id |-> id, pos |-> pos])

\* A branch word whose operand is filled in later, and one whose is known.
BranchTo(op, pos) == code \o <<Cell(op, 0), Addr(pos)>>
Hole(op) == BranchTo(op, NULL)

cfp_if ==
  /\ Open("IF") /\ Compile("IF")
  /\ cs' = Pushed("IF", here + 1)
  /\ code' = Hole("(0BRANCH)")
  /\ UNCHANGED stray

cfp_else ==
  /\ Open("ELSE") /\ Matches("IF") /\ Compile("ELSE")
  /\ code' = [Hole("(BRANCH)") EXCEPT ![Top.pos] = Addr(here + 2)]
  /\ cs' = [cs EXCEPT ![Len(cs)].pos = here + 1]
  /\ UNCHANGED stray

cfp_endif ==
  /\ Open("THEN") /\ Matches("IF") /\ Compile("THEN")
  /\ code' = [code EXCEPT ![Top.pos] = Addr(here)]
  /\ cs' = Dropped(1)
  /\ UNCHANGED stray

\* BEGIN, DO and FOR only remember where they stand.
Mark(word) ==
  /\ Open(word) /\ Compile(word)
  /\ cs' = Pushed(word, here)
  /\ UNCHANGED <<code, stray>>

cfp_while ==
  /\ Open("WHILE") /\ Matches("BEGIN") /\ Compile("WHILE")
  /\ cs' = Pushed("WHILE", here + 1)
  /\ code' = Hole("(0BRANCH)")
  /\ UNCHANGED stray

\* Mutant: WHILE leaves to the branch itself.
Mutcfp_repeat ==
  /\ Open("REPEAT") /\ Matches("WHILE") /\ Compile("REPEAT")
  /\ code' = [BranchTo("(BRANCH)", cs[Len(cs) - 1].pos) EXCEPT ![Top.pos] = Addr(here)]
  /\ cs' = Dropped(2)
  /\ UNCHANGED stray

cfp_repeat ==
  /\ Open("REPEAT") /\ Matches("WHILE") /\ Compile("REPEAT")
  /\ code' = [BranchTo("(BRANCH)", cs[Len(cs) - 1].pos) EXCEPT ![Top.pos] = Addr(here + 2)]
  /\ cs' = Dropped(2)
  /\ UNCHANGED stray

\* UNTIL fills the first cell of its loop like a hole, body or not.
cfp_until ==
  /\ Open("UNTIL") /\ Matches("BEGIN") /\ Compile("UNTIL")
  /\ code' = IF Top.pos = here THEN BranchTo("(0BRANCH)", here)
             ELSE [BranchTo("(0BRANCH)", Top.pos) EXCEPT ![Top.pos] = Addr(here + 2)]
  /\ cs' = Dropped(1)
  /\ UNCHANGED stray

cfp_loop ==
  /\ Open("LOOP") /\ Matches("DO") /\ Compile("LOOP")
  /\ code' = BranchTo("(LOOP)", Top.pos)
  /\ cs' = Dropped(1)
  /\ UNCHANGED stray

\* NEXT also appends its SST node.
cfp_next ==
  /\ Open("NEXT") /\ Matches("FOR") /\ Compile("NEXT")
  /\ code' = BranchTo("(FOR-NEXT)", Top.pos)
  /\ cs' = Dropped(1)
  /\ stray' = TRUE

InDo == \E i \in DOMAIN cs : cs[i].id = "DO"

\* LEAVE writes its operand's place over the position of the top entry.
cfp_leave ==
  /\ Open("LEAVE") /\ InDo /\ Compile("LEAVE")
  /\ code' = Hole("(LEAVE)")
  /\ cs' = [cs EXCEPT ![Len(cs)].pos = here + 1]
  /\ UNCHANGED stray

Structure ==
  \/ cfp_if \/ cfp_else \/ cfp_endif \/ cfp_while \/ cfp_repeat \/ cfp_until
  \/ cfp_loop \/ cfp_next \/ cfp_leave
  \/ \E word \in {"BEGIN", "DO", "FOR"} : Mark(word)

Closes ==
  {<<"ELSE", "IF">>, <<"THEN", "IF">>, <<"WHILE", "BEGIN">>, <<"REPEAT", "WHILE">>,
   <<"UNTIL", "BEGIN">>, <<"LOOP", "DO">>, <<"NEXT", "FOR">>}

\* Structure words out of place, and ; which finds no colon entry.
Misplaced ==
  /\ \/ \E pair \in Closes : Open(pair[1]) /\ ~Matches(pair[2])
     \/ Open("LEAVE") /\ ~InDo
     \/ Open(";")
  /\ Fail

\* # and ALLOT take their operand while the macro is compiled, into the SST.
TakeOperand ==
  /\ \E word \in {"#", "ALLOT"} : Open(word)
  /\ dp > 0 /\ Pop
  /\ UNCHANGED compilerVars

\* Symbols and numbers.  A word of the file hides a built-in one.
CompileName(name) ==
  /\ Room
  /\ Visible(name) # {}
  /\ code' = Append(code, Cell("SYMBOL", Newest(name)))
  /\ Note("SYMBOL", Newest(name))
  /\ UNCHANGED <<state, dict, cs, stray>>

CompilePrimitive(w) ==
  /\ Open(w) /\ Visible(w) = {}
  /\ code' = Append(code, Cell(w, 0))
  /\ Compile(w)
  /\ UNCHANGED <<cs, stray>>

CompileNumber(n) ==
  /\ Room
  /\ code' = code \o <<Cell("(DOLIT)", 0), Cell("NUM", n)>>
  /\ Note("NUM", n)
  /\ UNCHANGED <<state, dict, cs, stray>>

\* ;; needs the control stack as :: left it.
cfp_macro_semicolon ==
  /\ state = "MACRO"
  /\ IF cs # <<>> THEN Fail
     ELSE /\ code' = Append(code, Cell("(NEXT)", 0))
          /\ dict' = [dict EXCEPT ![Len(dict)].hidden = FALSE]
          /\ state' = "INTERPRET"
          /\ UNCHANGED <<cs, stray, source>>

\* The file ends, in the middle of a macro too.
EndOfFile == state \in {"INTERPRET", "MACRO"} /\ Fail

Load ==
  \/ /\ UNCHANGED stackVars
     /\ \/ \E name \in Names : cfp_macro(name) \/ CompileName(name)
        \/ \E w \in Uses \cap Primitives : CompilePrimitive(w)
        \/ \E n \in Numbers : CompileNumber(n)
        \/ Structure \/ Misplaced \/ cfp_macro_semicolon \/ EndOfFile
  \/ \E name \in Names : cfp_constant(name)
  \/ TakeOperand

=============================================================================
