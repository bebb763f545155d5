--------------------------- MODULE ColonCompiler ---------------------------
(***************************************************************************)
(* Loading a project file: the outer interpreter in its INTERPRET and      *)
(* COMPILE modes (qlforth.c) and the defining and control-flow words it    *)
(* runs (forth.c).  Each action is one token of the file, handled whole.   *)
(*                                                                         *)
(* A colon definition is compiled in place at the end of the SST.  Forward *)
(* branches are left open (ref = NULL) and remembered on the control stack *)
(* cs until the word that closes the structure fills them in; the new      *)
(* symbol stays hidden until ; .  An error longjmps out of the interpreter *)
(* loop and ends the load, leaving behind whatever had been appended.      *)
(*                                                                         *)
(* The host data stack is not part of this module: the operand that # and  *)
(* ALLOT take from it is any member of Values, and tokens that only move   *)
(* that stack (numbers, primitives, host macros) are stuttering steps.     *)
(* Macro definitions ( :: ... ;; ) are not part of it either.              *)
(***************************************************************************)
EXTENDS SyntaxTree, FiniteSets

CONSTANTS
  Names,             \* the names the file may define or use
  Values,            \* the operands # and ALLOT may find on the host stack
  Ops,               \* the extension words the file uses
  Uses,              \* the other words of forth.c it uses besides : and ;
  SST_NODE_MAX,      \* sst_buffer has SST_NODE_MAX + 1 nodes
  DictCells,         \* cells of dict_buffer left by the built-in words
  SymbolCells        \* cells QLForth_symbol_add allocates for one symbol

Vocabulary ==
  {"VARIABLE", "CONSTANT", "#", "ALLOT",
   "IF", "ELSE", "THEN", "BEGIN", "WHILE", "REPEAT", "UNTIL",
   "DO", "LOOP", "LEAVE", "FOR", "NEXT"}

ASSUME FileAssumption ==
  /\ Values \subseteq Int
  /\ Ops \subseteq ExtensionOps
  /\ Uses \subseteq Vocabulary

ASSUME SizeAssumption ==
  /\ SST_NODE_MAX \in Nat
  /\ DictCells \in Nat
  /\ SymbolCells \in Nat \ {0}

VARIABLES
  status,    \* "loading", "loaded" (end of file) or "failed" (longjmp)
  mode,      \* ql4thvm_state: "INTERPRET" or "COMPILE"
  dict,      \* the symbols, oldest first
  here,      \* ql4thvm_here, in cells after the built-in words
  sst,       \* the nodes appended so far; sst_current is Len(sst) + 1
  cs,        \* cs_stack
  csp,       \* cs_ptr, as an index into cs
  creating   \* ThisCreateWord, as an index into dict

vars == <<status, mode, dict, here, sst, cs, csp, creating>>

ControlId == {"NONE", "COLON", "IF", "BEGIN", "WHILE", "DO", "FOR"}

TypeOK ==
  /\ status \in {"loading", "loaded", "failed"}
  /\ mode \in {"INTERPRET", "COMPILE"}
  /\ dict \in Seq(Symbol(Names))
  /\ here \in Nat
  /\ sst \in Seq(SSTNode)
  /\ Len(sst) <= SST_NODE_MAX + 1
  /\ cs \in [0..SST_NODE_MAX + 1 -> [id : ControlId, sst : Nat]]
  /\ csp \in -1..SST_NODE_MAX + 1
  /\ creating \in 0..Len(dict)

-----------------------------------------------------------------------------
(* Errors and appends. *)

\* QLForth_error, reached from any handler or from the interpreter loop.  The
\* control stack, the mode and ThisCreateWord are dead once the load is over
\* (the next ones to write them never run outside a load), so they stay.
AbortWith(nodes) ==
  /\ status' = "failed"
  /\ sst' = nodes
  /\ UNCHANGED <<mode, dict, here, cs, csp, creating>>

Abort == AbortWith(sst)

\* The guard of QLForth_sst_append: n more nodes fit below sst_buffer's end.
MutRoom(n) == Len(sst) + n <= SST_NODE_MAX + 2

Room(n) == Len(sst) + n <= SST_NODE_MAX + 1

MutNextNode == Len(sst)

NextNode == Len(sst) + 1

Commit(nodes, stack, top) ==
  /\ sst' = nodes
  /\ cs' = stack
  /\ csp' = top
  /\ UNCHANGED <<status, mode, dict, here, creating>>

\* A handler that appends one node (nodes is sst with it and with the
\* branches the handler fills in), or finds the buffer full.
Emit(nodes, stack, top) ==
  \/ Room(1) /\ Commit(nodes, stack, top)
  \/ ~Room(1) /\ Abort

\* A handler that appends two nodes; when only the first fits, its branch
\* fields are not filled in.
EmitTwo(first, nodes, stack, top) ==
  \/ Room(2) /\ Commit(nodes, stack, top)
  \/ ~Room(1) /\ Abort
  \/ Room(1) /\ ~Room(2) /\ AbortWith(Append(sst, first))

-----------------------------------------------------------------------------
(* The control stack. *)

Compiling == status = "loading" /\ mode = "COMPILE"

MutMatches(id) == cs[csp].id # "NONE"

\* The check of every closing word: the top of the control stack is its opener.
Matches(id) == cs[csp].id = id

Push(id) == [cs EXCEPT ![csp + 1] = [id |-> id, sst |-> NextNode]]

Fill(nodes, hole, target) == [nodes EXCEPT ![hole].ref = target]

-----------------------------------------------------------------------------
(* The dictionary. *)

Visible(s) == ~dict[s].hidden

MutFinds(n, s) == s \in DOMAIN dict /\ dict[s].name = n /\ Visible(s)

\* The bucket chains are searched newest first, skipping hidden symbols.
Finds(n, s) ==
  /\ s \in DOMAIN dict
  /\ dict[s].name = n /\ Visible(s)
  /\ \A t \in DOMAIN dict : t > s => dict[t].name # n \/ ~Visible(t)

MutMemoryFull == here + SymbolCells > DictCells

\* qlforth_alloc refuses: it always keeps one cell free.
MemoryFull == here + SymbolCells + 1 > DictCells

Defined(n, type, hidden, node) ==
  Append(dict, [name |-> n, type |-> type, hidden |-> hidden, sst |-> node])

MutHiddenWhileOpen == FALSE

\* A word is entered hidden and revealed by ;
HiddenWhileOpen == TRUE

-----------------------------------------------------------------------------
(* Defining words, run in INTERPRET mode. *)

Interpreting == status = "loading" /\ mode = "INTERPRET"

\* :  -- the symbol is entered before its COLON node is appended.
cfp_colon(n) ==
  /\ Interpreting
  /\ \/ MemoryFull /\ Abort
     \/ /\ ~MemoryFull /\ Room(1)
        /\ dict' = Defined(n, "WORD", HiddenWhileOpen, NextNode)
        /\ sst' = Append(sst, Node("COLON", Len(dict')))
        /\ cs' = [cs EXCEPT ![0].id = "COLON"]
        /\ csp' = 1
        /\ mode' = "COMPILE"
        /\ UNCHANGED status
        /\ here' = here + SymbolCells
        /\ creating' = Len(dict')
     \/ /\ ~MemoryFull /\ ~Room(1)
        /\ dict' = Defined(n, "WORD", HiddenWhileOpen, NULL)
        /\ status' = "failed"
        /\ UNCHANGED <<mode, sst, cs, csp>>
        /\ here' = here + SymbolCells
        /\ creating' = Len(dict')

\* VARIABLE  -- the host cell it also reserves is taken without a check.
cfp_variable(n) ==
  /\ Interpreting
  /\ UNCHANGED <<mode, cs, csp, creating>>
  /\ \/ MemoryFull /\ status' = "failed" /\ UNCHANGED <<dict, here, sst>>
     \/ /\ ~MemoryFull
        /\ dict' = Defined(n, "VARIABLE", FALSE, NULL)
        /\ \/ /\ Room(1)
              /\ sst' = Append(sst, Node("VARIABLE", Len(dict')))
              /\ here' = here + SymbolCells + 1
              /\ UNCHANGED status
           \/ /\ ~Room(1)
              /\ here' = here + SymbolCells
              /\ status' = "failed"
              /\ UNCHANGED sst

\* CONSTANT  -- appends no node.
cfp_constant(n) ==
  /\ Interpreting
  /\ \/ MemoryFull /\ Abort
     \/ /\ ~MemoryFull
        /\ dict' = Defined(n, "CONSTANT", FALSE, NULL)
        /\ here' = here + SymbolCells
        /\ UNCHANGED <<status, mode, sst, cs, csp, creating>>

MutBalanced == csp >= 1

\* ;  steps back one entry and must then stand on the COLON entry.
Balanced == csp - 1 = 0 /\ cs[0].id = "COLON"

cfp_semicolon ==
  /\ Compiling
  /\ \/ /\ Balanced /\ Room(2)
        /\ sst' = Append(Append(sst, Node("RET", NULL)), Node("SEMICOLON", NULL))
        /\ mode' = "INTERPRET"
        /\ csp' = csp - 2
        /\ dict' = [dict EXCEPT ![creating].hidden = FALSE]
        /\ creating' = NULL
        /\ UNCHANGED <<status, here, cs>>
     \/ Balanced /\ ~Room(2) /\ Room(1) /\ AbortWith(Append(sst, Node("RET", NULL)))
     \/ (~Balanced \/ ~Room(1)) /\ Abort

-----------------------------------------------------------------------------
(* Control-flow words, run in COMPILE mode. *)

cfp_if ==
  /\ Compiling
  /\ Emit(Append(sst, Node("0BRANCH", NULL)), Push("IF"), csp + 1)

\* ELSE closes the true part with a branch and makes that branch the open one.
cfp_else ==
  /\ Compiling
  /\ \/ ~Matches("IF") /\ Abort
     \/ /\ Matches("IF")
        /\ LET branch == Node("BRANCH", NULL)
               nodes  == Append(Append(sst, branch), Node("LABEL", NULL))
           IN  EmitTwo(branch, Fill(nodes, cs[csp].sst, NextNode + 1),
                       [cs EXCEPT ![csp].sst = NextNode], csp)

cfp_endif ==
  /\ Compiling
  /\ \/ ~Matches("IF") /\ Abort
     \/ /\ Matches("IF")
        /\ Emit(Fill(Append(sst, Node("LABEL", NULL)), cs[csp].sst, NextNode),
                cs, csp - 1)

cfp_begin ==
  /\ Compiling
  /\ Emit(Append(sst, Node("LABEL", NULL)), Push("BEGIN"), csp + 1)

\* WHILE stays on top of its BEGIN.
cfp_while ==
  /\ Compiling
  /\ \/ ~Matches("BEGIN") /\ Abort
     \/ /\ Matches("BEGIN")
        /\ Emit(Append(sst, Node("0BRANCH", NULL)), Push("WHILE"), csp + 1)

\* REPEAT branches back to BEGIN's label and lets WHILE's branch out behind it.
cfp_repeat ==
  /\ Compiling
  /\ \/ ~Matches("WHILE") /\ Abort
     \/ /\ Matches("WHILE")
        /\ LET branch == Node("BRANCH", NULL)
               nodes  == Append(Append(sst, branch), Node("LABEL", NULL))
               exit   == Fill(nodes, cs[csp].sst, NextNode + 1)
           IN  EmitTwo(branch, Fill(exit, NextNode, cs[csp - 1].sst), cs, csp - 2)

cfp_until ==
  /\ Compiling
  /\ \/ ~Matches("BEGIN") /\ Abort
     \/ /\ Matches("BEGIN")
        /\ Emit(Append(sst, Node("0BRANCH", cs[csp].sst)), cs, csp - 1)

cfp_do ==
  /\ Compiling
  /\ Emit(Append(sst, Node("DO", NULL)), Push("DO"), csp + 1)

cfp_loop ==
  /\ Compiling
  /\ \/ ~Matches("DO") /\ Abort
     \/ /\ Matches("DO")
        /\ Emit(Append(sst, Node("LOOP", cs[csp].sst)), cs, csp - 1)

cfp_for ==
  /\ Compiling
  /\ Emit(Append(sst, Node("FOR", NULL)), Push("FOR"), csp + 1)

cfp_next ==
  /\ Compiling
  /\ \/ ~Matches("FOR") /\ Abort
     \/ /\ Matches("FOR")
        /\ Emit(Append(sst, Node("NEXT", cs[csp].sst)), cs, csp - 1)

\* LEAVE looks down the control stack for the nearest DO.
InnermostDo(k) ==
  /\ k \in 1..csp
  /\ cs[k].id = "DO"
  /\ \A j \in k + 1..csp : cs[j].id \notin {"DO", "COLON"}

cfp_leave ==
  /\ Compiling
  /\ \/ (\A k \in 1..csp : ~InnermostDo(k)) /\ Abort
     \/ \E k \in 1..csp :
          /\ InnermostDo(k)
          /\ Emit(Append(sst, Node("LEAVE", cs[k].sst)), cs, csp)

-----------------------------------------------------------------------------
(* Words that append one node to the open definition. *)

cfp_sharp(v) == Compiling /\ Emit(Append(sst, Node("LITERAL", v)), cs, csp)   \* #

cfp_allot(v) == Compiling /\ Emit(Append(sst, Node("ALLOT", v)), cs, csp)

CompileExtension(op) == Compiling /\ Emit(Append(sst, Node(op, NULL)), cs, csp)

RefType(type) == IF type = "WORD" THEN "WORD_REF" ELSE "VAR_REF"

\* A name that the search finds; a constant goes to the host stack instead.
CompileReference(n) ==
  /\ Compiling
  /\ \E s \in DOMAIN dict :
       /\ Finds(n, s)
       /\ dict[s].type \in {"WORD", "VARIABLE"}
       /\ Emit(Append(sst, Node(RefType(dict[s].type), s)), cs, csp)

\* A token the mode has no use for: an unknown word, a defining word inside a
\* definition, a structure word or a compiled word outside one, ;; for ; .
BadToken == status = "loading" /\ Abort

EndOfFile ==
  \/ /\ Interpreting
     /\ status' = "loaded"
     /\ UNCHANGED <<mode, dict, here, sst, cs, csp, creating>>
  \/ Compiling /\ Abort

-----------------------------------------------------------------------------

Init ==
  /\ status = "loading"
  /\ mode = "INTERPRET"
  /\ dict = <<>>
  /\ here = 0
  /\ sst = <<>>
  /\ cs = [k \in 0..SST_NODE_MAX + 1 |-> [id |-> "NONE", sst |-> NULL]]
  /\ csp = 0
  /\ creating = NULL

Define ==
  \E n \in Names :
    \/ cfp_colon(n)
    \/ "VARIABLE" \in Uses /\ cfp_variable(n)
    \/ "CONSTANT" \in Uses /\ cfp_constant(n)

Structure ==
  \/ "IF" \in Uses /\ cfp_if
  \/ "ELSE" \in Uses /\ cfp_else
  \/ "THEN" \in Uses /\ cfp_endif
  \/ "BEGIN" \in Uses /\ cfp_begin
  \/ "WHILE" \in Uses /\ cfp_while
  \/ "REPEAT" \in Uses /\ cfp_repeat
  \/ "UNTIL" \in Uses /\ cfp_until
  \/ "DO" \in Uses /\ cfp_do
  \/ "LOOP" \in Uses /\ cfp_loop
  \/ "LEAVE" \in Uses /\ cfp_leave
  \/ "FOR" \in Uses /\ cfp_for
  \/ "NEXT" \in Uses /\ cfp_next

Compile ==
  \/ "#" \in Uses /\ \E v \in Values : cfp_sharp(v)
  \/ "ALLOT" \in Uses /\ \E v \in Values : cfp_allot(v)
  \/ \E op \in Ops : CompileExtension(op)
  \/ \E n \in Names : CompileReference(n)

Next == Define \/ Structure \/ Compile \/ cfp_semicolon \/ BadToken \/ EndOfFile

Spec == Init /\ [][Next]_vars

-----------------------------------------------------------------------------
(* Properties. *)

Open(i) ==
  /\ creating # NULL
  /\ dict[creating].sst # NULL
  /\ i > dict[creating].sst

IsBranch(i) == sst[i].type \in BranchOps

(***************************************************************************)
(* A filled-in branch goes to a LABEL of its own definition, before or     *)
(* after it: IF, ELSE, WHILE, REPEAT and UNTIL never join two words.       *)
(***************************************************************************)
BranchesStayInWord ==
  \A i \in DOMAIN sst :
    IsBranch(i) /\ sst[i].ref # NULL =>
      /\ sst[i].ref \in DOMAIN sst
      /\ sst[sst[i].ref].type = "LABEL"
      /\ Unbroken(sst, i, sst[i].ref)
      /\ Unbroken(sst, sst[i].ref, i)

(***************************************************************************)
(* A branch still without a target belongs to the definition being         *)
(* compiled, and while the load goes on an IF or WHILE entry of the        *)
(* control stack remembers it.  So a word that ; reveals has none, and     *)
(* neither has a file that loads to its end.                               *)
(***************************************************************************)
OpenBranchesHeld ==
  \A i \in DOMAIN sst :
    IsBranch(i) /\ sst[i].ref = NULL =>
      /\ Open(i)
      /\ status = "loading" =>
           \E k \in 2..csp : cs[k] \in [id : {"IF", "WHILE"}, sst : {i}]

LoopOpener == [LOOP |-> "DO", LEAVE |-> "DO", NEXT |-> "FOR"]

Closes(j, i) == sst[j].type \in {"LOOP", "NEXT"} /\ sst[j].ref = i

(***************************************************************************)
(* LOOP, LEAVE and NEXT name a DO or FOR of their own definition that no   *)
(* earlier word has closed, and outside the definition being compiled      *)
(* every DO and FOR has been closed.                                       *)
(***************************************************************************)
LoopsNest ==
  \A i \in DOMAIN sst :
    /\ sst[i].type \in DOMAIN LoopOpener =>
         LET opener == sst[i].ref IN
           /\ opener \in 1..i - 1
           /\ sst[opener].type = LoopOpener[sst[i].type]
           /\ Unbroken(sst, opener, i)
           /\ \A j \in opener..i - 1 : ~Closes(j, opener)
    /\ sst[i].type \in {"DO", "FOR"} /\ ~Open(i) =>
         \E j \in DOMAIN sst : Closes(j, i)

(***************************************************************************)
(* A call is compiled only to a word that ; had finished before: no word   *)
(* calls itself or a later one, and none calls a definition that failed.   *)
(***************************************************************************)
CallsFinishedWords ==
  \A i \in DOMAIN sst :
    sst[i].type = "WORD_REF" =>
      /\ sst[i].ref \in DOMAIN dict
      /\ LET callee == dict[sst[i].ref] IN
           /\ callee.type = "WORD" /\ ~callee.hidden
           /\ callee.sst # NULL
           /\ \E e \in callee.sst..i - 1 : sst[e].type = "SEMICOLON"

(***************************************************************************)
(* A visible word's code runs unbroken from its COLON to a RET and a       *)
(* SEMICOLON.                                                              *)
(***************************************************************************)
VisibleWordsComplete ==
  \A s \in DOMAIN dict :
    dict[s].type = "WORD" /\ Visible(s) =>
      /\ dict[s].sst \in DOMAIN sst
      /\ sst[dict[s].sst] = Node("COLON", s)
      /\ \E e \in dict[s].sst + 2..Len(sst) :
           /\ sst[e].type = "SEMICOLON" /\ sst[e - 1].type = "RET"
           /\ Unbroken(sst, dict[s].sst + 1, e - 1)

(***************************************************************************)
(* Once compiled, code never changes: no closing word writes through a     *)
(* control-stack entry that an earlier definition left behind.             *)
(***************************************************************************)
FinishedCodeFrozen ==
  [][\A i \in DOMAIN sst : ~Open(i) => i \in DOMAIN sst' /\ sst'[i] = sst[i]]_vars

(***************************************************************************)
(* The dictionary pointer stays in dict_buffer: VARIABLE's unchecked cell  *)
(* is the one qlforth_alloc kept free.                                     *)
(***************************************************************************)
DictionaryFits == here <= DictCells

=============================================================================
