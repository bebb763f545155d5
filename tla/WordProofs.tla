----------------------------- MODULE WordProofs -----------------------------
(***************************************************************************)
(* Proofs, for every value of the constants, about the words that a load   *)
(* leaves behind: they are complete, their branches and loops stay inside  *)
(* them, and they call only words that were finished before.               *)
(*                                                                         *)
(* All rest on one description of what a token may do to the nodes of the  *)
(* open definition (Grown): old nodes stay, except for a branch without a  *)
(* target that is sent to a label, and each new node refers to what its    *)
(* type demands.                                                           *)
(***************************************************************************)
EXTENDS ColonCompilerProofs

LoopIds == {"DO", "FOR"}

\* A label of the definition being compiled.
Target(nodes, r) == r \in Start + 1..Len(nodes) /\ nodes[r].type = "LABEL"

\* What a node that the open definition gains refers to.
CompiledNode(nodes, n) ==
  /\ n.type \notin Boundary
  /\ n.type \in BranchOps => n.ref = NULL \/ Target(nodes, n.ref)
  /\ n.type \in DOMAIN LoopOpener =>
       \E k \in 2..csp : cs[k].id = LoopOpener[n.type] /\ cs[k].sst = n.ref
  /\ n.type \in {"WORD_REF", "VAR_REF"} =>
       /\ n.ref \in DOMAIN dict
       /\ Finds(dict[n.ref].name, n.ref)
       /\ n.type = RefType(dict[n.ref].type) /\ dict[n.ref].type \in {"WORD", "VARIABLE"}

\* The open definition's nodes after a token that neither opens nor ends it.
Grown(nodes) ==
  /\ nodes \in Seq(SSTNode) /\ Len(sst) <= Len(nodes)
  /\ \A i \in 1..Len(sst) :
       /\ nodes[i].type = sst[i].type
       /\ nodes[i] = sst[i] \/ (Hanging(sst, i) /\ i > Start /\ Target(nodes, nodes[i].ref))
  /\ \A i \in Len(sst) + 1..Len(nodes) : CompiledNode(nodes, nodes[i])

-----------------------------------------------------------------------------
(* What each word appends. *)

\* The words whose nodes have an opener on the control stack.
LEMMA LoopWords ==
  /\ DOMAIN LoopOpener = {"LOOP", "LEAVE", "NEXT"}
  /\ LoopOpener["LOOP"] = "DO" /\ LoopOpener["LEAVE"] = "DO" /\ LoopOpener["NEXT"] = "FOR"
BY DEF LoopOpener

\* Nodes that refer to nothing.
LEMMA PlainNode ==
  ASSUME NEW nodes, NEW t \in (ControlOps \cup ExtensionOps) \ Boundary, NEW r \in Int,
         t \notin {"LOOP", "LEAVE", "NEXT", "WORD_REF", "VAR_REF"},
         t \in BranchOps => r = NULL \/ Target(nodes, r)
  PROVE  Node(t, r) \in SSTNode /\ CompiledNode(nodes, Node(t, r))
<1>1. Node(t, r) \in SSTNode /\ Node(t, r).type = t /\ Node(t, r).ref = r
  BY NodeTypes
<1> QED
  BY <1>1, LoopWords DEF CompiledNode

\* A word that appends one node.
LEMMA GrownByOne ==
  ASSUME IInv, Compiling, NEW n \in SSTNode, CompiledNode(Append(sst, n), n)
  PROVE  Grown(Append(sst, n))
<1> DEFINE nodes == Append(sst, n)
<1>1. /\ nodes \in Seq(SSTNode) /\ Len(nodes) = Len(sst) + 1
      /\ \A i \in 1..Len(sst) : nodes[i] = sst[i]
      /\ nodes[Len(sst) + 1] = n
  BY WhileCompiling, AppendNode
<1> HIDE DEF nodes
<1>2. \A i \in Len(sst) + 1..Len(nodes) : i = Len(sst) + 1
  BY <1>1, WhileCompiling
<1>3. CompiledNode(nodes, n)
  BY DEF nodes
<1>4. Grown(nodes)
  BY <1>1, <1>2, <1>3, WhileCompiling DEF Grown
<1> QED
  BY <1>4 DEF nodes

\* A word that fails before it appends anything.
LEMMA GrownByNone ==
  ASSUME IInv, Compiling
  PROVE  Grown(sst)
BY WhileCompiling DEF Grown

\* Words that fill in the branch at Hole.
LEMMA GrownByFilling ==
  ASSUME IInv, Compiling, NEW id \in {"IF", "WHILE"}, Matches(id),
         NEW nodes, NEW target, Filled(nodes, target), Len(sst) <= Len(nodes),
         Target(nodes, target),
         \A i \in Len(sst) + 1..Len(nodes) : CompiledNode(nodes, nodes[i])
  PROVE  Grown(nodes)
<1>1. Hanging(sst, Hole) /\ Hole > Start /\ Hole \in 1..Len(sst)
  BY TopEntry, WhileCompiling DEF Hole, Hanging, EntryHeld
<1>2. ASSUME NEW i \in 1..Len(sst)
      PROVE  /\ nodes[i].type = sst[i].type
             /\ nodes[i] = sst[i] \/ (Hanging(sst, i) /\ i > Start /\ Target(nodes, nodes[i].ref))
  BY <1>1 DEF Filled
<1> QED
  BY <1>2 DEF Grown, Filled

\* The label that a closer appends last is a target, and a label and a branch
\* refer to nothing wrong.
LEMMA JoinGrows ==
  ASSUME IInv, Compiling, NEW nodes, NEW n \in 1..2, Len(nodes) = Len(sst) + n,
         nodes[Len(nodes)] = Node("LABEL", NULL)
  PROVE  /\ Target(nodes, Len(sst) + n)
         /\ CompiledNode(nodes, nodes[Len(nodes)])
<1>1. Len(sst) \in Nat /\ Start \in 1..Len(sst)
  BY WhileCompiling
<1>2. nodes[Len(nodes)].type = "LABEL" /\ "LABEL" \notin Boundary \cup BranchOps
  BY JoinNodes
<1> QED
  BY <1>1, <1>2, LoopWords DEF Target, CompiledNode

\* THEN, ELSE and REPEAT.
LEMMA ClosersGrow ==
  ASSUME IInv, cfp_endif \/ cfp_else \/ cfp_repeat
  PROVE  Grown(sst')
<1>0. Compiling /\ Len(sst) \in Nat
  BY WhileCompiling DEF cfp_endif, cfp_else, cfp_repeat
<1>1. CASE sst' = sst
  BY <1>0, <1>1, GrownByNone
<1>2. CASE sst' = Append(sst, Node("BRANCH", NULL))
  <2>1. "BRANCH" \in (ControlOps \cup ExtensionOps) \ Boundary /\ NULL \in Int
    BY NodeTypes DEF Boundary, NULL
  <2> QED
    BY <1>0, <1>2, <2>1, PlainNode, GrownByOne
<1>3. CASE Matches("IF") /\ sst' = EndifNodes
  <2>1. Filled(EndifNodes, Len(sst) + 1) /\ Len(EndifNodes) = Len(sst) + 1
    BY <1>0, <1>3, EndifEffect
  <2>2. /\ Target(EndifNodes, Len(sst) + 1)
        /\ CompiledNode(EndifNodes, EndifNodes[Len(sst) + 1])
    BY <1>0, <1>3, <2>1, EndifEffect, JoinGrows
  <2> QED
    BY <1>0, <1>3, <2>1, <2>2, GrownByFilling
<1>4. CASE Matches("IF") /\ sst' = ElseNodes
  <2>1. Filled(ElseNodes, Len(sst) + 2) /\ Len(ElseNodes) = Len(sst) + 2
    BY <1>0, <1>4, ElseEffect
  <2>2. /\ Target(ElseNodes, Len(sst) + 2)
        /\ CompiledNode(ElseNodes, ElseNodes[Len(sst) + 2])
    BY <1>0, <1>4, <2>1, ElseEffect, JoinGrows
  <2>3. CompiledNode(ElseNodes, ElseNodes[Len(sst) + 1])
    BY <1>0, <1>4, ElseEffect, JoinNodes, LoopWords DEF CompiledNode
  <2> QED
    BY <1>0, <1>4, <2>1, <2>2, <2>3, GrownByFilling
<1>5. CASE Matches("WHILE") /\ sst' = RepeatNodes
  <2>1. Filled(RepeatNodes, Len(sst) + 2) /\ Len(RepeatNodes) = Len(sst) + 2
    BY <1>0, <1>5, RepeatEffect
  <2>2. /\ Target(RepeatNodes, Len(sst) + 2)
        /\ CompiledNode(RepeatNodes, RepeatNodes[Len(sst) + 2])
    BY <1>0, <1>5, <2>1, RepeatEffect, JoinGrows
  <2>3. Target(RepeatNodes, cs[csp - 1].sst)
    <3>1. csp - 1 \in 2..csp /\ cs[csp - 1].id = "BEGIN" /\ csp \in 2..Len(sst)
      BY <1>0, <1>5, TopEntry DEF EntryHeld
    <3>2. EntryHeld(sst, cs, Start, csp - 1)
      BY <1>0, <3>1, WhileCompiling DEF StackHeld
    <3>3. /\ cs[csp - 1].sst \in Start + 1..Len(sst) /\ sst[cs[csp - 1].sst].type = "LABEL"
          /\ Start \in Nat
      BY <1>0, <3>1, <3>2, WhileCompiling DEF EntryHeld
    <3> QED
      BY <1>0, <2>1, <3>3 DEF Target, Filled
  <2>4. CompiledNode(RepeatNodes, RepeatNodes[Len(sst) + 1])
    BY <1>0, <1>5, <2>3, RepeatEffect, JoinNodes, LoopWords DEF CompiledNode
  <2> QED
    BY <1>0, <1>5, <2>1, <2>2, <2>4, GrownByFilling
<1>6. CASE cfp_endif
  BY <1>1, <1>3, <1>6
     DEF cfp_endif, Emit, Commit, Abort, AbortWith, EndifNodes, Open1, Hole
<1>7. CASE cfp_else
  BY <1>1, <1>2, <1>4, <1>7
     DEF cfp_else, EmitTwo, Commit, Abort, AbortWith, ElseNodes, Open2, Hole
<1>8. CASE cfp_repeat
  BY <1>1, <1>2, <1>5, <1>8
     DEF cfp_repeat, EmitTwo, Commit, Abort, AbortWith, RepeatNodes, ElseNodes, Open2, Hole
<1> QED
  BY <1>6, <1>7, <1>8

\* LOOP, NEXT and LEAVE name an opener that the control stack remembers.
LEMMA LoopNode ==
  ASSUME IInv, Compiling, NEW t \in {"LOOP", "LEAVE", "NEXT"},
         NEW k \in 1..csp, cs[k].id = LoopOpener[t], NEW nodes
  PROVE  Node(t, cs[k].sst) \in SSTNode /\ CompiledNode(nodes, Node(t, cs[k].sst))
<1>1. k \in 2..csp /\ k \in 0..SST_NODE_MAX + 1
  BY LoopWords, WhileCompiling, SizeAssumption DEF StackHeld
<1>2. cs[k].sst \in Int
  BY <1>1, WhileCompiling DEF ControlEntry
<1>3. Node(t, cs[k].sst) \in SSTNode /\ Node(t, cs[k].sst).type = t /\ Node(t, cs[k].sst).ref = cs[k].sst
  BY <1>2, NodeTypes
<1>4. t \notin Boundary \cup BranchOps \cup {"WORD_REF", "VAR_REF"}
  BY DEF Boundary, BranchOps
<1> QED
  BY <1>1, <1>3, <1>4 DEF CompiledNode

\* All the control-flow words.
LEMMA StructureGrows ==
  ASSUME IInv, Structure
  PROVE  Grown(sst')
<1>0. Compiling
  BY DEF Structure, cfp_if, cfp_else, cfp_endif, cfp_begin, cfp_while, cfp_repeat, cfp_until,
         cfp_do, cfp_loop, cfp_leave, cfp_for, cfp_next
<1>1. CASE sst' = sst
  BY <1>0, <1>1, GrownByNone
<1>2. ASSUME NEW t \in {"0BRANCH", "LABEL", "DO", "FOR"}, sst' = Append(sst, Node(t, NULL))
      PROVE  Grown(sst')
  <2>1. t \in (ControlOps \cup ExtensionOps) \ Boundary /\ NULL \in Int
    BY NodeTypes DEF Boundary, NULL
  <2> QED
    BY <1>0, <1>2, <2>1, PlainNode, GrownByOne
<1>3. CASE cfp_endif \/ cfp_else \/ cfp_repeat
  BY <1>3, ClosersGrow
<1>4. CASE cfp_if \/ cfp_begin \/ cfp_while \/ cfp_do \/ cfp_for
  BY <1>1, <1>2, <1>4
     DEF cfp_if, cfp_begin, cfp_while, cfp_do, cfp_for, Emit, Commit, Abort, AbortWith
<1>5. CASE cfp_until
  <2>1. CASE Matches("BEGIN") /\ sst' = Append(sst, Node("0BRANCH", cs[csp].sst))
    <3>1. cs[csp].sst \in Start + 1..Len(sst) /\ sst[cs[csp].sst].type = "LABEL" /\ Start \in Nat
      BY <1>0, <2>1, TopEntry, WhileCompiling DEF EntryHeld
    <3>2. "0BRANCH" \in (ControlOps \cup ExtensionOps) \ Boundary /\ cs[csp].sst \in Int
      BY <3>1, NodeTypes DEF Boundary
    <3> DEFINE nodes == Append(sst, Node("0BRANCH", cs[csp].sst))
    <3>3. nodes[cs[csp].sst] = sst[cs[csp].sst] /\ Len(nodes) = Len(sst) + 1 /\ Len(sst) \in Nat
      BY <1>0, <3>1, <3>2, NodeTypes, WhileCompiling, AppendNode
    <3>4. Target(nodes, cs[csp].sst)
      BY <3>1, <3>3 DEF Target
    <3> QED
      BY <1>0, <2>1, <3>2, <3>4, PlainNode, GrownByOne
  <2> QED
    BY <1>1, <1>5, <2>1 DEF cfp_until, Emit, Commit, Abort, AbortWith
<1>6. ASSUME NEW t \in {"LOOP", "LEAVE", "NEXT"}, NEW k \in 1..csp, cs[k].id = LoopOpener[t],
             sst' = Append(sst, Node(t, cs[k].sst))
      PROVE  Grown(sst')
  BY <1>0, <1>6, LoopNode, GrownByOne
<1>7. CASE cfp_loop \/ cfp_next
  BY <1>0, <1>1, <1>6, <1>7, LoopWords, WhileCompiling
     DEF cfp_loop, cfp_next, Matches, Emit, Commit, Abort, AbortWith
<1>8. CASE cfp_leave
  BY <1>1, <1>6, <1>8, LoopWords DEF cfp_leave, InnermostDo, Emit, Commit, Abort, AbortWith
<1> QED
  BY <1>3, <1>4, <1>5, <1>7, <1>8 DEF Structure

\* The words that append one node of their own.
LEMMA CompileGrows ==
  ASSUME IInv, Compile
  PROVE  Grown(sst')
<1>0. Compiling
  BY DEF Compile, cfp_sharp, cfp_allot, CompileExtension, CompileReference
<1>1. CASE sst' = sst
  BY <1>0, <1>1, GrownByNone
<1>2. ASSUME NEW t \in ExtensionOps \cup {"LITERAL", "ALLOT"}, NEW r \in Int,
             sst' = Append(sst, Node(t, r))
      PROVE  Grown(sst')
  <2>1. /\ t \in (ControlOps \cup ExtensionOps) \ Boundary
        /\ t \notin {"LOOP", "LEAVE", "NEXT", "WORD_REF", "VAR_REF"} /\ t \notin BranchOps
    BY NodeTypes DEF Boundary, BranchOps
  <2> QED
    BY <1>0, <1>2, <2>1, PlainNode, GrownByOne
<1>3. CASE \E v \in Values : cfp_sharp(v) \/ cfp_allot(v)
  BY <1>1, <1>2, <1>3, FileAssumption
     DEF cfp_sharp, cfp_allot, Emit, Commit, Abort, AbortWith
<1>4. CASE \E op \in Ops : CompileExtension(op)
  BY <1>1, <1>2, <1>4, FileAssumption
     DEF CompileExtension, Emit, Commit, Abort, AbortWith, NULL
<1>5. ASSUME NEW n \in Names, CompileReference(n)
      PROVE  Grown(sst')
  <2>1. PICK s \in DOMAIN dict :
          /\ Finds(n, s) /\ dict[s].type \in {"WORD", "VARIABLE"}
          /\ Emit(Append(sst, Node(RefType(dict[s].type), s)), cs, csp)
    BY <1>5 DEF CompileReference
  <2> DEFINE t == RefType(dict[s].type)
  <2>2. s \in Int /\ Finds(dict[s].name, s)
    BY <2>1 DEF IInv, TypeOK, Finds
  <2>3. /\ t \in ControlOps /\ t \in {"WORD_REF", "VAR_REF"}
        /\ t \notin Boundary /\ t \notin BranchOps /\ t \notin {"LOOP", "LEAVE", "NEXT"}
    BY NodeTypes DEF RefType, Boundary, BranchOps
  <2>4. Node(t, s) \in SSTNode /\ Node(t, s).type = t /\ Node(t, s).ref = s
    BY <2>2, <2>3, NodeTypes
  <2>5. CompiledNode(Append(sst, Node(t, s)), Node(t, s))
    BY <2>1, <2>2, <2>3, <2>4, LoopWords DEF CompiledNode
  <2> QED
    BY <1>0, <1>1, <2>1, <2>4, <2>5, GrownByOne DEF Emit, Commit, Abort, AbortWith
<1> QED
  BY <1>3, <1>4, <1>5 DEF Compile

-----------------------------------------------------------------------------
(* What a token does to the nodes and the dictionary, in four shapes. *)

\* Inside a definition: its nodes grow.
Grows == Compiling /\ Grown(sst') /\ UNCHANGED <<dict, creating>>

\* ; ends the definition and reveals its word.
Reveals ==
  /\ Compiling /\ Balanced
  /\ sst' = Append(Append(sst, Node("RET", NULL)), Node("SEMICOLON", NULL))
  /\ dict' = [dict EXCEPT ![creating].hidden = FALSE]
  /\ creating' = NULL

\* : VARIABLE and CONSTANT enter a symbol, hidden if a definition follows.
Enters ==
  \E symbol \in Symbol(Names) :
    /\ Interpreting
    /\ dict' = Append(dict, symbol)
    /\ symbol.hidden = (symbol.type = "WORD")
    /\ creating' = IF symbol.type = "WORD" THEN Len(dict') ELSE NULL
    /\ \/ symbol.type = "WORD" /\ symbol.sst = Len(sst) + 1
          /\ sst' = Append(sst, Node("COLON", Len(dict')))
       \/ symbol.type = "VARIABLE" /\ symbol.sst = NULL
          /\ sst' = Append(sst, Node("VARIABLE", Len(dict')))
       \/ symbol.sst = NULL /\ sst' = sst

\* The load ends, or the token leaves it as it is.
Rests ==
  /\ UNCHANGED <<sst, dict, creating>>
  /\ status' # "loading" \/ UNCHANGED <<status, mode, cs, csp>>

\* : VARIABLE and CONSTANT.
LEMMA DefineEnters ==
  ASSUME IInv, Define
  PROVE  Enters \/ Rests
<1>1. Interpreting /\ creating = NULL /\ Len(sst) + 1 \in Nat /\ NULL \in Nat
  <2>1. Interpreting
    BY DEF Define, cfp_colon, cfp_variable, cfp_constant
  <2>2. sst \in Seq(SSTNode)
    BY DEF IInv, TypeOK
  <2> QED
    BY <2>1, <2>2 DEF IInv, OpenDefinition, NULL
<1>2. ASSUME NEW n \in Names, NEW type \in {"WORD", "VARIABLE", "CONSTANT"},
             NEW node \in Nat, dict' = Defined(n, type, type = "WORD", node),
             creating' = IF type = "WORD" THEN Len(dict') ELSE NULL,
             \/ type = "WORD" /\ node = Len(sst) + 1 /\ sst' = Append(sst, Node("COLON", Len(dict')))
             \/ type = "VARIABLE" /\ node = NULL /\ sst' = Append(sst, Node("VARIABLE", Len(dict')))
             \/ node = NULL /\ sst' = sst
      PROVE  Enters
  <2> DEFINE symbol == [name |-> n, type |-> type, hidden |-> type = "WORD", sst |-> node]
  <2>1. symbol \in Symbol(Names)
    BY DEF Symbol
  <2>2. /\ symbol.type = type /\ symbol.hidden = (type = "WORD") /\ symbol.sst = node
        /\ dict' = Append(dict, symbol)
    BY <1>2 DEF Defined
  <2> HIDE DEF symbol
  <2> QED
    BY <1>1, <1>2, <2>1, <2>2 DEF Enters
<1>3. ASSUME NEW n \in Names, cfp_colon(n)
      PROVE  Enters \/ Rests
  <2>1. CASE Abort
    BY <2>1 DEF Abort, AbortWith, Rests
  <2>2. CASE /\ dict' = Defined(n, "WORD", TRUE, NULL) /\ sst' = sst /\ creating' = Len(dict')
    BY <1>1, <1>2, <2>2
  <2>3. CASE /\ dict' = Defined(n, "WORD", TRUE, NextNode) /\ creating' = Len(dict')
             /\ sst' = Append(sst, Node("COLON", Len(dict')))
    BY <1>1, <1>2, <2>3 DEF NextNode
  <2> QED
    BY <1>3, <2>1, <2>2, <2>3 DEF cfp_colon, HiddenWhileOpen
<1>4. ASSUME NEW n \in Names, cfp_variable(n)
      PROVE  Enters \/ Rests
  <2>1. CASE status' = "failed" /\ UNCHANGED <<dict, sst, creating>>
    BY <2>1 DEF Rests
  <2>2. CASE /\ dict' = Defined(n, "VARIABLE", FALSE, NULL) /\ creating' = NULL
             /\ sst' \in {sst, Append(sst, Node("VARIABLE", Len(dict')))}
    BY <1>1, <1>2, <2>2
  <2> QED
    BY <1>1, <1>4, <2>1, <2>2 DEF cfp_variable
<1>5. ASSUME NEW n \in Names, cfp_constant(n)
      PROVE  Enters \/ Rests
  <2>1. CASE Abort
    BY <2>1 DEF Abort, AbortWith, Rests
  <2>2. CASE dict' = Defined(n, "CONSTANT", FALSE, NULL) /\ creating' = NULL /\ sst' = sst
    BY <1>1, <1>2, <2>2
  <2> QED
    BY <1>1, <1>5, <2>1, <2>2 DEF cfp_constant
<1> QED
  BY <1>3, <1>4, <1>5 DEF Define

\* Every token has one of the four shapes.
LEMMA StepShape ==
  ASSUME IInv, [Next]_vars
  PROVE  Grows \/ Reveals \/ Enters \/ Rests
<1>1. CASE Define
  BY <1>1, DefineEnters
<1>2. CASE Structure
  <2>1. Compiling /\ UNCHANGED <<dict, creating>>
    BY <1>2
       DEF Structure, cfp_if, cfp_else, cfp_endif, cfp_begin, cfp_while, cfp_repeat, cfp_until,
           cfp_do, cfp_loop, cfp_leave, cfp_for, cfp_next, Emit, EmitTwo, Commit, Abort, AbortWith
  <2> QED
    BY <1>2, <2>1, StructureGrows DEF Grows
<1>3. CASE Compile
  <2>1. Compiling /\ UNCHANGED <<dict, creating>>
    BY <1>3
       DEF Compile, cfp_sharp, cfp_allot, CompileExtension, CompileReference, Emit, Commit, Abort, AbortWith
  <2> QED
    BY <1>3, <2>1, CompileGrows DEF Grows
<1>4. CASE cfp_semicolon
  <2>1. CASE Abort
    BY <2>1 DEF Abort, AbortWith, Rests
  <2>2. CASE AbortWith(Append(sst, Node("RET", NULL)))
    <3>1. Compiling /\ "RET" \in (ControlOps \cup ExtensionOps) \ Boundary /\ NULL \in Int
      BY <1>4, NodeTypes DEF cfp_semicolon, ControlOps, NULL
    <3>2. Grown(Append(sst, Node("RET", NULL)))
      <4>1. "RET" \notin BranchOps
        BY DEF BranchOps
      <4> QED
        BY <3>1, <4>1, PlainNode, GrownByOne
    <3> QED
      BY <2>2, <3>1, <3>2 DEF AbortWith, Grows
  <2> QED
    BY <1>4, <2>1, <2>2 DEF cfp_semicolon, Reveals
<1>5. CASE BadToken \/ EndOfFile \/ UNCHANGED vars
  BY <1>5 DEF BadToken, EndOfFile, Abort, AbortWith, vars, Rests
<1> QED
  BY <1>1, <1>2, <1>3, <1>4, <1>5 DEF Next

-----------------------------------------------------------------------------
(* Branches. *)

\* The four shapes, as far as old nodes go.
LEMMA OldNodes ==
  ASSUME IInv, Grows \/ Reveals \/ Enters \/ Rests
  PROVE  /\ Len(sst) \in Nat /\ Len(sst') \in Nat /\ Len(sst) <= Len(sst')
         /\ \A i \in 1..Len(sst) :
              /\ sst'[i].type = sst[i].type
              /\ sst'[i] # sst[i] =>
                   Grows /\ Hanging(sst, i) /\ i > Start /\ Target(sst', sst'[i].ref)
<1>1. sst \in Seq(SSTNode) /\ Len(sst) \in Nat
  BY DEF IInv, TypeOK
<1>2. CASE Grows
  BY <1>1, <1>2 DEF Grows, Grown
<1>3. CASE Reveals
  BY <1>1, <1>3, SemicolonNodes DEF Reveals
<1>4. ASSUME NEW n, sst' = Append(sst, n)
      PROVE  Len(sst') = Len(sst) + 1 /\ \A i \in 1..Len(sst) : sst'[i] = sst[i]
  BY <1>1, <1>4
<1>5. CASE sst' = sst
  BY <1>1, <1>5
<1> QED
  BY <1>1, <1>2, <1>3, <1>4, <1>5 DEF Enters, Rests

\* While a definition grows no node of it ends it.
LEMMA GrowthUnbroken ==
  ASSUME IInv, Grows
  PROVE  /\ Start \in 1..Len(sst) /\ Len(sst) \in Nat /\ Len(sst') \in Nat
         /\ \A i \in Start + 1..Len(sst') : sst'[i].type \notin Boundary
<1>1. Compiling /\ Grown(sst')
  BY DEF Grows
<1>2. \A i \in Start + 1..Len(sst) : sst[i].type \notin Boundary
  BY <1>1 DEF IInv, OpenDefinition, Unbroken
<1>3. Start \in 1..Len(sst) /\ Len(sst) \in Nat /\ Len(sst') \in Nat /\ Len(sst) <= Len(sst')
  BY <1>1, WhileCompiling DEF Grown
<1>4. ASSUME NEW i \in Start + 1..Len(sst')
      PROVE  sst'[i].type \notin Boundary
  <2>1. CASE i \in 1..Len(sst)
    BY <1>1, <1>2, <1>3, <2>1 DEF Grown
  <2>2. CASE i \in Len(sst) + 1..Len(sst')
    BY <1>1, <2>2 DEF Grown, CompiledNode
  <2> QED
    BY <1>3, <2>1, <2>2
<1> QED
  BY <1>3, <1>4

\* What ; and : and VARIABLE append is no branch, loop or call.
LEMMA BorderNodes ==
  ASSUME IInv, Reveals \/ Enters \/ Rests, IInv'
  PROVE  \A i \in Len(sst) + 1..Len(sst') : sst'[i].type \in {"RET", "SEMICOLON", "COLON", "VARIABLE"}
<1>1. sst \in Seq(SSTNode) /\ Len(sst) \in Nat /\ Len(dict') \in Nat
  BY DEF IInv, TypeOK
<1>2. CASE Reveals
  <2>1. Node("RET", NULL).type = "RET" /\ Node("SEMICOLON", NULL).type = "SEMICOLON"
    BY DEF Node
  <2> QED
    BY <1>1, <1>2, <2>1, SemicolonNodes DEF Reveals
<1>3. ASSUME NEW t \in {"COLON", "VARIABLE"}, sst' = Append(sst, Node(t, Len(dict')))
      PROVE  \A i \in Len(sst) + 1..Len(sst') : sst'[i].type = t
  <2>1. Node(t, Len(dict')).type = t
    BY DEF Node
  <2>2. t \in ControlOps \cup ExtensionOps /\ Len(dict') \in Int
    BY <1>1, NodeTypes
  <2>3. Node(t, Len(dict')) \in SSTNode
    BY <2>2, NodeTypes
  <2> QED
    BY <1>1, <1>3, <2>1, <2>3, AppendNode
<1>4. CASE sst' = sst
  BY <1>1, <1>4
<1> QED
  BY <1>2, <1>3, <1>4 DEF Enters, Rests

\* A branch's target is a label of its own definition.
Joined(nodes, i) ==
  /\ nodes[i].ref \in 1..Len(nodes)
  /\ nodes[nodes[i].ref].type = "LABEL"
  /\ Unbroken(nodes, i, nodes[i].ref) /\ Unbroken(nodes, nodes[i].ref, i)

\* Every shape keeps filled branches in their word.
LEMMA StepJoins == IInv /\ BranchesStayInWord /\ [Next]_vars => BranchesStayInWord'
<1> SUFFICES ASSUME IInv, BranchesStayInWord, [Next]_vars
             PROVE  BranchesStayInWord'
  OBVIOUS
<1>1. Grows \/ Reveals \/ Enters \/ Rests
  BY StepShape
<1>2. IInv'
  BY StepKeeps
<1>0. DOMAIN sst = 1..Len(sst) /\ DOMAIN sst' = 1..Len(sst')
  <2>1. sst \in Seq(SSTNode) /\ sst' \in Seq(SSTNode)
    BY <1>2 DEF IInv, TypeOK
  <2> QED
    BY <2>1
<1> SUFFICES ASSUME NEW i \in 1..Len(sst'), sst'[i].type \in BranchOps, sst'[i].ref # NULL
             PROVE  Joined(sst', i)
  BY <1>0 DEF BranchesStayInWord, IsBranch, Joined
<1>3. CASE i \in 1..Len(sst) /\ sst'[i] = sst[i]
  <2>1. Joined(sst, i)
    BY <1>0, <1>3 DEF BranchesStayInWord, IsBranch, Joined
  <2>2. sst[i].ref \in Int
    <3>1. sst \in Seq(SSTNode)
      BY DEF IInv, TypeOK
    <3>2. sst[i] \in SSTNode
      BY <1>3, <3>1
    <3> QED
      BY <3>2 DEF SSTNode
  <2>3. /\ Len(sst) \in Nat /\ Len(sst') \in Nat /\ Len(sst) <= Len(sst')
        /\ \A k \in 1..Len(sst) : sst'[k].type = sst[k].type
    BY <1>1, OldNodes
  <2>4. /\ sst[i].ref \in 1..Len(sst) /\ sst[i].ref \in 1..Len(sst')
        /\ \A k \in i..sst[i].ref : k \in 1..Len(sst)
        /\ \A k \in sst[i].ref..i : k \in 1..Len(sst)
    BY <1>3, <2>1, <2>2, <2>3 DEF Joined
  <2> QED
    BY <1>3, <2>1, <2>3, <2>4 DEF Joined, Unbroken
<1>4. CASE Grows /\ i > Start /\ Target(sst', sst'[i].ref)
  BY <1>4, GrowthUnbroken, SMTT(30) DEF Joined, Unbroken, Target
<1>5. CASE i \in Len(sst) + 1..Len(sst')
  <2>1. CASE Grows
    <3>1. i > Start
      BY <1>5, <2>1, GrowthUnbroken
    <3> QED
      BY <1>4, <1>5, <2>1, <3>1 DEF Grows, Grown, CompiledNode
  <2>2. CASE Reveals \/ Enters \/ Rests
    BY <1>2, <1>5, <2>2, BorderNodes DEF BranchOps
  <2> QED
    BY <1>1, <2>1, <2>2
<1> QED
  BY <1>1, <1>3, <1>4, <1>5, OldNodes

(***************************************************************************)
(* Whatever the file, the target of a filled-in branch is a label of the   *)
(* branch's own definition: no jump of the code generated from a word      *)
(* leaves it.                                                              *)
(***************************************************************************)
THEOREM BranchesNeverLeaveWord == Spec => []BranchesStayInWord
<1>1. Init => BranchesStayInWord
  BY DEF Init, BranchesStayInWord
<1> QED
  BY <1>1, InitHolds, StepKeeps, StepJoins, PTL DEF Spec

-----------------------------------------------------------------------------
(* Words that ; reveals. *)

\* The four shapes, as far as the dictionary goes: only ; changes an entry,
\* its own, and a word is hidden when it is entered.
LEMMA Symbols ==
  ASSUME IInv, Grows \/ Reveals \/ Enters \/ Rests
  PROVE  /\ Len(dict) \in Nat /\ Len(dict') \in Nat /\ Len(dict) <= Len(dict')
         /\ \A s \in 1..Len(dict) :
              /\ dict'[s].name = dict[s].name /\ dict'[s].type = dict[s].type
              /\ dict'[s].sst = dict[s].sst
              /\ dict'[s].hidden # dict[s].hidden => Reveals /\ s = creating /\ ~dict'[s].hidden
         /\ \A s \in Len(dict) + 1..Len(dict') :
              Enters /\ s = Len(dict) + 1 /\ (dict'[s].type = "WORD" => dict'[s].hidden)
         /\ Reveals => ~dict'[creating].hidden
<1>1. dict \in Seq(Symbol(Names)) /\ Len(dict) \in Nat
  BY DEF IInv, TypeOK
<1>2. CASE dict' = dict /\ ~Reveals
  BY <1>1, <1>2
<1>3. CASE Reveals
  <2>1. creating \in 1..Len(dict)
    BY <1>1, <1>3 DEF Reveals, IInv, OpenDefinition
  <2>2. dict[creating] \in Symbol(Names)
    BY <1>1, <2>1
  <2> DEFINE shown == [dict[creating] EXCEPT !.hidden = FALSE]
  <2>3. /\ shown.name = dict[creating].name /\ shown.type = dict[creating].type
        /\ shown.sst = dict[creating].sst /\ ~shown.hidden
    BY <2>2 DEF Symbol
  <2>4. dict' = [dict EXCEPT ![creating] = shown]
    BY <1>3 DEF Reveals
  <2> HIDE DEF shown
  <2>5. /\ Len(dict') = Len(dict) /\ dict'[creating] = shown
        /\ \A s \in 1..Len(dict) : s # creating => dict'[s] = dict[s]
    BY <1>1, <2>1, <2>4
  <2> QED
    BY <1>1, <1>3, <2>1, <2>3, <2>5
<1>4. CASE Enters
  <2>1. PICK symbol \in Symbol(Names) :
          dict' = Append(dict, symbol) /\ symbol.hidden = (symbol.type = "WORD")
    BY <1>4 DEF Enters
  <2>2. /\ Len(dict') = Len(dict) + 1 /\ \A s \in 1..Len(dict) : dict'[s] = dict[s]
        /\ dict'[Len(dict) + 1] = symbol
    BY <2>1, NewSymbol
  <2>3. ~Reveals
    BY <1>4 DEF Enters, Reveals, Interpreting, Compiling
  <2>4. \A s \in Len(dict) + 1..Len(dict') : s = Len(dict) + 1 /\ dict'[s] = symbol
    BY <1>1, <2>2
  <2>5. \A s \in Len(dict) + 1..Len(dict') : dict'[s].type = "WORD" => dict'[s].hidden
    BY <2>1, <2>4
  <2> QED
    BY <1>1, <1>4, <2>2, <2>3, <2>4, <2>5
<1>5. Grows => ~Reveals
  <2> SUFFICES ASSUME Grows, Reveals PROVE FALSE
    OBVIOUS
  <2>1. creating' = creating /\ creating' = NULL /\ Compiling
    BY DEF Grows, Reveals
  <2>2. creating # NULL
    BY <2>1 DEF IInv, OpenDefinition, NULL
  <2> QED
    BY <2>1, <2>2
<1> QED
  BY <1>2, <1>3, <1>4, <1>5 DEF Grows, Rests

\* Nodes of other types than the branches are never changed.
LEMMA SameNode ==
  ASSUME IInv, Grows \/ Reveals \/ Enters \/ Rests,
         NEW i \in 1..Len(sst), sst[i].type \notin BranchOps
  PROVE  i \in 1..Len(sst') /\ sst'[i] = sst[i]
BY OldNodes DEF Hanging

\* The word s ends with a RET and a SEMICOLON at e.
Complete(nodes, s, first, e) ==
  /\ first \in 1..Len(nodes)
  /\ nodes[first] = Node("COLON", s)
  /\ e \in first + 2..Len(nodes)
  /\ nodes[e].type = "SEMICOLON" /\ nodes[e - 1].type = "RET"
  /\ Unbroken(nodes, first + 1, e - 1)

\* A complete word stays so.
LEMMA StaysComplete ==
  ASSUME IInv, Grows \/ Reveals \/ Enters \/ Rests, NEW s, NEW first, NEW e,
         Complete(sst, s, first, e)
  PROVE  Complete(sst', s, first, e)
<1>1. Node("COLON", s).type = "COLON" /\ "COLON" \notin BranchOps
  BY DEF Node, BranchOps
<1>2. first \in 1..Len(sst') /\ sst'[first] = Node("COLON", s)
  BY <1>1, SameNode DEF Complete
<1>3. /\ \A i \in 1..Len(sst) : sst'[i].type = sst[i].type
      /\ Len(sst) \in Nat /\ Len(sst') \in Nat /\ Len(sst) <= Len(sst')
  BY OldNodes
<1>4. first \in 1..Len(sst) /\ e \in first + 2..Len(sst)
  BY DEF Complete
<1>5. e \in first + 2..Len(sst') /\ e \in 1..Len(sst) /\ e - 1 \in 1..Len(sst)
  BY <1>3, <1>4
<1>6. \A i \in first + 1..e - 1 : i \in 1..Len(sst)
  BY <1>3, <1>4
<1> QED
  BY <1>2, <1>3, <1>5, <1>6 DEF Complete, Unbroken

\* ; completes the word it reveals.
LEMMA RevealsComplete ==
  ASSUME IInv, Reveals
  PROVE  Complete(sst', creating, Start, Len(sst) + 2)
<1>1. Compiling /\ sst' = Append(Append(sst, Node("RET", NULL)), Node("SEMICOLON", NULL))
  BY DEF Reveals
<1>2. /\ Start \in 1..Len(sst) /\ Len(sst) \in Nat /\ sst[Start] = Node("COLON", creating)
      /\ \A i \in Start + 1..Len(sst) : sst[i].type \notin Boundary
  BY <1>1, WhileCompiling DEF IInv, OpenDefinition, Unbroken
<1>3. /\ Len(sst') = Len(sst) + 2 /\ \A i \in 1..Len(sst) : sst'[i] = sst[i]
      /\ sst'[Len(sst) + 1] = Node("RET", NULL) /\ sst'[Len(sst) + 2] = Node("SEMICOLON", NULL)
  BY <1>1, SemicolonNodes
<1>4. /\ Node("RET", NULL).type = "RET" /\ Node("SEMICOLON", NULL).type = "SEMICOLON"
      /\ "RET" \notin Boundary
  BY DEF Node, Boundary
<1>5. \A i \in Start + 1..Len(sst) + 1 : sst'[i].type \notin Boundary
  BY <1>2, <1>3, <1>4
<1> QED
  BY <1>2, <1>3, <1>4, <1>5 DEF Complete, Unbroken

\* Every shape keeps the visible words complete.
LEMMA StepCompletes == IInv /\ VisibleWordsComplete /\ [Next]_vars => VisibleWordsComplete'
<1> SUFFICES ASSUME IInv, VisibleWordsComplete, [Next]_vars
             PROVE  VisibleWordsComplete'
  OBVIOUS
<1>1. Grows \/ Reveals \/ Enters \/ Rests
  BY StepShape
<1>2. /\ DOMAIN sst = 1..Len(sst) /\ DOMAIN dict = 1..Len(dict)
      /\ DOMAIN sst' = 1..Len(sst') /\ DOMAIN dict' = 1..Len(dict')
  BY StepKeeps DEF IInv, TypeOK
<1> SUFFICES ASSUME NEW s \in 1..Len(dict'), dict'[s].type = "WORD", ~dict'[s].hidden
             PROVE  \E e \in dict'[s].sst + 2..Len(sst') : Complete(sst', s, dict'[s].sst, e)
  BY <1>2 DEF VisibleWordsComplete, Visible, Complete
<1>3. CASE s \in 1..Len(dict) /\ ~dict[s].hidden
  <2>1. dict[s].type = "WORD" /\ dict'[s].sst = dict[s].sst
    BY <1>1, <1>3, Symbols
  <2>2. PICK e \in dict[s].sst + 2..Len(sst) : Complete(sst, s, dict[s].sst, e)
    BY <1>2, <1>3, <2>1 DEF VisibleWordsComplete, Visible, Complete
  <2>3. Complete(sst', s, dict[s].sst, e)
    BY <1>1, <2>2, StaysComplete
  <2> QED
    BY <2>1, <2>3 DEF Complete
<1>4. CASE s \in 1..Len(dict) /\ dict[s].hidden
  <2>1. Reveals /\ s = creating /\ dict'[s].sst = Start
    BY <1>1, <1>4, Symbols DEF Start
  <2> QED
    BY <2>1, RevealsComplete DEF Complete
<1>5. s \in 1..Len(dict)
  BY <1>1, Symbols
<1>6. dict[s].hidden \in BOOLEAN
  <2>1. dict \in Seq(Symbol(Names))
    BY DEF IInv, TypeOK
  <2>2. dict[s] \in Symbol(Names)
    BY <1>5, <2>1
  <2> QED
    BY <2>2 DEF Symbol
<1> QED
  BY <1>3, <1>4, <1>5, <1>6

(***************************************************************************)
(* Whatever the file, a word that a search can find has its COLON where    *)
(* its symbol says, and runs from there unbroken to a RET and a SEMICOLON: *)
(* the word of a failed definition is never found, and no later token cuts *)
(* into a finished one.                                                    *)
(***************************************************************************)
THEOREM VisibleWordsAreComplete == Spec => []VisibleWordsComplete
<1>1. Init => VisibleWordsComplete
  BY DEF Init, VisibleWordsComplete
<1> QED
  BY <1>1, InitHolds, StepKeeps, StepCompletes, PTL DEF Spec

-----------------------------------------------------------------------------
(* Calls. *)

\* Node i calls a word that was finished before it.
CallsFinished(nodes, symbols, i) ==
  LET callee == symbols[nodes[i].ref] IN
    /\ nodes[i].ref \in 1..Len(symbols)
    /\ callee.type = "WORD" /\ ~callee.hidden /\ callee.sst # NULL
    /\ \E e \in callee.sst..i - 1 : nodes[e].type = "SEMICOLON"

\* A call that was right stays so: its word is not entered or changed again.
LEMMA CallStays ==
  ASSUME IInv, Grows \/ Reveals \/ Enters \/ Rests,
         NEW i \in 1..Len(sst), sst'[i] = sst[i], CallsFinished(sst, dict, i)
  PROVE  CallsFinished(sst', dict', i)
<1> DEFINE s == sst[i].ref
<1>1. s \in 1..Len(dict) /\ dict[s].type = "WORD" /\ ~dict[s].hidden /\ dict[s].sst # NULL
  BY DEF CallsFinished
<1>2. /\ s \in 1..Len(dict') /\ dict'[s].type = "WORD" /\ dict'[s].sst = dict[s].sst
  BY <1>1, Symbols
<1>3. ~dict'[s].hidden
  BY <1>1, Symbols
<1>4. PICK e \in dict[s].sst..i - 1 : sst[e].type = "SEMICOLON"
  BY DEF CallsFinished
<1>5. dict[s].sst \in Nat
  <2>1. dict \in Seq(Symbol(Names))
    BY DEF IInv, TypeOK
  <2>2. dict[s] \in Symbol(Names)
    BY <1>1, <2>1
  <2> QED
    BY <2>2 DEF Symbol
<1>6. e \in 1..Len(sst) /\ e \in dict[s].sst..i - 1
  BY <1>1, <1>4, <1>5, OldNodes DEF NULL
<1>7. sst'[e].type = "SEMICOLON"
  BY <1>4, <1>6, OldNodes
<1> QED
  BY <1>1, <1>2, <1>3, <1>6, <1>7 DEF CallsFinished

\* A call is compiled to a word that the search found, so to a visible one.
LEMMA NewCall ==
  ASSUME IInv, VisibleWordsComplete, Grows,
         NEW i \in Len(sst) + 1..Len(sst'), sst'[i].type = "WORD_REF"
  PROVE  CallsFinished(sst', dict', i)
<1> DEFINE s == sst'[i].ref
<1>1. /\ s \in DOMAIN dict /\ ~dict[s].hidden
      /\ RefType(dict[s].type) = "WORD_REF" /\ dict' = dict
  BY DEF Grows, Grown, CompiledNode, Finds, Visible
<1>2. dict[s].type = "WORD" /\ DOMAIN dict = 1..Len(dict) /\ DOMAIN sst = 1..Len(sst)
  BY <1>1 DEF RefType, IInv, TypeOK
<1>3. PICK e \in dict[s].sst + 2..Len(sst) : sst[e].type = "SEMICOLON"
  BY <1>1, <1>2 DEF VisibleWordsComplete, Visible
<1>4. dict[s].sst \in 1..Len(sst)
  BY <1>1, <1>2 DEF VisibleWordsComplete, Visible
<1>5. e \in 1..Len(sst) /\ e \in dict[s].sst..i - 1 /\ dict[s].sst # NULL
  BY <1>3, <1>4, OldNodes DEF NULL
<1>6. sst'[e].type = "SEMICOLON"
  BY <1>3, <1>5, OldNodes
<1> QED
  BY <1>1, <1>2, <1>5, <1>6 DEF CallsFinished

\* Every shape keeps the calls bound to finished words.
LEMMA StepCalls ==
  IInv /\ VisibleWordsComplete /\ CallsFinishedWords /\ [Next]_vars => CallsFinishedWords'
<1> SUFFICES ASSUME IInv, VisibleWordsComplete, CallsFinishedWords, [Next]_vars
             PROVE  CallsFinishedWords'
  OBVIOUS
<1>1. Grows \/ Reveals \/ Enters \/ Rests
  BY StepShape
<1>2. /\ DOMAIN sst = 1..Len(sst) /\ DOMAIN dict = 1..Len(dict)
      /\ DOMAIN sst' = 1..Len(sst') /\ DOMAIN dict' = 1..Len(dict')
  BY StepKeeps DEF IInv, TypeOK
<1> SUFFICES ASSUME NEW i \in 1..Len(sst'), sst'[i].type = "WORD_REF"
             PROVE  CallsFinished(sst', dict', i)
  BY <1>2 DEF CallsFinishedWords, CallsFinished
<1>3. CASE i \in 1..Len(sst)
  <2>1. sst[i].type = "WORD_REF" /\ sst'[i] = sst[i]
    BY <1>1, <1>3, OldNodes DEF Hanging, BranchOps
  <2>2. CallsFinished(sst, dict, i)
    BY <1>2, <1>3, <2>1 DEF CallsFinishedWords, CallsFinished
  <2> QED
    BY <1>1, <1>3, <2>1, <2>2, CallStays
<1>4. CASE i \in Len(sst) + 1..Len(sst')
  <2>1. CASE Grows
    BY <1>4, <2>1, NewCall
  <2>2. CASE Reveals \/ Enters \/ Rests
    BY <1>4, <2>2, BorderNodes, StepKeeps
  <2> QED
    BY <1>1, <2>1, <2>2
<1> QED
  BY <1>1, <1>3, <1>4, OldNodes

(***************************************************************************)
(* Whatever the file, a compiled call goes to a visible word whose ; came  *)
(* before the call: the call graph has no cycle and no edge to a failed    *)
(* definition, although symbols are entered before their code.             *)
(***************************************************************************)
THEOREM CallsGoToFinishedWords == Spec => []CallsFinishedWords
<1>1. Init => VisibleWordsComplete /\ CallsFinishedWords
  BY DEF Init, VisibleWordsComplete, CallsFinishedWords
<1> QED
  BY <1>1, InitHolds, StepKeeps, StepCompletes, StepCalls, PTL DEF Spec

-----------------------------------------------------------------------------
(***************************************************************************)
(* The proof, for every value of the constants, that loops nest.           *)
(*                                                                         *)
(* LoopsNest is not inductive: that LOOP closes the right DO rests on what *)
(* the control stack remembers.  LoopsHeld adds it: the loops not closed   *)
(* yet are exactly those that a DO or FOR entry holds.                     *)
(***************************************************************************)

Unclosed(nodes, i) ==
  /\ nodes[i].type \in LoopIds
  /\ \A j \in 1..Len(nodes) : ~(nodes[j].type \in {"LOOP", "NEXT"} /\ nodes[j].ref = i)

LoopsHeld ==
  /\ \A i \in 1..Len(sst) : Unclosed(sst, i) =>
       /\ Open(i)
       /\ status = "loading" => \E k \in 2..csp : cs[k].id \in LoopIds /\ cs[k].sst = i
  /\ Compiling => \A k \in 2..csp : cs[k].id \in LoopIds => Unclosed(sst, cs[k].sst)

-----------------------------------------------------------------------------
(* What a token inside a definition does to its loops, in three shapes. *)

Neutral(n) == n.type \notin LoopIds \cup {"LOOP", "NEXT"}

\* It opens and closes none, and if the load goes on the same entries stay.
SameLoops ==
  /\ \A i \in Len(sst) + 1..Len(sst') : Neutral(sst'[i])
  /\ status' # "failed" =>
       /\ \A k \in 2..csp : cs[k].id \in LoopIds => k \in 2..csp' /\ cs'[k] = cs[k]
       /\ \A k \in 2..csp' : cs'[k].id \in LoopIds => k \in 2..csp /\ cs'[k] = cs[k]

OpensLoop ==
  /\ Len(sst') = Len(sst) + 1 /\ sst'[Len(sst) + 1].type \in LoopIds
  /\ csp' = csp + 1 /\ \A k \in 2..csp : cs'[k] = cs[k]
  /\ cs'[csp + 1].id \in LoopIds /\ cs'[csp + 1].sst = Len(sst) + 1

ClosesLoop ==
  /\ Len(sst') = Len(sst) + 1 /\ sst'[Len(sst) + 1].type \in {"LOOP", "NEXT"}
  /\ csp \in 2..Len(sst) /\ sst'[Len(sst) + 1].ref = cs[csp].sst /\ cs[csp].id \in LoopIds
  /\ csp' = csp - 1 /\ cs' = cs

LoopStep == SameLoops \/ OpensLoop \/ ClosesLoop

\* A word that fails before it appends anything.
LEMMA AbortSameLoops ==
  ASSUME IInv, Abort
  PROVE  SameLoops
BY DEF Abort, AbortWith, SameLoops, IInv, TypeOK

\* A word that appends one neutral node and drops no DO or FOR entry.
LEMMA PlainLoops ==
  ASSUME IInv, Compiling, NEW n \in SSTNode, Neutral(n),
         NEW top \in 1..csp, \A k \in top + 1..csp : cs[k].id \notin LoopIds,
         Emit(Append(sst, n), cs, top)
  PROVE  SameLoops
<1>1. CASE Abort
  BY <1>1, AbortSameLoops
<1>2. CASE Commit(Append(sst, n), cs, top)
  <2>1. Len(sst') = Len(sst) + 1 /\ sst'[Len(sst) + 1] = n /\ cs' = cs /\ csp' = top
    BY <1>2, WhileCompiling, AppendNode DEF Commit
  <2>2. \A i \in Len(sst) + 1..Len(sst') : i = Len(sst) + 1
    BY <2>1, WhileCompiling
  <2>3. \A k \in 2..csp : cs[k].id \in LoopIds => k \in 2..csp'
    BY <2>1, WhileCompiling
  <2>4. \A k \in 2..csp' : k \in 2..csp
    BY <2>1, WhileCompiling
  <2> QED
    BY <2>1, <2>2, <2>3, <2>4 DEF SameLoops
<1> QED
  BY <1>1, <1>2 DEF Emit

\* The words that push an entry.
LEMMA OpenerLoops ==
  ASSUME IInv, Compiling, NEW id \in {"IF", "BEGIN", "WHILE", "DO", "FOR"},
         NEW n \in SSTNode, id \in LoopIds => n.type = id, id \notin LoopIds => Neutral(n),
         Emit(Append(sst, n), Push(id), csp + 1)
  PROVE  LoopStep
<1>1. CASE Abort
  BY <1>1, AbortSameLoops DEF LoopStep
<1>2. CASE Room(1) /\ Commit(Append(sst, n), Push(id), csp + 1)
  <2>1. Len(sst') = Len(sst) + 1 /\ sst'[Len(sst) + 1] = n /\ cs' = Push(id) /\ csp' = csp + 1
    BY <1>2, WhileCompiling, AppendNode DEF Commit
  <2>2. /\ \A k \in 2..csp : cs'[k] = cs[k]
        /\ cs'[csp + 1].id = id /\ cs'[csp + 1].sst = Len(sst) + 1
    <3>1. csp + 1 \in 0..SST_NODE_MAX + 1
      BY <1>2, WhileCompiling, SizeAssumption DEF Room
    <3> QED
      BY <2>1, <3>1, WhileCompiling DEF Push, NextNode, ControlEntry, ControlId
  <2>3. CASE id \in LoopIds
    BY <2>1, <2>2, <2>3 DEF OpensLoop, LoopStep
  <2>4. CASE id \notin LoopIds
    <3>1. \A i \in Len(sst) + 1..Len(sst') : i = Len(sst) + 1
      BY <2>1, WhileCompiling
    <3>2. \A k \in 2..csp : k \in 2..csp'
      BY <2>1, WhileCompiling
    <3>3. \A k \in 2..csp' : k \in 2..csp \/ k = csp + 1
      BY <2>1, WhileCompiling
    <3> QED
      BY <2>1, <2>2, <2>4, <3>1, <3>2, <3>3 DEF SameLoops, LoopStep
  <2> QED
    BY <2>3, <2>4
<1> QED
  BY <1>1, <1>2 DEF Emit

\* THEN, ELSE and REPEAT append neutral nodes and drop IF, WHILE and BEGIN.
LEMMA JoinLoops ==
  ASSUME IInv, Compiling, NEW id \in {"IF", "WHILE"}, Matches(id),
         NEW n \in 1..2, Len(sst') = Len(sst) + n,
         sst'[Len(sst) + 1].type \in {"LABEL", "BRANCH"},
         n = 2 => sst'[Len(sst) + 2].type \in {"LABEL", "BRANCH"},
         csp' \in 1..csp, \A k \in csp'..csp : cs[k].id \in LoopIds => k = csp' /\ k # csp,
         \A k \in 2..csp - 1 : cs'[k] = cs[k], cs'[csp].id = id
  PROVE  SameLoops
<1>1. \A i \in Len(sst) + 1..Len(sst') : i = Len(sst) + 1 \/ (n = 2 /\ i = Len(sst) + 2)
  BY WhileCompiling
<1>2. \A i \in Len(sst) + 1..Len(sst') : Neutral(sst'[i])
  BY <1>1 DEF Neutral, LoopIds
<1>3. csp \in 2..Len(sst) /\ cs[csp].id = id /\ id \notin LoopIds
  BY TopEntry DEF LoopIds
<1>4. \A k \in 2..csp : cs[k].id \in LoopIds => k \in 2..csp' /\ k \in 2..csp - 1
  BY <1>3, WhileCompiling
<1>5. \A k \in 2..csp' : cs'[k].id \in LoopIds => k \in 2..csp /\ k \in 2..csp - 1
  BY <1>3, WhileCompiling
<1> QED
  BY <1>2, <1>4, <1>5 DEF SameLoops

\* THEN, ELSE and REPEAT, whichever way they end.
LEMMA ClosersLoops ==
  ASSUME IInv, cfp_endif \/ cfp_else \/ cfp_repeat
  PROVE  SameLoops
<1>0. Compiling /\ Len(sst) \in Nat
  BY WhileCompiling DEF cfp_endif, cfp_else, cfp_repeat
<1>1. CASE Abort
  BY <1>1, AbortSameLoops
<1>2. CASE AbortWith(Append(sst, Node("BRANCH", NULL)))
  <2>1. Len(sst') = Len(sst) + 1 /\ sst'[Len(sst) + 1].type = "BRANCH" /\ status' = "failed"
    BY <1>0, <1>2, JoinNodes, WhileCompiling, AppendNode DEF AbortWith
  <2>2. \A i \in Len(sst) + 1..Len(sst') : i = Len(sst) + 1
    BY <1>0, <2>1
  <2> QED
    BY <2>1, <2>2 DEF SameLoops, Neutral, LoopIds
<1>3. CASE Matches("IF") /\ Commit(EndifNodes, cs, csp - 1)
  <2>1. Len(sst') = Len(sst) + 1 /\ sst'[Len(sst) + 1].type = "LABEL"
    BY <1>0, <1>3, EndifEffect, JoinNodes DEF Commit
  <2>2. csp \in 2..Len(sst) /\ csp' = csp - 1 /\ cs' = cs /\ cs[csp].id = "IF" /\ "IF" \notin LoopIds
    BY <1>0, <1>3, TopEntry DEF Commit, LoopIds
  <2>3. csp' \in 1..csp /\ \A k \in csp'..csp : k = csp' \/ k = csp
    BY <2>2
  <2>4. csp' # csp
    BY <2>2
  <2> QED
    BY <1>0, <1>3, <2>1, <2>2, <2>3, <2>4, JoinLoops
<1>4. CASE Matches("IF") /\ Room(2) /\ Commit(ElseNodes, [cs EXCEPT ![csp].sst = NextNode], csp)
  <2>1. /\ Len(sst') = Len(sst) + 2 /\ sst'[Len(sst) + 1].type = "BRANCH"
        /\ sst'[Len(sst) + 2].type = "LABEL"
    BY <1>0, <1>4, ElseEffect, JoinNodes DEF Commit
  <2>2. /\ csp \in 2..Len(sst) /\ csp' = csp /\ cs[csp].id = "IF" /\ "IF" \notin LoopIds
        /\ csp \in 0..SST_NODE_MAX + 1
    BY <1>0, <1>4, TopEntry, WhileCompiling, SizeAssumption DEF Commit, LoopIds
  <2>3. /\ \A k \in 2..csp - 1 : cs'[k] = cs[k]
        /\ cs'[csp].id = "IF"
    BY <1>0, <1>4, <2>2, WhileCompiling DEF Commit, ControlEntry
  <2>4. csp' \in 1..csp /\ \A k \in csp'..csp : k = csp
    BY <2>2
  <2> QED
    BY <1>0, <1>4, <2>1, <2>2, <2>3, <2>4, JoinLoops
<1>5. CASE Matches("WHILE") /\ Commit(RepeatNodes, cs, csp - 2)
  <2>1. /\ Len(sst') = Len(sst) + 2 /\ sst'[Len(sst) + 1].type = "BRANCH"
        /\ sst'[Len(sst) + 2].type = "LABEL"
    BY <1>0, <1>5, RepeatEffect, JoinNodes DEF Commit
  <2>2. /\ csp \in 2..Len(sst) /\ csp' = csp - 2 /\ cs' = cs /\ csp - 1 \in 2..csp
        /\ cs[csp].id = "WHILE" /\ cs[csp - 1].id = "BEGIN" /\ {"WHILE", "BEGIN"} \cap LoopIds = {}
    BY <1>0, <1>5, TopEntry DEF Commit, LoopIds, EntryHeld
  <2>3. csp' \in 1..csp /\ \A k \in csp'..csp : k = csp' \/ k = csp - 1 \/ k = csp
    BY <2>2
  <2>4. csp' # csp
    BY <2>2
  <2> QED
    BY <1>0, <1>5, <2>1, <2>2, <2>3, <2>4, JoinLoops
<1>6. CASE cfp_endif
  BY <1>1, <1>3, <1>6 DEF cfp_endif, Emit, EndifNodes, Open1, Hole
<1>7. CASE cfp_else
  BY <1>1, <1>2, <1>4, <1>7 DEF cfp_else, EmitTwo, ElseNodes, Open2, Hole
<1>8. CASE cfp_repeat
  BY <1>1, <1>2, <1>5, <1>8 DEF cfp_repeat, EmitTwo, RepeatNodes, ElseNodes, Open2, Hole
<1> QED
  BY <1>6, <1>7, <1>8

\* LOOP and NEXT close the loop of the top entry.
LEMMA LoopCloses ==
  ASSUME IInv, Compiling, NEW id \in LoopIds, Matches(id), NEW t \in {"LOOP", "NEXT"},
         Emit(Append(sst, Node(t, cs[csp].sst)), cs, csp - 1)
  PROVE  LoopStep
<1>1. CASE Abort
  BY <1>1, AbortSameLoops DEF LoopStep
<1>2. CASE Commit(Append(sst, Node(t, cs[csp].sst)), cs, csp - 1)
  <2>1. csp \in 2..Len(sst) /\ cs[csp].id = id /\ cs[csp].sst \in Int
    BY TopEntry, WhileCompiling DEF LoopIds
  <2>2. t \in ControlOps \cup ExtensionOps
    BY NodeTypes
  <2>3. /\ Node(t, cs[csp].sst) \in SSTNode /\ Node(t, cs[csp].sst).type = t
        /\ Node(t, cs[csp].sst).ref = cs[csp].sst
    BY <2>1, <2>2, NodeTypes
  <2>4. Len(sst') = Len(sst) + 1 /\ sst'[Len(sst) + 1] = Node(t, cs[csp].sst)
    BY <1>2, <2>3, WhileCompiling, AppendNode DEF Commit
  <2> QED
    BY <1>2, <2>1, <2>3, <2>4 DEF Commit, ClosesLoop, LoopStep
<1> QED
  BY <1>1, <1>2 DEF Emit

\* All the control-flow words.
LEMMA StructureLoops ==
  ASSUME IInv, Structure
  PROVE  LoopStep
<1>0. /\ Compiling
      /\ \A t \in {"0BRANCH", "LABEL", "DO", "FOR", "LEAVE"}, r \in Int :
           Node(t, r) \in SSTNode /\ Node(t, r).type = t
      /\ NULL \in Int /\ LoopIds = {"DO", "FOR"}
      /\ \A n \in SSTNode : n.type \in {"0BRANCH", "LABEL", "LEAVE"} => Neutral(n)
  <2>1. {"0BRANCH", "LABEL", "DO", "FOR", "LEAVE"} \subseteq ControlOps
    BY NodeTypes
  <2> QED
    BY <2>1, NodeTypes
       DEF Structure, cfp_if, cfp_else, cfp_endif, cfp_begin, cfp_while, cfp_repeat, cfp_until,
           cfp_do, cfp_loop, cfp_leave, cfp_for, cfp_next, NULL, LoopIds, Neutral
<1>1. CASE Abort
  BY <1>1, AbortSameLoops DEF LoopStep
<1>2. CASE cfp_if \/ cfp_begin \/ cfp_while \/ cfp_do \/ cfp_for
  <2>1. ASSUME NEW id \in {"IF", "BEGIN", "WHILE", "DO", "FOR"},
               NEW t \in {"0BRANCH", "LABEL", "DO", "FOR"},
               id \in {"DO", "FOR"} => t = id,
               id \notin {"DO", "FOR"} => t \in {"0BRANCH", "LABEL"},
               Emit(Append(sst, Node(t, NULL)), Push(id), csp + 1)
        PROVE  LoopStep
    BY <1>0, <2>1, OpenerLoops
  <2> QED
    BY <1>1, <1>2, <2>1 DEF cfp_if, cfp_begin, cfp_while, cfp_do, cfp_for
<1>3. CASE cfp_until
  <2>1. CASE Matches("BEGIN") /\ Emit(Append(sst, Node("0BRANCH", cs[csp].sst)), cs, csp - 1)
    <3>1. csp \in 2..Len(sst) /\ cs[csp].id = "BEGIN" /\ cs[csp].sst \in Int
      BY <1>0, <2>1, TopEntry, WhileCompiling
    <3>2. csp - 1 \in 1..csp /\ \A k \in (csp - 1) + 1..csp : k = csp
      BY <3>1
    <3> QED
      BY <1>0, <2>1, <3>1, <3>2, PlainLoops DEF LoopStep
  <2> QED
    BY <1>1, <1>3, <2>1 DEF cfp_until
<1>4. CASE cfp_loop \/ cfp_next
  BY <1>0, <1>1, <1>4, LoopCloses DEF cfp_loop, cfp_next
<1>5. CASE cfp_leave
  <2>1. ASSUME NEW k \in 1..csp, Emit(Append(sst, Node("LEAVE", cs[k].sst)), cs, csp)
        PROVE  LoopStep
    <3>1. cs[k].sst \in Int /\ csp \in 1..csp
      BY <1>0, WhileCompiling, SizeAssumption DEF ControlEntry
    <3>2. Node("LEAVE", cs[k].sst) \in SSTNode /\ Neutral(Node("LEAVE", cs[k].sst))
      BY <1>0, <3>1
    <3>3. \A j \in csp + 1..csp : FALSE
      BY <3>1
    <3> QED
      BY <1>0, <2>1, <3>1, <3>2, <3>3, PlainLoops DEF LoopStep
  <2> QED
    BY <1>1, <1>5, <2>1 DEF cfp_leave
<1>6. CASE cfp_endif \/ cfp_else \/ cfp_repeat
  BY <1>6, ClosersLoops DEF LoopStep
<1> QED
  BY <1>2, <1>3, <1>4, <1>5, <1>6 DEF Structure

\* The words that append one node of their own.
LEMMA CompileLoops ==
  ASSUME IInv, Compile
  PROVE  LoopStep
<1>0. Compiling
  BY DEF Compile, cfp_sharp, cfp_allot, CompileExtension, CompileReference
<1>1. ASSUME NEW t \in ExtensionOps \cup {"LITERAL", "ALLOT", "WORD_REF", "VAR_REF"}, NEW r \in Int,
             Emit(Append(sst, Node(t, r)), cs, csp)
      PROVE  LoopStep
  <2>1. t \in ControlOps \cup ExtensionOps /\ t \notin LoopIds \cup {"LOOP", "NEXT"}
    BY NodeTypes DEF LoopIds
  <2>2. Node(t, r) \in SSTNode /\ Neutral(Node(t, r)) /\ csp \in 1..csp
    BY <1>0, <2>1, NodeTypes, WhileCompiling DEF Neutral
  <2> QED
    BY <1>0, <1>1, <2>2, WhileCompiling, PlainLoops DEF LoopStep
<1>2. CASE \E v \in Values : cfp_sharp(v) \/ cfp_allot(v)
  BY <1>1, <1>2, FileAssumption DEF cfp_sharp, cfp_allot
<1>3. CASE \E op \in Ops : CompileExtension(op)
  BY <1>1, <1>3, FileAssumption DEF CompileExtension, NULL
<1>4. ASSUME NEW n \in Names, CompileReference(n)
      PROVE  LoopStep
  <2>1. PICK s \in DOMAIN dict : Emit(Append(sst, Node(RefType(dict[s].type), s)), cs, csp)
    BY <1>4 DEF CompileReference
  <2>2. s \in Int
    BY DEF IInv, TypeOK
  <2> QED
    BY <1>1, <2>1, <2>2 DEF RefType
<1> QED
  BY <1>2, <1>3, <1>4 DEF Compile

-----------------------------------------------------------------------------
(* The induction. *)

\* Old closers are what they were, so a loop once closed stays closed.
LEMMA UnclosedBefore ==
  ASSUME IInv, Grows \/ Reveals \/ Enters \/ Rests,
         NEW i \in 1..Len(sst), Unclosed(sst', i)
  PROVE  Unclosed(sst, i)
<1>1. sst[i].type \in LoopIds
  BY OldNodes DEF Unclosed
<1>2. ASSUME NEW j \in 1..Len(sst), sst[j].type \in {"LOOP", "NEXT"}
      PROVE  sst[j].ref # i
  BY <1>2, SameNode DEF Unclosed, BranchOps
<1> QED
  BY <1>1, <1>2 DEF Unclosed

\* And one not closed yet is closed by a new node only.
LEMMA UnclosedAfter ==
  ASSUME IInv, Grows, NEW i \in 1..Len(sst), Unclosed(sst, i),
         \A j \in Len(sst) + 1..Len(sst') : sst'[j].type \in {"LOOP", "NEXT"} => sst'[j].ref # i
  PROVE  Unclosed(sst', i)
<1>1. sst'[i].type \in LoopIds
  BY OldNodes DEF Unclosed
<1>2. ASSUME NEW j \in 1..Len(sst), sst'[j].type \in {"LOOP", "NEXT"}
      PROVE  sst'[j].ref # i
  <2>1. sst[j].type = sst'[j].type
    BY OldNodes
  <2>2. sst'[j] = sst[j]
    BY <1>2, <2>1, SameNode DEF BranchOps
  <2> QED
    BY <1>2, <2>2 DEF Unclosed
<1> QED
  BY <1>1, <1>2, OldNodes DEF Unclosed

\* Inside a definition.
LEMMA GrowthHolds ==
  ASSUME IInv, LoopsNest, LoopsHeld, Grows, LoopStep
  PROVE  LoopsHeld'
<1>0. /\ Compiling /\ dict' = dict /\ creating' = creating /\ creating # NULL /\ Start # NULL
      /\ Start \in 1..Len(sst) /\ csp \in 1..Len(sst)
      /\ Len(sst) \in Nat /\ Len(sst') \in Nat /\ Len(sst) <= Len(sst')
  BY WhileCompiling, OldNodes DEF Grows, IInv, OpenDefinition, NULL
<1>1. ASSUME NEW i \in 1..Len(sst'), Unclosed(sst', i)
      PROVE  /\ Open(i)'
             /\ status' # "failed" => \E k \in 2..csp' : cs'[k].id \in LoopIds /\ cs'[k].sst = i
  <2>1. CASE i \in 1..Len(sst)
    <3>1. Unclosed(sst, i)
      BY <1>1, <2>1, UnclosedBefore
    <3>2. Open(i)
      BY <2>1, <3>1 DEF LoopsHeld
    <3>3. PICK k \in 2..csp : cs[k].id \in LoopIds /\ cs[k].sst = i
      BY <1>0, <2>1, <3>1 DEF LoopsHeld, Compiling
    <3>4. CASE SameLoops
      BY <1>0, <3>2, <3>3, <3>4 DEF Open, SameLoops
    <3>5. CASE OpensLoop
      BY <1>0, <3>2, <3>3, <3>5 DEF Open, OpensLoop
    <3>6. CASE ClosesLoop
      <4>1. cs[csp].sst # i
        BY <1>0, <1>1, <3>6 DEF ClosesLoop, Unclosed
      <4>2. k \in 2..csp'
        BY <1>0, <3>3, <3>6, <4>1 DEF ClosesLoop
      <4> QED
        BY <1>0, <3>2, <3>3, <3>6, <4>2 DEF Open, ClosesLoop
    <3> QED
      BY <3>4, <3>5, <3>6 DEF LoopStep
  <2>2. CASE i \in Len(sst) + 1..Len(sst')
    <3>1. OpensLoop /\ i = Len(sst) + 1
      BY <1>0, <1>1, <2>2 DEF LoopStep, SameLoops, OpensLoop, ClosesLoop, Neutral, Unclosed, LoopIds
    <3>2. Open(i)'
      BY <1>0, <2>2 DEF Open, Start
    <3>3. csp + 1 \in 2..csp'
      BY <1>0, <3>1 DEF OpensLoop
    <3> QED
      BY <3>1, <3>2, <3>3 DEF OpensLoop
  <2> QED
    BY <1>0, <2>1, <2>2
<1>2. ASSUME NEW k \in 2..csp', cs'[k].id \in LoopIds, status' # "failed"
      PROVE  Unclosed(sst', cs'[k].sst)
  <2>1. ASSUME NEW l \in 2..csp, cs[l].id \in LoopIds
        PROVE  /\ Unclosed(sst, cs[l].sst) /\ cs[l].sst \in 1..Len(sst)
               /\ \A m \in 2..csp : m # l => cs[m].sst # cs[l].sst
    BY <1>0, <2>1, WhileCompiling DEF LoopsHeld, StackHeld, EntryHeld, Distinct
  <2>2. CASE SameLoops
    <3>1. k \in 2..csp /\ cs'[k] = cs[k]
      BY <1>2, <2>2 DEF SameLoops
    <3>2. \A j \in Len(sst) + 1..Len(sst') : sst'[j].type \notin {"LOOP", "NEXT"}
      BY <2>2 DEF SameLoops, Neutral
    <3> QED
      BY <1>2, <2>1, <3>1, <3>2, UnclosedAfter
  <2>3. CASE OpensLoop
    <3>1. \A j \in Len(sst) + 1..Len(sst') : sst'[j].type \notin {"LOOP", "NEXT"}
      BY <1>0, <2>3 DEF OpensLoop, LoopIds
    <3>2. CASE k \in 2..csp
      BY <1>2, <2>1, <2>3, <3>1, <3>2, UnclosedAfter DEF OpensLoop
    <3>3. CASE k = csp + 1
      <4>1. ASSUME NEW j \in 1..Len(sst), sst'[j].type \in {"LOOP", "NEXT"}
            PROVE  sst'[j].ref # Len(sst) + 1
        <5>1. sst[j].type = sst'[j].type
          BY OldNodes
        <5>2. sst'[j] = sst[j]
          BY <4>1, <5>1, SameNode DEF BranchOps
        <5>3. sst[j].ref \in 1..j - 1
          BY <4>1, <5>1, LoopWords DEF LoopsNest, IInv, TypeOK
        <5> QED
          BY <1>0, <5>2, <5>3
      <4> QED
        BY <1>0, <2>3, <3>1, <3>3, <4>1 DEF OpensLoop, Unclosed
    <3> QED
      BY <1>0, <2>3, <3>2, <3>3 DEF OpensLoop
  <2>4. CASE ClosesLoop
    <3>1. k \in 2..csp /\ k # csp /\ csp \in 2..csp
      BY <1>0, <2>4 DEF ClosesLoop
    <3>2. cs[csp].sst # cs[k].sst
      BY <1>2, <2>1, <2>4, <3>1 DEF ClosesLoop
    <3>3. \A j \in Len(sst) + 1..Len(sst') : sst'[j].ref # cs[k].sst
      BY <1>0, <2>4, <3>2 DEF ClosesLoop
    <3> QED
      BY <1>2, <2>1, <2>4, <3>1, <3>3, UnclosedAfter DEF ClosesLoop
  <2> QED
    BY <2>2, <2>3, <2>4 DEF LoopStep
<1> QED
  BY <1>1, <1>2 DEF LoopsHeld, Compiling

\* A definition that : has just opened has no nodes behind its COLON.
LEMMA FreshDefinition ==
  ASSUME IInv, IInv', Reveals \/ Enters, Compiling'
  PROVE  Start' = Len(sst') /\ Len(sst') \in Nat
<1>1. creating' # NULL /\ Start' \in 1..Len(sst')
  BY DEF IInv, TypeOK, OpenDefinition, NULL
<1>2. Enters
  BY <1>1 DEF Reveals
<1>3. PICK symbol \in Symbol(Names) :
        /\ dict' = Append(dict, symbol)
        /\ creating' = IF symbol.type = "WORD" THEN Len(dict') ELSE NULL
        /\ \/ symbol.sst = Len(sst) + 1 /\ sst' = Append(sst, Node("COLON", Len(dict')))
           \/ symbol.type = "VARIABLE"
           \/ symbol.sst = NULL
  BY <1>2 DEF Enters
<1>4. Start' = symbol.sst
  BY <1>1, <1>3, NewSymbol DEF Start
<1>5. symbol.sst = Len(sst) + 1 /\ sst' = Append(sst, Node("COLON", Len(dict')))
  BY <1>1, <1>3, <1>4 DEF NULL
<1>6. Len(sst') = Len(sst) + 1 /\ Len(sst) \in Nat
  BY <1>5 DEF IInv, TypeOK
<1> QED
  BY <1>4, <1>5, <1>6

\* Between definitions every loop is closed, and ; and : keep it so.
LEMMA BorderHolds ==
  ASSUME IInv, IInv', LoopsHeld, Reveals \/ Enters
  PROVE  LoopsHeld'
<1>1. ASSUME NEW i \in 1..Len(sst)
      PROVE  ~Unclosed(sst, i)
  <2>1. CASE Reveals
    <3>1. status = "loading" /\ 2..csp = {}
      BY <2>1, WhileCompiling DEF Reveals, Balanced, Compiling
    <3> QED
      BY <3>1 DEF LoopsHeld
  <2>2. CASE Enters
    <3>1. creating = NULL
      BY <2>2 DEF Enters, IInv, OpenDefinition
    <3> QED
      BY <3>1 DEF LoopsHeld, Open
  <2> QED
    BY <2>1, <2>2
<1>2. ASSUME NEW i \in 1..Len(sst')
      PROVE  ~Unclosed(sst', i)
  <2>1. CASE i \in 1..Len(sst)
    BY <1>1, <2>1, UnclosedBefore
  <2>2. CASE i \in Len(sst) + 1..Len(sst')
    BY <2>2, BorderNodes DEF Unclosed, LoopIds
  <2> QED
    BY <2>1, <2>2, OldNodes
<1>3. ~(Compiling' /\ 2..csp' # {})
  <2> SUFFICES ASSUME Compiling', NEW k \in 2..csp' PROVE FALSE
    OBVIOUS
  <2>1. StackHeld(sst', cs', csp', Start')
    BY DEF IInv, ControlInv
  <2>2. cs'[k].sst \in Start' + 1..Len(sst')
    BY <2>1 DEF StackHeld, EntryHeld
  <2>3. Start' = Len(sst') /\ Len(sst') \in Nat
    BY FreshDefinition
  <2> QED
    BY <2>2, <2>3
<1> QED
  BY <1>2, <1>3 DEF LoopsHeld

\* Whatever makes a definition grow has one of the three shapes.
LEMMA GrowthLoops ==
  ASSUME IInv, [Next]_vars, Grows
  PROVE  LoopStep
<1>1. CASE Structure \/ Compile
  BY <1>1, StructureLoops, CompileLoops
<1>2. CASE cfp_semicolon /\ AbortWith(Append(sst, Node("RET", NULL)))
  <2>1. /\ Node("RET", NULL) \in SSTNode /\ Node("RET", NULL).type = "RET" /\ "RET" \notin LoopIds
    BY NodeTypes DEF NULL, LoopIds
  <2>2. Compiling /\ sst' = Append(sst, Node("RET", NULL)) /\ status' = "failed"
    BY <1>2 DEF cfp_semicolon, AbortWith
  <2>3. Len(sst') = Len(sst) + 1 /\ sst'[Len(sst) + 1] = Node("RET", NULL) /\ Len(sst) \in Nat
    BY <2>1, <2>2, WhileCompiling, AppendNode
  <2>4. \A i \in Len(sst) + 1..Len(sst') : i = Len(sst) + 1
    BY <2>3
  <2> QED
    BY <2>1, <2>2, <2>3, <2>4 DEF SameLoops, Neutral, LoopStep
<1>3. CASE Abort
  BY <1>3, AbortSameLoops DEF LoopStep
<1>4. CASE UNCHANGED vars
  BY <1>4 DEF vars, SameLoops, LoopStep, IInv, TypeOK
<1>5. Compiling /\ creating # NULL /\ creating' = creating
  BY DEF Grows, IInv, OpenDefinition, NULL
<1>6. ~Define /\ ~(Interpreting /\ EndOfFile)
  BY <1>5 DEF Define, cfp_colon, cfp_variable, cfp_constant, Compiling, Interpreting
<1> QED
  BY <1>1, <1>2, <1>3, <1>4, <1>5, <1>6 DEF Next, BadToken, EndOfFile, cfp_semicolon

\* Every token keeps the loops held.
LEMMA StepLoopsHeld == IInv /\ LoopsNest /\ LoopsHeld /\ [Next]_vars => LoopsHeld'
<1> SUFFICES ASSUME IInv, LoopsNest, LoopsHeld, [Next]_vars
             PROVE  LoopsHeld'
  OBVIOUS
<1>1. IInv' /\ (Grows \/ Reveals \/ Enters \/ Rests)
  BY StepKeeps, StepShape
<1>2. CASE Grows
  BY <1>2, GrowthLoops, GrowthHolds
<1>3. CASE Reveals \/ Enters
  BY <1>1, <1>3, BorderHolds
<1>4. CASE Rests
  BY <1>4 DEF Rests, LoopsHeld, Open, Compiling
<1> QED
  BY <1>1, <1>2, <1>3, <1>4

\* Where a loop word stands.
Nested(nodes, i) ==
  LET opener == nodes[i].ref IN
    /\ opener \in 1..i - 1
    /\ nodes[opener].type = LoopOpener[nodes[i].type]
    /\ Unbroken(nodes, opener, i)
    /\ \A j \in opener..i - 1 : ~(nodes[j].type \in {"LOOP", "NEXT"} /\ nodes[j].ref = opener)

\* A loop word that was right stays so.
LEMMA NestedStays ==
  ASSUME IInv, Grows \/ Reveals \/ Enters \/ Rests,
         NEW i \in 1..Len(sst), sst[i].type \in DOMAIN LoopOpener, Nested(sst, i)
  PROVE  Nested(sst', i)
<1>1. sst'[i] = sst[i]
  BY SameNode, LoopWords DEF BranchOps
<1>2. /\ sst[i].ref \in 1..i - 1
      /\ \A j \in sst[i].ref..i : j \in 1..Len(sst)
  BY DEF Nested
<1>3. \A j \in 1..Len(sst) : sst'[j].type = sst[j].type
  BY OldNodes
<1>4. ASSUME NEW j \in sst[i].ref..i - 1, sst'[j].type \in {"LOOP", "NEXT"}
      PROVE  sst'[j].ref # sst[i].ref
  <2>1. j \in 1..Len(sst) /\ sst[j].type \in {"LOOP", "NEXT"}
    BY <1>2, <1>3, <1>4
  <2>2. sst'[j] = sst[j]
    BY <2>1, SameNode DEF BranchOps
  <2> QED
    BY <2>1, <2>2 DEF Nested
<1>5. sst'[sst[i].ref].type = LoopOpener[sst'[i].type]
  BY <1>1, <1>2, <1>3 DEF Nested
<1>6. Unbroken(sst', sst[i].ref, i)
  BY <1>2, <1>3 DEF Nested, Unbroken
<1> QED
  BY <1>1, <1>2, <1>4, <1>5, <1>6 DEF Nested

\* A new one names a loop that an entry holds, so one not closed yet.
LEMMA NewNested ==
  ASSUME IInv, LoopsHeld, Grows, LoopStep,
         NEW i \in Len(sst) + 1..Len(sst'), sst'[i].type \in DOMAIN LoopOpener
  PROVE  Nested(sst', i)
<1>0. Compiling /\ Len(sst) \in Nat /\ csp \in Nat
  BY WhileCompiling DEF Grows
<1>1. PICK k \in 2..csp : cs[k].id = LoopOpener[sst'[i].type] /\ cs[k].sst = sst'[i].ref
  BY DEF Grows, Grown, CompiledNode
<1> DEFINE opener == sst'[i].ref
<1>2. cs[k].id \in LoopIds
  BY <1>1, LoopWords DEF LoopIds
<1>3. EntryHeld(sst, cs, Start, k) /\ Start \in 1..Len(sst)
  BY <1>0, <1>1, WhileCompiling DEF StackHeld
<1>4. opener \in Start + 1..Len(sst) /\ sst[opener].type = LoopOpener[sst'[i].type]
  BY <1>1, <1>2, <1>3 DEF EntryHeld, LoopIds
<1>5. opener \in 1..i - 1 /\ opener \in 1..Len(sst) /\ opener \in Start + 1..Len(sst')
  BY <1>0, <1>3, <1>4
<1>6. sst'[opener].type = LoopOpener[sst'[i].type]
  BY <1>4, <1>5, OldNodes
<1>7. Unbroken(sst', opener, i)
  BY <1>5, GrowthUnbroken DEF Unbroken
<1>8. Unclosed(sst, opener)
  BY <1>0, <1>1, <1>2 DEF LoopsHeld
<1>9. ASSUME NEW j \in opener..i - 1, sst'[j].type \in {"LOOP", "NEXT"}, sst'[j].ref = opener
      PROVE  FALSE
  <2>1. CASE j \in 1..Len(sst)
    <3>1. sst[j].type \in {"LOOP", "NEXT"}
      BY <1>9, <2>1, OldNodes
    <3>2. sst'[j] = sst[j]
      BY <2>1, <3>1, SameNode DEF BranchOps
    <3> QED
      BY <1>8, <1>9, <2>1, <3>2 DEF Unclosed
  <2>2. CASE j \in Len(sst) + 1..Len(sst')
    <3>1. Len(sst') # Len(sst) + 1
      BY <1>0, <2>2
    <3>2. SameLoops
      BY <3>1 DEF LoopStep, OpensLoop, ClosesLoop
    <3> QED
      BY <1>9, <2>2, <3>2 DEF SameLoops, Neutral
  <2> QED
    BY <1>0, <1>5, <2>1, <2>2
<1> QED
  BY <1>5, <1>6, <1>7, <1>9 DEF Nested

\* Every token keeps the loops nested.
LEMMA StepNests == IInv /\ LoopsNest /\ LoopsHeld /\ [Next]_vars => LoopsNest'
<1> SUFFICES ASSUME IInv, LoopsNest, LoopsHeld, [Next]_vars
             PROVE  LoopsNest'
  OBVIOUS
<1>1. Grows \/ Reveals \/ Enters \/ Rests
  BY StepShape
<1>2. DOMAIN sst = 1..Len(sst) /\ DOMAIN sst' = 1..Len(sst')
  BY StepKeeps DEF IInv, TypeOK
<1>3. ASSUME NEW i \in 1..Len(sst'), sst'[i].type \in DOMAIN LoopOpener
      PROVE  Nested(sst', i)
  <2>1. CASE i \in 1..Len(sst)
    <3>1. sst[i].type \in DOMAIN LoopOpener
      BY <1>1, <1>3, <2>1, OldNodes
    <3>2. Nested(sst, i)
      BY <1>2, <2>1, <3>1 DEF LoopsNest, Nested, Closes
    <3> QED
      BY <1>1, <2>1, <3>1, <3>2, NestedStays
  <2>2. CASE i \in Len(sst) + 1..Len(sst')
    <3>1. CASE Grows
      BY <1>3, <2>2, <3>1, GrowthLoops, NewNested
    <3>2. CASE Reveals \/ Enters \/ Rests
      BY <1>3, <2>2, <3>2, StepKeeps, BorderNodes, LoopWords
    <3> QED
      BY <1>1, <3>1, <3>2
  <2> QED
    BY <1>1, <1>3, <2>1, <2>2, OldNodes
<1>4. ASSUME NEW i \in 1..Len(sst'), sst'[i].type \in {"DO", "FOR"}, ~Open(i)'
      PROVE  \E j \in 1..Len(sst') : Closes(j, i)'
  <2>1. LoopsHeld'
    BY StepLoopsHeld
  <2>2. ~Unclosed(sst', i)
    BY <1>4, <2>1 DEF LoopsHeld
  <2> QED
    BY <1>4, <2>2 DEF Unclosed, LoopIds, Closes
<1> QED
  BY <1>2, <1>3, <1>4 DEF LoopsNest, Nested, Closes

(***************************************************************************)
(* Whatever the file, LOOP, LEAVE and NEXT name a DO or FOR of their own   *)
(* definition that was open where they stand, and no finished definition   *)
(* leaves one unclosed: a LEAVE or LOOP never reaches a loop that another  *)
(* word, or an inner structure, has ended.                                 *)
(***************************************************************************)
THEOREM LoopsAlwaysNest == Spec => []LoopsNest
<1>1. Init => LoopsNest /\ LoopsHeld
  BY DEF Init, LoopsNest, LoopsHeld, Compiling
<1> QED
  BY <1>1, InitHolds, StepKeeps, StepNests, StepLoopsHeld, PTL DEF Spec

-----------------------------------------------------------------------------
(* What nodes name. *)

Definer == {"COLON", "VARIABLE"}

\* Definitions name the symbols in the order of their entry, and references
\* name a symbol.
NodesNamed ==
  \A i \in 1..Len(sst) :
    /\ sst[i].type \in Definer \cup {"WORD_REF", "VAR_REF"} => sst[i].ref \in 1..Len(dict)
    /\ sst[i].type \in Definer =>
         \A j \in 1..i - 1 : sst[j].type \in Definer => sst[j].ref < sst[i].ref

\* The node that : or VARIABLE appends names the symbol just entered.
LEMMA EnteredNode ==
  ASSUME IInv, Enters
  PROVE  \A i \in Len(sst) + 1..Len(sst') :
           i = Len(sst) + 1 /\ sst'[i].type \in Definer /\ sst'[i].ref = Len(dict) + 1
                            /\ Len(dict') = Len(dict) + 1
<1>1. sst \in Seq(SSTNode) /\ Len(sst) \in Nat /\ Len(dict) \in Nat
  BY DEF IInv, TypeOK
<1>2. PICK symbol \in Symbol(Names) :
        /\ dict' = Append(dict, symbol)
        /\ \/ sst' = Append(sst, Node("COLON", Len(dict')))
           \/ sst' = Append(sst, Node("VARIABLE", Len(dict')))
           \/ sst' = sst
  BY DEF Enters
<1>3. Len(dict') = Len(dict) + 1
  BY <1>2, NewSymbol
<1>4. ASSUME NEW t \in Definer, sst' = Append(sst, Node(t, Len(dict')))
      PROVE  \A i \in Len(sst) + 1..Len(sst') :
               i = Len(sst) + 1 /\ sst'[i].type = t /\ sst'[i].ref = Len(dict')
  <2>1. /\ Node(t, Len(dict')) \in SSTNode
        /\ Node(t, Len(dict')).type = t /\ Node(t, Len(dict')).ref = Len(dict')
    <3>1. t \in ControlOps \cup ExtensionOps /\ Len(dict') \in Int
      BY <1>1, <1>3, NodeTypes DEF Definer
    <3> QED
      BY <3>1, NodeTypes
  <2> QED
    BY <1>1, <1>4, <2>1, AppendNode
<1>5. CASE sst' = sst
  BY <1>1, <1>5
<1> QED
  BY <1>2, <1>3, <1>4, <1>5 DEF Definer

LEMMA StepNames == IInv /\ NodesNamed /\ [Next]_vars => NodesNamed'
<1> SUFFICES ASSUME IInv, NodesNamed, [Next]_vars
             PROVE  NodesNamed'
  OBVIOUS
<1>1. (Grows \/ Reveals \/ Enters \/ Rests) /\ IInv'
  BY StepShape, StepKeeps
<1>2. /\ Len(sst) \in Nat /\ Len(sst') \in Nat /\ Len(sst) <= Len(sst')
      /\ Len(dict) \in Nat /\ Len(dict') \in Nat /\ Len(dict) <= Len(dict')
      /\ DOMAIN dict = 1..Len(dict)
  BY <1>1, OldNodes, Symbols DEF IInv, TypeOK
<1>3. \A i \in 1..Len(sst) :
        /\ sst'[i].type = sst[i].type
        /\ sst[i].type \in Definer \cup {"WORD_REF", "VAR_REF"} => sst'[i] = sst[i]
  BY <1>1, OldNodes DEF Hanging, BranchOps, Definer
<1>4. ASSUME NEW i \in Len(sst) + 1..Len(sst'), sst'[i].type \in Definer
      PROVE  Enters
  <2>1. ~Grows
    BY <1>4 DEF Grows, Grown, CompiledNode, Boundary, Definer
  <2>2. ~Reveals
    <3> SUFFICES ASSUME Reveals PROVE FALSE
      OBVIOUS
    <3>1. sst \in Seq(SSTNode)
      BY DEF IInv, TypeOK
    <3>2. Node("RET", NULL).type = "RET" /\ Node("SEMICOLON", NULL).type = "SEMICOLON"
      BY DEF Node
    <3> QED
      BY <1>4, <3>1, <3>2, SemicolonNodes DEF Reveals, Definer
  <2> QED
    BY <1>1, <1>2, <1>4, <2>1, <2>2 DEF Rests
<1>5. ASSUME NEW i \in Len(sst) + 1..Len(sst'), sst'[i].type \in {"WORD_REF", "VAR_REF"}
      PROVE  sst'[i].ref \in 1..Len(dict)
  <2>1. Grows
    BY <1>1, <1>5, BorderNodes
  <2> QED
    BY <1>2, <1>5, <2>1 DEF Grows, Grown, CompiledNode
<1>6. ASSUME NEW i \in 1..Len(sst')
      PROVE  /\ sst'[i].type \in Definer \cup {"WORD_REF", "VAR_REF"} => sst'[i].ref \in 1..Len(dict')
             /\ sst'[i].type \in Definer =>
                  \A j \in 1..i - 1 : sst'[j].type \in Definer => sst'[j].ref < sst'[i].ref
  <2>1. CASE i \in 1..Len(sst)
    BY <1>2, <1>3, <2>1 DEF NodesNamed
  <2>2. CASE i \in Len(sst) + 1..Len(sst')
    <3>1. sst'[i].type \in Definer => i = Len(sst) + 1 /\ sst'[i].ref = Len(dict) + 1 /\ Len(dict') = Len(dict) + 1
      BY <1>4, <2>2, EnteredNode
    <3>2. \A j \in 1..Len(sst) : sst'[j].type \in Definer => sst'[j].ref \in 1..Len(dict)
      BY <1>3 DEF NodesNamed
    <3> QED
      BY <1>2, <1>5, <2>2, <3>1, <3>2
  <2> QED
    BY <1>2, <2>1, <2>2
<1> QED
  BY <1>6 DEF NodesNamed

=============================================================================
