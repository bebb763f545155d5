------------------------ MODULE ColonCompilerProofs ------------------------
(***************************************************************************)
(* Proofs about ColonCompiler for every value of its constants.            *)
(*                                                                         *)
(* The induction rests on OpenDefinition (what is true of the definition   *)
(* between : and ;) and StackHeld (what the control stack remembers of     *)
(* it).  Every compiling word ends in Commit or in AbortWith, so it is     *)
(* enough to show, per word, what its nodes, stack and top are like.       *)
(***************************************************************************)
EXTENDS ColonCompiler, TLAPS

Start == dict[creating].sst

ControlEntry == [id : ControlId, sst : Nat]

\* Entry k of a control stack remembers a node of the open definition, which
\* begins after node start, and its type is the one the entry's closer needs.
EntryHeld(nodes, stack, start, k) ==
  /\ stack[k].sst \in start + 1..Len(nodes)
  /\ stack[k].id \in {"IF", "BEGIN", "WHILE", "DO", "FOR"}
  /\ stack[k].id \in {"IF", "WHILE"} =>
       nodes[stack[k].sst].type \in BranchOps /\ nodes[stack[k].sst].ref = NULL
  /\ stack[k].id = "WHILE" => k - 1 \in 2..k /\ stack[k - 1].id = "BEGIN"
  /\ stack[k].id = "BEGIN" => nodes[stack[k].sst].type = "LABEL"
  /\ stack[k].id \in {"DO", "FOR"} => nodes[stack[k].sst].type = stack[k].id

Distinct(stack, top) ==
  \A j, k \in 2..top : j # k => stack[j].sst # stack[k].sst

StackHeld(nodes, stack, top, start) ==
  /\ top \in 1..Len(nodes)
  /\ stack[0].id = "COLON" /\ stack[1].id = "NONE"
  /\ \A k \in 2..top : EntryHeld(nodes, stack, start, k)
  /\ Distinct(stack, top)

OpenDefinition ==
  /\ Interpreting => creating = NULL
  /\ Compiling =>
       /\ creating = Len(dict) /\ Len(dict) # 0
       /\ dict[creating].type = "WORD" /\ dict[creating].hidden
       /\ Start \in DOMAIN sst
       /\ sst[Start] = Node("COLON", creating)
       /\ Unbroken(sst, Start + 1, Len(sst))

\* No word ever pushes entry 1.
ControlInv ==
  /\ cs[1].id = "NONE"
  /\ Compiling => StackHeld(sst, cs, csp, Start)

IInv == TypeOK /\ OpenDefinition /\ ControlInv

-----------------------------------------------------------------------------
(* Sequences of nodes. *)

\* The literals the handlers append are nodes.
LEMMA NodeTypes ==
  /\ \A t \in ControlOps \cup ExtensionOps, r \in Int :
       Node(t, r) \in SSTNode /\ Node(t, r).type = t /\ Node(t, r).ref = r
  /\ ControlOps \cap ExtensionOps = {}
  /\ {"COLON", "SEMICOLON", "VARIABLE", "0BRANCH", "BRANCH", "LABEL", "DO", "LOOP", "LEAVE",
      "FOR", "NEXT", "LITERAL", "ALLOT", "VAR_REF", "WORD_REF"} = ControlOps
  /\ "RET" \in ExtensionOps
BY DEF Node, SSTNode, NodeType, ControlOps, ExtensionOps, Boundary, BranchOps

\* The two nodes that THEN, ELSE and REPEAT append.
LEMMA JoinNodes ==
  /\ Node("LABEL", NULL) \in SSTNode /\ Node("BRANCH", NULL) \in SSTNode
  /\ Node("LABEL", NULL).type = "LABEL" /\ Node("BRANCH", NULL).type = "BRANCH"
  /\ Node("LABEL", NULL).ref = NULL /\ Node("BRANCH", NULL).ref = NULL
  /\ "LABEL" \notin Boundary \cup BranchOps /\ "BRANCH" \notin Boundary
<1>1. "LABEL" \in ControlOps \cup ExtensionOps /\ "BRANCH" \in ControlOps \cup ExtensionOps
  BY NodeTypes
<1>2. "LABEL" \notin Boundary \cup BranchOps /\ "BRANCH" \notin Boundary
  BY DEF Boundary, BranchOps
<1> QED
  BY <1>1, <1>2, NodeTypes DEF NULL

\* What Append does, element by element.
LEMMA AppendNode ==
  ASSUME NEW S, NEW s \in Seq(S), NEW n \in S
  PROVE  /\ Append(s, n) \in Seq(S)
         /\ Len(Append(s, n)) = Len(s) + 1
         /\ \A i \in 1..Len(s) : Append(s, n)[i] = s[i]
         /\ Append(s, n)[Len(s) + 1] = n
OBVIOUS

\* What Fill does: one reference changes and nothing else.
LEMMA FillNode ==
  ASSUME NEW s \in Seq(SSTNode), NEW hole \in 1..Len(s), NEW target \in Int
  PROVE  /\ Fill(s, hole, target) \in Seq(SSTNode)
         /\ Len(Fill(s, hole, target)) = Len(s)
         /\ \A i \in 1..Len(s) :
              /\ Fill(s, hole, target)[i].type = s[i].type
              /\ i # hole => Fill(s, hole, target)[i] = s[i]
         /\ Fill(s, hole, target)[hole].ref = target
<1> DEFINE f == Fill(s, hole, target)
<1>1. /\ f = [s EXCEPT ![hole] = [s[hole] EXCEPT !.ref = target]]
      /\ s[hole] \in SSTNode
  BY DEF Fill
<1>2. [s[hole] EXCEPT !.ref = target] \in SSTNode
  BY <1>1 DEF SSTNode
<1>3. f \in Seq(SSTNode) /\ Len(f) = Len(s)
  BY <1>1, <1>2
<1> QED
  BY <1>1, <1>3 DEF SSTNode

-----------------------------------------------------------------------------
(* The two ways a compiling word can end. *)

\* After an error nothing is being compiled any more.
LEMMA AbortKeeps ==
  ASSUME IInv, NEW nodes \in Seq(SSTNode), Len(nodes) <= SST_NODE_MAX + 1,
         AbortWith(nodes)
  PROVE  IInv'
BY DEF IInv, TypeOK, OpenDefinition, ControlInv, AbortWith, Interpreting, Compiling

\* Otherwise the nodes of the open definition were extended or filled in, and
\* the control stack still holds.
LEMMA CommitKeeps ==
  ASSUME IInv, Compiling,
         NEW nodes \in Seq(SSTNode), NEW stack \in [0..SST_NODE_MAX + 1 -> ControlEntry], NEW top,
         Commit(nodes, stack, top),
         Len(sst) <= Len(nodes), Len(nodes) <= SST_NODE_MAX + 1,
         \A i \in 1..Len(sst) : nodes[i].type = sst[i].type,
         nodes[Start] = sst[Start],
         \A i \in Len(sst) + 1..Len(nodes) : nodes[i].type \notin Boundary,
         StackHeld(nodes, stack, top, Start)
  PROVE  IInv'
<1>1. TypeOK'
  <2>1. top \in -1..SST_NODE_MAX + 1
    BY SizeAssumption DEF StackHeld
  <2> QED
    BY <2>1 DEF IInv, TypeOK, Commit, ControlEntry
<1>2. OpenDefinition'
  <2>1. \A i \in Start + 1..Len(nodes) : nodes[i].type \notin Boundary
    BY SMTT(30) DEF IInv, TypeOK, OpenDefinition, Unbroken
  <2> QED
    BY <2>1 DEF IInv, TypeOK, OpenDefinition, Commit, Compiling, Interpreting, Unbroken, Start
<1>3. ControlInv'
  BY DEF ControlInv, Commit, Start, StackHeld
<1> QED
  BY <1>1, <1>2, <1>3 DEF IInv

\* What holds while a definition is open, for the proofs of the words below.
LEMMA WhileCompiling ==
  ASSUME IInv, Compiling
  PROVE  /\ sst \in Seq(SSTNode) /\ Len(sst) \in 1..SST_NODE_MAX + 1
         /\ cs \in [0..SST_NODE_MAX + 1 -> ControlEntry]
         /\ csp \in 1..Len(sst)
         /\ Start \in 1..Len(sst)
         /\ StackHeld(sst, cs, csp, Start)
BY DEF IInv, TypeOK, OpenDefinition, ControlInv, StackHeld, ControlEntry

-----------------------------------------------------------------------------
(* Words that append one node and keep the stack. *)

\* One more node at the end disturbs no entry of the control stack.
LEMMA AppendKeepsStack ==
  ASSUME NEW nodes \in Seq(SSTNode), NEW n \in SSTNode, NEW stack, NEW top \in Nat, NEW start \in Nat,
         StackHeld(nodes, stack, top, start)
  PROVE  StackHeld(Append(nodes, n), stack, top, start)
<1>1. Len(Append(nodes, n)) = Len(nodes) + 1 /\ \A i \in 1..Len(nodes) : Append(nodes, n)[i] = nodes[i]
  BY AppendNode
<1>2. ASSUME NEW k \in 2..top
      PROVE  EntryHeld(Append(nodes, n), stack, start, k)
  BY <1>1 DEF StackHeld, EntryHeld
<1> QED
  BY <1>1, <1>2 DEF StackHeld

\* A word that appends one node without opening or closing anything.
LEMMA PlainAppend ==
  ASSUME IInv, Compiling, NEW t \in (ControlOps \cup ExtensionOps) \ Boundary, NEW r \in Int,
         Emit(Append(sst, Node(t, r)), cs, csp)
  PROVE  IInv'
<1> DEFINE nodes == Append(sst, Node(t, r))
<1>1. /\ nodes \in Seq(SSTNode) /\ Len(nodes) = Len(sst) + 1
      /\ \A i \in 1..Len(sst) : nodes[i] = sst[i]
      /\ nodes[Len(sst) + 1].type = t
  BY WhileCompiling, NodeTypes, AppendNode
<1>2. CASE Room(1) /\ Commit(nodes, cs, csp)
  <2>1. StackHeld(nodes, cs, csp, Start)
    BY WhileCompiling, NodeTypes, AppendKeepsStack
  <2> QED
    BY <1>1, <1>2, <2>1, WhileCompiling, CommitKeeps, SizeAssumption DEF Room
<1>3. CASE Abort
  BY <1>3, WhileCompiling, AbortKeeps, SizeAssumption DEF Abort
<1> QED
  BY <1>2, <1>3 DEF Emit

-----------------------------------------------------------------------------
(* Words that open a structure. *)

\* IF, BEGIN, WHILE, DO and FOR append one node and push an entry for it.
LEMMA OpenerKeeps ==
  ASSUME IInv, Compiling,
         NEW id \in {"IF", "BEGIN", "WHILE", "DO", "FOR"},
         NEW t \in {"0BRANCH", "LABEL", "DO", "FOR"},
         id \in {"IF", "WHILE"} => t = "0BRANCH",
         id = "BEGIN" => t = "LABEL",
         id \in {"DO", "FOR"} => t = id,
         id = "WHILE" => Matches("BEGIN"),
         Emit(Append(sst, Node(t, NULL)), Push(id), csp + 1)
  PROVE  IInv'
<1> DEFINE n == Node(t, NULL)
           nodes == Append(sst, n)
           stack == Push(id)
<1>1. n \in SSTNode /\ n.type = t /\ n.ref = NULL /\ t \notin Boundary
  <2>1. t \in ControlOps /\ t \notin Boundary
    BY NodeTypes DEF Boundary
  <2> QED
    BY <2>1, NodeTypes DEF NULL
<1>2. /\ nodes \in Seq(SSTNode) /\ Len(nodes) = Len(sst) + 1
      /\ \A i \in 1..Len(sst) : nodes[i] = sst[i]
      /\ nodes[Len(sst) + 1] = n
  BY <1>1, WhileCompiling, AppendNode
<1>3. CASE Room(1) /\ Commit(nodes, stack, csp + 1)
  <2>1. csp + 1 \in 0..SST_NODE_MAX + 1
    BY <1>3, WhileCompiling, SizeAssumption DEF Room
  <2>2. /\ stack \in [0..SST_NODE_MAX + 1 -> ControlEntry]
        /\ \A k \in 0..csp : stack[k] = cs[k]
        /\ stack[csp + 1].id = id /\ stack[csp + 1].sst = Len(sst) + 1
    BY <2>1, WhileCompiling DEF Push, NextNode, ControlEntry, ControlId
  <2>3. ASSUME NEW k \in 2..csp
        PROVE  EntryHeld(nodes, stack, Start, k) /\ stack[k].sst # Len(sst) + 1
    <3>1. EntryHeld(sst, cs, Start, k) /\ k \in 0..csp /\ k - 1 \in 0..csp
      BY WhileCompiling DEF StackHeld
    <3>2. stack[k] = cs[k] /\ stack[k - 1] = cs[k - 1]
      BY <2>2, <3>1
    <3>3. cs[k].sst \in 1..Len(sst) /\ nodes[cs[k].sst] = sst[cs[k].sst]
      BY <1>2, <3>1, WhileCompiling DEF EntryHeld
    <3> HIDE DEF nodes, stack
    <3> QED
      BY <1>2, <3>1, <3>2, <3>3, WhileCompiling DEF EntryHeld
  <2>4. EntryHeld(nodes, stack, Start, csp + 1)
    <3>1. id = "WHILE" => csp \in 2..csp + 1 /\ stack[csp].id = "BEGIN"
      BY <2>2, WhileCompiling DEF Matches, StackHeld
    <3> QED
      BY <3>1, <2>2, <1>1, <1>2, WhileCompiling DEF EntryHeld, BranchOps
  <2>5. Distinct(stack, csp + 1)
    BY <2>2, <2>3, WhileCompiling DEF StackHeld, Distinct
  <2>6. StackHeld(nodes, stack, csp + 1, Start)
    BY <2>2, <2>3, <2>4, <2>5, <1>2, WhileCompiling DEF StackHeld
  <2> QED
    BY <1>1, <1>2, <1>3, <2>2, <2>6, WhileCompiling, CommitKeeps, SizeAssumption DEF Room
<1>4. CASE Abort
  BY <1>4, WhileCompiling, AbortKeeps, SizeAssumption DEF Abort
<1> QED
  BY <1>3, <1>4 DEF Emit

-----------------------------------------------------------------------------
(* Words that close a structure. *)

\* A closer finds a real entry on top: the one of the COLON is below it.
LEMMA TopEntry ==
  ASSUME IInv, Compiling, NEW id \in {"IF", "BEGIN", "WHILE", "DO", "FOR"}, Matches(id)
  PROVE  /\ csp \in 2..Len(sst)
         /\ EntryHeld(sst, cs, Start, csp)
         /\ cs[csp].id = id
         /\ cs[csp].sst \in Start + 1..Len(sst)
         /\ \A k \in 2..csp - 1 : cs[k].sst # cs[csp].sst
BY WhileCompiling, SMTT(30) DEF Matches, StackHeld, EntryHeld, Distinct

\* Popping leaves a control stack that still holds.
LEMMA PopKeepsStack ==
  ASSUME NEW nodes, NEW stack, NEW top \in Nat, NEW start, NEW lower \in 1..top,
         StackHeld(nodes, stack, top, start), Len(nodes) \in Nat
  PROVE  StackHeld(nodes, stack, lower, start)
BY DEF StackHeld, Distinct

\* UNTIL, LOOP and NEXT append one node and pop.
LEMMA CloserKeeps ==
  ASSUME IInv, Compiling, NEW id \in {"BEGIN", "DO", "FOR"}, Matches(id),
         NEW t \in {"0BRANCH", "LOOP", "NEXT"},
         Emit(Append(sst, Node(t, cs[csp].sst)), cs, csp - 1)
  PROVE  IInv'
<1> DEFINE n == Node(t, cs[csp].sst)
           nodes == Append(sst, n)
<1>0. cs[csp].sst \in Int /\ csp - 1 \in 1..csp /\ csp \in Nat /\ Start \in Nat
  BY TopEntry, WhileCompiling
<1>1. n \in SSTNode /\ n.type = t /\ t \notin Boundary
  BY <1>0, NodeTypes DEF Boundary
<1>2. /\ nodes \in Seq(SSTNode) /\ Len(nodes) = Len(sst) + 1
      /\ \A i \in 1..Len(sst) : nodes[i] = sst[i]
      /\ nodes[Len(sst) + 1] = n
  BY <1>1, WhileCompiling, AppendNode
<1>3. CASE Room(1) /\ Commit(nodes, cs, csp - 1)
  <2>1. StackHeld(nodes, cs, csp, Start)
    BY <1>0, <1>1, WhileCompiling, AppendKeepsStack
  <2>2. StackHeld(nodes, cs, csp - 1, Start)
    BY <1>0, <1>2, <2>1, PopKeepsStack
  <2> QED
    BY <1>1, <1>2, <1>3, <2>2, WhileCompiling, CommitKeeps, SizeAssumption DEF Room
<1>4. CASE Abort
  BY <1>4, WhileCompiling, AbortKeeps, SizeAssumption DEF Abort
<1> QED
  BY <1>3, <1>4 DEF Emit

\* THEN, ELSE and REPEAT also fill in the branch their opener left.
Open1 == Append(sst, Node("LABEL", NULL))
Open2 == Append(Append(sst, Node("BRANCH", NULL)), Node("LABEL", NULL))
Hole  == cs[csp].sst

EndifNodes  == Fill(Open1, Hole, NextNode)
ElseNodes   == Fill(Open2, Hole, NextNode + 1)
RepeatNodes == Fill(ElseNodes, NextNode, cs[csp - 1].sst)

\* nodes is sst with the branch at Hole sent to target, and more nodes behind.
Filled(nodes, target) ==
  /\ nodes \in Seq(SSTNode)
  /\ \A i \in 1..Len(sst) : nodes[i].type = sst[i].type
  /\ \A i \in 1..Len(sst) : i # Hole => nodes[i] = sst[i]
  /\ nodes[Hole].ref = target

\* What THEN, ELSE and REPEAT append before anything is filled in.
LEMMA OpenNodes ==
  ASSUME IInv, Compiling
  PROVE  /\ Open1 \in Seq(SSTNode) /\ Len(Open1) = Len(sst) + 1
         /\ \A i \in 1..Len(sst) : Open1[i] = sst[i]
         /\ Open1[Len(sst) + 1] = Node("LABEL", NULL)
         /\ Open2 \in Seq(SSTNode) /\ Len(Open2) = Len(sst) + 2
         /\ \A i \in 1..Len(sst) : Open2[i] = sst[i]
         /\ Open2[Len(sst) + 1] = Node("BRANCH", NULL)
         /\ Open2[Len(sst) + 2] = Node("LABEL", NULL)
<1> DEFINE first == Append(sst, Node("BRANCH", NULL))
<1>1. sst \in Seq(SSTNode) /\ Len(sst) \in Nat
  BY WhileCompiling
<1>2. /\ first \in Seq(SSTNode) /\ Len(first) = Len(sst) + 1
      /\ \A i \in 1..Len(sst) : first[i] = sst[i]
      /\ first[Len(sst) + 1] = Node("BRANCH", NULL)
  BY <1>1, JoinNodes, AppendNode
<1>3. Open2 = Append(first, Node("LABEL", NULL))
  BY DEF Open2
<1> HIDE DEF first
<1>4. /\ Open2 \in Seq(SSTNode) /\ Len(Open2) = Len(first) + 1
      /\ \A i \in 1..Len(first) : Open2[i] = first[i]
      /\ Open2[Len(first) + 1] = Node("LABEL", NULL)
  BY <1>2, <1>3, JoinNodes, AppendNode
<1>5. /\ Open1 \in Seq(SSTNode) /\ Len(Open1) = Len(sst) + 1
      /\ \A i \in 1..Len(sst) : Open1[i] = sst[i]
      /\ Open1[Len(sst) + 1] = Node("LABEL", NULL)
  BY <1>1, JoinNodes, AppendNode DEF Open1
<1> QED
  BY <1>1, <1>2, <1>4, <1>5

\* THEN sends IF's or ELSE's branch to the label it appends.
LEMMA EndifEffect ==
  ASSUME IInv, Compiling, Matches("IF")
  PROVE  /\ Filled(EndifNodes, Len(sst) + 1)
         /\ Len(EndifNodes) = Len(sst) + 1
         /\ EndifNodes[Len(sst) + 1] = Node("LABEL", NULL)
<1>1. /\ Hole \in 1..Len(Open1) /\ Hole \in 1..Len(sst) /\ Len(sst) \in Nat
      /\ NextNode \in Int /\ NextNode = Len(sst) + 1
  BY TopEntry, OpenNodes, WhileCompiling DEF Hole, NextNode
<1>2. /\ EndifNodes \in Seq(SSTNode) /\ Len(EndifNodes) = Len(Open1)
      /\ \A i \in 1..Len(Open1) :
           EndifNodes[i].type = Open1[i].type /\ (i # Hole => EndifNodes[i] = Open1[i])
      /\ EndifNodes[Hole].ref = NextNode
  BY <1>1, OpenNodes, FillNode DEF EndifNodes
<1> QED
  BY <1>1, <1>2, OpenNodes DEF Filled

\* ELSE, and REPEAT in its first half, appends a branch and sends the opener's
\* branch behind it.
LEMMA ElseEffect ==
  ASSUME IInv, Compiling, NEW id \in {"IF", "WHILE"}, Matches(id)
  PROVE  /\ Filled(ElseNodes, Len(sst) + 2)
         /\ Len(ElseNodes) = Len(sst) + 2
         /\ ElseNodes[Len(sst) + 1] = Node("BRANCH", NULL)
         /\ ElseNodes[Len(sst) + 2] = Node("LABEL", NULL)
<1>1. /\ Hole \in 1..Len(Open2) /\ Hole \in 1..Len(sst) /\ Len(sst) \in Nat
      /\ NextNode + 1 \in Int /\ NextNode + 1 = Len(sst) + 2
  BY TopEntry, OpenNodes, WhileCompiling DEF Hole, NextNode
<1>2. /\ ElseNodes \in Seq(SSTNode) /\ Len(ElseNodes) = Len(Open2)
      /\ \A i \in 1..Len(Open2) :
           ElseNodes[i].type = Open2[i].type /\ (i # Hole => ElseNodes[i] = Open2[i])
      /\ ElseNodes[Hole].ref = NextNode + 1
  BY <1>1, OpenNodes, FillNode DEF ElseNodes
<1> QED
  BY <1>1, <1>2, OpenNodes DEF Filled

\* REPEAT also sends its own branch back to BEGIN's label.
LEMMA RepeatEffect ==
  ASSUME IInv, Compiling, Matches("WHILE")
  PROVE  /\ Filled(RepeatNodes, Len(sst) + 2)
         /\ Len(RepeatNodes) = Len(sst) + 2
         /\ RepeatNodes[Len(sst) + 1].type = "BRANCH"
         /\ RepeatNodes[Len(sst) + 1].ref = cs[csp - 1].sst
         /\ RepeatNodes[Len(sst) + 2] = Node("LABEL", NULL)
<1>1. /\ NextNode = Len(sst) + 1 /\ Len(sst) \in Nat
      /\ NextNode \in 1..Len(ElseNodes) /\ ElseNodes \in Seq(SSTNode)
      /\ Hole \in 1..Len(sst)
  BY TopEntry, ElseEffect, WhileCompiling DEF Filled, Hole, NextNode
<1>2. cs[csp - 1].sst \in Int
  BY TopEntry, WhileCompiling DEF EntryHeld, StackHeld
<1>3. /\ RepeatNodes \in Seq(SSTNode) /\ Len(RepeatNodes) = Len(ElseNodes)
      /\ \A i \in 1..Len(ElseNodes) :
           /\ RepeatNodes[i].type = ElseNodes[i].type
           /\ i # NextNode => RepeatNodes[i] = ElseNodes[i]
      /\ RepeatNodes[NextNode].ref = cs[csp - 1].sst
  BY <1>1, <1>2, FillNode DEF RepeatNodes
<1> QED
  BY <1>1, <1>3, ElseEffect, JoinNodes DEF Filled

\* Entries that do not remember Hole survive the filling.
LEMMA FilledKeepsStack ==
  ASSUME IInv, Compiling, NEW nodes, NEW target, Filled(nodes, target),
         Len(nodes) \in Nat, Len(sst) <= Len(nodes),
         NEW lower \in 1..csp, \A k \in 2..lower : cs[k].sst # Hole
  PROVE  StackHeld(nodes, cs, lower, Start)
<1>1. ASSUME NEW k \in 2..lower
      PROVE  EntryHeld(nodes, cs, Start, k)
  BY WhileCompiling, SMTT(30) DEF StackHeld, EntryHeld, Filled
<1> QED
  BY <1>1, WhileCompiling DEF StackHeld, Distinct

\* A closer that fills Hole and commits a stack that holds keeps the invariant.
LEMMA FilledCommits ==
  ASSUME IInv, Compiling, NEW id \in {"IF", "WHILE"}, Matches(id),
         NEW nodes, NEW target, Filled(nodes, target),
         NEW n \in 1..2, Len(nodes) = Len(sst) + n, Room(n),
         \A i \in Len(sst) + 1..Len(nodes) : nodes[i].type \notin Boundary,
         NEW stack \in [0..SST_NODE_MAX + 1 -> ControlEntry], NEW top,
         StackHeld(nodes, stack, top, Start), Commit(nodes, stack, top)
  PROVE  IInv'
<1>1. Hole \in Start + 1..Len(sst)
  BY TopEntry DEF Hole
<1>2. nodes[Start] = sst[Start] /\ nodes \in Seq(SSTNode)
  BY <1>1, WhileCompiling DEF Filled
<1>3. Len(sst) <= Len(nodes) /\ Len(nodes) <= SST_NODE_MAX + 1
  BY WhileCompiling, SizeAssumption DEF Room
<1>4. \A i \in 1..Len(sst) : nodes[i].type = sst[i].type
  BY DEF Filled
<1> QED
  BY <1>2, <1>3, <1>4, CommitKeeps

\* THEN.
LEMMA EndifKeeps ==
  ASSUME IInv, cfp_endif
  PROVE  IInv'
<1>1. Compiling
  BY DEF cfp_endif
<1>2. CASE Abort
  BY <1>1, <1>2, WhileCompiling, AbortKeeps, SizeAssumption DEF Abort
<1>3. CASE Matches("IF") /\ Room(1) /\ Commit(EndifNodes, cs, csp - 1)
  <2>1. csp - 1 \in 1..csp /\ \A k \in 2..csp - 1 : cs[k].sst # Hole
    BY <1>1, <1>3, TopEntry, WhileCompiling DEF Hole
  <2>2. /\ Filled(EndifNodes, Len(sst) + 1) /\ Len(EndifNodes) = Len(sst) + 1
        /\ EndifNodes[Len(sst) + 1].type \notin Boundary
    BY <1>1, <1>3, EndifEffect, JoinNodes
  <2>3. StackHeld(EndifNodes, cs, csp - 1, Start)
    BY <1>1, <2>1, <2>2, FilledKeepsStack, WhileCompiling
  <2> QED
    BY <1>1, <1>3, <2>2, <2>3, FilledCommits, WhileCompiling
<1> QED
  BY <1>2, <1>3 DEF cfp_endif, Emit, EndifNodes, Open1, Hole

\* ELSE leaves its own branch to the entry it keeps.
LEMMA ElseKeeps ==
  ASSUME IInv, cfp_else
  PROVE  IInv'
<1> DEFINE stack == [cs EXCEPT ![csp].sst = NextNode]
<1>1. Compiling
  BY DEF cfp_else
<1>2. CASE Abort
  BY <1>1, <1>2, WhileCompiling, AbortKeeps, SizeAssumption DEF Abort
<1>3. CASE Room(1) /\ AbortWith(Append(sst, Node("BRANCH", NULL)))
  BY <1>1, <1>3, WhileCompiling, AbortKeeps, AppendNode, JoinNodes, SizeAssumption DEF Room
<1>4. CASE Matches("IF") /\ Room(2) /\ Commit(ElseNodes, stack, csp)
  <2>1. csp \in 2..Len(sst) /\ csp \in 0..SST_NODE_MAX + 1 /\ cs[csp].id = "IF"
    BY <1>1, <1>4, TopEntry, WhileCompiling, SizeAssumption
  <2>2. /\ stack \in [0..SST_NODE_MAX + 1 -> ControlEntry]
        /\ \A k \in 0..csp - 1 : stack[k] = cs[k]
        /\ stack[csp].id = "IF" /\ stack[csp].sst = Len(sst) + 1
    BY <1>1, <2>1, WhileCompiling DEF NextNode, ControlEntry
  <2>3. /\ Filled(ElseNodes, Len(sst) + 2) /\ Len(ElseNodes) = Len(sst) + 2
        /\ ElseNodes[Len(sst) + 1].type = "BRANCH" /\ ElseNodes[Len(sst) + 1].ref = NULL
        /\ ElseNodes[Len(sst) + 1].type \notin Boundary
        /\ ElseNodes[Len(sst) + 2].type \notin Boundary
    BY <1>1, <1>4, ElseEffect, JoinNodes
  <2>4. csp - 1 \in 1..csp /\ \A k \in 2..csp - 1 : cs[k].sst # Hole
    BY <1>1, <1>4, TopEntry DEF Hole
  <2>5. StackHeld(ElseNodes, cs, csp - 1, Start)
    BY <1>1, <2>3, <2>4, FilledKeepsStack, WhileCompiling
  <2> HIDE DEF stack
  <2>6. StackHeld(ElseNodes, stack, csp, Start)
    <3>1. ASSUME NEW k \in 2..csp - 1
          PROVE  EntryHeld(ElseNodes, stack, Start, k) /\ stack[k].sst \in 1..Len(sst)
      <4>1. EntryHeld(ElseNodes, cs, Start, k) /\ k \in 0..csp - 1 /\ k - 1 \in 0..csp - 1
        BY <2>1, <2>5 DEF StackHeld
      <4>2. stack[k] = cs[k] /\ stack[k - 1] = cs[k - 1]
        BY <2>2, <4>1
      <4>3. cs[k].sst \in 1..Len(sst)
        BY <1>1, <2>1, WhileCompiling, SMTT(30) DEF StackHeld, EntryHeld
      <4> QED
        BY <4>1, <4>2, <4>3 DEF EntryHeld
    <3>2. EntryHeld(ElseNodes, stack, Start, csp)
      BY <1>1, <2>1, <2>2, <2>3, WhileCompiling DEF EntryHeld, BranchOps
    <3>3. Distinct(stack, csp)
      BY <1>1, <2>1, <2>2, <3>1, WhileCompiling DEF StackHeld, Distinct
    <3> QED
      BY <1>1, <2>1, <2>2, <2>3, <3>1, <3>2, <3>3, WhileCompiling DEF StackHeld
  <2> QED
    BY <1>1, <1>4, <2>2, <2>3, <2>6, FilledCommits, WhileCompiling
<1> QED
  BY <1>2, <1>3, <1>4 DEF cfp_else, EmitTwo, ElseNodes, Open2, Hole

\* REPEAT pops WHILE's entry and the BEGIN entry below it.
LEMMA RepeatKeeps ==
  ASSUME IInv, cfp_repeat
  PROVE  IInv'
<1>1. Compiling
  BY DEF cfp_repeat
<1>2. CASE Abort
  BY <1>1, <1>2, WhileCompiling, AbortKeeps, SizeAssumption DEF Abort
<1>3. CASE Room(1) /\ AbortWith(Append(sst, Node("BRANCH", NULL)))
  BY <1>1, <1>3, WhileCompiling, AbortKeeps, AppendNode, JoinNodes, SizeAssumption DEF Room
<1>4. CASE Matches("WHILE") /\ Room(2) /\ Commit(RepeatNodes, cs, csp - 2)
  <2>1. csp - 2 \in 1..csp /\ \A k \in 2..csp - 2 : cs[k].sst # Hole
    BY <1>1, <1>4, TopEntry, WhileCompiling DEF Hole, EntryHeld
  <2>2. /\ Filled(RepeatNodes, Len(sst) + 2) /\ Len(RepeatNodes) = Len(sst) + 2
        /\ RepeatNodes[Len(sst) + 1].type \notin Boundary
        /\ RepeatNodes[Len(sst) + 2].type \notin Boundary
    BY <1>1, <1>4, RepeatEffect, JoinNodes
  <2>3. StackHeld(RepeatNodes, cs, csp - 2, Start)
    BY <1>1, <2>1, <2>2, FilledKeepsStack, WhileCompiling
  <2> QED
    BY <1>1, <1>4, <2>2, <2>3, FilledCommits, WhileCompiling
<1> QED
  BY <1>2, <1>3, <1>4 DEF cfp_repeat, EmitTwo, RepeatNodes, ElseNodes, Open2, Hole

-----------------------------------------------------------------------------
(* Every other word, and the induction. *)

\* All the control-flow words.
LEMMA StructureKeeps ==
  ASSUME IInv, Structure
  PROVE  IInv'
<1>1. CASE cfp_if
  BY <1>1, OpenerKeeps DEF cfp_if
<1>2. CASE cfp_begin
  BY <1>2, OpenerKeeps DEF cfp_begin
<1>3. CASE cfp_do
  BY <1>3, OpenerKeeps DEF cfp_do
<1>4. CASE cfp_for
  BY <1>4, OpenerKeeps DEF cfp_for
<1>5. CASE cfp_while
  <2>1. CASE Matches("BEGIN")
    BY <1>5, <2>1, OpenerKeeps DEF cfp_while
  <2>2. CASE Abort
    BY <1>5, <2>2, WhileCompiling, AbortKeeps, SizeAssumption DEF Abort, cfp_while
  <2> QED
    BY <1>5, <2>1, <2>2 DEF cfp_while
<1>6. CASE cfp_until \/ cfp_loop \/ cfp_next
  <2>1. CASE Abort
    BY <1>6, <2>1, WhileCompiling, AbortKeeps, SizeAssumption DEF Abort, cfp_until, cfp_loop, cfp_next
  <2>2. CASE /\ Matches("BEGIN")
             /\ Emit(Append(sst, Node("0BRANCH", cs[csp].sst)), cs, csp - 1)
    BY <1>6, <2>2, CloserKeeps DEF cfp_until, cfp_loop, cfp_next
  <2>3. CASE Matches("DO") /\ Emit(Append(sst, Node("LOOP", cs[csp].sst)), cs, csp - 1)
    BY <1>6, <2>3, CloserKeeps DEF cfp_until, cfp_loop, cfp_next
  <2>4. CASE Matches("FOR") /\ Emit(Append(sst, Node("NEXT", cs[csp].sst)), cs, csp - 1)
    BY <1>6, <2>4, CloserKeeps DEF cfp_until, cfp_loop, cfp_next
  <2> QED
    BY <1>6, <2>1, <2>2, <2>3, <2>4 DEF cfp_until, cfp_loop, cfp_next
<1>7. CASE cfp_leave
  <2>1. CASE Abort
    BY <1>7, <2>1, WhileCompiling, AbortKeeps, SizeAssumption DEF Abort, cfp_leave
  <2>2. ASSUME NEW k \in 1..csp, Emit(Append(sst, Node("LEAVE", cs[k].sst)), cs, csp)
        PROVE  IInv'
    <3>1. Compiling /\ cs[k].sst \in Int
      BY <1>7, WhileCompiling, SizeAssumption DEF cfp_leave, ControlEntry
    <3>2. "LEAVE" \in (ControlOps \cup ExtensionOps) \ Boundary
      BY NodeTypes DEF Boundary
    <3> QED
      BY <2>2, <3>1, <3>2, PlainAppend
  <2> QED
    BY <1>7, <2>1, <2>2 DEF cfp_leave
<1> QED
  BY <1>1, <1>2, <1>3, <1>4, <1>5, <1>6, <1>7, EndifKeeps, ElseKeeps, RepeatKeeps DEF Structure

\* All the words that append one node of their own.
LEMMA CompileKeeps ==
  ASSUME IInv, Compile
  PROVE  IInv'
<1>1. ASSUME NEW v \in Values, cfp_sharp(v) \/ cfp_allot(v)
      PROVE  IInv'
  <2>1. v \in Int /\ {"LITERAL", "ALLOT"} \subseteq (ControlOps \cup ExtensionOps) \ Boundary
    BY FileAssumption, NodeTypes DEF Boundary
  <2> QED
    BY <1>1, <2>1, PlainAppend DEF cfp_sharp, cfp_allot
<1>2. ASSUME NEW op \in Ops, CompileExtension(op)
      PROVE  IInv'
  <2>1. op \in (ControlOps \cup ExtensionOps) \ Boundary /\ NULL \in Int
    BY FileAssumption, NodeTypes DEF ControlOps, NULL
  <2> QED
    BY <1>2, <2>1, PlainAppend DEF CompileExtension
<1>3. ASSUME NEW n \in Names, CompileReference(n)
      PROVE  IInv'
  <2>1. PICK s \in DOMAIN dict : Emit(Append(sst, Node(RefType(dict[s].type), s)), cs, csp)
    BY <1>3 DEF CompileReference
  <2>2. s \in Int /\ Compiling
    BY <1>3 DEF CompileReference, IInv, TypeOK
  <2>3. RefType(dict[s].type) \in (ControlOps \cup ExtensionOps) \ Boundary
    BY NodeTypes DEF RefType, Boundary
  <2> QED
    BY <2>1, <2>2, <2>3, PlainAppend
<1> QED
  BY <1>1, <1>2, <1>3 DEF Compile

\* ; appends its two nodes to the open definition and then reveals it.
LEMMA SemicolonNodes ==
  ASSUME IInv, Compiling
  PROVE  LET first == Append(sst, Node("RET", NULL))
             nodes == Append(first, Node("SEMICOLON", NULL))
         IN  /\ first \in Seq(SSTNode) /\ Len(first) = Len(sst) + 1
             /\ nodes \in Seq(SSTNode) /\ Len(nodes) = Len(sst) + 2
             /\ \A i \in 1..Len(sst) : nodes[i] = sst[i]
             /\ nodes[Len(sst) + 1] = Node("RET", NULL)
             /\ nodes[Len(sst) + 2] = Node("SEMICOLON", NULL)
<1> DEFINE first == Append(sst, Node("RET", NULL))
           nodes == Append(first, Node("SEMICOLON", NULL))
<1>1. Node("RET", NULL) \in SSTNode /\ Node("SEMICOLON", NULL) \in SSTNode
  BY NodeTypes DEF NULL
<1>2. /\ first \in Seq(SSTNode) /\ Len(first) = Len(sst) + 1
      /\ \A i \in 1..Len(sst) : first[i] = sst[i]
      /\ first[Len(sst) + 1] = Node("RET", NULL)
  BY <1>1, WhileCompiling, AppendNode
<1> HIDE DEF first
<1>3. /\ nodes \in Seq(SSTNode) /\ Len(nodes) = Len(first) + 1
      /\ \A i \in 1..Len(first) : nodes[i] = first[i]
      /\ nodes[Len(first) + 1] = Node("SEMICOLON", NULL)
  BY <1>1, <1>2, AppendNode
<1> QED
  BY <1>2, <1>3, WhileCompiling DEF first

\* ; leaves no definition open.
LEMMA SemicolonKeeps ==
  ASSUME IInv, cfp_semicolon
  PROVE  IInv'
<1>1. Compiling
  BY DEF cfp_semicolon
<1>2. CASE Abort
  BY <1>1, <1>2, WhileCompiling, AbortKeeps, SizeAssumption DEF Abort
<1>3. CASE Room(1) /\ AbortWith(Append(sst, Node("RET", NULL)))
  BY <1>1, <1>3, WhileCompiling, SemicolonNodes, AbortKeeps, SizeAssumption DEF Room
<1>4. CASE /\ Balanced /\ Room(2)
           /\ sst' = Append(Append(sst, Node("RET", NULL)), Node("SEMICOLON", NULL))
           /\ mode' = "INTERPRET"
           /\ csp' = csp - 2
           /\ dict' = [dict EXCEPT ![creating].hidden = FALSE]
           /\ creating' = NULL
           /\ UNCHANGED <<status, here, cs>>
  <2>1. dict \in Seq(Symbol(Names)) /\ creating \in DOMAIN dict
    BY <1>1 DEF IInv, TypeOK, OpenDefinition
  <2>2. dict' \in Seq(Symbol(Names)) /\ Len(dict') = Len(dict)
    <3>1. dict[creating] \in Symbol(Names)
      BY <2>1
    <3>2. [dict[creating] EXCEPT !.hidden = FALSE] \in Symbol(Names)
      BY <3>1 DEF Symbol
    <3> QED
      BY <1>4, <2>1, <3>2
  <2>3. csp' \in -1..SST_NODE_MAX + 1
    BY <1>4, SizeAssumption DEF Balanced
  <2>4. sst' \in Seq(SSTNode) /\ Len(sst') <= SST_NODE_MAX + 1
    BY <1>1, <1>4, SemicolonNodes, WhileCompiling, SizeAssumption DEF Room
  <2>5. TypeOK'
    BY <1>4, <2>2, <2>3, <2>4 DEF IInv, TypeOK, NULL
  <2> QED
    BY <1>4, <2>5 DEF IInv, OpenDefinition, ControlInv, Interpreting, Compiling
<1> QED
  BY <1>2, <1>3, <1>4 DEF cfp_semicolon

\* Entering a symbol extends the dictionary and changes no older one.
LEMMA NewSymbol ==
  ASSUME IInv, NEW symbol \in Symbol(Names)
  PROVE  /\ Append(dict, symbol) \in Seq(Symbol(Names))
         /\ Len(dict) \in Nat /\ Len(Append(dict, symbol)) = Len(dict) + 1
         /\ \A i \in 1..Len(dict) : Append(dict, symbol)[i] = dict[i]
         /\ Append(dict, symbol)[Len(dict) + 1] = symbol
<1>1. dict \in Seq(Symbol(Names))
  BY DEF IInv, TypeOK
<1> QED
  BY <1>1, AppendNode

\* : opens a definition with nothing but its COLON node.
LEMMA ColonKeeps ==
  ASSUME IInv, NEW n \in Names, cfp_colon(n)
  PROVE  IInv'
<1> DEFINE d(node) == Defined(n, "WORD", TRUE, node)
<1>1. /\ sst \in Seq(SSTNode) /\ Len(sst) \in 0..SST_NODE_MAX + 1 /\ here \in Nat
      /\ cs \in [0..SST_NODE_MAX + 1 -> ControlEntry]
      /\ NextNode \in Nat /\ NextNode = Len(sst) + 1
      /\ NULL \in Nat
  BY SizeAssumption DEF IInv, TypeOK, ControlEntry, NextNode, NULL
<1>2. ASSUME NEW node \in Nat
      PROVE  /\ d(node) \in Seq(Symbol(Names)) /\ Len(d(node)) = Len(dict) + 1 /\ Len(dict) \in Nat
             /\ d(node)[Len(dict) + 1].type = "WORD" /\ d(node)[Len(dict) + 1].hidden
             /\ d(node)[Len(dict) + 1].sst = node
  <2> DEFINE symbol == [name |-> n, type |-> "WORD", hidden |-> TRUE, sst |-> node]
  <2>1. symbol \in Symbol(Names)
    BY DEF Symbol
  <2>2. symbol.type = "WORD" /\ symbol.hidden /\ symbol.sst = node
    OBVIOUS
  <2>3. d(node) = Append(dict, symbol)
    BY DEF Defined
  <2> HIDE DEF d, symbol
  <2> QED
    BY <2>1, <2>2, <2>3, NewSymbol
<1> HIDE DEF d
<1>3. CASE Abort
  BY <1>1, <1>3, AbortKeeps DEF Abort
<1>4. CASE /\ status' = "failed" /\ dict' = d(NULL) /\ here' = here + SymbolCells
           /\ creating' = Len(dict') /\ UNCHANGED <<mode, sst, cs, csp>>
  BY <1>1, <1>2, <1>4, SizeAssumption
  DEF IInv, TypeOK, OpenDefinition, ControlInv, Interpreting, Compiling
<1>5. CASE /\ Interpreting /\ Room(1)
           /\ dict' = d(NextNode)
           /\ sst' = Append(sst, Node("COLON", Len(dict')))
           /\ cs' = [cs EXCEPT ![0].id = "COLON"]
           /\ csp' = 1 /\ mode' = "COMPILE" /\ UNCHANGED status
           /\ here' = here + SymbolCells /\ creating' = Len(dict')
  <2>1. /\ dict' \in Seq(Symbol(Names)) /\ Len(dict') \in Nat \ {0} /\ Len(dict') \in Int
        /\ dict'[Len(dict')].type = "WORD" /\ dict'[Len(dict')].hidden
        /\ dict'[Len(dict')].sst = Len(sst) + 1
    BY <1>1, <1>2, <1>5
  <2>2. Node("COLON", Len(dict')) \in SSTNode
    BY <2>1, NodeTypes
  <2>3. /\ sst' \in Seq(SSTNode) /\ Len(sst') = Len(sst) + 1
        /\ sst'[Len(sst) + 1] = Node("COLON", Len(dict'))
        /\ Len(sst') <= SST_NODE_MAX + 1
    BY <1>1, <1>5, <2>2, AppendNode, SizeAssumption DEF Room
  <2>4. /\ cs' \in [0..SST_NODE_MAX + 1 -> ControlEntry]
        /\ cs'[0].id = "COLON" /\ cs'[1] = cs[1]
    <3>1. cs[0] \in ControlEntry /\ 0 \in DOMAIN cs /\ 1 \in DOMAIN cs
      BY <1>1, SizeAssumption
    <3> DEFINE entry == [cs[0] EXCEPT !.id = "COLON"]
    <3>2. entry \in ControlEntry /\ entry.id = "COLON"
      BY <3>1 DEF ControlEntry, ControlId
    <3>3. cs' = [cs EXCEPT ![0] = entry]
      BY <1>5
    <3> HIDE DEF entry
    <3> QED
      BY <1>1, <3>1, <3>2, <3>3
  <2>5. TypeOK'
    <3>1. here' \in Nat /\ csp' \in -1..SST_NODE_MAX + 1 /\ creating' \in 0..Len(dict')
      BY <1>1, <1>5, <2>1, SizeAssumption
    <3>2. status' \in {"loading", "loaded", "failed"} /\ mode' \in {"INTERPRET", "COMPILE"}
      BY <1>5 DEF Interpreting
    <3> QED
      BY <2>1, <2>3, <2>4, <3>1, <3>2 DEF TypeOK, ControlEntry
  <2>6. OpenDefinition'
    BY <1>1, <1>5, <2>1, <2>3
    DEF OpenDefinition, Interpreting, Compiling, Start, Unbroken
  <2>7. ControlInv'
    BY <1>1, <1>5, <2>3, <2>4 DEF IInv, ControlInv, StackHeld, Distinct
  <2> QED
    BY <2>5, <2>6, <2>7 DEF IInv
<1> QED
  BY <1>3, <1>4, <1>5 DEF cfp_colon, d, HiddenWhileOpen

\* VARIABLE and CONSTANT run between definitions and open none.
LEMMA BetweenKeeps ==
  ASSUME IInv, Interpreting, TypeOK', UNCHANGED <<mode, cs, csp, creating>>
  PROVE  IInv'
BY DEF IInv, OpenDefinition, ControlInv, Interpreting, Compiling

\* VARIABLE.
LEMMA VariableKeeps ==
  ASSUME IInv, NEW n \in Names, cfp_variable(n)
  PROVE  IInv'
<1> DEFINE symbol == [name |-> n, type |-> "VARIABLE", hidden |-> FALSE, sst |-> NULL]
<1>1. symbol \in Symbol(Names)
  BY DEF Symbol, NULL
<1>2. /\ sst \in Seq(SSTNode) /\ Len(sst) \in 0..SST_NODE_MAX + 1 /\ here \in Nat
      /\ creating \in 0..Len(dict) /\ Len(dict) \in Nat
      /\ dict \in Seq(Symbol(Names)) /\ csp \in -1..SST_NODE_MAX + 1
      /\ cs \in [0..SST_NODE_MAX + 1 -> [id : ControlId, sst : Nat]]
      /\ status \in {"loading", "loaded", "failed"} /\ mode \in {"INTERPRET", "COMPILE"}
  BY SizeAssumption DEF IInv, TypeOK
<1>3. Interpreting /\ UNCHANGED <<mode, cs, csp, creating>>
  BY DEF cfp_variable
<1>4. CASE status' = "failed" /\ UNCHANGED <<dict, here, sst>>
  BY <1>2, <1>3, <1>4, BetweenKeeps DEF TypeOK
<1>5. CASE dict' = Defined(n, "VARIABLE", FALSE, NULL)
  <2> HIDE DEF symbol
  <2>1. dict' = Append(dict, symbol)
    BY <1>5 DEF Defined, symbol
  <2>2. dict' \in Seq(Symbol(Names)) /\ Len(dict') = Len(dict) + 1
    BY <1>1, <2>1, NewSymbol
  <2>3. CASE /\ Room(1) /\ sst' = Append(sst, Node("VARIABLE", Len(dict')))
             /\ here' = here + SymbolCells + 1 /\ UNCHANGED status
    <3>1. Node("VARIABLE", Len(dict')) \in SSTNode
      <4>1. Len(dict') \in Int /\ "VARIABLE" \in ControlOps \cup ExtensionOps
        BY <1>2, <2>2, NodeTypes
      <4> QED
        BY <4>1, NodeTypes
    <3>2. sst' \in Seq(SSTNode) /\ Len(sst') <= SST_NODE_MAX + 1
      BY <1>2, <2>3, <3>1, AppendNode, SizeAssumption DEF Room
    <3>3. here' \in Nat /\ creating' \in 0..Len(dict')
      BY <1>2, <1>3, <2>2, <2>3, SizeAssumption
    <3> QED
      BY <1>2, <1>3, <2>2, <2>3, <3>2, <3>3, BetweenKeeps DEF TypeOK
  <2>4. CASE here' = here + SymbolCells /\ status' = "failed" /\ UNCHANGED sst
    <3>1. here' \in Nat /\ creating' \in 0..Len(dict')
      BY <1>2, <1>3, <2>2, <2>4, SizeAssumption
    <3> QED
      BY <1>2, <1>3, <2>2, <2>4, <3>1, BetweenKeeps DEF TypeOK
  <2> QED
    BY <1>3, <1>4, <2>3, <2>4 DEF cfp_variable
<1> QED
  BY <1>4, <1>5 DEF cfp_variable

\* CONSTANT.
LEMMA ConstantKeeps ==
  ASSUME IInv, NEW n \in Names, cfp_constant(n)
  PROVE  IInv'
<1> DEFINE symbol == [name |-> n, type |-> "CONSTANT", hidden |-> FALSE, sst |-> NULL]
<1>1. symbol \in Symbol(Names)
  BY DEF Symbol, NULL
<1>2. CASE Abort
  BY <1>2, AbortKeeps DEF Abort, IInv, TypeOK
<1>3. CASE /\ dict' = Defined(n, "CONSTANT", FALSE, NULL)
           /\ here' = here + SymbolCells
           /\ UNCHANGED <<status, mode, sst, cs, csp, creating>>
  <2> HIDE DEF symbol
  <2>1. dict' = Append(dict, symbol)
    BY <1>3 DEF Defined, symbol
  <2>2. dict' \in Seq(Symbol(Names)) /\ Len(dict') = Len(dict) + 1
    BY <1>1, <2>1, NewSymbol
  <2>3. here' \in Nat /\ creating' \in 0..Len(dict')
    <3>1. creating \in 0..Len(dict) /\ here \in Nat /\ Len(dict) \in Nat
      BY <1>1, NewSymbol DEF IInv, TypeOK
    <3>2. here' = here + SymbolCells /\ creating' = creating
      BY <1>3
    <3> QED
      BY <2>2, <3>1, <3>2, SizeAssumption
  <2> QED
    BY <1>3, <2>2, <2>3, BetweenKeeps DEF IInv, TypeOK, cfp_constant
<1> QED
  BY <1>2, <1>3 DEF cfp_constant

\* Before the first token nothing is open.
LEMMA InitHolds == Init => IInv
<1> SUFFICES ASSUME Init PROVE IInv
  OBVIOUS
<1>1. TypeOK
  BY SizeAssumption DEF Init, TypeOK, ControlId, NULL
<1> QED
  BY <1>1, SizeAssumption DEF Init, IInv, OpenDefinition, ControlInv, Compiling, Interpreting

\* Every token keeps the invariant, one case per kind of word.
LEMMA StepKeeps == IInv /\ [Next]_vars => IInv'
<1> SUFFICES ASSUME IInv, [Next]_vars PROVE IInv'
  OBVIOUS
<1>1. CASE Define
  BY <1>1, ColonKeeps, VariableKeeps, ConstantKeeps DEF Define
<1>2. CASE Structure
  BY <1>2, StructureKeeps
<1>3. CASE Compile
  BY <1>3, CompileKeeps
<1>4. CASE cfp_semicolon
  BY <1>4, SemicolonKeeps
<1>5. CASE Abort
  BY <1>5, AbortKeeps DEF Abort, IInv, TypeOK
<1>6. CASE status' = "loaded" /\ UNCHANGED <<mode, dict, here, sst, cs, csp, creating>>
  BY <1>6 DEF IInv, TypeOK, OpenDefinition, ControlInv, Compiling, Interpreting, Start, Unbroken
<1>7. CASE UNCHANGED vars
  BY <1>7 DEF vars, IInv, TypeOK, OpenDefinition, ControlInv, Compiling, Interpreting, Start, Unbroken
<1> QED
  BY <1>1, <1>2, <1>3, <1>4, <1>5, <1>6, <1>7 DEF Next, BadToken, EndOfFile

\* The inductive invariant holds of every load.
LEMMA Invariance == Spec => []IInv
BY InitHolds, StepKeeps, PTL DEF Spec

(***************************************************************************)
(* The loader's state stays well formed: no append leaves sst_buffer, no   *)
(* push leaves the control stack it is given, and the symbol being created *)
(* is in the dictionary.                                                   *)
(***************************************************************************)
THEOREM TypeCorrect == Spec => []TypeOK
<1>1. IInv => TypeOK
  BY DEF IInv
<1> QED
  BY <1>1, Invariance, PTL

-----------------------------------------------------------------------------
(***************************************************************************)
(* Proofs, for every value of the constants, that no branch is lost and    *)
(* that finished code and the dictionary's end are respected.              *)
(*                                                                         *)
(* OpenBranchesHeld is inductive together with IInv.  Outside a definition *)
(* creating is NULL, so nothing is Open and no branch is without a target; *)
(* inside one, every such branch is held by an IF or WHILE entry, and each *)
(* word that takes an entry off the control stack fills its branch first.  *)
(***************************************************************************)

Hanging(nodes, i) == nodes[i].type \in BranchOps /\ nodes[i].ref = NULL

\* Entries 2..top of the stack remember every branch without a target.
Held(nodes, stack, top) ==
  \A i \in 1..Len(nodes) : Hanging(nodes, i) =>
    /\ i > Start
    /\ \E k \in 2..top : stack[k].id \in {"IF", "WHILE"} /\ stack[k].sst = i

\* OpenBranchesHeld while a definition is compiled.
LEMMA HeldWhileCompiling ==
  ASSUME IInv, OpenBranchesHeld, Compiling
  PROVE  Held(sst, cs, csp)
<1>1. ASSUME NEW i \in 1..Len(sst), Hanging(sst, i)
      PROVE  /\ Open(i)
             /\ \E k \in 2..csp : cs[k] \in [id : {"IF", "WHILE"}, sst : {i}]
  BY <1>1, WhileCompiling DEF OpenBranchesHeld, Hanging, IsBranch, Compiling
<1> QED
  BY <1>1 DEF Held, Open, Start

\* And back: what a word commits.
LEMMA CommitHolds ==
  ASSUME IInv, Compiling, NEW nodes \in Seq(SSTNode),
         NEW stack \in [0..SST_NODE_MAX + 1 -> ControlEntry],
         NEW top, top \in 1..SST_NODE_MAX + 1, Commit(nodes, stack, top), Held(nodes, stack, top)
  PROVE  OpenBranchesHeld'
<1>1. creating' = creating /\ dict' = dict /\ creating # NULL /\ Start # NULL
  BY WhileCompiling DEF Commit, IInv, TypeOK, OpenDefinition, NULL
<1>2. ASSUME NEW i \in DOMAIN sst', IsBranch(i)', sst'[i].ref = NULL
      PROVE  /\ Open(i)'
             /\ \E k \in 2..csp' : cs'[k] \in [id : {"IF", "WHILE"}, sst : {i}]
  <2>1. i \in 1..Len(nodes) /\ Hanging(nodes, i)
    BY <1>2 DEF Commit, IsBranch, Hanging
  <2>2. i > Start /\ \E k \in 2..top : stack[k].id \in {"IF", "WHILE"} /\ stack[k].sst = i
    BY <2>1 DEF Held
  <2>3. PICK k \in 2..top : stack[k].id \in {"IF", "WHILE"} /\ stack[k].sst = i
    BY <2>2
  <2>4. k \in 0..SST_NODE_MAX + 1
    BY SizeAssumption
  <2>5. stack[k] \in ControlEntry
    BY <2>4
  <2>6. stack[k] \in [id : {"IF", "WHILE"}, sst : {i}]
    BY <2>3, <2>5 DEF ControlEntry
  <2> QED
    BY <1>1, <2>2, <2>6 DEF Commit, Open, Start
<1> QED
  BY <1>2 DEF OpenBranchesHeld

\* After an error a branch may be left hanging, in the open definition only.
LEMMA AbortHolds ==
  ASSUME IInv, Compiling, OpenBranchesHeld, NEW nodes,
         nodes = sst \/ \E n \in SSTNode : nodes = Append(sst, n), AbortWith(nodes)
  PROVE  OpenBranchesHeld'
<1>1. /\ creating' = creating /\ dict' = dict /\ status' = "failed" /\ sst' = nodes
      /\ creating # NULL /\ Start # NULL /\ Start \in 1..Len(sst) /\ sst \in Seq(SSTNode)
  BY WhileCompiling DEF AbortWith, IInv, TypeOK, OpenDefinition, NULL
<1>2. ASSUME NEW i \in DOMAIN nodes, Hanging(nodes, i)
      PROVE  i > Start
  <2>1. (i \in 1..Len(sst) /\ nodes[i] = sst[i]) \/ i = Len(sst) + 1
    BY <1>1, AppendNode
  <2> QED
    BY <1>1, <1>2, <2>1, HeldWhileCompiling DEF Held, Hanging
<1> QED
  BY <1>1, <1>2 DEF OpenBranchesHeld, Open, Start, IsBranch, Hanging

-----------------------------------------------------------------------------

\* Words that append one node that does not hang.
LEMMA PlainHolds ==
  ASSUME IInv, OpenBranchesHeld, Compiling, NEW n \in SSTNode,
         n.type \in BranchOps => n.ref # NULL,
         NEW top \in 1..csp, \A k \in top + 1..csp : cs[k].id \notin {"IF", "WHILE"},
         Emit(Append(sst, n), cs, top)
  PROVE  OpenBranchesHeld'
<1> DEFINE nodes == Append(sst, n)
<1>1. /\ nodes \in Seq(SSTNode) /\ Len(nodes) = Len(sst) + 1
      /\ \A i \in 1..Len(sst) : nodes[i] = sst[i]
      /\ nodes[Len(sst) + 1] = n
  BY WhileCompiling, AppendNode
<1> HIDE DEF nodes
<1>2. CASE Commit(nodes, cs, top)
  <2>1. ASSUME NEW i \in 1..Len(nodes), Hanging(nodes, i)
        PROVE  /\ i > Start
               /\ \E k \in 2..top : cs[k].id \in {"IF", "WHILE"} /\ cs[k].sst = i
    <3>1. i \in 1..Len(sst) /\ Hanging(sst, i)
      BY <1>1, <2>1, WhileCompiling DEF Hanging
    <3>2. i > Start /\ \E k \in 2..csp : cs[k].id \in {"IF", "WHILE"} /\ cs[k].sst = i
      BY <3>1, HeldWhileCompiling DEF Held
    <3> QED
      BY <3>2, WhileCompiling
  <2>2. top \in 1..SST_NODE_MAX + 1
    BY WhileCompiling, SizeAssumption
  <2> QED
    BY <1>1, <1>2, <2>1, <2>2, WhileCompiling, CommitHolds DEF Held
<1>3. CASE Abort
  BY <1>3, AbortHolds DEF Abort
<1> QED
  BY <1>2, <1>3 DEF Emit, nodes

\* Words that append a node and push an entry, which holds the node if it is
\* the branch of IF or WHILE.
LEMMA OpenerHolds ==
  ASSUME IInv, OpenBranchesHeld, Compiling,
         NEW id \in {"IF", "BEGIN", "WHILE", "DO", "FOR"}, NEW n \in SSTNode,
         n.type \in BranchOps => id \in {"IF", "WHILE"},
         Emit(Append(sst, n), Push(id), csp + 1)
  PROVE  OpenBranchesHeld'
<1> DEFINE nodes == Append(sst, n)
           stack == Push(id)
<1>1. /\ nodes \in Seq(SSTNode) /\ Len(nodes) = Len(sst) + 1
      /\ \A i \in 1..Len(sst) : nodes[i] = sst[i]
      /\ nodes[Len(sst) + 1] = n
  BY WhileCompiling, AppendNode
<1> HIDE DEF nodes
<1>2. CASE Room(1) /\ Commit(nodes, stack, csp + 1)
  <2>1. csp + 1 \in 1..SST_NODE_MAX + 1
    BY <1>2, WhileCompiling, SizeAssumption DEF Room
  <2>2. /\ stack \in [0..SST_NODE_MAX + 1 -> ControlEntry]
        /\ \A k \in 0..csp : stack[k] = cs[k]
        /\ stack[csp + 1].id = id /\ stack[csp + 1].sst = Len(sst) + 1
    BY <2>1, WhileCompiling DEF Push, NextNode, ControlEntry, ControlId
  <2> HIDE DEF stack
  <2>3. ASSUME NEW i \in 1..Len(nodes), Hanging(nodes, i)
        PROVE  /\ i > Start
               /\ \E k \in 2..csp + 1 : stack[k].id \in {"IF", "WHILE"} /\ stack[k].sst = i
    <3>1. CASE i = Len(sst) + 1
      BY <1>1, <2>2, <2>3, <3>1, WhileCompiling DEF Hanging
    <3>2. CASE i \in 1..Len(sst)
      <4>1. Hanging(sst, i)
        BY <1>1, <2>3, <3>2 DEF Hanging
      <4>2. i > Start /\ \E k \in 2..csp : cs[k].id \in {"IF", "WHILE"} /\ cs[k].sst = i
        BY <3>2, <4>1, HeldWhileCompiling DEF Held
      <4> QED
        BY <2>2, <4>2, WhileCompiling
    <3> QED
      BY <1>1, <3>1, <3>2, WhileCompiling
  <2> QED
    BY <1>1, <1>2, <2>1, <2>2, <2>3, CommitHolds DEF Held
<1>3. CASE Abort
  BY <1>3, AbortHolds DEF Abort
<1> QED
  BY <1>2, <1>3 DEF Emit, nodes

\* Words that fill in the branch at Hole, and so may forget its entry.
LEMMA FilledHolds ==
  ASSUME IInv, OpenBranchesHeld, Compiling, NEW id \in {"IF", "WHILE"}, Matches(id),
         NEW nodes, NEW target \in Nat \ {NULL}, Filled(nodes, target),
         NEW lower \in 1..csp - 1, \A k \in lower + 1..csp - 1 : cs[k].id = "BEGIN",
         NEW i \in 1..Len(sst), Hanging(nodes, i)
  PROVE  i > Start /\ \E k \in 2..lower : cs[k].id \in {"IF", "WHILE"} /\ cs[k].sst = i
<1>1. i # Hole /\ Hanging(sst, i)
  BY DEF Filled, Hanging
<1>2. i > Start /\ \E k \in 2..csp : cs[k].id \in {"IF", "WHILE"} /\ cs[k].sst = i
  BY <1>1, HeldWhileCompiling DEF Held
<1>3. PICK k \in 2..csp : cs[k].id \in {"IF", "WHILE"} /\ cs[k].sst = i
  BY <1>2
<1>4. k # csp
  BY <1>1, <1>3 DEF Hole
<1>5. k \in 2..lower
  BY <1>3, <1>4, WhileCompiling
<1> QED
  BY <1>2, <1>3, <1>5

\* THEN.
LEMMA EndifHolds ==
  ASSUME IInv, OpenBranchesHeld, cfp_endif
  PROVE  OpenBranchesHeld'
<1>1. Compiling
  BY DEF cfp_endif
<1>2. CASE Abort
  BY <1>1, <1>2, AbortHolds DEF Abort
<1>3. CASE Matches("IF") /\ Room(1) /\ Commit(EndifNodes, cs, csp - 1)
  <2>1. /\ Filled(EndifNodes, Len(sst) + 1) /\ Len(EndifNodes) = Len(sst) + 1
        /\ EndifNodes[Len(sst) + 1].type \notin BranchOps
        /\ Len(sst) + 1 \in Nat \ {NULL} /\ csp - 1 \in 1..csp - 1
    BY <1>1, <1>3, EndifEffect, JoinNodes, TopEntry, WhileCompiling DEF NULL
  <2>2. ASSUME NEW i \in 1..Len(EndifNodes), Hanging(EndifNodes, i)
        PROVE  /\ i > Start
               /\ \E k \in 2..csp - 1 : cs[k].id \in {"IF", "WHILE"} /\ cs[k].sst = i
    <3>1. i \in 1..Len(sst)
      BY <2>1, <2>2, <1>1, WhileCompiling DEF Hanging
    <3> QED
      BY <1>1, <1>3, <2>1, <2>2, <3>1, FilledHolds
  <2>3. csp - 1 \in 1..SST_NODE_MAX + 1 /\ EndifNodes \in Seq(SSTNode)
    BY <1>1, <2>1, WhileCompiling, SizeAssumption DEF Filled
  <2> QED
    BY <1>1, <1>3, <2>2, <2>3, WhileCompiling, CommitHolds DEF Held
<1> QED
  BY <1>2, <1>3 DEF cfp_endif, Emit, EndifNodes, Open1, Hole

\* ELSE hands the entry over to the branch it appends.
LEMMA ElseHolds ==
  ASSUME IInv, OpenBranchesHeld, cfp_else
  PROVE  OpenBranchesHeld'
<1> DEFINE stack == [cs EXCEPT ![csp].sst = NextNode]
<1>1. Compiling
  BY DEF cfp_else
<1>2. CASE Abort
  BY <1>1, <1>2, AbortHolds DEF Abort
<1>3. CASE AbortWith(Append(sst, Node("BRANCH", NULL)))
  BY <1>1, <1>3, JoinNodes, AbortHolds
<1>4. CASE Matches("IF") /\ Room(2) /\ Commit(ElseNodes, stack, csp)
  <2>1. csp \in 2..Len(sst) /\ csp \in 1..SST_NODE_MAX + 1 /\ cs[csp].id = "IF"
    BY <1>1, <1>4, TopEntry, WhileCompiling, SizeAssumption
  <2>2. /\ stack \in [0..SST_NODE_MAX + 1 -> ControlEntry]
        /\ \A k \in 0..csp - 1 : stack[k] = cs[k]
        /\ stack[csp].id = "IF" /\ stack[csp].sst = Len(sst) + 1
    BY <1>1, <2>1, WhileCompiling DEF NextNode, ControlEntry
  <2>3. /\ Filled(ElseNodes, Len(sst) + 2) /\ Len(ElseNodes) = Len(sst) + 2
        /\ ElseNodes[Len(sst) + 2].type \notin BranchOps
        /\ Len(sst) + 2 \in Nat \ {NULL} /\ csp - 1 \in 1..csp - 1
    BY <1>1, <1>4, <2>1, ElseEffect, JoinNodes, WhileCompiling DEF NULL
  <2> HIDE DEF stack
  <2>4. ASSUME NEW i \in 1..Len(ElseNodes), Hanging(ElseNodes, i)
        PROVE  /\ i > Start
               /\ \E k \in 2..csp : stack[k].id \in {"IF", "WHILE"} /\ stack[k].sst = i
    <3>1. CASE i = Len(sst) + 1
      BY <1>1, <2>1, <2>2, <3>1, WhileCompiling
    <3>2. CASE i \in 1..Len(sst)
      <4>1. i > Start /\ \E k \in 2..csp - 1 : cs[k].id \in {"IF", "WHILE"} /\ cs[k].sst = i
        BY <1>1, <1>4, <2>3, <2>4, <3>2, FilledHolds
      <4> QED
        BY <2>1, <2>2, <4>1
    <3>3. i # Len(sst) + 2
      BY <2>3, <2>4 DEF Hanging
    <3> QED
      BY <1>1, <2>3, <3>1, <3>2, <3>3, WhileCompiling
  <2>5. ElseNodes \in Seq(SSTNode)
    BY <2>3 DEF Filled
  <2> QED
    BY <1>1, <1>4, <2>1, <2>2, <2>4, <2>5, CommitHolds DEF Held
<1> QED
  BY <1>2, <1>3, <1>4 DEF cfp_else, EmitTwo, ElseNodes, Open2, Hole

\* REPEAT's own branch goes back to BEGIN's label, and BEGIN's entry, which
\* it drops as well, holds no branch.
LEMMA RepeatHolds ==
  ASSUME IInv, OpenBranchesHeld, cfp_repeat
  PROVE  OpenBranchesHeld'
<1>1. Compiling
  BY DEF cfp_repeat
<1>2. CASE Abort
  BY <1>1, <1>2, AbortHolds DEF Abort
<1>3. CASE AbortWith(Append(sst, Node("BRANCH", NULL)))
  BY <1>1, <1>3, JoinNodes, AbortHolds
<1>4. CASE Matches("WHILE") /\ Room(2) /\ Commit(RepeatNodes, cs, csp - 2)
  <2>1. csp - 1 \in 2..csp /\ cs[csp - 1].id = "BEGIN" /\ csp \in 2..Len(sst)
    BY <1>1, <1>4, TopEntry DEF EntryHeld
  <2>2. cs[csp - 1].sst # NULL
    BY <1>1, <2>1, WhileCompiling DEF StackHeld, EntryHeld, NULL
  <2>3. /\ Filled(RepeatNodes, Len(sst) + 2) /\ Len(RepeatNodes) = Len(sst) + 2
        /\ RepeatNodes[Len(sst) + 1].ref # NULL
        /\ RepeatNodes[Len(sst) + 2].type \notin BranchOps
        /\ Len(sst) + 2 \in Nat \ {NULL} /\ csp - 2 \in 1..csp - 1
    BY <1>1, <1>4, <2>1, <2>2, RepeatEffect, JoinNodes, WhileCompiling DEF NULL
  <2>4. ASSUME NEW i \in 1..Len(RepeatNodes), Hanging(RepeatNodes, i)
        PROVE  /\ i > Start
               /\ \E k \in 2..csp - 2 : cs[k].id \in {"IF", "WHILE"} /\ cs[k].sst = i
    <3>1. i \in 1..Len(sst)
      BY <1>1, <2>3, <2>4, WhileCompiling, SMTT(30) DEF Hanging
    <3>2. \A k \in (csp - 2) + 1..csp - 1 : cs[k].id = "BEGIN"
      BY <2>1
    <3> QED
      BY <1>1, <1>4, <2>3, <2>4, <3>1, <3>2, FilledHolds
  <2>5. csp - 2 \in 1..SST_NODE_MAX + 1 /\ RepeatNodes \in Seq(SSTNode)
    BY <1>1, <2>1, <2>3, WhileCompiling, SizeAssumption DEF Filled
  <2> QED
    BY <1>1, <1>4, <2>4, <2>5, WhileCompiling, CommitHolds DEF Held
<1> QED
  BY <1>2, <1>3, <1>4 DEF cfp_repeat, EmitTwo, RepeatNodes, ElseNodes, Open2, Hole

\* ; accepts a definition only when no entry is left, so nothing hangs.
LEMMA SemicolonHolds ==
  ASSUME IInv, OpenBranchesHeld, cfp_semicolon
  PROVE  OpenBranchesHeld'
<1>1. Compiling
  BY DEF cfp_semicolon
<1>2. CASE Abort
  BY <1>1, <1>2, AbortHolds DEF Abort
<1>3. CASE AbortWith(Append(sst, Node("RET", NULL)))
  <2>1. Node("RET", NULL) \in SSTNode
    BY NodeTypes DEF NULL
  <2> QED
    BY <1>1, <1>3, <2>1, AbortHolds
<1>4. CASE Balanced /\ sst' = Append(Append(sst, Node("RET", NULL)), Node("SEMICOLON", NULL))
  <2>1. \A i \in 1..Len(sst) : ~Hanging(sst, i)
    BY <1>1, <1>4, HeldWhileCompiling, WhileCompiling DEF Held, Balanced
  <2>2. /\ Node("RET", NULL).type \notin BranchOps /\ Node("SEMICOLON", NULL).type \notin BranchOps
    BY DEF Node, BranchOps
  <2>3. \A i \in DOMAIN sst' : ~Hanging(sst', i)
    BY <1>1, <1>4, <2>1, <2>2, SemicolonNodes, WhileCompiling DEF Hanging
  <2> QED
    BY <2>3 DEF OpenBranchesHeld, IsBranch, Hanging
<1> QED
  BY <1>2, <1>3, <1>4 DEF cfp_semicolon

-----------------------------------------------------------------------------

\* The control-flow words, each by what it does to the stack.
LEMMA StructureHolds ==
  ASSUME IInv, OpenBranchesHeld, Structure
  PROVE  OpenBranchesHeld'
<1>0. /\ \A t \in {"0BRANCH", "LABEL", "DO", "FOR", "LOOP", "NEXT", "LEAVE"}, r \in Int :
           Node(t, r) \in SSTNode /\ Node(t, r).type = t /\ Node(t, r).ref = r
      /\ NULL \in Int /\ BranchOps = {"0BRANCH", "BRANCH"}
  <2>1. {"0BRANCH", "LABEL", "DO", "FOR", "LOOP", "NEXT", "LEAVE"} \subseteq ControlOps
    BY NodeTypes
  <2> QED
    BY <2>1, NodeTypes DEF NULL, BranchOps
<1>1. CASE cfp_if
  BY <1>0, <1>1, OpenerHolds DEF cfp_if
<1>2. CASE cfp_begin
  BY <1>0, <1>2, OpenerHolds DEF cfp_begin
<1>3. CASE cfp_do
  BY <1>0, <1>3, OpenerHolds DEF cfp_do
<1>4. CASE cfp_for
  BY <1>0, <1>4, OpenerHolds DEF cfp_for
<1>5. CASE cfp_while
  <2>1. CASE Matches("BEGIN")
    BY <1>0, <1>5, <2>1, OpenerHolds DEF cfp_while
  <2>2. CASE Abort
    BY <1>5, <2>2, AbortHolds DEF Abort, cfp_while
  <2> QED
    BY <1>5, <2>1, <2>2 DEF cfp_while
<1>6. ASSUME Compiling,
             NEW id \in {"BEGIN", "DO", "FOR"}, Matches(id),
             NEW t \in {"0BRANCH", "LOOP", "NEXT"},
             Emit(Append(sst, Node(t, cs[csp].sst)), cs, csp - 1)
      PROVE  OpenBranchesHeld'
  <2>1. /\ csp - 1 \in 1..csp /\ cs[csp].id = id /\ cs[csp].sst \in Int /\ cs[csp].sst # NULL
        /\ csp \in Nat
    BY <1>6, TopEntry, WhileCompiling DEF NULL
  <2>2. \A k \in (csp - 1) + 1..csp : cs[k].id \notin {"IF", "WHILE"}
    BY <2>1
  <2> QED
    BY <1>0, <1>6, <2>1, <2>2, PlainHolds
<1>7. CASE cfp_until
  <2>1. CASE Abort
    BY <1>7, <2>1, AbortHolds DEF Abort, cfp_until
  <2> QED
    BY <1>6, <1>7, <2>1 DEF cfp_until
<1>8. CASE cfp_loop
  <2>1. CASE Abort
    BY <1>8, <2>1, AbortHolds DEF Abort, cfp_loop
  <2> QED
    BY <1>6, <1>8, <2>1 DEF cfp_loop
<1>9. CASE cfp_next
  <2>1. CASE Abort
    BY <1>9, <2>1, AbortHolds DEF Abort, cfp_next
  <2> QED
    BY <1>6, <1>9, <2>1 DEF cfp_next
<1>10. CASE cfp_leave
  <2>1. CASE Abort
    BY <1>10, <2>1, AbortHolds DEF Abort, cfp_leave
  <2>2. ASSUME NEW k \in 1..csp, Emit(Append(sst, Node("LEAVE", cs[k].sst)), cs, csp)
        PROVE  OpenBranchesHeld'
    <3>1. Compiling /\ cs[k].sst \in Int /\ csp \in 1..csp
      BY <1>10, WhileCompiling, SizeAssumption DEF cfp_leave, ControlEntry
    <3>2. \A j \in csp + 1..csp : FALSE
      BY <3>1
    <3> QED
      BY <1>0, <2>2, <3>1, <3>2, PlainHolds
  <2> QED
    BY <1>10, <2>1, <2>2 DEF cfp_leave
<1> QED
  BY <1>1, <1>2, <1>3, <1>4, <1>5, <1>7, <1>8, <1>9, <1>10, EndifHolds, ElseHolds, RepeatHolds
     DEF Structure

\* None of the other words inside a definition appends a branch.
LEMMA CompileHolds ==
  ASSUME IInv, OpenBranchesHeld, Compile
  PROVE  OpenBranchesHeld'
<1>1. ASSUME Compiling, NEW t \in (ControlOps \cup ExtensionOps) \ BranchOps, NEW r \in Int,
             Emit(Append(sst, Node(t, r)), cs, csp)
      PROVE  OpenBranchesHeld'
  <2>1. Node(t, r) \in SSTNode /\ Node(t, r).type = t /\ csp \in 1..csp
    BY <1>1, NodeTypes, WhileCompiling
  <2> QED
    BY <1>1, <2>1, WhileCompiling, PlainHolds
<1>2. ASSUME NEW v \in Values, cfp_sharp(v) \/ cfp_allot(v)
      PROVE  OpenBranchesHeld'
  <2>1. v \in Int /\ {"LITERAL", "ALLOT"} \subseteq (ControlOps \cup ExtensionOps) \ BranchOps
    BY FileAssumption, NodeTypes DEF BranchOps
  <2> QED
    BY <1>1, <1>2, <2>1 DEF cfp_sharp, cfp_allot
<1>3. ASSUME NEW op \in Ops, CompileExtension(op)
      PROVE  OpenBranchesHeld'
  <2>1. op \in (ControlOps \cup ExtensionOps) \ BranchOps /\ NULL \in Int
    BY FileAssumption, NodeTypes DEF ControlOps, NULL
  <2> QED
    BY <1>1, <1>3, <2>1 DEF CompileExtension
<1>4. ASSUME NEW n \in Names, CompileReference(n)
      PROVE  OpenBranchesHeld'
  <2>1. PICK s \in DOMAIN dict : Emit(Append(sst, Node(RefType(dict[s].type), s)), cs, csp)
    BY <1>4 DEF CompileReference
  <2>2. s \in Int /\ Compiling
    BY <1>4 DEF CompileReference, IInv, TypeOK
  <2>3. RefType(dict[s].type) \in (ControlOps \cup ExtensionOps) \ BranchOps
    BY NodeTypes DEF RefType, BranchOps
  <2> QED
    BY <1>1, <2>1, <2>2, <2>3
<1> QED
  BY <1>2, <1>3, <1>4 DEF Compile

\* Between definitions nothing hangs, and VARIABLE, CONSTANT and : append no
\* branch.
LEMMA DefineHolds ==
  ASSUME IInv, OpenBranchesHeld, Define
  PROVE  OpenBranchesHeld'
<1>1. Interpreting /\ creating = NULL
  BY DEF Define, cfp_colon, cfp_variable, cfp_constant, IInv, OpenDefinition
<1>2. \A i \in 1..Len(sst) : ~Hanging(sst, i)
  BY <1>1 DEF OpenBranchesHeld, Open, IsBranch, Hanging, IInv, TypeOK
<1>3. sst' = sst \/ \E t \in {"COLON", "VARIABLE"} : sst' = Append(sst, Node(t, Len(dict')))
  BY DEF Define, cfp_colon, cfp_variable, cfp_constant, Abort, AbortWith
<1>4. \A i \in DOMAIN sst' : ~Hanging(sst', i)
  <2>1. CASE sst' = sst
    BY <1>2, <2>1 DEF Hanging, IInv, TypeOK
  <2>2. ASSUME NEW t \in {"COLON", "VARIABLE"}, sst' = Append(sst, Node(t, Len(dict')))
        PROVE  \A i \in DOMAIN sst' : ~Hanging(sst', i)
    <3>1. IInv'
      BY ColonKeeps, VariableKeeps, ConstantKeeps DEF Define
    <3>2. Len(dict') \in Int /\ t \in ControlOps \cup ExtensionOps /\ t \notin BranchOps
      BY <3>1, NodeTypes DEF IInv, TypeOK, BranchOps
    <3>3. Node(t, Len(dict')) \in SSTNode /\ Node(t, Len(dict')).type \notin BranchOps
      BY <3>2, NodeTypes
    <3>4. sst \in Seq(SSTNode)
      BY DEF IInv, TypeOK
    <3> QED
      BY <1>2, <2>2, <3>3, <3>4, AppendNode DEF Hanging
  <2> QED
    BY <1>3, <2>1, <2>2
<1> QED
  BY <1>4 DEF OpenBranchesHeld, IsBranch, Hanging

\* Every token keeps the open branches held.
LEMMA StepHolds == IInv /\ OpenBranchesHeld /\ [Next]_vars => OpenBranchesHeld'
<1> SUFFICES ASSUME IInv, OpenBranchesHeld, [Next]_vars PROVE OpenBranchesHeld'
  OBVIOUS
<1>1. CASE Abort \/ (status = "loading" /\ UNCHANGED <<mode, dict, here, sst, cs, csp, creating>>)
  BY <1>1 DEF Abort, AbortWith, OpenBranchesHeld, Open, IsBranch, IInv, OpenDefinition
<1>2. CASE UNCHANGED vars
  BY <1>2 DEF vars, OpenBranchesHeld, Open, IsBranch
<1> QED
  BY <1>1, <1>2, DefineHolds, StructureHolds, CompileHolds, SemicolonHolds
     DEF Next, BadToken, EndOfFile, Interpreting

(***************************************************************************)
(* Whatever the file, a branch without a target lies in the definition     *)
(* being compiled and is remembered by the control stack; a word that ;    *)
(* reveals, and a file that loads to its end, have none, and the code      *)
(* generator follows no NULL in them.                                      *)
(***************************************************************************)
THEOREM BranchesNeverLost == Spec => []OpenBranchesHeld
<1>1. Init => OpenBranchesHeld
  BY DEF Init, OpenBranchesHeld
<1> QED
  BY <1>1, InitHolds, StepKeeps, StepHolds, PTL DEF Spec

-----------------------------------------------------------------------------
(* Finished code and the dictionary. *)

Frozen == \A i \in DOMAIN sst : ~Open(i) => i \in DOMAIN sst' /\ sst'[i] = sst[i]

\* Appending keeps everything, even a node whose reference is not typed yet.
LEMMA AppendFreezes ==
  ASSUME IInv, NEW n, sst' = Append(sst, n)
  PROVE  Frozen
<1>1. sst \in Seq(SSTNode \cup {n})
  BY DEF IInv, TypeOK
<1> QED
  BY <1>1, AppendNode DEF Frozen

\* Filling Hole changes a node of the open definition only.
LEMMA FilledFreezes ==
  ASSUME IInv, Compiling, NEW id \in {"IF", "WHILE"}, Matches(id),
         NEW nodes, NEW target, Filled(nodes, target), Len(nodes) \in Nat,
         Len(sst) <= Len(nodes), sst' = nodes
  PROVE  Frozen
<1>1. Open(Hole)
  BY TopEntry, WhileCompiling DEF Open, Hole, Start, IInv, TypeOK, OpenDefinition, NULL
<1>2. \A i \in DOMAIN sst : ~Open(i) => i # Hole
  BY <1>1
<1> QED
  BY <1>2, WhileCompiling DEF Frozen, Filled

\* The closers that fill in a branch.
LEMMA ClosersFreeze ==
  ASSUME IInv, cfp_endif \/ cfp_else \/ cfp_repeat
  PROVE  Frozen
<1>0. Compiling
  BY DEF cfp_endif, cfp_else, cfp_repeat
<1>1. CASE sst' = sst
  BY <1>1 DEF Frozen
<1>2. CASE sst' = Append(sst, Node("BRANCH", NULL))
  BY <1>2, AppendFreezes
<1>3. CASE Matches("IF") /\ sst' = EndifNodes
  BY <1>0, <1>3, EndifEffect, FilledFreezes, WhileCompiling
<1>4. CASE Matches("IF") /\ sst' = ElseNodes
  BY <1>0, <1>4, ElseEffect, FilledFreezes, WhileCompiling
<1>5. CASE Matches("WHILE") /\ sst' = RepeatNodes
  BY <1>0, <1>5, RepeatEffect, FilledFreezes, WhileCompiling
<1>6. CASE cfp_endif
  BY <1>1, <1>3, <1>6
     DEF cfp_endif, Emit, Commit, Abort, AbortWith, EndifNodes, Open1, Hole
<1>7. CASE cfp_else
  BY <1>1, <1>2, <1>4, <1>7
     DEF cfp_else, EmitTwo, Commit, Abort, AbortWith, ElseNodes, Open2, Hole
<1>8. CASE cfp_repeat
  BY <1>1, <1>2, <1>5, <1>8
     DEF cfp_repeat, EmitTwo, Commit, Abort, AbortWith, RepeatNodes, ElseNodes, Open2, Hole
<1> QED
  BY <1>6, <1>7, <1>8

\* Every other token leaves the nodes alone or appends to them.
LEMMA OthersFreeze ==
  ASSUME IInv, Define \/ Compile \/ cfp_semicolon \/ BadToken \/ EndOfFile \/ UNCHANGED vars
  PROVE  Frozen
<1>1. ASSUME NEW n, sst' = Append(sst, n)
      PROVE  Frozen
  BY <1>1, AppendFreezes
<1>2. CASE sst' = sst
  BY <1>2 DEF Frozen
<1>3. CASE Compiling /\ sst' = Append(Append(sst, Node("RET", NULL)), Node("SEMICOLON", NULL))
  BY <1>3, SemicolonNodes, WhileCompiling DEF Frozen
<1>4. CASE Define
  BY <1>1, <1>2, <1>4 DEF Define, cfp_colon, cfp_variable, cfp_constant, Abort, AbortWith
<1>5. CASE Compile
  BY <1>1, <1>2, <1>5
     DEF Compile, cfp_sharp, cfp_allot, CompileExtension, CompileReference, Emit, Commit, Abort, AbortWith
<1>6. CASE cfp_semicolon
  BY <1>1, <1>2, <1>3, <1>6 DEF cfp_semicolon, Abort, AbortWith
<1> QED
  BY <1>2, <1>4, <1>5, <1>6 DEF BadToken, EndOfFile, Abort, AbortWith, vars

\* Openers, and the closers that only append.
LEMMA StructureFreezes ==
  ASSUME IInv, Structure
  PROVE  Frozen
<1>1. ASSUME NEW n, sst' = Append(sst, n)
      PROVE  Frozen
  BY <1>1, AppendFreezes
<1>2. CASE sst' = sst
  BY <1>2 DEF Frozen
<1>3. CASE cfp_endif \/ cfp_else \/ cfp_repeat
  BY <1>3, ClosersFreeze
<1>4. CASE cfp_if \/ cfp_begin \/ cfp_while \/ cfp_do \/ cfp_for
  BY <1>1, <1>2, <1>4
     DEF cfp_if, cfp_begin, cfp_while, cfp_do, cfp_for, Emit, Commit, Abort, AbortWith
<1>5. CASE cfp_until \/ cfp_loop \/ cfp_next \/ cfp_leave
  BY <1>1, <1>2, <1>5
     DEF cfp_until, cfp_loop, cfp_next, cfp_leave, Emit, Commit, Abort, AbortWith
<1> QED
  BY <1>3, <1>4, <1>5 DEF Structure

(***************************************************************************)
(* Whatever the file, no token changes a node outside the definition being *)
(* compiled: a control-stack entry that a finished definition left behind  *)
(* is never written through.                                               *)
(***************************************************************************)
THEOREM FinishedCodeNeverChanges == Spec => FinishedCodeFrozen
<1>1. IInv /\ [Next]_vars => [Frozen]_vars
  BY StructureFreezes, OthersFreeze DEF Next
<1>2. Spec => [][Frozen]_vars
  BY <1>1, Invariance, PTL DEF Spec
<1> QED
  BY <1>2 DEF FinishedCodeFrozen, Frozen

(***************************************************************************)
(* Whatever the file and the size of the dictionary, ql4thvm_here stays in *)
(* it, VARIABLE's unchecked cell included.                                 *)
(***************************************************************************)
THEOREM DictionaryNeverOverflows == Spec => []DictionaryFits
<1>1. Init => DictionaryFits
  BY SizeAssumption DEF Init, DictionaryFits
<1>2. IInv /\ DictionaryFits /\ [Next]_vars => DictionaryFits'
  <2> SUFFICES ASSUME IInv, DictionaryFits, [Next]_vars PROVE DictionaryFits'
    OBVIOUS
  <2>1. here \in Nat /\ SymbolCells \in Nat /\ DictCells \in Nat
    BY SizeAssumption DEF IInv, TypeOK
  <2>2. CASE UNCHANGED here
    BY <2>2 DEF DictionaryFits
  <2>3. CASE Define
    <3>1. CASE ~MemoryFull /\ here' \in {here + SymbolCells, here + SymbolCells + 1}
      BY <2>1, <3>1 DEF MemoryFull, DictionaryFits
    <3>2. ASSUME NEW n \in Names, cfp_colon(n)
          PROVE  DictionaryFits'
      BY <2>2, <3>1, <3>2 DEF cfp_colon, Abort, AbortWith
    <3>3. ASSUME NEW n \in Names, cfp_variable(n)
          PROVE  DictionaryFits'
      BY <2>2, <3>1, <3>3 DEF cfp_variable
    <3>4. ASSUME NEW n \in Names, cfp_constant(n)
          PROVE  DictionaryFits'
      BY <2>2, <3>1, <3>4 DEF cfp_constant, Abort, AbortWith
    <3> QED
      BY <2>3, <3>2, <3>3, <3>4 DEF Define
  <2>4. CASE Structure
    BY <2>2, <2>4
       DEF Structure, cfp_if, cfp_else, cfp_endif, cfp_begin, cfp_while, cfp_repeat, cfp_until,
           cfp_do, cfp_loop, cfp_leave, cfp_for, cfp_next, Emit, EmitTwo, Commit, Abort, AbortWith
  <2>5. CASE Compile
    BY <2>2, <2>5
       DEF Compile, cfp_sharp, cfp_allot, CompileExtension, CompileReference, Emit, Commit, Abort, AbortWith
  <2>6. CASE cfp_semicolon \/ BadToken \/ EndOfFile \/ UNCHANGED vars
    BY <2>2, <2>6 DEF cfp_semicolon, BadToken, EndOfFile, Abort, AbortWith, vars
  <2> QED
    BY <2>3, <2>4, <2>5, <2>6 DEF Next
<1> QED
  BY <1>1, <1>2, InitHolds, StepKeeps, PTL DEF Spec

=============================================================================
