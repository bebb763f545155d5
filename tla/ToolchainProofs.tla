-------------------------- MODULE ToolchainProofs --------------------------
(***************************************************************************)
(* Proofs about the load and the code generator composed, for every file,  *)
(* every size of the buffers and every memory.                             *)
(*                                                                         *)
(* LoadedSafe: a complete load never makes the generator follow a NULL.    *)
(* NothingWrittenTwice: no two nodes share a word of code_buffer.          *)
(* BranchesLeadHome: each generated branch leads behind its own label.     *)
(*                                                                         *)
(* The load ends before the generator begins, so its invariants, proved in *)
(* WordProofs, hold of the tree that the generator walks (Tree) while the  *)
(* labels receive their addresses.  Phases says in which pass what holds.  *)
(* The steps of pass 1 have four shapes: they emit words, mark a place,    *)
(* allot room, or break down.  Layout is about the places they mark and    *)
(* the words they give to the nodes, which lie in the order of the nodes,  *)
(* and about the holes of the branches, which nothing is written into      *)
(* before pass 2.                                                          *)
(***************************************************************************)
EXTENDS Toolchain, TLAPS

LoadP == INSTANCE WordProofs

-----------------------------------------------------------------------------
(* The load. *)

LEMMA SameLoad ==
  /\ Load!Init <=> LoadP!Init
  /\ Load!Next <=> LoadP!Next
<1> USE DEF
      Load!NULL, Load!Node, Load!SSTNode, Load!NextNode, Load!Room, Load!Abort,
      Load!AbortWith, Load!Commit, Load!Emit, Load!EmitTwo, Load!Compiling,
      Load!Interpreting, Load!Fill, Load!Push, Load!Matches, LoadP!NULL, LoadP!Node,
      LoadP!SSTNode, LoadP!NextNode, LoadP!Room, LoadP!Abort, LoadP!AbortWith, LoadP!Commit,
      LoadP!Emit, LoadP!EmitTwo, LoadP!Compiling, LoadP!Interpreting, LoadP!Fill,
      LoadP!Push, LoadP!Matches
<1>1. Load!Init <=> LoadP!Init
  BY DEF Load!Init, Load!NULL, LoadP!Init, LoadP!NULL
<1>2. Load!Define <=> LoadP!Define
  BY DEF Load!Define, Load!cfp_colon, Load!cfp_variable, Load!cfp_constant, Load!MemoryFull,
         Load!Defined, Load!HiddenWhileOpen, LoadP!Define, LoadP!cfp_colon,
         LoadP!cfp_variable, LoadP!cfp_constant, LoadP!MemoryFull, LoadP!Defined,
         LoadP!HiddenWhileOpen
<1>3. Load!Structure <=> LoadP!Structure
  BY DEF Load!Structure, Load!cfp_if, Load!cfp_else, Load!cfp_endif, Load!cfp_begin,
         Load!cfp_while, Load!cfp_repeat, Load!cfp_until, Load!cfp_do, Load!cfp_loop,
         Load!cfp_leave, Load!cfp_for, Load!cfp_next, Load!InnermostDo, LoadP!Structure,
         LoadP!cfp_if, LoadP!cfp_else, LoadP!cfp_endif, LoadP!cfp_begin, LoadP!cfp_while,
         LoadP!cfp_repeat, LoadP!cfp_until, LoadP!cfp_do, LoadP!cfp_loop, LoadP!cfp_leave,
         LoadP!cfp_for, LoadP!cfp_next, LoadP!InnermostDo
<1>4. Load!Compile <=> LoadP!Compile
  BY DEF Load!Compile, Load!cfp_sharp, Load!cfp_allot, Load!CompileExtension,
         Load!CompileReference, Load!RefType, Load!Finds, Load!Visible, LoadP!Compile,
         LoadP!cfp_sharp, LoadP!cfp_allot, LoadP!CompileExtension, LoadP!CompileReference,
         LoadP!RefType, LoadP!Finds, LoadP!Visible
<1>5. Load!cfp_semicolon <=> LoadP!cfp_semicolon
  BY DEF Load!cfp_semicolon, Load!Balanced, LoadP!cfp_semicolon, LoadP!Balanced
<1>6. Load!BadToken <=> LoadP!BadToken
  BY DEF Load!BadToken, LoadP!BadToken
<1>7. Load!EndOfFile <=> LoadP!EndOfFile
  BY DEF Load!EndOfFile, LoadP!EndOfFile
<1> QED
  BY <1>1, <1>2, <1>3, <1>4, <1>5, <1>6, <1>7 DEF Load!Next, LoadP!Next

\* Only the end of the file outside a definition makes a load complete.
LEMMA LoadEnds == Load!Next /\ status' = "loaded" => LoadP!Interpreting /\ creating' = creating
<1> SUFFICES ASSUME LoadP!Next, status' = "loaded"
             PROVE  LoadP!Interpreting /\ creating' = creating
  BY SameLoad
<1> USE DEF LoadP!Compiling, LoadP!Emit, LoadP!EmitTwo, LoadP!Commit, LoadP!Abort, LoadP!AbortWith
<1>1. ~LoadP!Define
  BY DEF LoadP!Define, LoadP!cfp_colon, LoadP!cfp_variable, LoadP!cfp_constant, LoadP!Interpreting
<1>2. ~LoadP!Structure
  BY DEF LoadP!Structure, LoadP!cfp_if, LoadP!cfp_else, LoadP!cfp_endif, LoadP!cfp_begin,
         LoadP!cfp_while, LoadP!cfp_repeat, LoadP!cfp_until, LoadP!cfp_do, LoadP!cfp_loop,
         LoadP!cfp_leave, LoadP!cfp_for, LoadP!cfp_next
<1>3. ~LoadP!Compile
  BY DEF LoadP!Compile, LoadP!cfp_sharp, LoadP!cfp_allot, LoadP!CompileExtension,
         LoadP!CompileReference
<1>4. ~LoadP!cfp_semicolon
  BY DEF LoadP!cfp_semicolon
<1>5. ~LoadP!BadToken
  BY DEF LoadP!BadToken
<1> QED
  BY <1>1, <1>2, <1>3, <1>4, <1>5 DEF LoadP!Next, LoadP!EndOfFile

\* What holds until the generator starts.
LoadHolds ==
  /\ LoadP!IInv
  /\ LoadP!OpenBranchesHeld /\ LoadP!BranchesStayInWord
  /\ LoadP!VisibleWordsComplete
  /\ LoadP!NodesNamed
  /\ status = "loaded" => creating = NULL

LEMMA LoadStarts == Load!Init => LoadHolds
<1>1. LoadP!Init => LoadP!IInv /\ LoadP!OpenBranchesHeld /\ LoadP!BranchesStayInWord
  BY ToolchainAssumption, LoadP!InitHolds DEF LoadP!Init, LoadP!OpenBranchesHeld, LoadP!BranchesStayInWord, LoadP!ExtensionOps, ExtensionOps, LoadP!Vocabulary, Load!Vocabulary
<1> QED
  BY <1>1, SameLoad
     DEF LoadHolds, LoadP!Init, LoadP!VisibleWordsComplete, LoadP!NodesNamed

LEMMA LoadSteps == LoadHolds /\ (Load!Next \/ UNCHANGED LoadP!vars) => LoadHolds'
<1> SUFFICES ASSUME LoadHolds, Load!Next \/ UNCHANGED LoadP!vars
             PROVE  LoadHolds'
  OBVIOUS
<1>1. /\ Values \subseteq Int /\ Ops \subseteq LoadP!ExtensionOps /\ Uses \subseteq LoadP!Vocabulary
      /\ SST_NODE_MAX \in Nat /\ DictCells \in Nat /\ SymbolCells \in Nat \ {0}
  BY ToolchainAssumption DEF LoadP!ExtensionOps, ExtensionOps, LoadP!Vocabulary, Load!Vocabulary
<1>2. [LoadP!Next]_(LoadP!vars)
  BY SameLoad
<1>3. LoadP!IInv'
  BY <1>1, <1>2, LoadP!StepKeeps DEF LoadHolds
<1>4. LoadP!OpenBranchesHeld'
  BY <1>1, <1>2, LoadP!StepHolds DEF LoadHolds
<1>5. LoadP!BranchesStayInWord'
  BY <1>1, <1>2, LoadP!StepJoins DEF LoadHolds
<1>6. LoadP!VisibleWordsComplete'
  BY <1>1, <1>2, LoadP!StepCompletes DEF LoadHolds
<1>7. LoadP!NodesNamed'
  BY <1>1, <1>2, LoadP!StepNames DEF LoadHolds
<1>8. status' = "loaded" => creating' = NULL
  <2>1. CASE Load!Next
    BY <2>1, LoadEnds DEF LoadHolds, LoadP!IInv, LoadP!OpenDefinition, LoadP!NULL, NULL
  <2>2. CASE UNCHANGED LoadP!vars
    BY <2>2 DEF LoadHolds, LoadP!vars
  <2> QED
    BY <2>1, <2>2
<1> QED
  BY <1>3, <1>4, <1>5, <1>6, <1>7, <1>8 DEF LoadHolds

-----------------------------------------------------------------------------
(* What the load leaves. *)

\* The tree that the generator works on: it only gives labels their addresses.
Tree ==
  /\ sst \in Seq(SSTNode) /\ dict \in Seq(Symbol(Names))
  /\ LoadP!NodesNamed
  /\ LoadP!BranchesStayInWord
  /\ LoadP!VisibleWordsComplete
  /\ status = "loaded" => \A i \in 1..Len(sst) : sst[i].type \in BranchOps => sst[i].ref # NULL

LEMMA LoadLeaves == LoadHolds => Tree
<1> SUFFICES ASSUME LoadHolds PROVE Tree
  OBVIOUS
<1>1. sst \in Seq(SSTNode) /\ dict \in Seq(Symbol(Names))
  BY DEF LoadHolds, LoadP!IInv, LoadP!TypeOK, LoadP!SSTNode, SSTNode, LoadP!NodeType, NodeType,
         LoadP!ControlOps, ControlOps, LoadP!ExtensionOps, ExtensionOps, LoadP!Boundary, Boundary,
         LoadP!BranchOps, BranchOps, LoadP!Symbol, Symbol
<1>2. status = "loaded" => \A i \in 1..Len(sst) : sst[i].type \in BranchOps => sst[i].ref # NULL
  BY <1>1 DEF LoadHolds, LoadP!OpenBranchesHeld, LoadP!IsBranch, LoadP!Open, LoadP!BranchOps,
              BranchOps, LoadP!NULL, NULL
<1> QED
  BY <1>1, <1>2 DEF LoadHolds, Tree

\* A step of the generator changes no node but a label's address.
Relabels ==
  /\ UNCHANGED <<status, dict>>
  /\ sst' \in Seq(SSTNode) /\ Len(sst') = Len(sst)
  /\ \A i \in 1..Len(sst) :
       sst'[i].type = sst[i].type /\ (sst[i].type # "LABEL" => sst'[i] = sst[i])

LEMMA TreeStays ==
  ASSUME Tree, Relabels
  PROVE  Tree'
<1> USE DEF Relabels
<1>1. /\ sst \in Seq(SSTNode) /\ dict \in Seq(Symbol(Names))
      /\ DOMAIN sst = 1..Len(sst) /\ DOMAIN sst' = 1..Len(sst) /\ Len(sst) \in Nat
  BY DEF Tree
<1>2. LoadP!NodesNamed'
  <2>1. \A i \in 1..Len(sst) :
          /\ sst'[i].type = sst[i].type
          /\ sst[i].type \in {"COLON", "VARIABLE", "WORD_REF", "VAR_REF"} => sst'[i] = sst[i]
    OBVIOUS
  <2>2. LoadP!NodesNamed
    BY DEF Tree
  <2>3. ASSUME NEW i \in 1..Len(sst)
        PROVE  /\ sst'[i].type \in LoadP!Definer \cup {"WORD_REF", "VAR_REF"} => sst'[i].ref \in 1..Len(dict)
               /\ sst'[i].type \in LoadP!Definer =>
                    \A j \in 1..i - 1 : sst'[j].type \in LoadP!Definer => sst'[j].ref < sst'[i].ref
    <3>1. 1..i - 1 \subseteq 1..Len(sst)
      BY <1>1
    <3> QED
      BY <2>1, <2>2, <3>1 DEF LoadP!NodesNamed, LoadP!Definer
  <2>4. Len(dict') = Len(dict) /\ Len(sst') = Len(sst)
    OBVIOUS
  <2> QED
    BY <2>3, <2>4 DEF LoadP!NodesNamed
<1>3. LoadP!BranchesStayInWord'
  <2>1. ASSUME NEW i \in 1..Len(sst), sst[i].type \in BranchOps, sst[i].ref # NULL
        PROVE  /\ sst[i].ref \in 1..Len(sst) /\ sst[sst[i].ref].type = "LABEL"
               /\ \A k \in i..sst[i].ref : sst[k].type \notin Boundary
               /\ \A k \in sst[i].ref..i : sst[k].type \notin Boundary
    BY <1>1, <2>1 DEF Tree, LoadP!BranchesStayInWord, LoadP!IsBranch, LoadP!Unbroken,
                      LoadP!BranchOps, BranchOps, LoadP!Boundary, Boundary, LoadP!NULL, NULL
  <2>2. ASSUME NEW i \in 1..Len(sst), sst'[i].type \in BranchOps, sst'[i].ref # NULL
        PROVE  /\ sst'[i].ref \in 1..Len(sst) /\ sst'[sst'[i].ref].type = "LABEL"
               /\ \A k \in i..sst'[i].ref : sst'[k].type \notin Boundary
               /\ \A k \in sst'[i].ref..i : sst'[k].type \notin Boundary
    <3>1. sst'[i] = sst[i] /\ sst[i].type \in BranchOps /\ sst[i].ref # NULL
      BY <2>2 DEF BranchOps
    <3> DEFINE r == sst[i].ref
    <3>2. /\ r \in 1..Len(sst) /\ sst[r].type = "LABEL"
          /\ \A k \in i..r : sst[k].type \notin Boundary
          /\ \A k \in r..i : sst[k].type \notin Boundary
      BY <2>1, <3>1
    <3>3. \A k \in 1..Len(sst) : sst'[k].type = sst[k].type
      OBVIOUS
    <3> HIDE DEF r
    <3>4. i..r \subseteq 1..Len(sst) /\ r..i \subseteq 1..Len(sst)
      BY <1>1, <3>2
    <3>5. /\ r \in 1..Len(sst) /\ sst'[r].type = "LABEL"
          /\ \A k \in i..r : sst'[k].type \notin Boundary
          /\ \A k \in r..i : sst'[k].type \notin Boundary
      BY <3>2, <3>3, <3>4
    <3> QED
      BY <3>1, <3>5 DEF r
  <2> QED
    BY <1>1, <2>2 DEF LoadP!BranchesStayInWord, LoadP!IsBranch, LoadP!Unbroken,
                      LoadP!BranchOps, BranchOps, LoadP!Boundary, Boundary, LoadP!NULL, NULL
<1>4. LoadP!VisibleWordsComplete'
  <2> SUFFICES ASSUME NEW s \in 1..Len(dict), dict[s].type = "WORD", ~dict[s].hidden
               PROVE  /\ dict[s].sst \in 1..Len(sst)
                      /\ sst'[dict[s].sst] = LoadP!Node("COLON", s)
                      /\ \E e \in dict[s].sst + 2..Len(sst) :
                           /\ sst'[e].type = "SEMICOLON" /\ sst'[e - 1].type = "RET"
                           /\ LoadP!Unbroken(sst', dict[s].sst + 1, e - 1)
    <3>1. DOMAIN dict' = 1..Len(dict) /\ dict' = dict
      BY <1>1
    <3> QED
      BY <1>1, <3>1 DEF LoadP!VisibleWordsComplete, LoadP!Visible
  <2>1. /\ dict[s].sst \in 1..Len(sst)
        /\ sst[dict[s].sst] = LoadP!Node("COLON", s)
        /\ \E e \in dict[s].sst + 2..Len(sst) :
             /\ sst[e].type = "SEMICOLON" /\ sst[e - 1].type = "RET"
             /\ LoadP!Unbroken(sst, dict[s].sst + 1, e - 1)
    BY <1>1 DEF Tree, LoadP!VisibleWordsComplete, LoadP!Visible
  <2>2. PICK e \in dict[s].sst + 2..Len(sst) :
             /\ sst[e].type = "SEMICOLON" /\ sst[e - 1].type = "RET"
             /\ \A k \in dict[s].sst + 1..e - 1 : sst[k].type \notin LoadP!Boundary
    BY <2>1 DEF LoadP!Unbroken
  <2>3. /\ e \in 1..Len(sst) /\ e - 1 \in 1..Len(sst)
        /\ dict[s].sst + 1..e - 1 \subseteq 1..Len(sst)
    <3>1. dict[s].sst \in Int /\ 1 <= dict[s].sst
      BY <2>1
    <3>2. e \in Int /\ dict[s].sst + 2 <= e /\ e <= Len(sst) /\ Len(sst) \in Int
      BY <1>1, <3>1
    <3> QED
      BY <3>1, <3>2
  <2>4. /\ sst'[e].type = "SEMICOLON" /\ sst'[e - 1].type = "RET"
        /\ \A k \in dict[s].sst + 1..e - 1 : sst'[k].type \notin LoadP!Boundary
    BY <2>2, <2>3
  <2>5. sst'[dict[s].sst] = sst[dict[s].sst]
    <3>1. LoadP!Node("COLON", s).type = "COLON"
      BY DEF LoadP!Node
    <3> QED
      BY <2>1, <3>1
  <2> QED
    BY <2>1, <2>2, <2>4, <2>5 DEF LoadP!Unbroken
<1>5. status' = "loaded" => \A i \in 1..Len(sst') : sst'[i].type \in BranchOps => sst'[i].ref # NULL
  BY <1>1 DEF Tree, BranchOps
<1> QED
  BY <1>1, <1>2, <1>3, <1>4, <1>5 DEF Tree

-----------------------------------------------------------------------------
(* The words that code.c emits. *)

LEMMA Words == \A n : n \in Chip!Word <=> n \in Int /\ 0 <= n /\ n < 65536
<1>1. Chip!W \in Int
  BY DEF Chip!W
<1>2. \A n : n \in Chip!Word <=> n \in Int /\ 0 <= n /\ n <= Chip!W - 1
  BY <1>1 DEF Chip!Word
<1> QED
  BY <1>2 DEF Chip!W

LEMMA ShortWords ==
  ASSUME NEW a \in Chip!Word, NEW b \in Chip!Word
  PROVE  /\ <<>> \in Seq(Chip!Word) /\ Len(<<>>) = 0
         /\ <<a>> \in Seq(Chip!Word) /\ Len(<<a>>) = 1
         /\ <<a, b>> \in Seq(Chip!Word) /\ Len(<<a, b>>) = 2
         /\ \A s \in Seq(Chip!Word) :
              Append(s, a) \in Seq(Chip!Word) /\ Len(Append(s, a)) = Len(s) + 1 /\ Len(s) \in Nat
<1>1. <<>> \in Seq(Chip!Word) /\ Len(<<>>) = 0
  OBVIOUS
<1>2. <<a>> \in Seq(Chip!Word) /\ Len(<<a>>) = 1
  OBVIOUS
<1>3. <<a, b>> \in Seq(Chip!Word) /\ Len(<<a, b>>) = 2
  OBVIOUS
<1>4. ASSUME NEW s \in Seq(Chip!Word)
      PROVE  Append(s, a) \in Seq(Chip!Word) /\ Len(Append(s, a)) = Len(s) + 1 /\ Len(s) \in Nat
  OBVIOUS
<1> QED
  BY <1>1, <1>2, <1>3, <1>4

LEMMA BitSet ==
  ASSUME NEW w \in Chip!Word
  PROVE  Gen!WithRet(w) \in Chip!Word
<1>1. ASSUME NEW v \in Chip!Word, NEW bit \in {4, 8, 4096}
      PROVE  Gen!SetBit(v, bit) \in Chip!Word
  <2>1. v \in Int /\ 0 <= v /\ v <= 65535 /\ bit \in Nat
    BY Words
  <2>2. /\ Gen!SetBit(v, 4096) <= 65535 /\ Gen!SetBit(v, 8) <= 65535
        /\ Gen!SetBit(v, 4) <= 65535
    BY <2>1 DEF Gen!SetBit
  <2>3. Gen!SetBit(v, bit) <= 65535
    BY <2>2
  <2>4. Gen!SetBit(v, bit) \in {v, v + bit}
    BY DEF Gen!SetBit
  <2> QED
    BY <2>1, <2>3, <2>4, Words
<1> QED
  BY <1>1 DEF Gen!WithRet

LEMMA Opcodes == \A op \in Gen!Foldable : Gen!Opcode(op) \in Chip!Word
<1> DEFINE Codes ==
  {0, \h100C, \h6001, \h6003, \h6020, \h6023, \h6044, \h6081, \h6100, \h6103,
   \h6147, \h6180, \h6181, \h6203, \h6303, \h6403, \h6503, \h6541, \h6600,
   \h6703, \h6781, \h6803, \h6903, \h6A00, \h6B81, \h6C00, \h6C81, \h6D03,
   \h6E81, \h6F03}
<1>1. \A c \in Codes : c \in Chip!Word
  BY Words
<1>2. \A op \in Gen!Foldable : Gen!Opcode(op) \in Codes
  BY DEF Gen!Foldable, Gen!Opcode
<1> HIDE DEF Codes
<1> QED
  BY <1>1, <1>2

\* What a node becomes: at most two words, and one at least if a return can be
\* folded into it.
LEMMA EncodedWords ==
  ASSUME NEW op \in Gen!Foldable \cup Gen!Fixed \cup {"LITERAL"}, NEW val \in Int,
         NEW ret \in BOOLEAN
  PROVE  /\ Gen!Encoded(op, val, ret) \in Seq(Chip!Word)
         /\ op \notin Gen!Fixed => Len(Gen!Encoded(op, val, ret)) \in Nat \ {0}
<1> DEFINE words == Gen!Encoded(op, val, ret)
<1> DEFINE Last(w) == IF ret THEN Gen!WithRet(w) ELSE w
<1>1. \A w \in Chip!Word : Last(w) \in Chip!Word
  BY BitSet
<1>2. \A n \in Int : Gen!Literal(n) \in Chip!Word
  BY Words DEF Gen!Literal
<1>3. CASE op = "LITERAL"
  <2> op \notin Gen!Fixed /\ op \notin Gen!Foldable
    BY <1>3 DEF Gen!Fixed, Gen!Foldable
  <2>1. ~Gen!Complemented(val) => Gen!Encoded(op, val, ret) = <<Gen!Literal(val)>>
    BY <1>3 DEF Gen!Encoded
  <2>2. Gen!Complemented(val) =>
          Gen!Encoded(op, val, ret) = <<Gen!Literal(-val - 1), Last(Gen!Opcode("INVERT"))>>
    BY <1>3 DEF Gen!Encoded
  <2>3. Gen!Literal(val) \in Chip!Word /\ Gen!Literal(-val - 1) \in Chip!Word
    BY <1>2
  <2>4. Last(Gen!Opcode("INVERT")) \in Chip!Word
    BY <1>1, Opcodes DEF Gen!Foldable
  <2>5. \/ words = <<Gen!Literal(val)>>
        \/ words = <<Gen!Literal(-val - 1), Last(Gen!Opcode("INVERT"))>>
    BY <2>1, <2>2
  <2>6. words \in Seq(Chip!Word) /\ Len(words) \in {1, 2}
    <3> HIDE DEF Last, words
    <3> QED
      BY <2>3, <2>4, <2>5, ShortWords
  <2> QED
    BY <2>6
<1>4. CASE op \in Gen!Fixed
  <2>1. op # "LITERAL" /\ op \notin Gen!Foldable
    BY <1>4 DEF Gen!Fixed, Gen!Foldable
  <2>2. Gen!Encoded(op, val, ret) = Gen!FixedCode(op)
    BY <1>4, <2>1 DEF Gen!Encoded
  <2>3. \/ Gen!FixedCode(op) = <<\h6B8D>> \/ Gen!FixedCode(op) = <<\h600C, \h600C>>
        \/ Gen!FixedCode(op) = <<>>
    BY <1>4 DEF Gen!Fixed, Gen!FixedCode
  <2>4. \h6B8D \in Chip!Word /\ \h600C \in Chip!Word
    BY Words
  <2>5. words = <<\h6B8D>> \/ words = <<\h600C, \h600C>> \/ words = <<>>
    BY <2>2, <2>3
  <2>6. words \in Seq(Chip!Word)
    <3> HIDE DEF words
    <3>1. /\ <<>> \in Seq(Chip!Word) /\ <<\h6B8D>> \in Seq(Chip!Word)
          /\ <<\h600C, \h600C>> \in Seq(Chip!Word)
      BY <2>4, ShortWords
    <3>2. CASE words = <<\h6B8D>>
      BY <3>1, <3>2
    <3>3. CASE words = <<\h600C, \h600C>>
      BY <3>1, <3>3
    <3>4. CASE words = <<>>
      BY <3>1, <3>4
    <3> QED
      BY <2>5, <3>2, <3>3, <3>4
  <2> QED
    BY <1>4, <2>6
<1>5. CASE op \in Gen!Foldable
  <2>1. op # "LITERAL" /\ op \notin Gen!Fixed
    BY <1>5 DEF Gen!Fixed, Gen!Foldable
  <2>2. Gen!Encoded(op, val, ret) = Append(Gen!Before(op), Last(Gen!Opcode(op)))
    BY <1>5, <2>1 DEF Gen!Encoded
  <2>3. Last(Gen!Opcode(op)) \in Chip!Word
    BY <1>1, <1>5, Opcodes
  <2>4. Gen!Before(op) \in Seq(Chip!Word)
    <3>1. \h6123 \in Chip!Word
      BY Words
    <3>2. Gen!Before(op) = <<>> \/ Gen!Before(op) = <<\h6123>>
      BY DEF Gen!Before
    <3>3. <<>> \in Seq(Chip!Word) /\ <<\h6123>> \in Seq(Chip!Word)
      BY <3>1, ShortWords
    <3>4. CASE Gen!Before(op) = <<>>
      BY <3>3, <3>4
    <3>5. CASE Gen!Before(op) = <<\h6123>>
      BY <3>3, <3>5
    <3> QED
      BY <3>2, <3>4, <3>5
  <2>5. words \in Seq(Chip!Word) /\ Len(words) \in Nat \ {0}
    <3> HIDE DEF Last
    <3> QED
      BY <2>2, <2>3, <2>4, ShortWords
  <2> QED
    BY <2>5
<1> QED
  BY <1>3, <1>4, <1>5

-----------------------------------------------------------------------------
(* The steps of pass 1, in four shapes. *)

Definers == {"COLON", "VARIABLE"}

\* Nodes whose place in the code is recorded: in location, in the label or in
\* the symbol.
Marks == BranchOps \cup {"LABEL"} \cup Definers

Address == code_ptr \div 2

GenTyped ==
  /\ code_ptr \in Int /\ node \in Nat
  /\ gen # "done" => \A a \in DOMAIN code : code[a] \in Chip!Word
  /\ gen # "idle" => /\ location \in [1..Len(sst) -> Int]
                     /\ value \in [1..Len(dict) -> Int]
                     /\ room \in [1..Len(sst) -> SUBSET Int]

\* The generation breaks down and leaves everything as it is.
Breaks ==
  /\ gen' \in {"lost", "overrun"}
  /\ UNCHANGED <<sst, dict, node, code_ptr, code, location, value, room>>

\* It follows the NULL of an open branch, which no complete load leaves.
Crashes ==
  /\ gen' = "crashed" /\ status # "loaded"
  /\ UNCHANGED <<sst, dict, node, code_ptr, code, location, value, room>>

\* The node is given words of the buffer.
Takes(words) == room' = [room EXCEPT ![node] = @ \cup words]

\* k words are written at code_ptr.
Fills(k) ==
  /\ Takes(Address..Address + k - 1)
  /\ code_ptr' = code_ptr + 2 * k
  /\ k > 0 => code_ptr >= 0 /\ code_ptr + 2 * k <= MEM_SIZE_IN_BYTE + 1
  /\ DOMAIN code' = DOMAIN code \cup Address..Address + k - 1
  /\ \A a \in DOMAIN code' :
       IF a \in Address..Address + k - 1 THEN code'[a] \in Chip!Word ELSE code'[a] = code[a]

EmittingOne == gen = "emit" /\ node \in 1..Len(sst) /\ gen' = gen /\ dict' = dict

\* Instructions, perhaps with the return of the next node in the last one.
Instructs ==
  /\ EmittingOne /\ UNCHANGED <<sst, location, value>>
  /\ sst[node].type \notin Marks
  /\ \E k \in Nat :
       /\ Fills(k)
       /\ \/ node' = node + 1 /\ (sst[node].type = "RET" => k # 0)
          \/ /\ node' = node + 2 /\ k # 0
             /\ node + 1 \in 1..Len(sst) /\ sst[node + 1].type = "RET"

\* A place is recorded; a branch and a variable get room.
Marking ==
  /\ EmittingOne /\ code' = code /\ node' = node + 1
  /\ sst[node].type \in Marks
  /\ sst' = IF sst[node].type = "LABEL" THEN [sst EXCEPT ![node].ref = Address] ELSE sst
  /\ location' = IF sst[node].type \in BranchOps THEN [location EXCEPT ![node] = code_ptr]
                                                 ELSE location
  /\ value' = IF sst[node].type \in Definers THEN [value EXCEPT ![sst[node].ref] = Address]
                                             ELSE value
  /\ code_ptr' = IF sst[node].type \in BranchOps \cup {"VARIABLE"} THEN code_ptr + 2 ELSE code_ptr
  /\ IF sst[node].type \in BranchOps \cup {"VARIABLE"} THEN Takes({Address}) ELSE room' = room

\* ALLOT moves code_ptr, forth or back, to an even address.
Allots ==
  /\ EmittingOne /\ UNCHANGED <<sst, location, value, code>> /\ node' = node + 1
  /\ sst[node].type = "ALLOT"
  /\ LET moved == code_ptr + sst[node].ref IN code_ptr' = moved + (moved % 2)
  /\ Takes(Address..(code_ptr + sst[node].ref - 1) \div 2)

LEMMA Written ==
  ASSUME GenTyped, NEW words \in Seq(Chip!Word), NEW n, Gen!Write(words, n)
  PROVE  \/ Breaks
         \/ /\ node' = n + 1 /\ Fills(Len(words)) /\ Len(words) \in Nat
            /\ UNCHANGED <<sst, dict, gen, location, value>>
<1> DEFINE k == Len(words)
<1>1. k \in Nat /\ Address \in Int /\ code_ptr \in Int /\ \A i \in 1..k : words[i] \in Chip!Word
  BY DEF GenTyped, Address
<1>2. CASE Gen!Break("overrun")
  BY <1>2 DEF Gen!Break, Breaks
<1>3. CASE /\ Gen!InBuffer(code_ptr, k) /\ code' = Gen!Put(words, code_ptr \div 2)
           /\ code_ptr' = code_ptr + 2 * k /\ node' = n + 1
           /\ Gen!Takes(code_ptr \div 2..code_ptr \div 2 + k - 1)
           /\ UNCHANGED <<sst, dict, gen, location, value>>
  <2> DEFINE last == Address + k - 1
  <2>1. code' = [b \in DOMAIN code \cup Address..last |->
                   IF b \in Address..last THEN words[b - Address + 1] ELSE code[b]]
    BY <1>3 DEF Gen!Put, Address
  <2>2. \A a \in Address..last : a - Address + 1 \in 1..k
    BY <1>1
  <2>3. DOMAIN code' = DOMAIN code \cup Address..last
    BY <2>1
  <2>4. \A a \in DOMAIN code' :
          IF a \in Address..last THEN code'[a] \in Chip!Word ELSE code'[a] = code[a]
    BY <1>1, <2>1, <2>2
  <2>5. Takes(Address..Address + k - 1)
    BY <1>3 DEF Takes, Gen!Takes, Address
  <2> QED
    BY <1>1, <1>3, <2>3, <2>4, <2>5 DEF Fills, Gen!InBuffer
<1> QED
  BY <1>2, <1>3 DEF Gen!Write

\* A node's words, with or without the return behind it.
LEMMA CompileInstructs ==
  ASSUME Tree, GenTyped, gen = "emit", node \in 1..Len(sst),
         sst[node].type \in Gen!Foldable \cup Gen!Fixed \cup {"LITERAL"},
         NEW val \in Int, Gen!Compile(sst[node].type, val)
  PROVE  Instructs \/ Breaks
<1> DEFINE op == sst[node].type
           words(ret) == Gen!Encoded(op, val, ret)
<1>1. op \notin Marks
  BY DEF Marks, BranchOps, Definers, Gen!Foldable, Gen!Fixed
<1>2. \A ret \in BOOLEAN : words(ret) \in Seq(Chip!Word) /\ (op \notin Gen!Fixed => Len(words(ret)) \in Nat \ {0})
  BY EncodedWords
<1>3. sst \in Seq(SSTNode)
  BY DEF Tree
<1>4. Gen!Folds(op, val) => op \notin Gen!Fixed
  BY DEF Gen!Folds, Gen!Foldable, Gen!Fixed
<1>5. op = "RET" => op \notin Gen!Fixed
  BY DEF Gen!Fixed
<1>6. ASSUME Gen!Folding(op, val), Gen!Write(words(TRUE), node + 1)
      PROVE  Instructs \/ Breaks
  <2> HIDE DEF words, op
  <2>1. node + 1 \in 1..Len(sst) /\ sst[node + 1].type = "RET" /\ op \notin Gen!Fixed
    BY <1>3, <1>4, <1>6 DEF Gen!Folding, Gen!Ahead
  <2>2. words(TRUE) \in Seq(Chip!Word) /\ Len(words(TRUE)) # 0
    <3>1. words(TRUE) \in Seq(Chip!Word) /\ Len(words(TRUE)) \in Nat \ {0}
      BY <1>2, <2>1
    <3> QED
      BY <3>1, Zenon
  <2>3. \/ Breaks
        \/ /\ node' = node + 1 + 1 /\ Fills(Len(words(TRUE))) /\ Len(words(TRUE)) \in Nat
           /\ UNCHANGED <<sst, dict, gen, location, value>>
    BY <1>6, <2>2, Written
  <2>4. node + 1 + 1 = node + 2
    BY DEF GenTyped
  <2> QED
    BY <1>1, <2>1, <2>2, <2>3, <2>4 DEF Instructs, EmittingOne, op
<1>7. ASSUME Gen!Write(words(FALSE), node)
      PROVE  Instructs \/ Breaks
  <2> HIDE DEF words, op
  <2>1. words(FALSE) \in Seq(Chip!Word) /\ (op = "RET" => Len(words(FALSE)) # 0)
    <3>1. words(FALSE) \in Seq(Chip!Word) /\ (op = "RET" => Len(words(FALSE)) \in Nat \ {0})
      BY <1>2, <1>5
    <3> QED
      BY <3>1, Zenon
  <2>2. \/ Breaks
        \/ /\ node' = node + 1 /\ Fills(Len(words(FALSE))) /\ Len(words(FALSE)) \in Nat
           /\ UNCHANGED <<sst, dict, gen, location, value>>
    BY <1>7, <2>1, Written
  <2> QED
    BY <1>1, <2>1, <2>2 DEF Instructs, EmittingOne, op
<1> QED
  BY <1>6, <1>7 DEF Gen!Compile

\* A single instruction of another kind.
LEMMA WriteInstructs ==
  ASSUME Tree, GenTyped, gen = "emit", node \in 1..Len(sst),
         sst[node].type \notin Marks \cup {"RET"},
         NEW words \in Seq(Chip!Word), Gen!Write(words, node)
  PROVE  Instructs \/ Breaks
BY Written DEF Instructs, EmittingOne

LEMMA EmitShape ==
  ASSUME Tree, GenTyped, Gen!Emit
  PROVE  Instructs \/ Marking \/ Allots \/ Breaks
<1>1. /\ sst \in Seq(SSTNode) /\ DOMAIN sst = 1..Len(sst)
      /\ dict \in Seq(Symbol(Names)) /\ DOMAIN dict = 1..Len(dict)
  BY DEF Tree
<1>2. gen = "emit" /\ node \in 1..Len(sst) /\ sst[node].ref \in Int
  <2>1. gen = "emit" /\ node \in DOMAIN sst
    BY DEF Gen!Emit, Gen!Emitting, Gen!emit_VARIABLE, Gen!emit_COLON, Gen!emit_SEMICOLON, Gen!emit_LITERAL,
           Gen!emit_ALLOT, Gen!emit_VAR_REF, Gen!emit_WORD_REF, Gen!emit_LABEL,
           Gen!emit_BRANCH, Gen!emit_alu, Gen!emit_runtime
  <2>2. sst[node] \in SSTNode
    BY <1>1, <2>1
  <2> QED
    BY <1>1, <2>1, <2>2 DEF SSTNode
<1>3. value \in [1..Len(dict) -> Int] /\ location \in [1..Len(sst) -> Int]
  BY <1>2 DEF GenTyped
<1>4. \A a \in Int : Gen!Call(a) \in Chip!Word /\ \h8000 + (a % \h2000) \in Chip!Word
  BY Words DEF Gen!Call
<1>5. \A w \in Chip!Word : <<w>> \in Seq(Chip!Word)
  BY ShortWords
<1>6. <<>> \in Seq(Chip!Word)
  OBVIOUS
<1>7. CASE Gen!emit_VARIABLE \/ Gen!emit_COLON \/ Gen!emit_LABEL \/ Gen!emit_BRANCH
  BY <1>2, <1>7
     DEF Gen!emit_VARIABLE, Gen!emit_COLON, Gen!emit_LABEL, Gen!emit_BRANCH, Gen!Emitting,
         Gen!Address, Gen!BranchOps, Gen!Takes, Takes, Marking, EmittingOne, Address, Marks, Definers, BranchOps
<1>8. CASE Gen!emit_SEMICOLON
  BY <1>2, <1>6, <1>8, WriteInstructs
     DEF Gen!emit_SEMICOLON, Gen!Emitting, Marks, Definers, BranchOps
<1>9. CASE Gen!emit_LITERAL
  BY <1>2, <1>9, CompileInstructs DEF Gen!emit_LITERAL, Gen!Emitting
<1>10. CASE Gen!emit_ALLOT
  BY <1>2, <1>10 DEF Gen!emit_ALLOT, Gen!Emitting, Gen!Address, Gen!Takes, Takes, Address, Allots,
                          EmittingOne
<1>11. CASE Gen!emit_VAR_REF \/ Gen!emit_WORD_REF
  <2>1. sst[node].type \in {"VAR_REF", "WORD_REF"}
    BY <1>11 DEF Gen!emit_VAR_REF, Gen!emit_WORD_REF, Gen!Emitting
  <2>2. sst[node].ref \in 1..Len(dict)
    BY <1>2, <2>1 DEF Tree, LoadP!NodesNamed
  <2>3. value[sst[node].ref] \in Int
    BY <1>3, <2>2
  <2>4. sst[node].type \notin Marks \cup {"RET"}
    BY <2>1 DEF Marks, Definers, BranchOps
  <2>5. \E w \in Chip!Word : Gen!Write(<<w>>, node)
    BY <1>4, <1>11, <2>3 DEF Gen!emit_VAR_REF, Gen!emit_WORD_REF
  <2> QED
    BY <1>2, <1>5, <2>4, <2>5, WriteInstructs
<1>12. CASE Gen!emit_alu
  <2>1. NULL \in Int /\ Gen!NULL = NULL
    BY DEF NULL, Gen!NULL
  <2> QED
    BY <1>2, <1>12, <2>1, CompileInstructs DEF Gen!emit_alu, Gen!Emitting
<1>13. CASE Gen!emit_runtime
  <2>1. sst[node].type \in {"DO", "LOOP", "LEAVE", "NEXT"}
    BY <1>13 DEF Gen!emit_runtime, Gen!Emitting, Gen!RuntimeWord
  <2>2. sst[node].type \notin Marks \cup {"RET"}
    BY <2>1 DEF Marks, Definers, BranchOps
  <2>3. ASSUME NEW s \in DOMAIN dict, Gen!Write(<<Gen!Call(value[s])>>, node)
        PROVE  Instructs \/ Breaks
    <3>1. Gen!Call(value[s]) \in Chip!Word
      BY <1>1, <1>3, <1>4
    <3> QED
      BY <1>2, <1>5, <2>2, <2>3, <3>1, WriteInstructs
  <2>4. CASE Gen!Break("lost")
    BY <2>4 DEF Gen!Break, Breaks
  <2> QED
    BY <1>13, <2>3, <2>4 DEF Gen!emit_runtime
<1> QED
  BY <1>7, <1>8, <1>9, <1>10, <1>11, <1>12, <1>13 DEF Gen!Emit

-----------------------------------------------------------------------------
(* The phases: the load, the two passes, the console. *)

Phases ==
  /\ Tree /\ GenTyped
  /\ gen \in {"idle", "emit", "patch", "done"} \cup Gen!Broken
  /\ gen = "idle" => LoadHolds
  /\ gen # "idle" => status # "loading"
  /\ gen # "done" => caller = NULL /\ called = <<>> /\ ~running
  /\ status = "loaded" => gen # "crashed"

LEMMA LoadRuns == Load!Next => status = "loading"
<1> SUFFICES ASSUME LoadP!Next PROVE status = "loading"
  BY SameLoad
<1> USE DEF LoadP!Compiling, LoadP!Interpreting
<1>1. LoadP!Define => status = "loading"
  BY DEF LoadP!Define, LoadP!cfp_colon, LoadP!cfp_variable, LoadP!cfp_constant
<1>2. LoadP!Structure => status = "loading"
  BY DEF LoadP!Structure, LoadP!cfp_if, LoadP!cfp_else, LoadP!cfp_endif, LoadP!cfp_begin,
         LoadP!cfp_while, LoadP!cfp_repeat, LoadP!cfp_until, LoadP!cfp_do, LoadP!cfp_loop,
         LoadP!cfp_leave, LoadP!cfp_for, LoadP!cfp_next
<1>3. LoadP!Compile => status = "loading"
  BY DEF LoadP!Compile, LoadP!cfp_sharp, LoadP!cfp_allot, LoadP!CompileExtension,
         LoadP!CompileReference
<1> QED
  BY <1>1, <1>2, <1>3 DEF LoadP!Next, LoadP!cfp_semicolon, LoadP!BadToken, LoadP!EndOfFile

\* Pass 2 and the steps between the passes.
PatchesBranch ==
  /\ gen = "patch" /\ gen' = gen /\ node \in 1..Len(sst) /\ sst[node].type \in BranchOps
  /\ sst[node].ref # NULL
  /\ code' = Gen!Put(<<Gen!BranchCode(sst[node].type) + (sst[sst[node].ref].ref % \h2000)>>,
                     location[node] \div 2)
  /\ node' = node + 1
  /\ Takes({location[node] \div 2})
  /\ UNCHANGED <<sst, dict, code_ptr, location, value>>

PassesOver ==
  /\ gen = "patch" /\ gen' = gen /\ node \in 1..Len(sst) /\ sst[node].type \notin BranchOps
  /\ node' = node + 1
  /\ UNCHANGED <<sst, dict, code_ptr, code, location, value, room>>

LEMMA PatchShape ==
  ASSUME Tree, Gen!Patch
  PROVE  PatchesBranch \/ PassesOver \/ Breaks \/ Crashes
<1>1. sst \in Seq(SSTNode) /\ DOMAIN sst = 1..Len(sst) /\ Gen!NULL = NULL /\ Gen!BranchOps = BranchOps
  BY DEF Tree, NULL, Gen!NULL, Gen!BranchOps, BranchOps
<1>2. CASE Gen!patch_branch
  <2>1. gen = "patch" /\ node \in 1..Len(sst) /\ sst[node].type \in BranchOps
    BY <1>1, <1>2 DEF Gen!patch_branch
  <2>2. CASE sst[node].ref = NULL /\ Gen!Break("crashed")
    BY <2>1, <2>2 DEF Gen!Break, Crashes, Tree
  <2>3. CASE Gen!Break("overrun")
    BY <2>3 DEF Gen!Break, Breaks
  <2>4. CASE /\ sst[node].ref # NULL
             /\ code' = Gen!Put(<<Gen!BranchCode(sst[node].type) + (Gen!Target % \h2000)>>,
                                location[node] \div 2)
             /\ node' = node + 1
             /\ Gen!Takes({location[node] \div 2})
             /\ UNCHANGED <<sst, dict, gen, code_ptr, location, value>>
    BY <2>1, <2>4 DEF PatchesBranch, Gen!Target, Gen!Takes, Takes
  <2> QED
    BY <1>1, <1>2, <2>2, <2>3, <2>4 DEF Gen!patch_branch
<1>3. CASE Gen!patch_other
  BY <1>1, <1>3 DEF Gen!patch_other, PassesOver
<1> QED
  BY <1>2, <1>3 DEF Gen!Patch

\* What one word more does to the code.
OneMore(new, w, a) ==
  /\ DOMAIN new = DOMAIN code \cup {a}
  /\ new[a] = w
  /\ \A b \in DOMAIN code : b # a => new[b] = code[b]

LEMMA OneWord ==
  ASSUME NEW w, NEW a \in Int
  PROVE  OneMore(Gen!Put(<<w>>, a), w, a)
<1>1. Len(<<w>>) = 1 /\ <<w>>[1] = w
  OBVIOUS
<1>2. a + 1 - 1 = a /\ a - a + 1 = 1 /\ a..a = {a}
  OBVIOUS
<1>3. Gen!Put(<<w>>, a) = [b \in DOMAIN code \cup {a} |-> IF b \in {a} THEN <<w>>[b - a + 1] ELSE code[b]]
  BY <1>1, <1>2 DEF Gen!Put
<1> HIDE DEF Gen!Put
<1> QED
  BY <1>1, <1>2, <1>3 DEF OneMore

LEMMA TakesTyped ==
  ASSUME room \in [1..Len(sst) -> SUBSET Int], node \in 1..Len(sst),
         NEW words \in SUBSET Int, Takes(words)
  PROVE  /\ room' \in [1..Len(sst) -> SUBSET Int]
         /\ room'[node] = room[node] \cup words
         /\ \A i \in 1..Len(sst) : i # node => room'[i] = room[i]
<1>1. room[node] \cup words \in SUBSET Int
  OBVIOUS
<1> QED
  BY <1>1 DEF Takes

\* The steps of the passes.
Passing == Instructs \/ Marking \/ Allots \/ PatchesBranch \/ PassesOver

LEMMA PassingTyped ==
  ASSUME Tree, GenTyped, Passing, UNCHANGED status
  PROVE  Relabels /\ GenTyped' /\ gen' = gen /\ gen \in {"emit", "patch"}
<1>1. /\ sst \in Seq(SSTNode) /\ DOMAIN sst = 1..Len(sst) /\ Len(sst) \in Nat
      /\ dict \in Seq(Symbol(Names))
      /\ code_ptr \in Int /\ node \in Nat /\ Address \in Int
  BY DEF Tree, GenTyped, Address
<1>2. gen' = gen /\ dict' = dict /\ node \in 1..Len(sst) /\ gen \in {"emit", "patch"}
  BY DEF Passing, Instructs, Marking, Allots, PatchesBranch, PassesOver, EmittingOne
<1>3. location \in [1..Len(sst) -> Int] /\ value \in [1..Len(dict) -> Int]
  BY <1>2 DEF GenTyped
<1>4. \A a \in DOMAIN code : code[a] \in Chip!Word
  BY <1>2 DEF GenTyped
<1>11. room' \in [1..Len(sst) -> SUBSET Int]
  <2>1. room \in [1..Len(sst) -> SUBSET Int]
    BY <1>2 DEF GenTyped
  <2>2. \A words \in SUBSET Int : Takes(words) => room' \in [1..Len(sst) -> SUBSET Int]
    BY <1>2, <2>1, TakesTyped
  <2>3. \A a, b : a..b \in SUBSET Int
    OBVIOUS
  <2>4. {Address} \in SUBSET Int /\ {location[node] \div 2} \in SUBSET Int
    BY <1>1, <1>2, <1>3
  <2>5. CASE Instructs \/ Allots
    <3>1. \E a, b : Takes(a..b)
      BY <2>5 DEF Instructs, Fills, Allots
    <3> QED
      BY <2>2, <2>3, <3>1
  <2>6. CASE Marking
    <3>1. Takes({Address}) \/ room' = room
      BY <2>6 DEF Marking
    <3> QED
      BY <2>1, <2>2, <2>4, <3>1
  <2>7. CASE PatchesBranch \/ PassesOver
    <3>1. Takes({location[node] \div 2}) \/ room' = room
      BY <2>7 DEF PatchesBranch, PassesOver
    <3> QED
      BY <2>1, <2>2, <2>4, <3>1
  <2> QED
    BY <2>5, <2>6, <2>7 DEF Passing
<1>5. sst[node] \in SSTNode /\ sst[node].ref \in Int
  <2>1. sst[node] \in SSTNode
    BY <1>1, <1>2
  <2>2. \A n \in SSTNode : n.ref \in Int
    BY DEF SSTNode
  <2> QED
    BY <2>1, <2>2
<1>6. CASE Instructs
  <2>1. PICK k \in Nat : Fills(k) /\ node' \in {node + 1, node + 2}
    BY <1>6 DEF Instructs
  <2>2. \A a \in DOMAIN code' : code'[a] \in Chip!Word
    BY <1>4, <2>1 DEF Fills
  <2>3. code_ptr' \in Int /\ node' \in Nat
    BY <1>1, <2>1 DEF Fills
  <2> QED
    BY <1>1, <1>2, <1>3, <1>6, <1>11, <2>2, <2>3 DEF Instructs, Relabels, GenTyped
<1>7. CASE Marking
  <2>1. sst' \in Seq(SSTNode) /\ Len(sst') = Len(sst)
    <3>1. CASE sst[node].type = "LABEL"
      <4>1. [sst[node] EXCEPT !.ref = Address] \in SSTNode
        BY <1>1, <1>5 DEF SSTNode
      <4>2. sst' = [sst EXCEPT ![node] = [sst[node] EXCEPT !.ref = Address]]
        BY <1>7, <3>1 DEF Marking
      <4> QED
        BY <1>1, <1>2, <4>1, <4>2
    <3>2. CASE sst[node].type # "LABEL"
      BY <1>1, <1>7, <3>2 DEF Marking
    <3> QED
      BY <3>1, <3>2
  <2>2. \A i \in 1..Len(sst) :
          sst'[i].type = sst[i].type /\ (sst[i].type # "LABEL" => sst'[i] = sst[i])
    BY <1>1, <1>2, <1>7 DEF Marking
  <2>3. location' \in [1..Len(sst) -> Int]
    <3>1. location' = location \/ location' = [location EXCEPT ![node] = code_ptr]
      BY <1>7 DEF Marking
    <3> QED
      BY <1>1, <1>2, <1>3, <3>1
  <2>4. value' \in [1..Len(dict) -> Int]
    <3>1. value' = value \/ value' = [value EXCEPT ![sst[node].ref] = Address]
      BY <1>7 DEF Marking
    <3> QED
      BY <1>1, <1>3, <3>1
  <2>5. code_ptr' \in Int /\ node' \in Nat /\ code' = code
    BY <1>1, <1>7 DEF Marking
  <2> QED
    <3>1. Relabels
      BY <1>2, <2>1, <2>2 DEF Relabels
    <3>2. GenTyped'
      BY <1>2, <1>4, <1>11, <2>1, <2>3, <2>4, <2>5 DEF GenTyped
    <3> QED
      BY <1>2, <3>1, <3>2
<1>8. CASE Allots
  <2>1. code_ptr' \in Int /\ node' \in Nat
    <3>1. /\ LET moved == code_ptr + sst[node].ref IN code_ptr' = moved + (moved % 2)
          /\ node' = node + 1
      BY <1>8 DEF Allots
    <3> QED
      BY <1>1, <1>5, <3>1
  <2> QED
    BY <1>1, <1>2, <1>3, <1>4, <1>8, <1>11, <2>1 DEF Allots, Relabels, GenTyped
<1>9. CASE PatchesBranch
  <2> DEFINE w == Gen!BranchCode(sst[node].type) + (sst[sst[node].ref].ref % \h2000)
             hole == location[node] \div 2
  <2>1. hole \in Int
    BY <1>2, <1>3
  <2>2. w \in Chip!Word
    <3>1. sst[node].ref \in 1..Len(sst)
      BY <1>1, <1>2, <1>9
         DEF PatchesBranch, Tree, LoadP!BranchesStayInWord, LoadP!IsBranch, BranchOps,
             LoadP!BranchOps, NULL, LoadP!NULL
    <3>2. sst[sst[node].ref].ref \in Int
      <4>1. sst[sst[node].ref] \in SSTNode
        BY <1>1, <3>1
      <4>2. \A n \in SSTNode : n.ref \in Int
        BY DEF SSTNode
      <4> QED
        BY <4>1, <4>2
    <3>3. Gen!BranchCode(sst[node].type) \in {0, \h2000}
      BY DEF Gen!BranchCode
    <3>4. \A t \in Int, b \in {0, \h2000} : b + (t % \h2000) \in Chip!Word
      BY Words
    <3> QED
      BY <3>2, <3>3, <3>4
  <2> HIDE DEF w, hole
  <2>3. \A a \in DOMAIN code' : code'[a] \in Chip!Word
    <3>1. code' = Gen!Put(<<w>>, hole)
      BY <1>9 DEF PatchesBranch, w, hole
    <3>2. /\ DOMAIN code' = DOMAIN code \cup {hole} /\ code'[hole] = w
          /\ \A b \in DOMAIN code : b # hole => code'[b] = code[b]
      <4>1. OneMore(Gen!Put(<<w>>, hole), w, hole)
        BY <2>1, OneWord, Zenon
      <4> QED
        BY <3>1, <4>1, Zenon DEF OneMore
    <3> QED
      BY <1>4, <2>2, <3>2
  <2>4. UNCHANGED <<sst, dict, code_ptr, location, value>> /\ node' = node + 1
    BY <1>9 DEF PatchesBranch
  <2> QED
    BY <1>1, <1>2, <1>3, <1>11, <2>3, <2>4 DEF Relabels, GenTyped
<1>10. CASE PassesOver
  BY <1>1, <1>2, <1>3, <1>4, <1>10, <1>11 DEF PassesOver, Relabels, GenTyped
<1> QED
  BY <1>2, <1>6, <1>7, <1>8, <1>9, <1>10 DEF Passing

\* A step of the generator is one of these.
LEMMA GenShape ==
  ASSUME Tree, GenTyped, Gen!Next
  PROVE  \/ Gen!Begin
         \/ Gen!BeginPatch
         \/ Gen!Finish
         \/ Passing
         \/ (Breaks \/ Crashes) /\ gen \in {"emit", "patch"}
<1>1. CASE Gen!Emit
  <2>1. gen = "emit"
    BY <1>1 DEF Gen!Emit, Gen!Emitting, Gen!emit_VARIABLE, Gen!emit_COLON, Gen!emit_SEMICOLON,
       Gen!emit_LITERAL, Gen!emit_ALLOT, Gen!emit_VAR_REF, Gen!emit_WORD_REF, Gen!emit_LABEL,
       Gen!emit_BRANCH, Gen!emit_alu, Gen!emit_runtime
  <2> QED
    BY <1>1, <2>1, EmitShape DEF Passing
<1>2. CASE Gen!Patch
  <2>1. gen = "patch"
    BY <1>2 DEF Gen!Patch, Gen!patch_branch, Gen!patch_other
  <2> QED
    BY <1>2, <2>1, PatchShape DEF Passing
<1> QED
  BY <1>1, <1>2 DEF Gen!Next

LEMMA PhasesStart == Init => Phases
<1> SUFFICES ASSUME Init PROVE Phases
  OBVIOUS
<1>1. LoadHolds /\ Tree
  BY LoadStarts, LoadLeaves DEF Init
<1>2. GenTyped
  BY DEF Init, GenTyped, Gen!CODE_START
<1>3. caller = NULL /\ called = <<>> /\ ~running /\ gen = "idle"
  BY DEF Init, Chip!ChipInit
<1> QED
  BY <1>1, <1>2, <1>3 DEF Phases

LEMMA PhasesStep == Phases /\ [Next]_vars => Phases'
<1> SUFFICES ASSUME Phases, [Next]_vars PROVE Phases'
  OBVIOUS
<1>1. /\ sst \in Seq(SSTNode) /\ DOMAIN sst = 1..Len(sst)
      /\ dict \in Seq(Symbol(Names)) /\ DOMAIN dict = 1..Len(dict)
  BY DEF Phases, Tree
<1>2. CASE Loading
  <2>1. status = "loading" /\ gen = "idle" /\ gen' = gen
    BY <1>2, LoadRuns DEF Loading, Phases, genVars
  <2>2. LoadHolds' /\ Tree'
    <3>1. LoadHolds'
      BY <1>2, <2>1, LoadSteps DEF Loading, Phases
    <3>2. LoadHolds' => Tree'
      BY LoadLeaves, PTL
    <3> QED
      BY <3>1, <3>2
  <2>3. GenTyped'
    BY <1>2, <2>1 DEF Loading, Phases, GenTyped, genVars
  <2>4. UNCHANGED <<caller, called, running>>
    BY <1>2 DEF Loading, chipVars, consoleVars
  <2> QED
    BY <2>1, <2>2, <2>3, <2>4 DEF Phases
<1>3. CASE Generating
  <2>1. /\ status # "loading" /\ Gen!Next
        /\ UNCHANGED <<status, caller, called, running>>
    BY <1>3 DEF Generating, loadVars, chipVars, consoleVars
  <2>2. Tree /\ GenTyped
    BY DEF Phases
  <2>3. CASE Gen!Begin
    <3>1. UNCHANGED <<sst, dict, code>> /\ gen' = "emit" /\ gen = "idle"
      BY <2>3 DEF Gen!Begin
    <3>2. Relabels
      BY <1>1, <2>1, <3>1 DEF Relabels
    <3>3. Tree'
      BY <2>2, <3>2, TreeStays
    <3>4. GenTyped'
      <4>1. location' \in [1..Len(sst) -> Int]
        BY <1>1, <2>3 DEF Gen!Begin
      <4>2. value' \in [1..Len(dict) -> Int]
        <5>1. ConstantValues \subseteq Int
          BY ToolchainAssumption
        <5>2. PICK c \in [1..Len(dict) -> ConstantValues] :
                value' = [s \in 1..Len(dict) |-> IF dict[s].type = "CONSTANT" THEN c[s] ELSE 0]
          BY <1>1, <2>3 DEF Gen!Begin
        <5>3. \A s \in 1..Len(dict) : c[s] \in Int
          BY <5>1
        <5> QED
          BY <5>2, <5>3
      <4>3. code_ptr' \in Int /\ node' \in Nat
        BY <2>3 DEF Gen!Begin, Gen!CODE_START
      <4>4. room' \in [1..Len(sst) -> SUBSET Int]
        BY <1>1, <2>3 DEF Gen!Begin
      <4> QED
        BY <2>2, <3>1, <4>1, <4>2, <4>3, <4>4 DEF GenTyped
    <3> QED
      BY <2>1, <3>1, <3>3, <3>4 DEF Phases
  <2>4. CASE Gen!BeginPatch \/ Gen!Finish
    <3>1. /\ UNCHANGED <<sst, dict, code, code_ptr, location, value, room>> /\ node' \in {1, node}
          /\ gen \in {"emit", "patch"} /\ gen' \in {"patch", "done"}
      BY <2>4 DEF Gen!BeginPatch, Gen!Finish
    <3>2. Relabels
      BY <1>1, <2>1, <3>1 DEF Relabels
    <3>3. Tree'
      BY <2>2, <3>2, TreeStays
    <3>4. GenTyped'
      BY <2>2, <3>1 DEF GenTyped
    <3> QED
      BY <2>1, <3>1, <3>3, <3>4 DEF Phases
  <2>5. CASE Passing
    <3>1. Relabels /\ GenTyped' /\ gen' = gen /\ gen \in {"emit", "patch"}
      BY <2>1, <2>2, <2>5, PassingTyped
    <3>2. Tree'
      BY <2>2, <3>1, TreeStays
    <3> QED
      BY <2>1, <3>1, <3>2 DEF Phases
  <2>6. CASE (Breaks \/ Crashes) /\ gen \in {"emit", "patch"}
    <3>1. /\ UNCHANGED <<sst, dict, node, code_ptr, code, location, value, room>>
          /\ gen' \in Gen!Broken /\ (status = "loaded" => gen' # "crashed")
      BY <2>6 DEF Breaks, Crashes, Gen!Broken
    <3>2. Relabels
      BY <1>1, <2>1, <3>1 DEF Relabels
    <3>3. Tree'
      BY <2>2, <3>2, TreeStays
    <3>4. GenTyped'
      BY <2>2, <2>6, <3>1 DEF GenTyped
    <3> QED
      BY <2>1, <2>6, <3>1, <3>3, <3>4 DEF Phases, Gen!Broken
  <2> QED
    BY <2>1, <2>2, <2>3, <2>4, <2>5, <2>6, GenShape
<1>4. CASE Console
  <2>1. gen = "done"
    BY <1>4 DEF Console, PushNumber, CallWord, Running, ReturnToHost, AtConsole, Stopped,
                Chip!Step, Phases
  <2>2. UNCHANGED <<status, dict, sst, genVars>>
    BY <1>4 DEF Console, PushNumber, CallWord, Running, ReturnToHost, loadVars
  <2>3. Relabels
    BY <1>1, <2>2 DEF Relabels
  <2>4. Tree'
    BY <2>3, TreeStays DEF Phases
  <2>5. GenTyped'
    BY <2>1, <2>2 DEF Phases, GenTyped, genVars
  <2> QED
    BY <2>1, <2>2, <2>4, <2>5 DEF Phases, genVars
<1>5. CASE UNCHANGED vars
  <2>1. UNCHANGED <<status, dict, sst, genVars, code, caller, called, running, loadVars>>
    BY <1>5 DEF vars, loadVars, chipVars, consoleVars
  <2>2. Relabels
    BY <1>1, <2>1 DEF Relabels
  <2>3. Tree'
    BY <2>2, TreeStays DEF Phases
  <2>4. GenTyped'
    BY <2>1 DEF Phases, GenTyped, genVars
  <2>5. LoadHolds => LoadHolds'
    <3>1. UNCHANGED LoadP!vars
      BY <2>1 DEF loadVars, LoadP!vars
    <3> QED
      BY <3>1, LoadSteps
  <2> QED
    BY <2>1, <2>3, <2>4, <2>5 DEF Phases, genVars
<1> QED
  BY <1>2, <1>3, <1>4, <1>5 DEF Next

(***************************************************************************)
(* Whatever the file holds: when the load reaches its end without an       *)
(* error, pass 2 of Code_generation finds a label behind every branch and  *)
(* never follows a NULL.                                                   *)
(***************************************************************************)
THEOREM LoadedSafe == Spec => []LoadedNeverCrashes
<1>1. Phases => LoadedNeverCrashes
  BY DEF Phases, LoadedNeverCrashes
<1> QED
  BY <1>1, PhasesStart, PhasesStep, PTL DEF Spec

-----------------------------------------------------------------------------
(* The layout: nodes behind each other, and the holes of the branches. *)

\* ALLOT with a negative number moves code_ptr back over what is there.
AllotsForward == \A i \in DOMAIN sst : sst[i].type = "ALLOT" => sst[i].ref >= 0

\* Where the code of a mark begins.
Place(i) ==
  IF sst[i].type \in BranchOps THEN location[i] \div 2
  ELSE IF sst[i].type = "LABEL" THEN sst[i].ref ELSE value[sst[i].ref]

\* Pass 1 has gone over node i.
Behind(i) == gen = "emit" => i < node

Placed(i) == sst[i].type \in Marks /\ Behind(i)

\* Pass 2 has written the branch.
Filled(i) == gen = "done" \/ (gen = "patch" /\ i < node)

PlacesBounded ==
  \A i \in 1..Len(sst) : Placed(i) =>
    /\ 0 <= Place(i) /\ Place(i) <= Address
    /\ sst[i].type \in BranchOps => Place(i) < Address /\ location[i] = 2 * Place(i)

PlacesOrdered ==
  \A j \in 1..Len(sst) : \A i \in 1..j - 1 : Placed(i) /\ Placed(j) =>
    Place(i) <= Place(j) /\ (sst[i].type \in BranchOps => Place(i) < Place(j))

\* A return stands between a label and every later definition.
LabelsFollowed ==
  \A r \in 1..Len(sst) : \A i \in 1..r - 1 :
    sst[i].type = "LABEL" /\ sst[r].type = "RET" /\ Behind(r) =>
      /\ Place(i) < Address /\ 2 * Place(i) + 2 <= MEM_SIZE_IN_BYTE + 1
      /\ \A k \in r + 1..Len(sst) : Placed(k) => Place(i) < Place(k)

Holes ==
  /\ DOMAIN code \subseteq 0..Address - 1
  /\ \A i \in 1..Len(sst) : Placed(i) /\ sst[i].type \in BranchOps =>
       IF Filled(i)
       THEN /\ sst[i].ref # NULL /\ Place(i) \in DOMAIN code
            /\ code[Place(i)] = Gen!BranchCode(sst[i].type) + (sst[sst[i].ref].ref % \h2000)
       ELSE Place(i) \notin DOMAIN code

RoomsBounded ==
  \A i \in 1..Len(sst) :
    /\ \A a \in room[i] : 0 <= a /\ a < Address
    /\ ~Behind(i) => room[i] = {}
    /\ Placed(i) /\ sst[i].type \in BranchOps => room[i] = {Place(i)}

RoomsOrdered ==
  \A j \in 1..Len(sst) : \A i \in 1..j - 1 : \A a \in room[i], b \in room[j] : a < b

\* A label has the address of the first word behind it.
LabelsAhead ==
  \A i \in 1..Len(sst) : Placed(i) /\ sst[i].type = "LABEL" =>
    /\ \A k \in i + 1..Len(sst) : \A a \in room[k] : Place(i) <= a
    /\ Place(i) < Address => \E k \in i + 1..Len(sst) : Place(i) \in room[k]

Layout ==
  /\ gen = "idle" => code = <<>> /\ room = <<>>
  /\ gen # "idle" => RoomsOrdered
  /\ called = <<>> => caller = NULL /\ ~running
  /\ gen \in {"emit", "patch", "done"} =>
       /\ 0 <= code_ptr /\ code_ptr = 2 * Address /\ 1 <= node
       /\ PlacesBounded /\ PlacesOrdered /\ LabelsFollowed
       /\ RoomsBounded /\ LabelsAhead
       /\ called = <<>> => Holes

LEMMA PlacesTyped ==
  ASSUME Tree, GenTyped, gen # "idle"
  PROVE  /\ Len(sst) \in Nat /\ DOMAIN sst = 1..Len(sst) /\ Address \in Int
         /\ code_ptr \in Int /\ node \in Nat /\ MEM_SIZE_IN_BYTE \in Nat
         /\ \A i \in 1..Len(sst) :
              /\ sst[i].ref \in Int /\ location[i] \in Int
              /\ sst[i].type \in Marks => Place(i) \in Int
              /\ \A a \in room[i] : a \in Int
<1>1. /\ sst \in Seq(SSTNode) /\ DOMAIN sst = 1..Len(sst) /\ Len(sst) \in Nat
      /\ code_ptr \in Int /\ node \in Nat /\ Address \in Int
      /\ \A i \in 1..Len(sst) : \A a \in room[i] : a \in Int
      /\ location \in [1..Len(sst) -> Int] /\ value \in [1..Len(dict) -> Int]
  BY DEF Tree, GenTyped, Address
<1>2. ASSUME NEW i \in 1..Len(sst)
      PROVE  sst[i].ref \in Int
  <2>1. sst[i] \in SSTNode
    BY <1>1
  <2> QED
    BY <2>1 DEF SSTNode
<1>3. ASSUME NEW i \in 1..Len(sst), sst[i].type \in Marks
      PROVE  Place(i) \in Int
  <2>1. CASE sst[i].type \in BranchOps
    BY <1>1, <2>1 DEF Place
  <2>2. CASE sst[i].type = "LABEL"
    BY <1>2, <2>2 DEF Place, BranchOps
  <2>3. CASE sst[i].type \in Definers
    <3>1. sst[i].ref \in 1..Len(dict)
      BY <2>3 DEF Tree, LoadP!NodesNamed, LoadP!Definer, Definers
    <3> QED
      BY <1>1, <2>3, <3>1 DEF Place, BranchOps, Definers
  <2> QED
    BY <1>3, <2>1, <2>2, <2>3 DEF Marks
<1> QED
  BY <1>1, <1>2, <1>3, ToolchainAssumption

\* What a step of pass 1 does to the layout.
Advance ==
  /\ gen = "emit" /\ gen' = "emit" /\ node' \in Nat /\ node < node' /\ node <= Len(sst)
  /\ 0 <= Address /\ 0 <= code_ptr' /\ code_ptr' = 2 * Address' /\ Address <= Address' /\ Address' \in Int
  /\ Len(sst') = Len(sst)
  /\ \A i \in 1..Len(sst) :
       sst'[i].type = sst[i].type /\ (sst[i].type # "LABEL" => sst'[i] = sst[i])
  /\ \A i \in 1..Len(sst) :
       i < node /\ sst[i].type \in Marks => Place(i)' = Place(i) /\ location'[i] = location[i]
  /\ \A i \in 1..Len(sst) :
       node <= i /\ i < node' =>
       /\ sst[i].type \in Marks =>
            /\ Place(i)' = Address /\ code' = code /\ node' = node + 1
            /\ sst[i].type \in BranchOps => /\ Address < Address' /\ location'[i] = 2 * Address
                                            /\ room'[i] = room[i] \cup {Address}
            /\ sst[i].type = "LABEL" => Address' = Address
       /\ sst[i].type = "RET" =>
            Address < Address' /\ 2 * Address + 2 <= MEM_SIZE_IN_BYTE + 1
  /\ \A a \in DOMAIN code' : a \in DOMAIN code \/ (Address <= a /\ a < Address' /\ a \in Int)
  /\ \A i \in 1..Len(sst) : i # node => room'[i] = room[i]
  /\ \A a \in room'[node] : a \in room[node] \/ (Address <= a /\ a < Address' /\ a \in Int)
  /\ Address < Address' => Address \in room'[node]

LEMMA PlacesKept ==
  ASSUME Tree, GenTyped, Instructs \/ Marking \/ Allots
  PROVE  /\ \A i \in 1..Len(sst) :
              i < node /\ sst[i].type \in Marks =>
                Place(i)' = Place(i) /\ location'[i] = location[i]
         /\ Marking => \A i \in 1..Len(sst) : i = node =>
              /\ Place(i)' = Address
              /\ sst[i].type \in BranchOps => location'[i] = code_ptr
<1>1. /\ gen = "emit" /\ node \in 1..Len(sst) /\ gen # "idle"
      /\ location \in [1..Len(sst) -> Int] /\ value \in [1..Len(dict) -> Int]
      /\ sst \in Seq(SSTNode) /\ DOMAIN sst = 1..Len(sst)
  BY DEF Instructs, Marking, Allots, EmittingOne, GenTyped, Tree
<1>2. CASE Instructs \/ Allots
  <2>1. UNCHANGED <<sst, location, value>> /\ ~Marking
    BY <1>2 DEF Instructs, Allots, Marking, Marks, BranchOps, Definers
  <2> QED
    BY <2>1 DEF Place
<1>3. CASE Marking
  <2>1. \A i \in 1..Len(sst) : sst'[i].type = sst[i].type
    BY <1>1, <1>3 DEF Marking
  <2>2. CASE sst[node].type \in BranchOps
    <3>1. location' = [location EXCEPT ![node] = code_ptr] /\ UNCHANGED <<sst, value>>
      BY <1>3, <2>2 DEF Marking, BranchOps, Definers
    <3>2. location'[node] = code_ptr /\ \A i \in 1..Len(sst) : i # node => location'[i] = location[i]
      BY <1>1, <3>1
    <3> QED
      BY <1>1, <2>2, <3>1, <3>2 DEF Place, Address
  <2>3. CASE sst[node].type = "LABEL"
    <3>1. sst' = [sst EXCEPT ![node].ref = Address] /\ UNCHANGED <<location, value>>
      BY <1>3, <2>3 DEF Marking, BranchOps, Definers
    <3>2. sst'[node].ref = Address /\ \A i \in 1..Len(sst) : i # node => sst'[i] = sst[i]
      BY <1>1, <3>1
    <3> QED
      BY <1>1, <2>1, <2>3, <3>1, <3>2 DEF Place, BranchOps
  <2>4. CASE sst[node].type \in Definers
    <3>1. value' = [value EXCEPT ![sst[node].ref] = Address] /\ UNCHANGED <<sst, location>>
      BY <1>3, <2>4 DEF Marking, BranchOps, Definers
    <3>2. /\ sst[node].ref \in 1..Len(dict)
          /\ \A i \in 1..Len(sst) : i < node /\ sst[i].type \in Definers =>
               sst[i].ref \in 1..Len(dict) /\ sst[i].ref < sst[node].ref
      <4>1. LoadP!Definer = Definers /\ LoadP!NodesNamed
        BY DEF LoadP!Definer, Definers, Tree
      <4>2. \A i \in 1..Len(sst) : i < node => i \in 1..node - 1
        BY <1>1
      <4> QED
        BY <1>1, <2>4, <4>1, <4>2 DEF LoadP!NodesNamed
    <3>3. /\ value'[sst[node].ref] = Address
          /\ \A i \in 1..Len(sst) : i < node /\ sst[i].type \in Definers =>
               value'[sst[i].ref] = value[sst[i].ref]
      BY <1>1, <3>1, <3>2
    <3> QED
      BY <1>1, <2>4, <3>1, <3>3 DEF Place, Marks, BranchOps, Definers
  <2> QED
    BY <1>3, <2>2, <2>3, <2>4 DEF Marking, Marks
<1> QED
  BY <1>2, <1>3

LEMMA Advances ==
  ASSUME Tree, GenTyped, AllotsForward, Instructs \/ Marking \/ Allots,
         0 <= code_ptr, code_ptr = 2 * Address, 1 <= node,
         Relabels
  PROVE  Advance
<1>1. /\ gen = "emit" /\ gen' = "emit" /\ node \in 1..Len(sst) /\ gen # "idle"
  BY DEF Instructs, Marking, Allots, EmittingOne
<1>2. /\ Len(sst) \in Nat /\ DOMAIN sst = 1..Len(sst) /\ Address \in Int
      /\ code_ptr \in Int /\ node \in Nat /\ MEM_SIZE_IN_BYTE \in Nat
      /\ \A i \in 1..Len(sst) : sst[i].ref \in Int
  BY <1>1, PlacesTyped
<1>3. \A i \in 1..Len(sst) : i < node /\ sst[i].type \in Marks =>
                Place(i)' = Place(i) /\ location'[i] = location[i]
  BY PlacesKept
<1>4. /\ Len(sst') = Len(sst)
      /\ \A i \in 1..Len(sst) :
           sst'[i].type = sst[i].type /\ (sst[i].type # "LABEL" => sst'[i] = sst[i])
  BY DEF Relabels
<1>9. 0 <= Address
  BY <1>2
<1> DEFINE Half(c) == c \div 2
<1>8. Address' = Half(code_ptr') /\ \A n \in Int : Half(2 * n) = n
  BY DEF Address
<1> HIDE DEF Half
<1> DEFINE RoomGrows == /\ \A i \in 1..Len(sst) : i # node => room'[i] = room[i]
                        /\ \A a \in room'[node] :
                             a \in room[node] \/ (Address <= a /\ a < Address' /\ a \in Int)
                        /\ Address < Address' => Address \in room'[node]
<1>10. ASSUME NEW words \in SUBSET Int, Takes(words),
              \A a \in words : Address <= a /\ a < Address',
              Address < Address' => Address \in words
       PROVE  RoomGrows /\ room'[node] = room[node] \cup words
  <2>1. room \in [1..Len(sst) -> SUBSET Int]
    BY <1>1 DEF GenTyped
  <2>2. /\ room'[node] = room[node] \cup words
        /\ \A i \in 1..Len(sst) : i # node => room'[i] = room[i]
    BY <1>1, <1>10, <2>1, TakesTyped
  <2> QED
    BY <1>10, <2>2
<1>5. CASE Instructs
  <2>1. PICK k \in Nat :
          /\ Fills(k)
          /\ \/ node' = node + 1 /\ (sst[node].type = "RET" => k # 0)
             \/ /\ node' = node + 2 /\ k # 0
                /\ node + 1 \in 1..Len(sst) /\ sst[node + 1].type = "RET"
    BY <1>5 DEF Instructs
  <2>2. code_ptr' = 2 * (Address + k) /\ Address' = Address + k
    <3>1. code_ptr' = 2 * (Address + k) /\ Address + k \in Int
      BY <1>2, <2>1 DEF Fills
    <3> QED
      BY <1>8, <3>1
  <2>3. \A i \in 1..Len(sst) : node <= i /\ i < node' =>
          /\ sst[i].type \notin Marks
          /\ sst[i].type = "RET" => k # 0
    <3>1. sst[node].type \notin Marks /\ (node' = node + 2 => sst[node + 1].type \notin Marks)
      BY <1>2, <1>5, <2>1 DEF Instructs, Marks, BranchOps, Definers
    <3>2. \A i \in 1..Len(sst) : node <= i /\ i < node' => i = node \/ (i = node + 1 /\ node' = node + 2)
      BY <1>2, <2>1
    <3> QED
      BY <1>2, <2>1, <3>1, <3>2
  <2>4. k # 0 => Address < Address' /\ 2 * Address + 2 <= MEM_SIZE_IN_BYTE + 1
    <3>1. k # 0 => code_ptr + 2 * k <= MEM_SIZE_IN_BYTE + 1
      BY <2>1 DEF Fills
    <3>2. code_ptr = 2 * Address /\ Address \in Int /\ MEM_SIZE_IN_BYTE \in Int
      BY <1>2
    <3> QED
      BY <2>1, <2>2, <3>1, <3>2
  <2>5. DOMAIN code' = DOMAIN code \cup Address..Address + k - 1
    BY <2>1 DEF Fills
  <2>6. \A a \in DOMAIN code' : a \in DOMAIN code \/ (Address <= a /\ a < Address' /\ a \in Int)
    BY <1>2, <2>2, <2>5
  <2>8. RoomGrows
    <3>1. Takes(Address..Address + k - 1)
      BY <2>1 DEF Fills
    <3>2. /\ \A a \in Address..Address + k - 1 : Address <= a /\ a < Address' /\ a \in Int
          /\ Address < Address' => Address \in Address..Address + k - 1
      BY <1>2, <2>1, <2>2
    <3> QED
      BY <1>10, <3>1, <3>2
  <2>7. /\ node' \in Nat /\ node < node' /\ node <= Len(sst)
        /\ 0 <= code_ptr' /\ code_ptr' = 2 * Address' /\ Address <= Address' /\ Address' \in Int
    BY <1>1, <1>2, <2>1, <2>2
  <2> QED
    BY <1>1, <1>3, <1>4, <1>9, <2>3, <2>4, <2>6, <2>7, <2>8 DEF Advance
<1>6. CASE Marking
  <2>1. code_ptr' \in {code_ptr, code_ptr + 2} /\ (sst[node].type \in BranchOps => code_ptr' = code_ptr + 2)
        /\ code' = code /\ node' = node + 1 /\ sst[node].type \in Marks
    BY <1>6 DEF Marking
  <2>2. 0 <= code_ptr' /\ code_ptr' = 2 * Address' /\ Address <= Address' /\ Address' \in Int
        /\ (sst[node].type \in BranchOps => Address < Address')
    <3>1. Address' \in {Address, Address + 1} /\ (sst[node].type \in BranchOps => Address' = Address + 1)
      <4>1. code_ptr = 2 * Address /\ code_ptr + 2 = 2 * (Address + 1) /\ Address + 1 \in Int
        BY <1>2
      <4> QED
        BY <1>2, <1>8, <2>1, <4>1
    <3>2. code_ptr' = 2 * Address'
      <4>1. CASE code_ptr' = code_ptr
        BY <1>2, <1>8, <4>1
      <4>2. CASE code_ptr' = 2 * (Address + 1)
        <5>1. Address + 1 \in Int
          BY <1>2
        <5>2. Half(2 * (Address + 1)) = Address + 1
          BY <1>8, <5>1
        <5> QED
          BY <1>8, <4>2, <5>2
      <4>3. code_ptr + 2 = 2 * (Address + 1)
        BY <1>2
      <4> QED
        BY <2>1, <4>1, <4>2, <4>3
    <3> QED
      BY <1>2, <3>1, <3>2
  <2>3. \A i \in 1..Len(sst) : i = node =>
          Place(i)' = Address /\ (sst[i].type \in BranchOps => location'[i] = 2 * Address)
    BY <1>6, PlacesKept
  <2>4. \A i \in 1..Len(sst) : node <= i /\ i < node' => i = node
    BY <1>2, <2>1
  <2>5. sst[node].type # "RET"
    BY <2>1 DEF Marks, BranchOps, Definers
  <2>6. node' \in Nat /\ node < node' /\ node <= Len(sst)
    BY <1>1, <1>2, <2>1
  <2>7. /\ RoomGrows
        /\ sst[node].type \in BranchOps => room'[node] = room[node] \cup {Address}
        /\ sst[node].type = "LABEL" => Address' = Address
    <3>1. CASE sst[node].type \in BranchOps \cup {"VARIABLE"}
      <4>1. Takes({Address}) /\ code_ptr' = 2 * (Address + 1)
        BY <1>2, <1>6, <3>1 DEF Marking
      <4>2. Address' = Address + 1
        BY <1>2, <2>2, <4>1
      <4>3. \A a \in {Address} : Address <= a /\ a < Address'
        BY <1>2, <4>2
      <4>4. {Address} \in SUBSET Int /\ sst[node].type # "LABEL"
        BY <1>2, <3>1 DEF BranchOps
      <4> QED
        BY <1>10, <4>1, <4>3, <4>4
    <3>2. CASE sst[node].type \notin BranchOps \cup {"VARIABLE"}
      <4>1. room' = room /\ code_ptr' = 2 * Address
        BY <1>6, <3>2 DEF Marking
      <4>2. Address' = Address
        BY <1>2, <2>2, <4>1
      <4> QED
        BY <1>2, <3>2, <4>1, <4>2
    <3> QED
      BY <3>1, <3>2
  <2> QED
    BY <1>1, <1>3, <1>4, <1>9, <2>1, <2>2, <2>3, <2>4, <2>5, <2>6, <2>7 DEF Advance
<1>7. CASE Allots
  <2>1. sst[node].type = "ALLOT" /\ sst[node].ref >= 0
    BY <1>1, <1>2, <1>7 DEF Allots, AllotsForward
  <2>2. PICK moved \in Int : moved = code_ptr + sst[node].ref /\ code_ptr' = moved + (moved % 2)
    BY <1>1, <1>2, <1>7 DEF Allots
  <2>3. 0 <= code_ptr' /\ code_ptr' = 2 * Address' /\ Address <= Address' /\ Address' \in Int
    <3>1. moved >= code_ptr
      BY <1>1, <1>2, <2>1, <2>2
    <3>2. PICK n \in Int : moved + (moved % 2) = 2 * n
      <4>1. moved + (moved % 2) = 2 * ((moved + (moved % 2)) \div 2)
        OBVIOUS
      <4> QED
        BY <4>1
    <3>3. Address' = n /\ code_ptr' = 2 * n
      BY <1>8, <2>2, <3>2
    <3>4. 2 * n >= 2 * Address
      BY <1>2, <2>2, <3>1, <3>2
    <3> QED
      BY <1>2, <3>3, <3>4
  <2>4. code' = code /\ node' = node + 1
    BY <1>7 DEF Allots
  <2>5. \A i \in 1..Len(sst) : node <= i /\ i < node' => i = node
    BY <1>2, <2>4
  <2>6. sst[node].type \notin Marks /\ sst[node].type # "RET"
    BY <2>1 DEF Marks, BranchOps, Definers
  <2>7. node' \in Nat /\ node < node' /\ node <= Len(sst)
    BY <1>1, <1>2, <2>4
  <2>8. RoomGrows
    <3> DEFINE top == (code_ptr + sst[node].ref - 1) \div 2
    <3>1. Takes(Address..top)
      BY <1>7 DEF Allots
    <3>2. top = Address' - 1
      <4>1. PICK n \in Int : n = moved - 1
        BY <2>2
      <4>2. 2 * Address' = moved + (moved % 2)
        BY <2>2, <2>3
      <4>3. code_ptr + sst[node].ref - 1 = n
        BY <1>1, <1>2, <2>2, <4>1
      <4>4. top = n \div 2
        BY <4>3, Zenon
      <4> HIDE DEF top
      <4>5. \A m \in Int : /\ m \div 2 \in Int
                         /\ (m + 1) + ((m + 1) % 2) = 2 * (m \div 2) + 2
        OBVIOUS
      <4>6. 2 * Address' = 2 * top + 2 /\ top \in Int
        BY <2>2, <4>1, <4>2, <4>4, <4>5
      <4>7. \A x, y \in Int : 2 * x = 2 * y + 2 => y = x - 1
        OBVIOUS
      <4>8. Address' \in Int
        BY <2>3
      <4> QED
        BY <4>6, <4>7, <4>8
    <3> HIDE DEF top
    <3>3. /\ \A a \in Address..Address' - 1 : Address <= a /\ a < Address'
          /\ Address < Address' => Address \in Address..Address' - 1
          /\ Address..Address' - 1 \in SUBSET Int
      <4>1. \A x, y \in Int : /\ \A a \in x..y - 1 : x <= a /\ a < y
                             /\ x < y => x \in x..y - 1
                             /\ x..y - 1 \in SUBSET Int
        OBVIOUS
      <4>2. PICK x \in Int : x = Address
        BY <1>2
      <4>3. PICK y \in Int : y = Address'
        BY <2>3
      <4>4. /\ \A a \in x..y - 1 : x <= a /\ a < y
            /\ x < y => x \in x..y - 1
            /\ x..y - 1 \in SUBSET Int
        BY <4>1
      <4> QED
        BY <4>2, <4>3, <4>4, Zenon
    <3> QED
      BY <1>10, <3>1, <3>2, <3>3
  <2> QED
    BY <1>1, <1>3, <1>4, <1>9, <2>3, <2>4, <2>5, <2>6, <2>7, <2>8 DEF Advance
<1> QED
  BY <1>5, <1>6, <1>7

LEMMA AdvanceOrders ==
  ASSUME Tree, GenTyped, Advance, PlacesBounded, PlacesOrdered, LabelsFollowed
  PROVE  PlacesBounded' /\ PlacesOrdered' /\ LabelsFollowed'
<1> DEFINE Mark(i) == sst[i].type \in Marks
           Branch(i) == sst[i].type \in BranchOps
           Label(i) == sst[i].type = "LABEL"
           Ret(i) == sst[i].type = "RET"
<1>1. /\ gen = "emit" /\ gen' = "emit" /\ gen # "idle" /\ Len(sst') = Len(sst)
      /\ \A i \in 1..Len(sst) :
           sst'[i].type = sst[i].type /\ (sst[i].type # "LABEL" => sst'[i] = sst[i])
      /\ \A i : Behind(i) <=> i < node
      /\ \A i : Behind(i)' <=> i < node'
  BY DEF Advance, Behind
<1>2. /\ Len(sst) \in Nat /\ Address \in Int /\ Address' \in Int /\ Address <= Address'
      /\ node \in Nat /\ node' \in Nat /\ node < node' /\ MEM_SIZE_IN_BYTE \in Nat
      /\ \A i \in 1..Len(sst) : Mark(i) => Place(i) \in Int
  BY <1>1, PlacesTyped DEF Advance
<1>3. /\ \A i \in 1..Len(sst) : i < node /\ Mark(i) =>
           Place(i)' = Place(i) /\ location'[i] = location[i]
      /\ \A i \in 1..Len(sst) : node <= i /\ i < node' =>
           /\ Mark(i) => /\ Place(i)' = Address /\ node' = node + 1
                         /\ Branch(i) => Address < Address' /\ location'[i] = 2 * Address
           /\ Ret(i) => Address < Address' /\ 2 * Address + 2 <= MEM_SIZE_IN_BYTE + 1
  BY DEF Advance
<1>4. /\ \A i \in 1..Len(sst) : Mark(i) /\ i < node =>
           /\ 0 <= Place(i) /\ Place(i) <= Address
           /\ Branch(i) => Place(i) < Address /\ location[i] = 2 * Place(i)
      /\ \A j \in 1..Len(sst) : \A i \in 1..j - 1 : Mark(i) /\ Mark(j) /\ i < node /\ j < node =>
           Place(i) <= Place(j) /\ (Branch(i) => Place(i) < Place(j))
      /\ \A r \in 1..Len(sst) : \A i \in 1..r - 1 :
           Label(i) /\ Ret(r) /\ r < node =>
             /\ Place(i) < Address /\ 2 * Place(i) + 2 <= MEM_SIZE_IN_BYTE + 1
             /\ \A k \in r + 1..Len(sst) : Mark(k) /\ k < node => Place(i) < Place(k)
  BY <1>1 DEF PlacesBounded, PlacesOrdered, LabelsFollowed, Placed
<1>5. \A i \in 1..Len(sst) : Label(i) => Mark(i)
  BY DEF Marks
<1>6. 0 <= Address
  BY DEF Advance
<1>7. \A j \in 1..Len(sst) : \A i \in 1..j - 1 : i \in 1..Len(sst) /\ i < j
  BY <1>2
<1>8. \A r \in 1..Len(sst) : \A k \in r + 1..Len(sst) : k \in 1..Len(sst) /\ r < k
  BY <1>2
<1> HIDE DEF Mark, Branch, Label, Ret
<1>9. \A i \in 1..Len(sst) : Mark(i) /\ i < node' =>
        /\ 0 <= Place(i)' /\ Place(i)' <= Address'
        /\ Branch(i) => Place(i)' < Address' /\ location'[i] = 2 * Place(i)'
  <2> SUFFICES ASSUME NEW i \in 1..Len(sst), Mark(i), i < node'
               PROVE  /\ 0 <= Place(i)' /\ Place(i)' <= Address'
                      /\ Branch(i) => Place(i)' < Address' /\ location'[i] = 2 * Place(i)'
    OBVIOUS
  <2>1. CASE i < node
    <3>1. Place(i)' = Place(i) /\ location'[i] = location[i] /\ Place(i) \in Int
      BY <1>2, <1>3, <2>1
    <3> QED
      BY <1>2, <1>4, <2>1, <3>1
  <2>2. CASE node <= i
    BY <1>2, <1>3, <1>6, <2>2
  <2> QED
    BY <1>2, <2>1, <2>2
<1>10. ASSUME NEW j \in 1..Len(sst), NEW i \in 1..j - 1, Mark(i), Mark(j), i < node', j < node'
       PROVE  Place(i)' <= Place(j)' /\ (Branch(i) => Place(i)' < Place(j)')
  <2>1. i \in 1..Len(sst) /\ i < j
    BY <1>7
  <2>2. CASE j < node
    <3>1. Place(i)' = Place(i) /\ Place(j)' = Place(j) /\ i < node
      BY <1>2, <1>3, <1>10, <2>1, <2>2
    <3> QED
      BY <1>4, <1>10, <2>2, <3>1
  <2>3. CASE node <= j /\ i < node
    <3>1. Place(i)' = Place(i) /\ Place(j)' = Address
      BY <1>3, <1>10, <2>1, <2>3
    <3> QED
      BY <1>4, <1>10, <2>1, <2>3, <3>1
  <2>4. CASE node <= i
    <3>1. node' = node + 1 /\ i < node' /\ j < node' /\ i < j
      BY <1>3, <1>10, <2>1, <2>4
    <3> QED
      BY <1>2, <2>4, <3>1
  <2> QED
    BY <1>2, <2>1, <2>2, <2>3, <2>4
<1>11. ASSUME NEW r \in 1..Len(sst), NEW i \in 1..r - 1, Label(i), Ret(r), r < node'
       PROVE  /\ Place(i)' < Address' /\ 2 * Place(i)' + 2 <= MEM_SIZE_IN_BYTE + 1
              /\ \A k \in r + 1..Len(sst) : Mark(k) /\ k < node' => Place(i)' < Place(k)'
  <2>1. i \in 1..Len(sst) /\ i < r /\ i < node' /\ Mark(i) /\ Place(i) \in Int
    BY <1>2, <1>5, <1>7, <1>11
  <2>2. i < node
    <3> SUFFICES ASSUME node <= i PROVE FALSE
      BY <1>2, <2>1
    <3>1. node' = node + 1
      BY <1>3, <2>1
    <3> QED
      BY <1>2, <1>11, <2>1, <3>1
  <2>3. Place(i)' = Place(i) /\ Place(i) <= Address
    BY <1>3, <1>4, <2>1, <2>2
  <2>4. CASE r < node
    <3>1. /\ Place(i) < Address /\ 2 * Place(i) + 2 <= MEM_SIZE_IN_BYTE + 1
          /\ \A k \in r + 1..Len(sst) : Mark(k) /\ k < node => Place(i) < Place(k)
      BY <1>4, <1>11, <2>4
    <3>2. ASSUME NEW k \in r + 1..Len(sst), Mark(k), k < node'
          PROVE  Place(i)' < Place(k)'
      <4>1. k \in 1..Len(sst)
        BY <1>8
      <4>2. CASE k < node
        BY <1>3, <2>3, <3>1, <3>2, <4>1, <4>2
      <4>3. CASE node <= k
        BY <1>3, <2>3, <3>1, <3>2, <4>1, <4>3
      <4> QED
        BY <1>2, <4>1, <4>2, <4>3
    <3> QED
      BY <1>2, <2>1, <2>3, <3>1, <3>2
  <2>5. CASE node <= r
    <3>1. Address < Address' /\ 2 * Address + 2 <= MEM_SIZE_IN_BYTE + 1
      BY <1>3, <1>11, <2>5
    <3>2. ASSUME NEW k \in r + 1..Len(sst), Mark(k), k < node'
          PROVE  FALSE
      <4>1. k \in 1..Len(sst) /\ r < k
        BY <1>8
      <4>2. node' = node + 1
        BY <1>2, <1>3, <2>5, <3>2, <4>1
      <4> QED
        BY <1>2, <2>5, <3>2, <4>1, <4>2
    <3> QED
      BY <1>2, <2>1, <2>3, <3>1, <3>2
  <2> QED
    BY <1>2, <2>4, <2>5
<1>12. Len(sst') = Len(sst) /\ \A i \in 1..Len(sst) : sst'[i].type = sst[i].type
  BY <1>1
<1>16. \A i : Behind(i)' <=> i < node'
  BY <1>1
<1> USE DEF Mark, Branch, Label, Ret
<1>13. PlacesBounded'
  BY <1>9, <1>12, <1>16 DEF PlacesBounded, Placed
<1>14. PlacesOrdered'
  BY <1>7, <1>10, <1>12, <1>16 DEF PlacesOrdered, Placed
<1>15. LabelsFollowed'
  BY <1>7, <1>8, <1>11, <1>12, <1>16 DEF LabelsFollowed, Placed
<1> QED
  BY <1>13, <1>14, <1>15

LEMMA AdvanceRooms ==
  ASSUME Tree, GenTyped, Advance, PlacesBounded, RoomsBounded, RoomsOrdered, LabelsAhead
  PROVE  RoomsBounded' /\ RoomsOrdered' /\ LabelsAhead'
<1> DEFINE Mark(i) == sst[i].type \in Marks
           Branch(i) == sst[i].type \in BranchOps
           Label(i) == sst[i].type = "LABEL"
<1>1. /\ gen = "emit" /\ gen' = "emit" /\ gen # "idle" /\ Len(sst') = Len(sst)
      /\ \A i \in 1..Len(sst) : sst'[i].type = sst[i].type
      /\ \A i : Behind(i) <=> i < node
      /\ \A i : Behind(i)' <=> i < node'
  BY DEF Advance, Behind
<1>2. /\ Len(sst) \in Nat /\ Address \in Int /\ Address' \in Int /\ Address <= Address'
      /\ node \in Nat /\ node' \in Nat /\ node < node' /\ node <= Len(sst) /\ 0 <= Address
      /\ \A i \in 1..Len(sst) : Mark(i) => Place(i) \in Int
      /\ \A i \in 1..Len(sst) : \A a \in room[i] : a \in Int
  BY <1>1, PlacesTyped DEF Advance
<1>3. \A i \in 1..Len(sst) : Branch(i) \/ Label(i) => Mark(i)
  BY DEF Marks
<1>4. /\ \A i \in 1..Len(sst) : i < node /\ Mark(i) => Place(i)' = Place(i) /\ Place(i) <= Address
      /\ \A i \in 1..Len(sst) : node <= i /\ i < node' /\ Mark(i) =>
           /\ Place(i)' = Address /\ node' = node + 1
           /\ Branch(i) => room'[i] = room[i] \cup {Address}
           /\ Label(i) => Address' = Address
  BY <1>1 DEF Advance, PlacesBounded, Placed
<1>5. /\ \A i \in 1..Len(sst) : i # node => room'[i] = room[i]
      /\ \A a \in room'[node] : a \in room[node] \/ (Address <= a /\ a < Address' /\ a \in Int)
      /\ Address < Address' => Address \in room'[node]
  BY DEF Advance
<1>6. /\ \A i \in 1..Len(sst) : \A a \in room[i] : 0 <= a /\ a < Address
      /\ \A i \in 1..Len(sst) : ~(i < node) => room[i] = {}
      /\ \A i \in 1..Len(sst) : i < node /\ Branch(i) => room[i] = {Place(i)}
  BY <1>1, <1>3 DEF RoomsBounded, Placed
<1>7. \A j \in 1..Len(sst) : \A i \in 1..j - 1 : i \in 1..Len(sst) /\ i < j
  BY <1>2
<1>8. \A r \in 1..Len(sst) : \A k \in r + 1..Len(sst) : k \in 1..Len(sst) /\ r < k
  BY <1>2
<1>9. \A i \in 1..Len(sst) : i < node /\ Label(i) =>
        /\ \A k \in i + 1..Len(sst) : \A a \in room[k] : Place(i) <= a
        /\ Place(i) < Address => \E k \in i + 1..Len(sst) : Place(i) \in room[k]
  BY <1>1, <1>3 DEF LabelsAhead, Placed
<1>10. \A j \in 1..Len(sst) : \A i \in 1..j - 1 : \A a \in room[i], b \in room[j] : a < b
  BY DEF RoomsOrdered
<1> HIDE DEF Mark, Branch, Label
\* The node the pass has reached was given nothing before.
<1>11. \A a \in room'[node] : node \in 1..Len(sst) => Address <= a /\ a < Address' /\ a \in Int
  BY <1>2, <1>5, <1>6
<1>12. ASSUME NEW i \in 1..Len(sst)
       PROVE  /\ \A a \in room'[i] : 0 <= a /\ a < Address'
              /\ ~(i < node') => room'[i] = {}
              /\ i < node' /\ Branch(i) => room'[i] = {Place(i)'}
  <2>1. CASE i < node
    BY <1>2, <1>3, <1>4, <1>5, <1>6, <2>1
  <2>2. CASE i = node
    <3>1. room[i] = {}
      BY <1>2, <1>6, <2>2
    <3> QED
      BY <1>2, <1>3, <1>4, <1>11, <2>2, <3>1
  <2>3. CASE node < i
    <3>1. room'[i] = {}
      BY <1>2, <1>5, <1>6, <2>3
    <3>2. ~(i < node' /\ Branch(i))
      BY <1>2, <1>3, <1>4, <2>3
    <3> QED
      BY <3>1, <3>2
  <2> QED
    BY <1>2, <2>1, <2>2, <2>3
<1>13. ASSUME NEW j \in 1..Len(sst), NEW i \in 1..j - 1, NEW a \in room'[i], NEW b \in room'[j]
       PROVE  a < b
  <2>1. i \in 1..Len(sst) /\ i < j
    BY <1>7
  <2>2. j <= node
    <3> SUFFICES ASSUME node < j PROVE FALSE
      BY <1>2
    <3>1. room'[j] = {}
      BY <1>2, <1>5, <1>6
    <3> QED
      BY <1>13, <3>1
  <2>3. i < node /\ room'[i] = room[i] /\ a \in Int /\ a < Address
    BY <1>2, <1>5, <1>6, <1>13, <2>1, <2>2
  <2>4. CASE j = node
    BY <1>2, <1>11, <1>13, <2>3, <2>4
  <2>5. CASE j # node
    BY <1>5, <1>10, <1>13, <2>3, <2>5
  <2> QED
    BY <2>4, <2>5
<1>14. ASSUME NEW i \in 1..Len(sst), Label(i), i < node'
       PROVE  /\ \A k \in i + 1..Len(sst) : \A a \in room'[k] : Place(i)' <= a
              /\ Place(i)' < Address' => \E k \in i + 1..Len(sst) : Place(i)' \in room'[k]
  <2>1. Mark(i) /\ Place(i) \in Int
    BY <1>2, <1>3, <1>14
  <2>2. CASE i < node
    <3>1. Place(i)' = Place(i) /\ Place(i) <= Address
      BY <1>4, <2>1, <2>2
    <3>2. ASSUME NEW k \in i + 1..Len(sst), NEW a \in room'[k]
          PROVE  Place(i) <= a
      <4>1. k \in 1..Len(sst)
        BY <1>8
      <4>2. CASE k = node
        BY <1>2, <1>11, <2>1, <3>1, <3>2, <4>1, <4>2
      <4>3. CASE k # node
        BY <1>5, <1>9, <1>14, <2>2, <3>2, <4>1, <4>3
      <4> QED
        BY <4>2, <4>3
    <3>3. ASSUME Place(i) < Address'
          PROVE  \E k \in i + 1..Len(sst) : Place(i) \in room'[k]
      <4>1. CASE Place(i) < Address
        <5>1. PICK k \in i + 1..Len(sst) : Place(i) \in room[k]
          BY <1>9, <1>14, <2>2, <4>1
        <5>2. k \in 1..Len(sst) /\ k < node
          <6>1. k \in 1..Len(sst)
            BY <1>8
          <6> QED
            BY <1>6, <5>1, <6>1
        <5>3. Place(i) \in room'[k]
          BY <1>2, <1>5, <5>1, <5>2
        <5> QED
          BY <5>3
      <4>2. CASE Place(i) = Address
        <5>1. node \in i + 1..Len(sst)
          BY <1>2, <2>2
        <5>2. Address \in room'[node]
          BY <1>5, <3>3, <4>2
        <5> QED
          BY <4>2, <5>1, <5>2
      <4> QED
        BY <1>2, <2>1, <3>1, <4>1, <4>2
    <3> QED
      BY <3>1, <3>2, <3>3
  <2>3. CASE node <= i
    <3>1. Place(i)' = Address /\ node' = node + 1 /\ Address' = Address
      BY <1>4, <1>14, <2>1, <2>3
    <3>2. i = node
      BY <1>2, <1>14, <2>3, <3>1
    <3>3. \A k \in i + 1..Len(sst) : room'[k] = {}
      <4>1. ASSUME NEW k \in i + 1..Len(sst)
            PROVE  k \in 1..Len(sst) /\ k # node /\ ~(k < node)
        BY <1>2, <1>8, <3>2
      <4> QED
        BY <1>5, <1>6, <4>1
    <3> QED
      BY <1>2, <3>1, <3>3
  <2> QED
    BY <1>2, <2>2, <2>3
<1> USE DEF Mark, Branch, Label
<1>15. Len(sst') = Len(sst) /\ (\A i \in 1..Len(sst) : sst'[i].type = sst[i].type)
       /\ \A i : Behind(i)' <=> i < node'
  BY <1>1
<1>16. RoomsBounded'
  BY <1>12, <1>15 DEF RoomsBounded, Placed
<1>17. RoomsOrdered'
  BY <1>7, <1>13, <1>15 DEF RoomsOrdered
<1>18. LabelsAhead'
  BY <1>14, <1>15 DEF LabelsAhead, Placed
<1> QED
  BY <1>16, <1>17, <1>18

LEMMA AdvanceLeavesHoles ==
  ASSUME Tree, GenTyped, Advance, PlacesBounded, Holes
  PROVE  Holes'
<1>1. /\ gen = "emit" /\ gen' = "emit" /\ gen # "idle" /\ Len(sst') = Len(sst)
      /\ \A i \in 1..Len(sst) : sst'[i].type = sst[i].type
      /\ \A i : Behind(i) <=> i < node
      /\ \A i : Behind(i)' <=> i < node'
      /\ \A i : ~Filled(i) /\ ~Filled(i)'
  BY DEF Advance, Behind, Filled
<1>2. /\ Len(sst) \in Nat /\ Address \in Int /\ Address' \in Int /\ Address <= Address'
      /\ node \in Nat /\ node' \in Nat /\ node < node' /\ 0 <= Address
      /\ \A i \in 1..Len(sst) : sst[i].type \in Marks => Place(i) \in Int
  BY <1>1, PlacesTyped DEF Advance
<1>3. \A a \in DOMAIN code : a \in Int /\ 0 <= a /\ a < Address
  BY <1>2 DEF Holes
<1>4. DOMAIN code' \subseteq 0..Address' - 1
  <2>1. \A a \in DOMAIN code' : a \in DOMAIN code \/ (Address <= a /\ a < Address' /\ a \in Int)
    BY DEF Advance
  <2> QED
    BY <1>2, <1>3, <2>1
<1>5. ASSUME NEW i \in 1..Len(sst), sst[i].type \in BranchOps, i < node'
      PROVE  Place(i)' \notin DOMAIN code'
  <2>0. sst[i].type \in Marks
    BY <1>5 DEF Marks
  <2>1. CASE i < node
    <3>1. Place(i)' = Place(i) /\ Place(i) < Address /\ Place(i) \notin DOMAIN code
      BY <1>1, <1>5, <2>0, <2>1 DEF Advance, PlacesBounded, Holes, Placed
    <3>2. \A a \in DOMAIN code' : a \in DOMAIN code \/ (Address <= a /\ a \in Int)
      BY DEF Advance
    <3> QED
      BY <1>2, <2>0, <3>1, <3>2
  <2>2. CASE node <= i
    <3>1. Place(i)' = Address /\ code' = code
      BY <1>5, <2>0, <2>2 DEF Advance
    <3> QED
      BY <1>2, <1>3, <3>1
  <2> QED
    BY <1>2, <2>1, <2>2
<1> QED
  BY <1>1, <1>4, <1>5 DEF Holes, Placed

\* Behind pass 1 the places stay.
LEMMA StillOrdered ==
  ASSUME PlacesBounded, PlacesOrdered, LabelsFollowed, RoomsBounded, RoomsOrdered, LabelsAhead,
         UNCHANGED <<sst, location, value, code_ptr, room>>, gen' \in {"patch", "done"},
         \A i \in 1..Len(sst) : Behind(i), Len(sst) \in Nat
  PROVE  /\ PlacesBounded' /\ PlacesOrdered' /\ LabelsFollowed'
         /\ RoomsBounded' /\ RoomsOrdered' /\ LabelsAhead'
         /\ \A i : Place(i)' = Place(i)
<1>1. /\ \A i : Place(i)' = Place(i)
      /\ Address' = Address /\ sst' = sst /\ location' = location /\ room' = room
      /\ \A i \in 1..Len(sst) : Behind(i)' /\ Behind(i)
  BY DEF Place, Address, Behind
<1>2. PlacesBounded'
  BY <1>1 DEF PlacesBounded, Placed
<1>3. PlacesOrdered'
  <2>1. \A j \in 1..Len(sst) : \A i \in 1..j - 1 : i \in 1..Len(sst)
    OBVIOUS
  <2> QED
    BY <1>1, <2>1 DEF PlacesOrdered, Placed
<1>4. LabelsFollowed'
  <2>1. \A j \in 1..Len(sst) : \A i \in j + 1..Len(sst) : i \in 1..Len(sst)
    OBVIOUS
  <2> QED
    BY <1>1, <2>1 DEF LabelsFollowed, Placed
<1>5. RoomsBounded' /\ RoomsOrdered'
  BY <1>1 DEF RoomsBounded, RoomsOrdered, Placed
<1>6. LabelsAhead'
  BY <1>1 DEF LabelsAhead, Placed
<1> QED
  BY <1>1, <1>2, <1>3, <1>4, <1>5, <1>6

\* Pass 2 gives no node more than pass 1 did.
LEMMA RoomStays ==
  ASSUME Tree, GenTyped, RoomsBounded, PatchesBranch \/ PassesOver
  PROVE  room' = room
<1>1. CASE PatchesBranch
  <2>1. /\ gen = "patch" /\ node \in 1..Len(sst) /\ sst[node].type \in BranchOps
        /\ room' = [room EXCEPT ![node] = @ \cup {location[node] \div 2}]
    BY <1>1 DEF PatchesBranch, Takes
  <2>2. room[node] = {Place(node)} /\ Place(node) = location[node] \div 2
    BY <2>1 DEF RoomsBounded, Placed, Behind, Marks, Place
  <2>3. room \in [1..Len(sst) -> SUBSET Int]
    BY <2>1 DEF GenTyped
  <2> QED
    BY <2>1, <2>2, <2>3
<1>2. CASE PassesOver
  BY <1>2 DEF PassesOver
<1> QED
  BY <1>1, <1>2

\* What pass 2 writes.
LEMMA HoleFilled ==
  ASSUME Tree, GenTyped, PlacesBounded, PlacesOrdered, Holes, PatchesBranch
  PROVE  LET w == Gen!BranchCode(sst[node].type) + (sst[sst[node].ref].ref % \h2000) IN
           /\ Place(node) \notin DOMAIN code
           /\ DOMAIN code' = DOMAIN code \cup {Place(node)}
           /\ code'[Place(node)] = w
           /\ \A a \in DOMAIN code : code'[a] = code[a]
           /\ \A i \in 1..Len(sst) :
                i # node /\ sst[i].type \in BranchOps => Place(i) # Place(node)
<1> DEFINE w == Gen!BranchCode(sst[node].type) + (sst[sst[node].ref].ref % \h2000)
<1>1. /\ gen = "patch" /\ gen # "idle" /\ node \in 1..Len(sst) /\ sst[node].type \in BranchOps
      /\ code' = Gen!Put(<<w>>, location[node] \div 2)
      /\ \A i : Behind(i)
      /\ ~Filled(node)
  BY PlacesTyped DEF PatchesBranch, Behind, Filled
<1>2. /\ Len(sst) \in Nat /\ node \in Nat
      /\ \A i \in 1..Len(sst) : sst[i].type \in Marks => Place(i) \in Int
  BY <1>1, PlacesTyped
<1>3. \A i \in 1..Len(sst) : sst[i].type \in BranchOps => sst[i].type \in Marks /\ Placed(i)
  BY <1>1 DEF Marks, Placed
<1>4. Place(node) = location[node] \div 2 /\ Place(node) \in Int
  BY <1>1, <1>2, <1>3 DEF Place
<1> HIDE DEF w
<1>5. Place(node) \notin DOMAIN code
  BY <1>1, <1>3 DEF Holes
<1>6. /\ DOMAIN code' = DOMAIN code \cup {Place(node)}
      /\ code'[Place(node)] = w
      /\ \A a \in DOMAIN code : a # Place(node) => code'[a] = code[a]
  <2> DEFINE p == Place(node)
  <2>1. code' = Gen!Put(<<w>>, p) /\ p \in Int
    BY <1>1, <1>4
  <2> HIDE DEF p
  <2>2. /\ DOMAIN code' = DOMAIN code \cup {p}
        /\ code'[p] = w
        /\ \A a \in DOMAIN code : a # p => code'[a] = code[a]
    <3>1. OneMore(Gen!Put(<<w>>, p), w, p)
      BY <2>1, OneWord, Zenon
    <3> QED
      BY <2>1, <3>1, Zenon DEF OneMore
  <2> QED
    BY <2>2 DEF p
<1>7. ASSUME NEW i \in 1..Len(sst), i # node, sst[i].type \in BranchOps
      PROVE  Place(i) # Place(node)
  <2>1. Place(i) \in Int
    BY <1>2, <1>3, <1>7
  <2>2. CASE i < node
    <3>1. i \in 1..node - 1
      BY <1>2, <2>2
    <3>2. Place(i) < Place(node)
      BY <1>1, <1>3, <1>7, <3>1 DEF PlacesOrdered
    <3> QED
      BY <1>4, <2>1, <3>2
  <2>3. CASE node < i
    <3>1. node \in 1..i - 1
      BY <1>1, <1>2, <2>3
    <3>2. Place(node) < Place(i)
      BY <1>1, <1>3, <1>7, <3>1 DEF PlacesOrdered
    <3> QED
      BY <1>4, <2>1, <3>2
  <2> QED
    BY <1>2, <1>7, <2>2, <2>3
<1> QED
  BY <1>5, <1>6, <1>7 DEF w

LEMMA PatchKeepsHoles ==
  ASSUME Tree, GenTyped, PlacesBounded, PlacesOrdered, LabelsFollowed, Holes,
         PatchesBranch \/ PassesOver
  PROVE  Holes'
<1>1. /\ gen = "patch" /\ gen' = "patch" /\ gen # "idle" /\ node \in 1..Len(sst)
      /\ node' = node + 1 /\ UNCHANGED <<sst, location, value, code_ptr>>
      /\ \A i : Behind(i) /\ Behind(i)'
      /\ \A i : Filled(i) <=> i < node
      /\ \A i : Filled(i)' <=> i < node'
  BY DEF PatchesBranch, PassesOver, Behind, Filled
<1>2. /\ Len(sst) \in Nat /\ node \in Nat /\ Address \in Int /\ Address' = Address
      /\ \A i \in 1..Len(sst) : sst[i].type \in BranchOps => Place(i) \in Int /\ Placed(i)
  BY <1>1, PlacesTyped DEF Address, Marks, Placed
<1>3. /\ \A i : Place(i)' = Place(i)
  BY <1>1 DEF Place
<1>4. /\ DOMAIN code \subseteq 0..Address - 1
      /\ \A i \in 1..Len(sst) : sst[i].type \in BranchOps =>
           /\ i < node => /\ sst[i].ref # NULL /\ Place(i) \in DOMAIN code
                          /\ code[Place(i)] = Gen!BranchCode(sst[i].type) + (sst[sst[i].ref].ref % \h2000)
           /\ ~(i < node) => Place(i) \notin DOMAIN code
  BY <1>1, <1>2 DEF Holes
<1>5. \A i \in 1..Len(sst) : i < node' <=> i < node \/ i = node
  BY <1>1, <1>2
<1>6. CASE PatchesBranch
  <2> DEFINE w == Gen!BranchCode(sst[node].type) + (sst[sst[node].ref].ref % \h2000)
             p == Place(node)
  <2>1. /\ p \notin DOMAIN code
        /\ DOMAIN code' = DOMAIN code \cup {p}
        /\ code'[p] = w
        /\ \A a \in DOMAIN code : code'[a] = code[a]
        /\ \A i \in 1..Len(sst) :
             i # node /\ sst[i].type \in BranchOps => Place(i) # p
    BY <1>6, HoleFilled
  <2>2. sst[node].type \in BranchOps /\ sst[node].ref # NULL
    BY <1>6 DEF PatchesBranch
  <2>3. 0 <= p /\ p < Address /\ p \in Int
    BY <1>1, <1>2, <2>2 DEF PlacesBounded
  <2>4. DOMAIN code' \subseteq 0..Address' - 1
    <3> HIDE DEF p, w
    <3> QED
      BY <1>2, <1>4, <2>1, <2>3
  <2>5. ASSUME NEW i \in 1..Len(sst), sst[i].type \in BranchOps
        PROVE  /\ i < node' => /\ sst[i].ref # NULL /\ Place(i) \in DOMAIN code'
                               /\ code'[Place(i)] = Gen!BranchCode(sst[i].type) + (sst[sst[i].ref].ref % \h2000)
               /\ ~(i < node') => Place(i) \notin DOMAIN code'
    <3>1. CASE i = node
      BY <1>5, <2>1, <2>2, <3>1
    <3>2. CASE i # node /\ i < node
      <4>1. /\ sst[i].ref # NULL /\ Place(i) \in DOMAIN code
            /\ code[Place(i)] = Gen!BranchCode(sst[i].type) + (sst[sst[i].ref].ref % \h2000)
        BY <1>4, <2>5, <3>2
      <4> HIDE DEF p, w
      <4> QED
        BY <1>5, <2>1, <3>2, <4>1
    <3>3. CASE i # node /\ ~(i < node)
      <4>1. Place(i) \notin DOMAIN code /\ Place(i) # p
        BY <1>4, <2>1, <2>5, <3>3
      <4> HIDE DEF p, w
      <4> QED
        BY <1>5, <2>1, <3>3, <4>1
    <3> QED
      BY <3>1, <3>2, <3>3
  <2> QED
    BY <1>1, <1>3, <2>4, <2>5 DEF Holes, Placed
<1>7. CASE PassesOver
  <2>1. code' = code /\ sst[node].type \notin BranchOps
    BY <1>7 DEF PassesOver
  <2> QED
    BY <1>1, <1>2, <1>3, <1>4, <1>5, <2>1 DEF Holes, Placed
<1> QED
  BY <1>6, <1>7

LEMMA LayoutStart == Init => Layout
BY DEF Init, Layout, Chip!ChipInit

LEMMA LayoutStep == Phases /\ AllotsForward /\ Layout /\ [Next]_vars => Layout'
<1> SUFFICES ASSUME Phases, AllotsForward, Layout, [Next]_vars PROVE Layout'
  OBVIOUS
<1> USE DEF Layout
<1>1. Tree /\ GenTyped /\ Len(sst) \in Nat /\ DOMAIN sst = 1..Len(sst) /\ node \in Nat
  BY DEF Phases, Tree, GenTyped
<1>2. CASE Loading
  <2>1. gen = "idle" /\ UNCHANGED <<gen, code, room, called, caller, running>>
    BY <1>2, LoadRuns DEF Loading, Phases, genVars, chipVars, consoleVars
  <2> QED
    BY <2>1
<1>3. CASE Generating
  <2>1. Gen!Next /\ UNCHANGED <<status, called, caller, running>>
    BY <1>3 DEF Generating, loadVars, chipVars, consoleVars
  <2>2. called = <<>> => Holes \/ gen \in {"idle"} \cup Gen!Broken
    BY DEF Phases
  <2>3. CASE Gen!Begin
    <3>1. /\ gen = "idle" /\ gen' = "emit" /\ code' = code /\ code = <<>> /\ node' = 1
          /\ code_ptr' = 2 /\ sst' = sst /\ room' = [i \in 1..Len(sst) |-> {}]
      BY <1>1, <2>3 DEF Gen!Begin, Gen!CODE_START
    <3>2. Address' = 1
      <4>1. code_ptr' \div 2 = 2 \div 2 /\ 2 \div 2 = 1
        BY <3>1
      <4> QED
        BY <4>1 DEF Address
    <3>3. \A i \in 1..Len(sst) : ~Behind(i)'
      BY <1>1, <3>1 DEF Behind
    <3>4. PlacesBounded' /\ LabelsFollowed'
      BY <3>1, <3>3 DEF PlacesBounded, LabelsFollowed, Placed
    <3>5. PlacesOrdered'
      BY <3>1, <3>3 DEF PlacesOrdered, Placed
    <3>6. Holes'
      BY <3>1, <3>3 DEF Holes, Placed
    <3>7. \A i \in 1..Len(sst) : room'[i] = {}
      BY <3>1
    <3>8. RoomsBounded' /\ LabelsAhead'
      BY <3>1, <3>3, <3>7 DEF RoomsBounded, LabelsAhead, Placed
    <3>9. RoomsOrdered'
      BY <3>1, <3>7 DEF RoomsOrdered
    <3> QED
      BY <2>1, <3>1, <3>2, <3>4, <3>5, <3>6, <3>8, <3>9 DEF Phases
  <2>4. CASE Gen!BeginPatch \/ Gen!Finish
    <3>1. /\ UNCHANGED <<sst, dict, code, code_ptr, location, value, room>> /\ node' \in {1, node}
          /\ gen \in {"emit", "patch"} /\ gen' \in {"patch", "done"} /\ node \notin 1..Len(sst)
          /\ gen = "emit" => node' = 1 /\ gen' = "patch"
          /\ gen = "patch" => gen' = "done"
      BY <1>1, <2>4 DEF Gen!BeginPatch, Gen!Finish
    <3>2. \A i \in 1..Len(sst) : i < node
      BY <1>1, <3>1
    <3>3. \A i \in 1..Len(sst) : Behind(i) /\ Behind(i)'
      BY <3>1, <3>2 DEF Behind
    <3>4. /\ PlacesBounded' /\ PlacesOrdered' /\ LabelsFollowed'
          /\ RoomsBounded' /\ RoomsOrdered' /\ LabelsAhead'
          /\ \A i : Place(i)' = Place(i)
      BY <1>1, <3>1, <3>3, StillOrdered
    <3>5. Address' = Address /\ 1 <= node'
      BY <1>1, <3>1 DEF Address
    <3>6. \A i \in 1..Len(sst) : Filled(i)' = Filled(i)
      BY <1>1, <3>1, <3>2 DEF Filled
    <3>7. called = <<>> => Holes'
      BY <3>1, <3>3, <3>4, <3>5, <3>6 DEF Holes, Placed
    <3> QED
      BY <2>1, <3>1, <3>4, <3>5, <3>7
  <2>5. CASE Passing
    <3>1. Relabels /\ GenTyped' /\ gen' = gen /\ gen \in {"emit", "patch"}
      BY <1>1, <2>1, <2>5, PassingTyped
    <3>2. CASE Instructs \/ Marking \/ Allots
      <4>1. Advance
        BY <1>1, <3>1, <3>2, Advances
      <4>2. PlacesBounded' /\ PlacesOrdered' /\ LabelsFollowed'
        BY <1>1, <3>1, <4>1, AdvanceOrders
      <4>5. RoomsBounded' /\ RoomsOrdered' /\ LabelsAhead'
        BY <1>1, <3>1, <4>1, AdvanceRooms
      <4>3. called = <<>> => Holes'
        BY <1>1, <3>1, <4>1, AdvanceLeavesHoles
      <4>4. 0 <= code_ptr' /\ code_ptr' = 2 * Address' /\ 1 <= node'
        <5>1. 0 <= code_ptr' /\ code_ptr' = 2 * Address'
          BY <4>1 DEF Advance
        <5>2. node < node' /\ node' \in Nat
          BY <4>1 DEF Advance
        <5>3. 1 <= node'
          BY <1>1, <5>2
        <5> QED
          BY <5>1, <5>3
      <4> QED
        BY <2>1, <3>1, <4>2, <4>3, <4>4, <4>5
    <3>3. CASE PatchesBranch \/ PassesOver
      <4>1. /\ UNCHANGED <<sst, location, value, code_ptr>> /\ gen = "patch" /\ node' = node + 1
        BY <3>3 DEF PatchesBranch, PassesOver
      <4>5. room' = room
        BY <1>1, <3>1, <3>3, RoomStays
      <4>2. /\ PlacesBounded' /\ PlacesOrdered' /\ LabelsFollowed'
            /\ RoomsBounded' /\ RoomsOrdered' /\ LabelsAhead'
        BY <1>1, <3>1, <4>1, <4>5, StillOrdered DEF Behind
      <4>3. called = <<>> => Holes'
        BY <1>1, <3>1, <3>3, PatchKeepsHoles
      <4>4. Address' = Address /\ 1 <= node'
        BY <1>1, <3>1, <4>1 DEF Address
      <4> QED
        BY <2>1, <3>1, <4>1, <4>2, <4>3, <4>4
    <3> QED
      BY <2>5, <3>2, <3>3 DEF Passing
  <2>6. CASE (Breaks \/ Crashes) /\ gen \in {"emit", "patch"}
    <3>1. gen' \in {"lost", "overrun", "crashed"} /\ UNCHANGED <<sst, room>>
      BY <2>6 DEF Breaks, Crashes
    <3>3. RoomsOrdered'
      BY <2>6, <3>1 DEF RoomsOrdered
    <3> QED
      BY <2>1, <3>1, <3>3
  <2> QED
    BY <1>1, <2>1, <2>3, <2>4, <2>5, <2>6, GenShape
<1>4. CASE Console \/ UNCHANGED vars
  <2>1. UNCHANGED <<sst, genVars>>
    BY <1>4 DEF Console, PushNumber, CallWord, Running, ReturnToHost, loadVars, vars
  <2>2. /\ gen # "done" => UNCHANGED <<code, called, caller, running>>
        /\ gen = "idle" => UNCHANGED code
        /\ called' = <<>> => called = <<>> /\ UNCHANGED <<code, caller, running>>
    <3>1. CASE UNCHANGED vars
      BY <3>1 DEF vars, consoleVars, chipVars
    <3>2. CASE \E v \in HostValues : PushNumber(v)
      BY <3>2 DEF PushNumber, chipVars
    <3>3. CASE \E s \in DOMAIN dict : CallWord(s)
      <4>1. gen = "done" /\ called' # <<>>
        BY <3>3 DEF CallWord, AtConsole
      <4> QED
        BY <4>1
    <3>4. CASE Running
      <4>1. running /\ called' = called
        BY <3>4 DEF Running, Chip!Step
      <4> QED
        BY <4>1 DEF Phases
    <3>5. CASE ReturnToHost
      <4>1. caller # NULL /\ called' = called
        BY <3>5 DEF ReturnToHost, Stopped
      <4> QED
        BY <4>1 DEF Phases
    <3> QED
      BY <1>4, <3>1, <3>2, <3>3, <3>4, <3>5 DEF Console
  <2>3. UNCHANGED <<sst, gen, node, code_ptr, location, value, room>>
    BY <2>1 DEF genVars
  <2>4. /\ \A i : Place(i)' = Place(i)
        /\ \A i : Behind(i)' = Behind(i) /\ Filled(i)' = Filled(i)
        /\ Address' = Address
    BY <2>3 DEF Place, Behind, Filled, Address
  <2>5. PlacesBounded => PlacesBounded'
    BY <2>3, <2>4 DEF PlacesBounded, Placed
  <2>6. PlacesOrdered => PlacesOrdered'
    BY <2>3, <2>4 DEF PlacesOrdered, Placed
  <2>7. LabelsFollowed => LabelsFollowed'
    BY <2>3, <2>4 DEF LabelsFollowed, Placed
  <2>8. called' = <<>> /\ Holes => Holes'
    BY <2>2, <2>3, <2>4 DEF Holes, Placed
  <2>9. /\ RoomsBounded => RoomsBounded'
        /\ RoomsOrdered => RoomsOrdered'
        /\ LabelsAhead => LabelsAhead'
    BY <2>3, <2>4 DEF RoomsBounded, RoomsOrdered, LabelsAhead, Placed
  <2> QED
    BY <2>2, <2>3, <2>4, <2>5, <2>6, <2>7, <2>8, <2>9
<1> QED
  BY <1>2, <1>3, <1>4 DEF Next

-----------------------------------------------------------------------------
(* The two properties of the generated code. *)

(***************************************************************************)
(* Whatever the file holds, as long as it allots no negative number: no    *)
(* two nodes share a word of code_buffer, be it an instruction, the hole   *)
(* of a branch, the cell of a variable or the room of ALLOT.               *)
(***************************************************************************)
THEOREM NothingWrittenTwice == Spec /\ []AllotsForward => []NodesApart
<1>1. Phases /\ Layout => NodesApart
  <2> SUFFICES ASSUME Phases, Layout,
                      NEW i \in DOMAIN room, NEW j \in DOMAIN room, i # j,
                      NEW a \in room[i], a \in room[j]
               PROVE  FALSE
    BY DEF NodesApart, Gen!NodesApart
  <2>1. gen # "idle"
    BY DEF Layout
  <2>2. /\ i \in 1..Len(sst) /\ j \in 1..Len(sst) /\ Len(sst) \in Nat
        /\ a \in Int
    BY <2>1 DEF Phases, Tree, GenTyped
  <2>3. \A n \in 1..Len(sst) : \A m \in 1..n - 1 : \A b \in room[m], c \in room[n] : b < c
    BY <2>1 DEF Layout, RoomsOrdered
  <2>4. i \in 1..j - 1 \/ j \in 1..i - 1
    BY <2>2
  <2>5. a < a
    BY <2>2, <2>3, <2>4
  <2> QED
    BY <2>2, <2>5
<1> QED
  BY <1>1, PhasesStart, PhasesStep, LayoutStart, LayoutStep, PTL DEF Spec

\* A definition's branches lead from and to its own code.
LEMMA BranchWithinWord ==
  ASSUME Tree, GenTyped, Layout, gen = "done", called = <<>>,
         MEM_SIZE_IN_BYTE <= \h4000,
         NEW s \in 1..Len(dict), NEW i \in 1..Len(sst),
         dict[s].type = "WORD", ~dict[s].hidden,
         i > dict[s].sst, sst[i].type \in BranchOps,
         Unbroken(sst, dict[s].sst + 1, i)
  PROVE  Gen!LeadsHome(s, i)
<1> DEFINE c == dict[s].sst
           L == sst[i].ref
<1>1. /\ Len(sst) \in Nat /\ DOMAIN sst = 1..Len(sst) /\ Address \in Int
      /\ MEM_SIZE_IN_BYTE \in Nat
      /\ \A k \in 1..Len(sst) : /\ sst[k].ref \in Int
                                /\ sst[k].type \in Marks => Place(k) \in Int
  BY PlacesTyped
<1>2. /\ PlacesBounded /\ PlacesOrdered /\ LabelsFollowed /\ Holes
      /\ \A k : Behind(k) /\ Filled(k)
      /\ \A k : Placed(k) <=> sst[k].type \in Marks
  BY DEF Layout, Behind, Filled, Placed
<1>18. /\ c \in DOMAIN sst /\ sst[c] = LoadP!Node("COLON", s)
       /\ \E e \in c + 2..Len(sst) :
            /\ sst[e].type = "SEMICOLON" /\ sst[e - 1].type = "RET"
            /\ LoadP!Unbroken(sst, c + 1, e - 1)
  <2>1. LoadP!VisibleWordsComplete /\ DOMAIN dict = 1..Len(dict)
    BY DEF Tree
  <2> QED
    BY <2>1 DEF LoadP!VisibleWordsComplete, LoadP!Visible
<1>3. c \in 1..Len(sst) /\ sst[c].type = "COLON" /\ sst[c].ref = s
  <2>1. LoadP!Node("COLON", s).type = "COLON" /\ LoadP!Node("COLON", s).ref = s
    BY DEF LoadP!Node
  <2> QED
    BY <1>1, <1>18, <2>1
<1>4. PICK e \in c + 2..Len(sst) : /\ sst[e].type = "SEMICOLON" /\ sst[e - 1].type = "RET"
                                  /\ \A k \in c + 1..e - 1 : sst[k].type \notin Boundary
  <2>1. \A a, b : LoadP!Unbroken(sst, a, b) => \A k \in a..b : sst[k].type \notin Boundary
    BY DEF LoadP!Unbroken, LoadP!Boundary, Boundary
  <2> HIDE DEF c
  <2>2. PICK e \in c + 2..Len(sst) : /\ sst[e].type = "SEMICOLON" /\ sst[e - 1].type = "RET"
                                    /\ LoadP!Unbroken(sst, c + 1, e - 1)
    BY <1>18
  <2>3. \A k \in c + 1..e - 1 : sst[k].type \notin Boundary
    BY <2>1, <2>2
  <2> QED
    BY <2>2, <2>3
<1>5. /\ L # NULL /\ Place(i) \in DOMAIN code
      /\ code[Place(i)] = Gen!BranchCode(sst[i].type) + (sst[L].ref % \h2000)
      /\ 0 <= Place(i) /\ Place(i) < Address /\ Place(i) \in Int
      /\ Place(i) = location[i] \div 2
  <2>1. sst[i].type \in Marks
    BY DEF Marks
  <2>2. Place(i) = location[i] \div 2
    BY DEF Place
  <2>3. /\ 0 <= Place(i) /\ Place(i) <= Address /\ Place(i) \in Int
        /\ sst[i].type \in BranchOps => Place(i) < Address
    BY <1>1, <1>2, <2>1 DEF PlacesBounded
  <2>4. /\ L # NULL /\ Place(i) \in DOMAIN code
        /\ code[Place(i)] = Gen!BranchCode(sst[i].type) + (sst[L].ref % \h2000)
    BY <1>2, <2>1 DEF Holes
  <2> QED
    BY <2>2, <2>3, <2>4, SMTT(30)
<1>6. /\ L \in 1..Len(sst) /\ sst[L].type = "LABEL"
      /\ \A k \in i..L : sst[k].type \notin Boundary
      /\ \A k \in L..i : sst[k].type \notin Boundary
  <2>1. LoadP!BranchOps = BranchOps /\ LoadP!Boundary = Boundary /\ LoadP!NULL = NULL
    BY DEF LoadP!BranchOps, BranchOps, LoadP!Boundary, Boundary, LoadP!NULL, NULL
  <2>2. LoadP!IsBranch(i) /\ L # LoadP!NULL
    BY <1>5, <2>1 DEF LoadP!IsBranch
  <2>3. /\ L \in DOMAIN sst /\ sst[L].type = "LABEL"
        /\ LoadP!Unbroken(sst, i, L) /\ LoadP!Unbroken(sst, L, i)
    BY <1>1, <2>2 DEF Tree, LoadP!BranchesStayInWord
  <2>4. \A a, b : LoadP!Unbroken(sst, a, b) => \A k \in a..b : sst[k].type \notin Boundary
    BY <2>1 DEF LoadP!Unbroken
  <2>5. L \in 1..Len(sst)
    BY <1>1, <2>3
  <2> HIDE DEF L
  <2> QED
    BY <2>3, <2>4, <2>5
<1> DEFINE r == e - 1
<1>7. /\ r \in 1..Len(sst) /\ e \in 1..Len(sst) /\ r + 1 = e /\ c < r /\ sst[r].type = "RET"
      /\ sst[e].type = "SEMICOLON"
  <2>1. c \in 1..Len(sst) /\ e \in c + 2..Len(sst) /\ sst[e].type = "SEMICOLON" /\ sst[e - 1].type = "RET"
    BY <1>3, <1>4
  <2> HIDE DEF c
  <2> QED
    BY <1>1, <2>1
<1> HIDE DEF c, L, r
<1>8. c < L
  <2> SUFFICES ASSUME L <= c PROVE FALSE
    BY <1>1, <1>3, <1>6
  <2>1. c \in L..i
    BY <1>1, <1>3, <1>6 DEF c
  <2> QED
    BY <1>3, <1>6, <2>1 DEF Boundary
<1>9. i < e
  <2> SUFFICES ASSUME e <= i PROVE FALSE
    BY <1>1, <1>7
  <2>1. e \in c + 1..i
    BY <1>1, <1>3, <1>7
  <2> QED
    BY <1>7, <2>1 DEF Unbroken, Boundary, c
<1>10. L < e
  <2> SUFFICES ASSUME e <= L PROVE FALSE
    BY <1>1, <1>6, <1>7
  <2>1. e \in i..L
    BY <1>1, <1>6, <1>7, <1>9
  <2> QED
    BY <1>6, <1>7, <2>1 DEF Boundary
<1>11. L < r
  <2>1. L # r
    BY <1>6, <1>7
  <2> QED
    BY <1>1, <1>6, <1>7, <1>10, <2>1
<1>12. /\ Place(L) < Address /\ 2 * Place(L) + 2 <= MEM_SIZE_IN_BYTE + 1
       /\ \A k \in r + 1..Len(sst) : sst[k].type \in Marks => Place(L) < Place(k)
       /\ Place(L) \in Int /\ 0 <= Place(L) /\ Place(L) = sst[L].ref
  <2>1. L \in 1..r - 1 /\ sst[L].type \in Marks
    BY <1>1, <1>6, <1>7, <1>11 DEF Marks
  <2>2. Place(L) = sst[L].ref
    BY <1>6 DEF Place, BranchOps
  <2>3. 0 <= Place(L) /\ Place(L) \in Int
    BY <1>1, <1>2, <1>6, <2>1 DEF PlacesBounded
  <2>4. Behind(r) /\ sst[L].type = "LABEL" /\ sst[r].type = "RET"
    BY <1>2, <1>6, <1>7
  <2>5. r \in 1..Len(sst) /\ L \in 1..r - 1
    BY <1>1, <1>7, <2>1
  <2>6. /\ Place(L) < Address /\ 2 * Place(L) + 2 <= MEM_SIZE_IN_BYTE + 1
        /\ \A k \in r + 1..Len(sst) : Placed(k) => Place(L) < Place(k)
    BY <1>2, <2>4, <2>5 DEF LabelsFollowed
  <2>7. \A k \in r + 1..Len(sst) : sst[k].type \in Marks => Placed(k)
    <3>1. \A k \in r + 1..Len(sst) : k \in 1..Len(sst)
      BY <2>5
    <3> QED
      BY <1>2, <3>1
  <2> QED
    BY <2>2, <2>3, <2>6, <2>7
<1>13. Place(c) = value[s] /\ Place(c) \in Int /\ Place(c) <= Place(i) /\ Place(c) <= Place(L)
  <2>1. sst[c].type \in Marks /\ sst[i].type \in Marks /\ sst[L].type \in Marks
    BY <1>3, <1>6 DEF Marks, Definers
  <2>2. c \in 1..i - 1 /\ c \in 1..L - 1
    BY <1>1, <1>3, <1>6, <1>8 DEF c
  <2>3. Place(c) = value[s]
    BY <1>3 DEF Place, BranchOps
  <2>4. Place(c) \in Int
    BY <1>1, <1>3, <2>1
  <2>7. PlacesOrdered /\ Placed(c) /\ Placed(i) /\ Placed(L)
    BY <1>2, <2>1
  <2>5. Place(c) <= Place(i)
    BY <2>2, <2>7 DEF PlacesOrdered
  <2>6. Place(c) <= Place(L)
    BY <1>6, <2>2, <2>7 DEF PlacesOrdered
  <2> QED
    BY <2>3, <2>4, <2>5, <2>6
<1>14. ASSUME NEW t \in Gen!DefinedBehind(c)
       PROVE  Place(i) < value[t] /\ Place(L) < value[t]
  <2>1. PICK j \in 1..Len(sst) : j > c /\ sst[j].type \in {"COLON", "VARIABLE"} /\ t = sst[j].ref
    BY <1>1 DEF Gen!DefinedBehind
  <2>2. j > e
    <3> SUFFICES ASSUME j <= e PROVE FALSE
      BY <1>1, <1>7, <2>1
    <3>1. j # e
      BY <1>7, <2>1
    <3>2. j \in c + 1..e - 1
      BY <1>1, <1>3, <1>7, <2>1, <3>1
    <3> QED
      BY <1>4, <2>1, <3>2 DEF Boundary
  <2>3. Place(j) = value[t] /\ sst[j].type \in Marks /\ sst[i].type \in Marks
    BY <2>1 DEF Place, BranchOps, Marks, Definers
  <2>4. j \in r + 1..Len(sst) /\ i \in 1..j - 1
    BY <1>1, <1>7, <1>9, <2>1, <2>2
  <2>5. Place(L) < Place(j)
    BY <1>12, <2>3, <2>4
  <2>6. Place(i) < Place(j)
    BY <1>2, <2>3, <2>4 DEF PlacesOrdered
  <2> QED
    BY <2>3, <2>5, <2>6
<1>15. Place(i) \in Gen!Extent(s) /\ Place(L) \in Gen!Extent(s)
  <2>1. Gen!Extent(s) = {a \in value[s]..Address - 1 : \A t \in Gen!DefinedBehind(c) : a < value[t]}
    BY DEF Gen!Extent, Gen!Address, Address, c
  <2>2. Place(i) \in value[s]..Address - 1 /\ Place(L) \in value[s]..Address - 1
    BY <1>1, <1>5, <1>12, <1>13, SMTT(30)
  <2> QED
    BY <1>14, <2>1, <2>2, SMTT(30)
<1>16. /\ code[Place(i)] \div \h2000 = IF sst[i].type = "0BRANCH" THEN 1 ELSE 0
       /\ code[Place(i)] % \h2000 = Place(L)
  <2> DEFINE b == Gen!BranchCode(sst[i].type)
  <2>0. \A n \in Nat : n < 8192 =>
          /\ n % 8192 = n /\ n \div 8192 = 0
          /\ (8192 + n) \div 8192 = 1 /\ (8192 + n) % 8192 = n
    OBVIOUS
  <2>1. sst[L].ref % \h2000 = Place(L) /\ Place(L) < \h2000 /\ Place(L) \in Nat
    <3>1. Place(L) < 8192 /\ Place(L) \in Nat
      <4>1. \A n, m \in Int : 0 <= n /\ 2 * n + 2 <= m + 1 /\ m <= 16384 => n < 8192 /\ n \in Nat
        OBVIOUS
      <4>2. MEM_SIZE_IN_BYTE \in Int /\ MEM_SIZE_IN_BYTE <= 16384
        BY <1>1
      <4>3. Place(L) \in Int /\ 0 <= Place(L) /\ 2 * Place(L) + 2 <= MEM_SIZE_IN_BYTE + 1
        BY <1>1, <1>12
      <4> QED
        BY <4>1, <4>2, <4>3
    <3>2. Place(L) % 8192 = Place(L)
      BY <2>0, <3>1
    <3>3. sst[L].ref = Place(L)
      BY <1>12
    <3> QED
      BY <3>1, <3>2, <3>3
  <2>2. b = IF sst[i].type = "0BRANCH" THEN \h2000 ELSE 0
    BY DEF Gen!BranchCode
  <2>3. code[Place(i)] = b + Place(L)
    BY <1>5, <2>1
  <2> HIDE DEF b
  <2>4. CASE sst[i].type = "0BRANCH"
    <3>1. code[Place(i)] = 8192 + Place(L)
      BY <2>2, <2>3, <2>4
    <3>2. (8192 + Place(L)) \div 8192 = 1 /\ (8192 + Place(L)) % 8192 = Place(L)
      BY <2>0, <2>1, SMTT(30)
    <3> QED
      BY <2>4, <3>1, <3>2
  <2>5. CASE sst[i].type # "0BRANCH"
    <3>1. code[Place(i)] = Place(L)
      BY <1>12, <2>2, <2>3, <2>5
    <3>2. Place(L) \div 8192 = 0 /\ Place(L) % 8192 = Place(L)
      BY <2>0, <2>1
    <3> QED
      BY <2>5, <3>1, <3>2
  <2> QED
    BY <2>4, <2>5
<1>17. Place(L) \in Gen!WordsBehind(L) /\ \A a \in Gen!WordsBehind(L) : Place(L) <= a
  <2>1. Placed(L) /\ Place(L) < Address
    BY <1>2, <1>6, <1>12 DEF Marks
  <2>2. LabelsAhead
    BY DEF Layout
  <2>3. /\ \A k \in L + 1..Len(sst) : \A a \in room[k] : Place(L) <= a
        /\ \E k \in L + 1..Len(sst) : Place(L) \in room[k]
    BY <1>6, <2>1, <2>2 DEF LabelsAhead
  <2>4. {m \in DOMAIN sst : m > L} = L + 1..Len(sst)
    BY <1>1, <1>6
  <2> QED
    BY <2>3, <2>4 DEF Gen!WordsBehind
<1> QED
  <2> DEFINE hole == Place(i)
             goal == Place(L)
  <2>1. location[i] \div 2 = hole /\ code[hole] % \h2000 = goal /\ goal = sst[L].ref
    BY <1>5, <1>12, <1>16
  <2>2. /\ {hole, goal} \subseteq Gen!Extent(s)
        /\ code[hole] \div \h2000 = IF sst[i].type = "0BRANCH" THEN 1 ELSE 0
        /\ goal \in Gen!WordsBehind(L)
        /\ \A a \in Gen!WordsBehind(L) : goal <= a
    BY <1>15, <1>16, <1>17
  <2> HIDE DEF hole, goal
  <2> QED
    BY <2>1, <2>2 DEF Gen!LeadsHome, L

(***************************************************************************)
(* Whatever the file holds, as long as it allots no negative number and    *)
(* the chip has no more than the 0x4000 bytes that QLSOC.h gives it: until *)
(* a word runs (and may store into the code), each branch of a finished    *)
(* word leads to the first instruction behind its label, inside the code   *)
(* of that word.                                                           *)
(***************************************************************************)
THEOREM BranchesLeadHome ==
  ASSUME MEM_SIZE_IN_BYTE <= \h4000
  PROVE  Spec /\ []AllotsForward => [](called = <<>> => BranchesGenerated)
<1>1. Phases /\ Layout => (called = <<>> => BranchesGenerated)
  <2>3. gen # "done" => BranchesGenerated
    BY DEF BranchesGenerated, Gen!BranchesGenerated
  <2> SUFFICES ASSUME Phases, Layout, called = <<>>, gen = "done"
               PROVE  BranchesGenerated
    BY <2>3
  <2>1. Tree /\ GenTyped /\ DOMAIN sst = 1..Len(sst) /\ DOMAIN dict = 1..Len(dict)
    BY DEF Phases, Tree
  <2>2. ASSUME NEW s \in 1..Len(dict), NEW i \in 1..Len(sst),
               dict[s].type = "WORD", ~dict[s].hidden,
               i > dict[s].sst, sst[i].type \in Gen!BranchOps,
               Gen!Unbroken(sst, dict[s].sst + 1, i)
        PROVE  Gen!LeadsHome(s, i)
    <3>1. sst[i].type \in BranchOps /\ Unbroken(sst, dict[s].sst + 1, i)
      BY <2>2 DEF Gen!BranchOps, BranchOps, Gen!Unbroken, Unbroken, Gen!Boundary, Boundary
    <3> QED
      BY <2>1, <2>2, <3>1, BranchWithinWord
  <2> QED
    BY <2>1, <2>2 DEF BranchesGenerated, Gen!BranchesGenerated
<1> QED
  BY <1>1, PhasesStart, PhasesStep, LayoutStart, LayoutStep, PTL DEF Spec

=============================================================================
