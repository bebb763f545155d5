------------------------------ MODULE CodeGen ------------------------------
(***************************************************************************)
(* Code_generation (code.c): the SST of a whole load becomes code for the  *)
(* FPGA J1.  Pass 1 walks the nodes, emits instructions at code_ptr, gives *)
(* every COLON and VARIABLE its address and leaves a hole per branch.      *)
(* Pass 2 walks them again and fills the holes.  One action per node.      *)
(*                                                                         *)
(* code_buffer is a function from word addresses to 16-bit words that      *)
(* holds what was written; the rest of the buffer is 0.  code_ptr counts   *)
(* bytes and is always even.                                               *)
(***************************************************************************)
EXTENDS SyntaxTree, J1Code

CONSTANTS
  MEM_SIZE_IN_BYTE,
  ConstantValues       \* what a CONSTANT may hold

CODE_START == 0

VARIABLES
  sst, dict,     \* what the load left; LABEL nodes receive their address
  gen,           \* "idle", "emit" (pass 1), "patch" (pass 2), "done", or the
                 \* way the generation broke down
  node,          \* sst: the index of the node a pass has reached
  code_ptr,
  code,
  location,      \* SSTNode.location of the branch nodes
  value,         \* Symbol.value of each symbol of dict
  room           \* history: the words of code_buffer that each node was given

vars == <<sst, dict, gen, node, code_ptr, code, location, value, room>>

Broken == {"crashed",    \* dereferenced the NULL of an open branch
           "lost",       \* longjmp to the interpreter frame that has returned
           "overrun"}    \* wrote outside code_buffer

-----------------------------------------------------------------------------

\* The words that DO, LOOP, LEAVE and NEXT call; the file must define them.
RuntimeWord == [DO |-> "(DO)", LOOP |-> "(LOOP)", LEAVE |-> "(LEAVE)", NEXT |-> "(NEXT)"]

Ahead == node + 1 \in DOMAIN sst /\ sst[node + 1].type = "RET"

-----------------------------------------------------------------------------
(* Steps of pass 1. *)

\* Symbols and nodes come zeroed; a constant holds what the file gave it.
Begin ==
  /\ gen = "idle"
  /\ gen' = "emit"
  /\ node' = 1
  /\ code_ptr' = CODE_START + 2
  /\ location' = [n \in DOMAIN sst |-> 0]
  /\ \E c \in [DOMAIN dict -> ConstantValues] :
       value' = [s \in DOMAIN dict |-> IF dict[s].type = "CONSTANT" THEN c[s] ELSE 0]
  /\ room' = [n \in DOMAIN sst |-> {}]
  /\ UNCHANGED <<sst, dict, code>>

Emitting(types) == gen = "emit" /\ node \in DOMAIN sst /\ sst[node].type \in types

Break(how) ==
  /\ gen' = how
  /\ UNCHANGED <<sst, dict, node, code_ptr, code, location, value, room>>

\* The node is given words of the buffer, wherever code_ptr goes.
Takes(words) == room' = [room EXCEPT ![node] = @ \cup words]

InBuffer(address, count) ==
  count > 0 => address >= 0 /\ address + 2 * count <= MEM_SIZE_IN_BYTE + 1

\* code with words written from the word address a on.
Put(words, a) ==
  LET last == a + Len(words) - 1 IN
  [b \in DOMAIN code \cup a..last |-> IF b \in a..last THEN words[b - a + 1] ELSE code[b]]

\* Emits words at code_ptr and goes on with the node after n.
Write(words, n) ==
  \/ /\ InBuffer(code_ptr, Len(words))
     /\ code' = Put(words, code_ptr \div 2)
     /\ code_ptr' = code_ptr + 2 * Len(words)
     /\ node' = n + 1
     /\ Takes(code_ptr \div 2..code_ptr \div 2 + Len(words) - 1)
     /\ UNCHANGED <<sst, dict, gen, location, value>>
  \/ ~InBuffer(code_ptr, Len(words)) /\ Break("overrun")

Folding(op, val) == Ahead /\ Folds(op, val)

\* A node's words; code_with_possible_ret swallows a RET that follows.
Compile(op, val) ==
  \/ Folding(op, val) /\ Write(Encoded(op, val, TRUE), node + 1)
  \/ ~Folding(op, val) /\ Write(Encoded(op, val, FALSE), node)

Address == code_ptr \div 2

MutVariable ==
  /\ Emitting({"VARIABLE"})
  /\ value' = [value EXCEPT ![sst[node].ref] = Address]
  /\ node' = node + 1
  /\ Takes({Address})
  /\ UNCHANGED <<sst, dict, gen, code_ptr, code, location>>

emit_VARIABLE ==
  /\ Emitting({"VARIABLE"})
  /\ value' = [value EXCEPT ![sst[node].ref] = Address]
  /\ code_ptr' = code_ptr + 2
  /\ node' = node + 1
  /\ Takes({Address})
  /\ UNCHANGED <<sst, dict, gen, code, location>>

emit_COLON ==
  /\ Emitting({"COLON"})
  /\ value' = [value EXCEPT ![sst[node].ref] = Address]
  /\ node' = node + 1
  /\ UNCHANGED <<sst, dict, gen, code_ptr, code, location, room>>

emit_SEMICOLON == Emitting({"SEMICOLON"}) /\ Write(<<>>, node)

emit_LITERAL == Emitting({"LITERAL"}) /\ Compile("LITERAL", sst[node].ref)

emit_ALLOT ==
  /\ Emitting({"ALLOT"})
  /\ LET moved == code_ptr + sst[node].ref IN code_ptr' = moved + (moved % 2)
  /\ node' = node + 1
  /\ Takes(Address..(code_ptr + sst[node].ref - 1) \div 2)
  /\ UNCHANGED <<sst, dict, gen, code, location, value>>

emit_VAR_REF ==
  Emitting({"VAR_REF"}) /\ Write(<<\h8000 + (value[sst[node].ref] % \h2000)>>, node)

emit_WORD_REF ==
  Emitting({"WORD_REF"}) /\ Write(<<Call(value[sst[node].ref])>>, node)

emit_LABEL ==
  /\ Emitting({"LABEL"})
  /\ sst' = [sst EXCEPT ![node].ref = Address]
  /\ node' = node + 1
  /\ UNCHANGED <<dict, gen, code_ptr, code, location, value, room>>

\* The branch is only given room; pass 2 writes it.
emit_BRANCH ==
  /\ Emitting(BranchOps)
  /\ location' = [location EXCEPT ![node] = code_ptr]
  /\ code_ptr' = code_ptr + 2
  /\ node' = node + 1
  /\ Takes({Address})
  /\ UNCHANGED <<sst, dict, gen, code, value>>

\* alu_code_packet.
emit_alu ==
  /\ Emitting(Foldable \cup Fixed)
  /\ Compile(sst[node].type, NULL)

Newest(s) ==
  /\ ~dict[s].hidden
  /\ \A t \in DOMAIN dict : t > s /\ dict[t].name = dict[s].name => dict[t].hidden

\* code_ref_word: the runtime word is searched for by name, now.
emit_runtime ==
  /\ Emitting(DOMAIN RuntimeWord)
  /\ LET Found(s) == dict[s].name = RuntimeWord[sst[node].type] /\ Newest(s) IN
       \/ \E s \in DOMAIN dict : Found(s) /\ Write(<<Call(value[s])>>, node)
       \/ (\A s \in DOMAIN dict : ~Found(s)) /\ Break("lost")

-----------------------------------------------------------------------------
(* Steps of pass 2. *)

BeginPatch ==
  /\ gen = "emit" /\ node \notin DOMAIN sst
  /\ gen' = "patch"
  /\ node' = 1
  /\ UNCHANGED <<sst, dict, code_ptr, code, location, value, room>>

MutTarget == sst[sst[node].ref].ref + 1

\* The address that pass 1 left in the label the branch refers to.
Target == sst[sst[node].ref].ref

patch_branch ==
  /\ gen = "patch" /\ node \in DOMAIN sst /\ sst[node].type \in BranchOps
  /\ \/ sst[node].ref = NULL /\ Break("crashed")
     \/ sst[node].ref # NULL /\ ~InBuffer(location[node], 1) /\ Break("overrun")
     \/ /\ sst[node].ref # NULL /\ InBuffer(location[node], 1)
        /\ code' = Put(<<BranchCode(sst[node].type) + (Target % \h2000)>>, location[node] \div 2)
        /\ node' = node + 1
        /\ Takes({location[node] \div 2})
        /\ UNCHANGED <<sst, dict, gen, code_ptr, location, value>>

patch_other ==
  /\ gen = "patch" /\ node \in DOMAIN sst /\ sst[node].type \notin BranchOps
  /\ node' = node + 1
  /\ UNCHANGED <<sst, dict, gen, code_ptr, code, location, value, room>>

Finish ==
  /\ gen = "patch" /\ node \notin DOMAIN sst
  /\ gen' = "done"
  /\ UNCHANGED <<sst, dict, node, code_ptr, code, location, value, room>>

-----------------------------------------------------------------------------

Emit ==
  \/ emit_VARIABLE \/ emit_COLON \/ emit_SEMICOLON \/ emit_LITERAL \/ emit_ALLOT
  \/ emit_VAR_REF \/ emit_WORD_REF \/ emit_LABEL \/ emit_BRANCH
  \/ emit_alu \/ emit_runtime

Patch == patch_branch \/ patch_other

Next == Begin \/ Emit \/ BeginPatch \/ Patch \/ Finish

-----------------------------------------------------------------------------
(* Properties. *)

(***************************************************************************)
(* No two nodes share a word of code_buffer: the instructions, the holes   *)
(* of the branches (pass 2 writes them), the cells of the variables and    *)
(* the room of ALLOT all lie apart.                                        *)
(***************************************************************************)
NodesApart == \A i, j \in DOMAIN room : i # j => room[i] \cap room[j] = {}

\* Symbols whose COLON or VARIABLE node lies behind node n.
DefinedBehind(n) ==
  {sst[i].ref : i \in {j \in DOMAIN sst : j > n /\ sst[j].type \in {"COLON", "VARIABLE"}}}

\* The addresses between the definition of word s and the next definition.
Extent(s) ==
  {a \in value[s]..Address - 1 : \A t \in DefinedBehind(dict[s].sst) : a < value[t]}

\* The words of the nodes behind node n.
WordsBehind(n) == UNION {room[k] : k \in {m \in DOMAIN sst : m > n}}

\* Branch i goes from a hole in word s to its own label, where the first
\* instruction behind the label stands, in s too.
LeadsHome(s, i) ==
  LET hole == location[i] \div 2
      goal == code[hole] % \h2000
      label == sst[i].ref
  IN
    /\ {hole, goal} \subseteq Extent(s)
    /\ code[hole] \div \h2000 = IF sst[i].type = "0BRANCH" THEN 1 ELSE 0
    /\ goal = sst[label].ref
    /\ goal \in WordsBehind(label)
    /\ \A a \in WordsBehind(label) : goal <= a

(***************************************************************************)
(* Generated branches stay in their word: each leads to the address of its *)
(* own label, which is that of the first instruction behind the label and  *)
(* lies inside the code of the definition the branch was compiled in.      *)
(***************************************************************************)
BranchesGenerated ==
  gen = "done" =>
    \A s \in DOMAIN dict, i \in DOMAIN sst :
      /\ dict[s].type = "WORD" /\ ~dict[s].hidden
      /\ i > dict[s].sst /\ sst[i].type \in BranchOps
      /\ Unbroken(sst, dict[s].sst + 1, i)
      => LeadsHome(s, i)

\* What a word of the program holds.
Fetched(a) == IF a \in DOMAIN code THEN code[a] ELSE 0

=============================================================================
