---------------------------- MODULE StoreProofs ----------------------------
(***************************************************************************)
(* The proof, for every value of the constants, that ColonCompiler         *)
(* implements WordStore.                                                   *)
(*                                                                         *)
(* A step of the load is a step of the store in one of three ways: ; and   *)
(* VARIABLE and CONSTANT publish one definition; the token that ends the   *)
(* load ends it; every other token leaves the library as it is.  So the    *)
(* proof has two halves: what is published stays (SamePublished), and what *)
(* ; publishes is closed and bound (RevealsClosed).                        *)
(***************************************************************************)
EXTENDS WordProofs, PublishedWords, FiniteSetTheorems

\* The definition being compiled, or left by a failed load, is the newest
\* symbol and the only hidden one.
HiddenIsOpen ==
  /\ creating # NULL => creating = Len(dict)
  /\ \A s \in 1..Len(dict) : dict[s].hidden <=> s = creating

\* A node that names a symbol names the newest one of its name.
Bound(symbols, node) ==
  /\ node.ref \in 1..Len(symbols) - 1
  /\ symbols[node.ref].type \in {"WORD", "VARIABLE"}
  /\ node.type = RefType(symbols[node.ref].type)
  /\ \A t \in node.ref + 1..Len(symbols) - 1 : symbols[t].name # symbols[node.ref].name

\* No symbol is entered while a definition is open, so what its nodes were
\* bound to is still the newest when ; publishes it.
NamesBound ==
  Compiling => \A i \in Start + 1..Len(sst) :
    sst[i].type \in {"WORD_REF", "VAR_REF"} => Bound(dict, sst[i])

\* : hides its symbol, ; reveals it and no other token changes one.
LEMMA StepHides == IInv /\ HiddenIsOpen /\ [Next]_vars => HiddenIsOpen'
<1> SUFFICES ASSUME IInv, HiddenIsOpen, [Next]_vars
             PROVE  HiddenIsOpen'
  OBVIOUS
<1>1. Grows \/ Reveals \/ Enters \/ Rests
  BY StepShape
<1>2. CASE Grows \/ Rests
  BY <1>2 DEF Grows, Rests, HiddenIsOpen
<1>3. CASE Reveals
  <2>1. creating' = NULL /\ Len(dict') = Len(dict) /\ Len(dict) \in Nat
    <3>1. dict \in Seq(Symbol(Names))
      BY DEF IInv, TypeOK
    <3> QED
      BY <1>3, <3>1 DEF Reveals
  <2>2. ASSUME NEW s \in 1..Len(dict)
        PROVE  ~dict'[s].hidden
    BY <1>3, <2>2, Symbols DEF HiddenIsOpen
  <2> QED
    BY <2>1, <2>2, StepKeeps DEF HiddenIsOpen, NULL
<1>4. CASE Enters
  <2>1. creating = NULL /\ dict \in Seq(Symbol(Names)) /\ Len(dict) \in Nat
    BY <1>4 DEF Enters, IInv, OpenDefinition, TypeOK
  <2>2. PICK symbol \in Symbol(Names) :
          /\ dict' = Append(dict, symbol) /\ symbol.hidden = (symbol.type = "WORD")
          /\ creating' = IF symbol.type = "WORD" THEN Len(dict') ELSE NULL
    BY <1>4 DEF Enters
  <2>3. /\ Len(dict') = Len(dict) + 1 /\ dict'[Len(dict) + 1] = symbol
        /\ \A s \in 1..Len(dict) : dict'[s] = dict[s]
    BY <2>2, NewSymbol
  <2>4. ASSUME NEW s \in 1..Len(dict')
        PROVE  dict'[s].hidden <=> s = creating'
    <3>1. CASE s = Len(dict) + 1
      <4>1. dict'[s].hidden <=> symbol.type = "WORD"
        BY <2>2, <2>3, <3>1
      <4>2. s = creating' <=> symbol.type = "WORD"
        BY <2>1, <2>2, <2>3, <3>1 DEF NULL
      <4> QED
        BY <4>1, <4>2
    <3>2. CASE s \in 1..Len(dict)
      <4>1. ~dict[s].hidden
        BY <2>1, <3>2 DEF HiddenIsOpen, NULL
      <4>2. s # creating'
        BY <2>1, <2>2, <2>3, <3>2 DEF NULL
      <4> QED
        BY <2>3, <3>2, <4>1, <4>2
    <3> QED
      BY <2>1, <2>3, <3>1, <3>2
  <2> QED
    BY <2>2, <2>4 DEF HiddenIsOpen
<1> QED
  BY <1>1, <1>2, <1>3, <1>4

\* A reference is bound to the newest symbol when it is compiled.
LEMMA StepBinds == IInv /\ HiddenIsOpen /\ NamesBound /\ [Next]_vars => NamesBound'
<1> SUFFICES ASSUME IInv, HiddenIsOpen, NamesBound, [Next]_vars, Compiling',
                    NEW i \in Start' + 1..Len(sst'), sst'[i].type \in {"WORD_REF", "VAR_REF"}
             PROVE  Bound(dict', sst'[i])
  BY DEF NamesBound
<1>1. IInv' /\ (Grows \/ Reveals \/ Enters \/ Rests)
  BY StepKeeps, StepShape
<1>2. CASE Grows
  <2>1. /\ Compiling /\ dict' = dict /\ creating' = creating /\ Start' = Start
        /\ creating = Len(dict) /\ dict \in Seq(Symbol(Names))
        /\ Start \in 1..Len(sst) /\ Len(sst) \in Nat /\ Len(sst') \in Nat
    BY <1>2, GrowthUnbroken DEF Grows, Start, IInv, OpenDefinition, TypeOK
  <2>2. CASE i \in 1..Len(sst)
    <3>1. sst'[i] = sst[i]
      BY <1>2, <1>1, <2>2, OldNodes DEF Hanging, BranchOps
    <3> QED
      BY <2>1, <2>2, <3>1 DEF NamesBound
  <2>3. CASE i \in Len(sst) + 1..Len(sst')
    <3> DEFINE r == sst'[i].ref
    <3>1. /\ r \in DOMAIN dict /\ Finds(dict[r].name, r)
          /\ sst'[i].type = RefType(dict[r].type) /\ dict[r].type \in {"WORD", "VARIABLE"}
      BY <1>2, <2>3 DEF Grows, Grown, CompiledNode
    <3>2. r \in 1..Len(dict) - 1
      BY <2>1, <3>1 DEF Finds, Visible, HiddenIsOpen
    <3>3. ASSUME NEW t \in r + 1..Len(dict) - 1
          PROVE  dict[t].name # dict[r].name
      <4>1. t \in DOMAIN dict /\ t > r /\ ~dict[t].hidden
        BY <2>1, <3>2 DEF HiddenIsOpen
      <4> QED
        BY <3>1, <4>1 DEF Finds, Visible
    <3> QED
      BY <2>1, <3>1, <3>2, <3>3 DEF Bound
  <2> QED
    BY <2>1, <2>2, <2>3
<1>3. CASE Reveals \/ Enters
  BY <1>1, <1>3, FreshDefinition
<1>4. CASE Rests
  BY <1>4 DEF Rests, Compiling, NamesBound, Start
<1> QED
  BY <1>1, <1>2, <1>3, <1>4

-----------------------------------------------------------------------------
(* What is published stays. *)

Count == Cardinality(Published)

Entry(s) == [name |-> dict[s].name, type |-> dict[s].type, code |-> Code(s)]

\* The published symbols are all but the one that is open.
LEMMA Counted ==
  ASSUME NEW n \in Nat, NEW c \in 0..n, c # 0 => c = n
  PROVE  Cardinality({s \in 1..n : s # c}) = IF c = 0 THEN n ELSE n - 1
<1> DEFINE S == {s \in 1..n : s # c}
<1>1. CASE c = 0
  <2>1. S = 1..n
    BY <1>1
  <2>2. Cardinality(1..n) = IF 1 > n THEN 0 ELSE n - 1 + 1
    BY FS_Interval
  <2> HIDE DEF S
  <2>3. Cardinality(S) = Cardinality(1..n)
    BY <2>1
  <2>4. Cardinality(S) = n
    BY <2>2, <2>3
  <2> QED
    BY <1>1, <2>4 DEF S
<1>2. CASE c = n /\ c # 0
  <2>1. S = 1..n - 1
    BY <1>2
  <2>2. n - 1 \in Int
    OBVIOUS
  <2>3. Cardinality(1..n - 1) = IF 1 > n - 1 THEN 0 ELSE (n - 1) - 1 + 1
    BY <2>2, FS_Interval
  <2> HIDE DEF S
  <2>4. Cardinality(S) = Cardinality(1..n - 1)
    BY <2>1
  <2>5. Cardinality(S) = n - 1
    BY <1>2, <2>3, <2>4
  <2> QED
    BY <1>2, <2>5 DEF S
<1> QED
  BY <1>1, <1>2

\* The same, of this state and the next.
LEMMA CountIs ==
  /\ IInv /\ HiddenIsOpen => Count = IF creating = NULL THEN Len(dict) ELSE Len(dict) - 1
  /\ IInv' /\ HiddenIsOpen' => Count' = IF creating' = NULL THEN Len(dict') ELSE Len(dict') - 1
<1>1. ASSUME IInv, HiddenIsOpen
      PROVE  Count = IF creating = NULL THEN Len(dict) ELSE Len(dict) - 1
  <2>1. /\ Len(dict) \in Nat /\ creating \in 0..Len(dict) /\ (creating # 0 => creating = Len(dict))
        /\ DOMAIN dict = 1..Len(dict)
    BY <1>1 DEF IInv, TypeOK, HiddenIsOpen, NULL
  <2>2. Published = {s \in 1..Len(dict) : s # creating}
    BY <2>1 DEF Published
  <2> QED
    BY <2>1, <2>2, Counted DEF Count, NULL
<1>2. ASSUME IInv', HiddenIsOpen'
      PROVE  Count' = IF creating' = NULL THEN Len(dict') ELSE Len(dict') - 1
  <2>1. /\ Len(dict') \in Nat /\ creating' \in 0..Len(dict') /\ (creating' # 0 => creating' = Len(dict'))
        /\ DOMAIN dict' = 1..Len(dict')
    BY <1>2 DEF IInv, TypeOK, HiddenIsOpen, NULL
  <2>2. Published' = {s \in 1..Len(dict') : s # creating'}
    BY <2>1 DEF Published
  <2> QED
    BY <2>1, <2>2, Counted DEF Count, NULL
<1> QED
  BY <1>1, <1>2

\* Where PublishedWords finds the last node of the word that begins at first.
Extent(nodes, first) ==
  CHOOSE e \in first - 1..Len(nodes) :
    /\ e + 1 \in DOMAIN nodes => nodes[e + 1].type \in Boundary
    /\ Unbroken(nodes, first, e)

\* A complete word extends to the node before its SEMICOLON.
LEMMA ExtentOf ==
  ASSUME NEW nodes \in Seq(SSTNode), NEW s, NEW start, NEW e, Complete(nodes, s, start, e)
  PROVE  Extent(nodes, start + 1) = e - 1
<1> DEFINE Ends(x) == /\ x + 1 \in DOMAIN nodes => nodes[x + 1].type \in Boundary
                      /\ Unbroken(nodes, start + 1, x)
<1>1. /\ start \in 1..Len(nodes) /\ e \in start + 2..Len(nodes) /\ Len(nodes) \in Nat
      /\ nodes[e].type \in Boundary
      /\ \A k \in start + 1..e - 1 : nodes[k].type \notin Boundary
  BY DEF Complete, Unbroken, Boundary
<1>2. e - 1 \in (start + 1) - 1..Len(nodes) /\ (e - 1) + 1 = e
  BY <1>1
<1>3. Ends(e - 1)
  BY <1>1, <1>2 DEF Unbroken
<1>4. ASSUME NEW x \in (start + 1) - 1..Len(nodes), Ends(x)
      PROVE  x = e - 1
  <2>1. CASE x + 1 <= e - 1
    <3>1. x + 1 \in start + 1..e - 1 /\ x + 1 \in DOMAIN nodes
      BY <1>1, <2>1
    <3> QED
      BY <1>1, <1>4, <3>1
  <2>2. CASE x >= e
    <3>1. e \in start + 1..x
      BY <1>1, <2>2
    <3> QED
      BY <1>1, <1>4, <3>1 DEF Unbroken
  <2> QED
    BY <1>1, <2>1, <2>2
<1> HIDE DEF Ends
<1>5. (CHOOSE x \in (start + 1) - 1..Len(nodes) : Ends(x)) = e - 1
  BY <1>2, <1>3, <1>4
<1> QED
  BY <1>5 DEF Extent, Ends

\* A finished word lies before the definition being compiled.
LEMMA FinishedBefore ==
  ASSUME IInv, Compiling, NEW s, s # creating, NEW first, NEW e, Complete(sst, s, first, e)
  PROVE  e < Start
<1>1. /\ Start \in 1..Len(sst) /\ Len(sst) \in Nat /\ sst[Start] = Node("COLON", creating)
      /\ \A i \in Start + 1..Len(sst) : sst[i].type \notin Boundary
  BY WhileCompiling DEF IInv, OpenDefinition, Unbroken
<1>2. /\ first \in 1..Len(sst) /\ e \in first + 2..Len(sst)
      /\ sst[first] = Node("COLON", s) /\ sst[e].type = "SEMICOLON"
      /\ \A i \in first + 1..e - 1 : sst[i].type \notin Boundary
  BY DEF Complete, Unbroken
<1>3. /\ Node("COLON", creating).type = "COLON" /\ Node("COLON", creating).ref = creating
      /\ Node("COLON", s).ref = s
      /\ {"COLON", "SEMICOLON"} \subseteq Boundary
  BY DEF Node, Boundary
<1>4. e # Start /\ first # Start
  BY <1>1, <1>2, <1>3
<1>5. ~(Start \in first + 1..e - 1)
  BY <1>1, <1>2, <1>3
<1>6. ~(e \in Start + 1..Len(sst))
  BY <1>1, <1>2, <1>3
<1> QED
  BY <1>1, <1>2, <1>4, <1>5, <1>6

\* No token changes the code of a published word.
LEMMA OldCode ==
  ASSUME IInv, IInv', HiddenIsOpen, VisibleWordsComplete, Grows \/ Reveals \/ Enters \/ Rests,
         NEW s \in 1..Len(dict), s # creating
  PROVE  Code(s)' = Code(s)
<1>1. dict'[s].type = dict[s].type /\ dict'[s].sst = dict[s].sst
  BY Symbols
<1>2. CASE dict[s].type # "WORD"
  BY <1>1, <1>2 DEF Code
<1>3. CASE dict[s].type = "WORD"
  <2> DEFINE start == dict[s].sst
  <2>1. PICK e \in start + 2..Len(sst) : Complete(sst, s, start, e)
    <3>1. DOMAIN sst = 1..Len(sst) /\ DOMAIN dict = 1..Len(dict)
      BY DEF IInv, TypeOK
    <3>2. ~dict[s].hidden
      BY DEF HiddenIsOpen
    <3> QED
      BY <1>3, <3>1, <3>2 DEF VisibleWordsComplete, Visible, Complete
  <2>2. Complete(sst', s, start, e)
    BY <2>1, StaysComplete
  <2>3. sst \in Seq(SSTNode) /\ sst' \in Seq(SSTNode)
    BY DEF IInv, TypeOK
  <2>4. Extent(sst, start + 1) = e - 1 /\ Extent(sst', start + 1) = e - 1
    BY <2>1, <2>2, <2>3, ExtentOf
  <2>5. Last(s) = e - 1 /\ Last(s)' = e - 1
    BY <1>1, <2>4 DEF Last, First, Extent
  <2>6. ASSUME NEW i \in 1..(e - 1) - start
        PROVE  sst'[start + i] = sst[start + i]
    <3>0. Len(sst) \in Nat /\ start \in 1..Len(sst) /\ e \in start + 2..Len(sst)
      BY <2>1, <2>3 DEF Complete
    <3>1. start + i \in 1..Len(sst) /\ start + i < e /\ e \in Nat
      BY <3>0
    <3>2. ASSUME Compiling
          PROVE  ~(start + i > Start)
      <4>1. e < Start /\ Start \in Nat
        BY <2>1, <3>2, FinishedBefore, WhileCompiling
      <4> QED
        BY <3>1, <4>1
    <3> QED
      BY <3>1, <3>2, OldNodes DEF Grows
  <2>7. Code(s) = [i \in 1..(e - 1) - start |-> Relative(s, sst[start + i])]
    BY <1>3, <2>5 DEF Code
  <2>8. Code(s)' = [i \in 1..(e - 1) - start |-> Relative(s, sst[start + i])]
    BY <1>1, <1>3, <2>5, <2>6 DEF Code, Relative
  <2> QED
    BY <2>7, <2>8
<1> QED
  BY <1>2, <1>3

-----------------------------------------------------------------------------
(* The library as a sequence. *)

\* A function on 1..n is a sequence, and one more value appends to it.
LEMMA OneMore ==
  ASSUME NEW n \in Nat, NEW f, f = [i \in 1..n |-> f[i]],
         NEW g, g = [i \in 1..n + 1 |-> g[i]], \A i \in 1..n : g[i] = f[i]
  PROVE  Len(f) = n /\ Len(g) = n + 1 /\ g = Append(f, g[n + 1])
<1>0. n + 1 \in Nat /\ 1..n \subseteq 1..n + 1 /\ n + 1 \in 1..n + 1
      /\ \A i \in 1..n + 1 : i \in 1..n \/ i = n + 1
  OBVIOUS
<1> DEFINE S == {f[i] : i \in 1..n} \cup {g[i] : i \in 1..n + 1}
<1>1. f \in Seq(S) /\ Len(f) = n
  OBVIOUS
<1>2. g \in Seq(S) /\ Len(g) = n + 1
  OBVIOUS
<1>3. g[n + 1] \in S
  OBVIOUS
<1> HIDE DEF S
<1>4. /\ Append(f, g[n + 1]) \in Seq(S) /\ Len(Append(f, g[n + 1])) = n + 1
      /\ \A i \in 1..n : Append(f, g[n + 1])[i] = f[i]
      /\ Append(f, g[n + 1])[n + 1] = g[n + 1]
  BY <1>1, <1>3, AppendNode
<1>5. \A i \in 1..n + 1 : Append(f, g[n + 1])[i] = g[i]
  BY <1>0, <1>4
<1> QED
  BY <1>1, <1>2, <1>4, <1>5

\* A token that publishes nothing leaves the library as it is.
LEMMA LibraryStays ==
  ASSUME IInv, IInv', HiddenIsOpen, VisibleWordsComplete, Grows \/ Reveals \/ Enters \/ Rests,
         Count' = Count
  PROVE  Library' = Library
<1>1. ASSUME NEW s \in 1..Count
      PROVE  Entry(s)' = Entry(s)
  <2>1. Len(dict) \in Nat /\ (creating # NULL => creating = Len(dict))
    BY DEF IInv, TypeOK, HiddenIsOpen
  <2>2. Count = IF creating = NULL THEN Len(dict) ELSE Len(dict) - 1
    BY CountIs
  <2>3. s \in 1..Len(dict) /\ s # creating
    BY <2>1, <2>2 DEF NULL
  <2> QED
    BY <2>3, OldCode, Symbols DEF Entry
<1>2. Library = [s \in 1..Count |-> Entry(s)] /\ Library' = [s \in 1..Count' |-> Entry(s)']
  BY DEF Library, Count, Entry
<1> QED
  BY <1>1, <1>2

\* One that publishes appends one entry.
LEMMA LibraryGrows ==
  ASSUME IInv, IInv', HiddenIsOpen, VisibleWordsComplete, Grows \/ Reveals \/ Enters \/ Rests,
         NEW n \in Nat, Count = n, Count' = n + 1
  PROVE  /\ Len(Library) = n /\ Len(Library') = n + 1
         /\ Library'[n + 1] = Entry(n + 1)'
         /\ Library' = Append(Library, Library'[n + 1])
<1>1. ASSUME NEW s \in 1..n
      PROVE  Entry(s)' = Entry(s)
  <2>1. Len(dict) \in Nat /\ (creating # NULL => creating = Len(dict))
    BY DEF IInv, TypeOK, HiddenIsOpen
  <2>2. Count = IF creating = NULL THEN Len(dict) ELSE Len(dict) - 1
    BY CountIs
  <2>3. s \in 1..Len(dict) /\ s # creating
    BY <2>1, <2>2 DEF NULL
  <2> QED
    BY <2>3, OldCode, Symbols DEF Entry
<1>2. Library = [s \in 1..n |-> Entry(s)] /\ Library' = [s \in 1..n + 1 |-> Entry(s)']
  BY DEF Library, Count, Entry
<1>3. \A s \in 1..n : Library[s] = Entry(s)
  BY <1>2
<1>4. \A s \in 1..n + 1 : Library'[s] = Entry(s)'
  BY <1>2
<1>5. Library = [s \in 1..n |-> Library[s]] /\ Library' = [s \in 1..n + 1 |-> Library'[s]]
  BY <1>2, <1>3, <1>4
<1>6. \A s \in 1..n : Library'[s] = Library[s]
  BY <1>1, <1>3, <1>4
<1>7. n + 1 \in 1..n + 1
  OBVIOUS
<1> HIDE DEF Library, Entry
<1> QED
  BY <1>4, <1>5, <1>6, <1>7, OneMore

-----------------------------------------------------------------------------
(* What ; publishes. *)

\* A node of a word's code, its references made relative to start.
Moved(node, start) ==
  IF node.type \in InCode THEN [node EXCEPT !.ref = node.ref - start] ELSE node

\* Moving a node changes nothing but a branch's or a loop's reference.
LEMMA MovedNode ==
  ASSUME NEW node \in SSTNode, NEW start \in Int
  PROVE  /\ Moved(node, start).type = node.type
         /\ node.type \in InCode => Moved(node, start).ref = node.ref - start
         /\ node.type \notin InCode => Moved(node, start) = node
BY DEF Moved, SSTNode

\* What can be reached from a word's code without leaving it lies in its code.
LEMMA InsideWord ==
  ASSUME NEW nodes \in Seq(SSTNode), NEW s, NEW start, NEW e, Complete(nodes, s, start, e),
         NEW i \in start + 1..e - 1, NEW r \in 1..Len(nodes),
         Unbroken(nodes, i, r), Unbroken(nodes, r, i), nodes[r].type \notin Boundary
  PROVE  r \in start + 1..e - 1
<1>1. /\ start \in 1..Len(nodes) /\ e \in start + 2..Len(nodes) /\ Len(nodes) \in Nat
      /\ nodes[start].type \in Boundary /\ nodes[e].type \in Boundary
  <2>1. Node("COLON", s).type = "COLON" /\ {"COLON", "SEMICOLON"} \subseteq Boundary
    BY DEF Node, Boundary
  <2> QED
    BY <2>1 DEF Complete
<1>2. r # start /\ r # e
  BY <1>1
<1>3. ~(start \in r..i) /\ ~(e \in i..r)
  BY <1>1 DEF Unbroken
<1> QED
  BY <1>1, <1>2, <1>3

\* The code of the word that ; reveals.
LEMMA RevealedCode ==
  ASSUME IInv, IInv', Reveals, NEW s, s = creating, NEW start, start = Start,
         NEW n, n = Len(sst) + 1 - Start
  PROVE  /\ n \in Nat /\ n # 0 /\ start \in Nat /\ s \in 1..Len(dict)
         /\ Complete(sst', s, start, start + n + 1)
         /\ Code(s)' = [i \in 1..n |-> Moved(sst'[start + i], start)]
<1>1. Compiling /\ Start \in 1..Len(sst) /\ Len(sst) \in Nat /\ s \in 1..Len(dict)
      /\ dict[s].type = "WORD" /\ dict[s].sst = start
  BY WhileCompiling DEF Reveals, IInv, OpenDefinition, TypeOK, Start
<1>2. Complete(sst', s, start, start + n + 1) /\ (start + n + 1) - 1 - start = n
  BY <1>1, RevealsComplete
<1>3. dict'[s].type = "WORD" /\ dict'[s].sst = start
  BY <1>1, Symbols
<1>4. Extent(sst', start + 1) = (start + n + 1) - 1
  BY <1>2, ExtentOf DEF IInv, TypeOK
<1>5. Last(s)' = (start + n + 1) - 1
  BY <1>3, <1>4 DEF Last, First, Extent
<1>6. Code(s)' = [i \in 1..n |-> Moved(sst'[start + i], start)]
  BY <1>2, <1>3, <1>5 DEF Code, Relative, Moved
<1> QED
  BY <1>1, <1>2, <1>6

\* The store's node types are those of the load.
LEMMA StoreTerms ==
  /\ Store!Boundary = Boundary
  /\ DOMAIN Store!TargetType = BranchOps \cup DOMAIN LoopOpener
  /\ \A t \in BranchOps : Store!TargetType[t] = "LABEL"
  /\ \A t \in DOMAIN LoopOpener : Store!TargetType[t] = LoopOpener[t]
  /\ DOMAIN Store!ReferredType = {"WORD_REF", "VAR_REF"}
  /\ Store!ReferredType["WORD_REF"] = "WORD" /\ Store!ReferredType["VAR_REF"] = "VARIABLE"
<1>1. /\ Store!Boundary = Boundary /\ Store!BranchOps = BranchOps
      /\ Store!LoopOpener = LoopOpener
  BY DEF Store!Boundary, Boundary, Store!BranchOps, BranchOps, Store!LoopOpener, LoopOpener
<1>2. \A t \in DOMAIN LoopOpener : t \notin BranchOps
  BY LoopWords DEF BranchOps
<1>3. Store!TargetType = [t \in BranchOps \cup DOMAIN LoopOpener |->
                            IF t \in BranchOps THEN "LABEL" ELSE LoopOpener[t]]
  BY <1>1 DEF Store!TargetType
<1> QED
  BY <1>1, <1>2, <1>3 DEF Store!ReferredType

\* It is closed: its branches and loops stay inside it and its names are the
\* newest of the library.
LEMMA RevealsClosed ==
  ASSUME IInv, IInv', HiddenIsOpen, NamesBound, VisibleWordsComplete,
         OpenBranchesHeld', BranchesStayInWord', LoopsNest',
         Reveals, NEW s, s = creating
  PROVE  Store!ClosedCode(Code(s)')
<1> DEFINE start == Start
           n == Len(sst) + 1 - Start
           code == [i \in 1..n |-> Moved(sst'[start + i], start)]
<1>1. /\ n \in Nat /\ n # 0 /\ start \in Nat /\ s \in 1..Len(dict)
      /\ Complete(sst', s, start, start + n + 1)
      /\ Code(s)' = code
  BY RevealedCode
<1>2. /\ sst' \in Seq(SSTNode) /\ DOMAIN sst' = 1..Len(sst') /\ Len(sst') \in Nat
      /\ creating' = NULL /\ Len(sst') = start + n + 1
  <2>1. Compiling /\ creating' = NULL
    BY DEF Reveals
  <2>2. Len(sst') = Len(sst) + 2 /\ Len(sst) \in Nat
    BY <2>1, SemicolonNodes, WhileCompiling DEF Reveals
  <2>3. Len(sst') = start + n + 1
    BY <1>1, <2>2
  <2> QED
    BY <2>1, <2>3 DEF IInv, TypeOK
<1> HIDE DEF start, n
<1>3. ASSUME NEW i \in 1..n
      PROVE  /\ start + i \in start + 1..(start + n + 1) - 1 /\ start + i \in 1..Len(sst')
             /\ sst'[start + i] \in SSTNode /\ sst'[start + i].type \notin Boundary
             /\ code[i].type = sst'[start + i].type
             /\ sst'[start + i].type \in InCode => code[i].ref = sst'[start + i].ref - start
             /\ sst'[start + i].type \notin InCode => code[i].ref = sst'[start + i].ref
  <2>1. start + i \in start + 1..(start + n + 1) - 1 /\ start + i \in 1..Len(sst')
    BY <1>1, <1>2
  <2>2. sst'[start + i] \in SSTNode /\ sst'[start + i].type \notin Boundary
    BY <1>1, <1>2, <2>1 DEF Complete, Unbroken
  <2> DEFINE node == sst'[start + i]
  <2>3. node \in SSTNode /\ start \in Int /\ code[i] = Moved(node, start)
    BY <1>1, <2>2
  <2> HIDE DEF node
  <2>4. /\ code[i].type = node.type
        /\ node.type \in InCode => code[i].ref = node.ref - start
        /\ node.type \notin InCode => code[i].ref = node.ref
    BY <2>3, MovedNode
  <2> QED
    BY <2>1, <2>2, <2>4 DEF node
<1>4. /\ Len(code) = n /\ DOMAIN code = 1..n /\ code # <<>> /\ code[Len(code)].type = "RET"
  <2>1. n \in 1..n /\ (start + n + 1) - 1 = start + n
    BY <1>1
  <2>2. code[n].type = "RET"
    BY <1>1, <1>3, <2>1 DEF Complete
  <2>3. Len(code) = n /\ DOMAIN code = 1..n
    BY <1>1
  <2> QED
    BY <1>1, <2>2, <2>3
<1> HIDE DEF code
\* Where a reference into the code leads.
<1>5. ASSUME NEW i \in 1..n, sst'[start + i].type \in InCode,
             NEW r \in 1..Len(sst'), r = sst'[start + i].ref,
             Unbroken(sst', start + i, r), Unbroken(sst', r, start + i),
             sst'[r].type \notin Boundary
      PROVE  code[i].ref \in DOMAIN code /\ code[code[i].ref].type = sst'[r].type
  <2>1. r \in start + 1..(start + n + 1) - 1
    BY <1>1, <1>2, <1>3, <1>5, InsideWord
  <2>2. code[i].ref = r - start
    BY <1>3, <1>5
  <2>3. r - start \in 1..n /\ start + (r - start) = r
    BY <1>1, <2>1
  <2> QED
    BY <1>3, <1>4, <2>2, <2>3
<1>6. ASSUME NEW i \in 1..n, sst'[start + i].type \in BranchOps
      PROVE  code[i].ref \in DOMAIN code /\ code[code[i].ref].type = "LABEL"
  <2> DEFINE r == sst'[start + i].ref
  <2>1. r # NULL
    BY <1>2, <1>3, <1>6 DEF OpenBranchesHeld, IsBranch, Open
  <2>2. /\ r \in 1..Len(sst') /\ sst'[r].type = "LABEL"
        /\ Unbroken(sst', start + i, r) /\ Unbroken(sst', r, start + i)
    BY <1>2, <1>3, <1>6, <2>1 DEF BranchesStayInWord, IsBranch
  <2>3. "LABEL" \notin Boundary /\ sst'[start + i].type \in InCode
    BY <1>6 DEF Boundary, InCode
  <2> QED
    BY <1>5, <2>2, <2>3
<1>7. ASSUME NEW i \in 1..n, sst'[start + i].type \in DOMAIN LoopOpener
      PROVE  /\ code[i].ref \in DOMAIN code
             /\ code[code[i].ref].type = LoopOpener[sst'[start + i].type]
  <2> DEFINE r == sst'[start + i].ref
  <2>1. /\ r \in 1..(start + i) - 1 /\ sst'[r].type = LoopOpener[sst'[start + i].type]
        /\ Unbroken(sst', r, start + i)
    <3>1. start + i \in DOMAIN sst'
      BY <1>2, <1>3
    <3> QED
      BY <1>7, <3>1 DEF LoopsNest
  <2>2. r \in 1..Len(sst') /\ Unbroken(sst', start + i, r)
    BY <1>1, <1>2, <1>3, <2>1 DEF Unbroken
  <2>3. sst'[r].type \notin Boundary /\ sst'[start + i].type \in InCode
    BY <1>7, <2>1, LoopWords DEF Boundary, InCode
  <2> QED
    BY <1>5, <2>1, <2>2, <2>3
<1>8. ASSUME NEW i \in 1..n, sst'[start + i].type \in {"WORD_REF", "VAR_REF"}
      PROVE  /\ Store!Newest(code[i].ref)
             /\ Library[code[i].ref].type = IF sst'[start + i].type = "WORD_REF" THEN "WORD" ELSE "VARIABLE"
  <2> DEFINE r == sst'[start + i].ref
  <2>1. Compiling /\ start \in 1..Len(sst) /\ n = Len(sst) + 1 - start /\ Len(sst) \in Nat
    BY WhileCompiling DEF Reveals, start, n
  <2>2. start + i # Len(sst) + 1
    <3>1. (start + n + 1) - 1 = Len(sst) + 1
      BY <1>1, <2>1
    <3>2. sst'[Len(sst) + 1].type = "RET"
      BY <1>1, <3>1 DEF Complete
    <3> QED
      BY <1>8, <3>2
  <2>3. start + i \in start + 1..Len(sst) /\ start + i \in 1..Len(sst)
    BY <2>1, <2>2
  <2>4. sst'[start + i] = sst[start + i]
    BY <2>1, <2>3, SemicolonNodes DEF Reveals
  <2>5. Bound(dict, sst'[start + i])
    BY <1>8, <2>1, <2>3, <2>4 DEF NamesBound, start
  <2>6. Count = Len(dict) - 1 /\ Len(dict) \in Nat
    BY <2>1, CountIs DEF IInv, OpenDefinition, TypeOK, NULL
  <2>7. /\ DOMAIN Library = 1..Len(dict) - 1
        /\ \A k \in 1..Len(dict) - 1 : Library[k].name = dict[k].name /\ Library[k].type = dict[k].type
    BY <2>6 DEF Library, Count
  <2>8. code[i].ref = r
    <3>1. sst'[start + i].type \notin InCode
      BY <1>8 DEF InCode, BranchOps
    <3> QED
      BY <1>3, <3>1
  <2>9. Store!Newest(r)
    BY <2>5, <2>6, <2>7 DEF Store!Newest, Bound
  <2> QED
    BY <1>8, <2>5, <2>7, <2>8, <2>9 DEF Bound, RefType
<1>9. ASSUME NEW i \in DOMAIN code
      PROVE  /\ code[i].type \notin Boundary
             /\ code[i].type \in DOMAIN Store!TargetType =>
                  /\ code[i].ref \in DOMAIN code
                  /\ code[code[i].ref].type = Store!TargetType[code[i].type]
             /\ code[i].type \in DOMAIN Store!ReferredType =>
                  /\ Store!Newest(code[i].ref)
                  /\ Library[code[i].ref].type = Store!ReferredType[code[i].type]
  <2>1. i \in 1..n /\ code[i].type = sst'[start + i].type
    BY <1>3, <1>4
  <2>4. code[i].type \notin Boundary
    BY <1>3, <2>1
  <2>5. code[i].type \in DOMAIN Store!TargetType =>
          /\ code[i].ref \in DOMAIN code
          /\ code[code[i].ref].type = Store!TargetType[code[i].type]
    BY <1>6, <1>7, <2>1, StoreTerms
  <2>6. code[i].type \in DOMAIN Store!ReferredType =>
          /\ Store!Newest(code[i].ref)
          /\ Library[code[i].ref].type = Store!ReferredType[code[i].type]
    BY <1>8, <2>1, StoreTerms
  <2> QED
    BY <2>4, <2>5, <2>6
<1> QED
  BY <1>1, <1>4, <1>9, StoreTerms DEF Store!ClosedCode

-----------------------------------------------------------------------------
(* The refinement. *)

StoreVars == <<Library, status # "loading">>

\* A token that publishes entry n + 1.
LEMMA Publishes ==
  ASSUME IInv, IInv', HiddenIsOpen, VisibleWordsComplete, Grows \/ Reveals \/ Enters \/ Rests,
         status = "loading", NEW n \in Nat, Count = n, Count' = n + 1,
         Store!Definition(Entry(n + 1)')
  PROVE  Store!Publish
<1>1. /\ Len(Library) = n /\ Len(Library') = n + 1
      /\ Library'[n + 1] = Entry(n + 1)'
      /\ Library' = Append(Library, Library'[n + 1])
  BY LibraryGrows
<1>2. (status' # "loading") \in BOOLEAN
  OBVIOUS
<1> HIDE DEF Library, Entry
<1> QED
  BY <1>1, <1>2 DEF Store!Publish

\* A token that publishes nothing ends the load or is a stuttering step.
LEMMA Stays ==
  ASSUME IInv, IInv', HiddenIsOpen, VisibleWordsComplete, Grows \/ Reveals \/ Enters \/ Rests,
         Count' = Count, status = "loading" \/ UNCHANGED status \/ status' # "loading"
  PROVE  [Store!Next]_StoreVars
<1>1. Library' = Library
  BY LibraryStays
<1>2. CASE status = "loading" /\ status' # "loading"
  <2>1. Store!End
    BY <1>1, <1>2 DEF Store!End
  <2> QED
    BY <2>1 DEF Store!Next
<1>3. CASE (status' # "loading") <=> (status # "loading")
  BY <1>1, <1>3 DEF StoreVars
<1> QED
  BY <1>2, <1>3

\* VARIABLE and CONSTANT publish an entry without code.
LEMMA EntersPublishes ==
  ASSUME IInv, IInv', HiddenIsOpen, HiddenIsOpen', VisibleWordsComplete, Enters, creating' = NULL
  PROVE  Store!Publish
<1>1. creating = NULL /\ dict \in Seq(Symbol(Names)) /\ status = "loading"
  BY DEF Enters, IInv, OpenDefinition, TypeOK, Interpreting
<1>2. PICK symbol \in Symbol(Names) :
        /\ dict' = Append(dict, symbol)
        /\ creating' = IF symbol.type = "WORD" THEN Len(dict') ELSE NULL
  BY DEF Enters
<1>3. PICK n \in Nat : n = Len(dict) /\ Len(dict') = n + 1 /\ dict'[n + 1] = symbol
  BY <1>2, NewSymbol
<1>4. symbol.type \in {"VARIABLE", "CONSTANT"} /\ symbol.name \in Names
  BY <1>2, <1>3 DEF Symbol, NULL
<1>5. Count = n /\ Count' = n + 1
  BY <1>1, <1>3, CountIs
<1>6. Entry(n + 1)' = [name |-> symbol.name, type |-> symbol.type, code |-> <<>>]
  BY <1>3, <1>4 DEF Entry, Code
<1>7. Store!Definition(Entry(n + 1)')
  BY <1>4, <1>6 DEF Store!Definition
<1> QED
  BY <1>1, <1>3, <1>5, <1>7, Publishes

\* ; publishes the word it reveals.
LEMMA RevealsPublishes ==
  ASSUME IInv, IInv', HiddenIsOpen, HiddenIsOpen', NamesBound, VisibleWordsComplete,
         OpenBranchesHeld', BranchesStayInWord', LoopsNest', Reveals
  PROVE  Store!Publish
<1>1. /\ status = "loading" /\ creating' = NULL
      /\ creating = Len(dict) /\ creating # NULL /\ dict[creating].type = "WORD"
      /\ dict \in Seq(Symbol(Names)) /\ Len(dict) \in Nat
  BY DEF Reveals, Compiling, IInv, OpenDefinition, TypeOK, HiddenIsOpen
<1>2. PICK n \in Nat : n + 1 = Len(dict)
  BY <1>1 DEF NULL
<1>3. Len(dict') = n + 1 /\ dict'[n + 1].type = "WORD" /\ dict'[n + 1].name \in Names
  <2>1. Len(dict') = n + 1
    BY <1>1, <1>2 DEF Reveals
  <2>2. dict' \in Seq(Symbol(Names)) /\ n + 1 \in 1..Len(dict')
    BY <2>1 DEF IInv, TypeOK
  <2>3. dict'[n + 1] \in Symbol(Names)
    BY <2>2
  <2>4. dict'[n + 1].type = dict[n + 1].type
    BY <1>2, <2>1, <2>2, Symbols
  <2> QED
    BY <1>1, <1>2, <2>1, <2>3, <2>4 DEF Symbol
<1>4. Count = n /\ Count' = n + 1
  BY <1>1, <1>2, <1>3, CountIs
<1>5. Store!ClosedCode(Code(n + 1)')
  BY <1>1, <1>2, RevealsClosed
<1>6. /\ Entry(n + 1)'.name \in Names /\ Entry(n + 1)'.type = "WORD"
      /\ Entry(n + 1)'.code = Code(n + 1)'
  BY <1>3 DEF Entry
<1>7. Store!Definition(Entry(n + 1)')
  BY <1>5, <1>6 DEF Store!Definition
<1> QED
  BY <1>1, <1>4, <1>7, Publishes

\* Every step of the load is a step of the store.
LEMMA StepStores ==
  /\ IInv /\ HiddenIsOpen /\ NamesBound /\ VisibleWordsComplete
  /\ IInv' /\ HiddenIsOpen' /\ OpenBranchesHeld' /\ BranchesStayInWord' /\ LoopsNest'
  /\ [Next]_vars
  => [Store!Next]_StoreVars
<1> SUFFICES ASSUME IInv, HiddenIsOpen, NamesBound, VisibleWordsComplete,
                    IInv', HiddenIsOpen', OpenBranchesHeld', BranchesStayInWord', LoopsNest',
                    [Next]_vars
             PROVE  [Store!Next]_StoreVars
  OBVIOUS
<1>1. Grows \/ Reveals \/ Enters \/ Rests
  BY StepShape
<1>2. CASE Grows
  <2>1. status = "loading" /\ Count' = Count
    BY <1>2, CountIs DEF Grows, Compiling
  <2> QED
    BY <1>2, <2>1, Stays
<1>3. CASE Rests
  <2>1. Count' = Count /\ (UNCHANGED status \/ status' # "loading")
    BY <1>3, CountIs DEF Rests
  <2> QED
    BY <1>3, <2>1, Stays
<1>4. CASE Reveals
  <2>1. Store!Publish
    BY <1>4, RevealsPublishes
  <2> QED
    BY <2>1 DEF Store!Next
<1>5. CASE Enters /\ creating' = NULL
  <2>1. Store!Publish
    BY <1>5, EntersPublishes
  <2> QED
    BY <2>1 DEF Store!Next
<1>6. CASE Enters /\ creating' # NULL
  <2>1. creating = NULL /\ status = "loading"
    BY <1>6 DEF Enters, IInv, OpenDefinition, Interpreting
  <2>2. PICK symbol \in Symbol(Names) : dict' = Append(dict, symbol)
    BY <1>6 DEF Enters
  <2>3. Len(dict) \in Nat /\ Len(dict') = Len(dict) + 1
    BY <2>2, NewSymbol
  <2>4. Count' = Count
    BY <1>6, <2>1, <2>3, CountIs
  <2> QED
    BY <1>6, <2>1, <2>4, Stays
<1> QED
  BY <1>1, <1>2, <1>3, <1>4, <1>5, <1>6

\* The load begins with an empty library.
LEMMA InitStores == Init => Store!Init
<1> SUFFICES ASSUME Init PROVE Store!Init
  OBVIOUS
<1>1. IInv /\ HiddenIsOpen /\ Len(dict) = 0 /\ creating = NULL
  BY InitHolds DEF Init, HiddenIsOpen, NULL
<1>2. Count = 0
  BY <1>1, CountIs
<1>3. Library = <<>>
  BY <1>2 DEF Library, Count
<1> QED
  BY <1>3 DEF Store!Init, Init

(***************************************************************************)
(* Whatever the file and however the load ends, each token publishes one   *)
(* closed definition whose names were bound to the newest ones published   *)
(* before it, ends the load, or leaves every published word exactly as it  *)
(* was: ; VARIABLE and CONSTANT are the only points where later words and  *)
(* the code generator can see anything change.                             *)
(***************************************************************************)
THEOREM LoadImplementsStore == Spec => ImplementsWordStore
<1>1. Init => /\ IInv /\ HiddenIsOpen /\ NamesBound /\ VisibleWordsComplete
              /\ OpenBranchesHeld /\ BranchesStayInWord /\ LoopsNest /\ LoopsHeld
  BY InitHolds DEF Init, HiddenIsOpen, NamesBound, Compiling, VisibleWordsComplete,
     OpenBranchesHeld, BranchesStayInWord, LoopsNest, LoopsHeld, NULL
<1>2. Spec => [](IInv /\ HiddenIsOpen /\ NamesBound /\ VisibleWordsComplete
                 /\ OpenBranchesHeld /\ BranchesStayInWord /\ LoopsNest)
  BY <1>1, StepKeeps, StepHides, StepBinds, StepCompletes, StepHolds, StepJoins,
     StepNests, StepLoopsHeld, PTL DEF Spec
<1>3. Spec => Store!Init /\ [][Store!Next]_StoreVars
  BY <1>2, InitStores, StepStores, PTL DEF Spec
<1> QED
  BY <1>3 DEF ImplementsWordStore, Store!Spec, StoreVars

=============================================================================
