---------------------------- MODULE MacroMeaning ----------------------------
(***************************************************************************)
(* What a macro means, read off the words of its source: structure words   *)
(* find each other by their level of nesting, loops keep their counters on *)
(* the data stack, and a name is the definition it was resolved to.        *)
(*                                                                         *)
(* A meaning is defined (ok) when the macro ends within the given number   *)
(* of words and takes nothing from an empty stack.  LEAVE is given none:   *)
(* with the counters under whatever the loop's body has left, the source   *)
(* does not say what it should drop.                                       *)
(***************************************************************************)
EXTENDS StackWords, FiniteSets

LOCAL Opening == {"IF", "BEGIN", "DO", "FOR"}
LOCAL Closing == {"THEN", "REPEAT", "UNTIL", "LOOP", "NEXT"}

\* The same for all words of one structure.
LOCAL Level(body, i) ==
  Cardinality({j \in 1..i : body[j].op \in Opening})
    - Cardinality({j \in 1..i - 1 : body[j].op \in Closing})

LOCAL Ahead(body, i, words) ==
  CHOOSE k \in i + 1..Len(body) :
    /\ body[k].op \in words /\ Level(body, k) = Level(body, i)
    /\ \A j \in i + 1..k - 1 : ~(body[j].op \in words /\ Level(body, j) = Level(body, i))

LOCAL Behind(body, i) ==
  CHOOSE k \in 1..i - 1 :
    /\ body[k].op \in Opening /\ Level(body, k) = Level(body, i)
    /\ \A j \in k + 1..i - 1 : ~(body[j].op \in Opening /\ Level(body, j) = Level(body, i))

Undefined == [ok |-> FALSE]

\* The words of the definition d from the i-th on, on the stack s.
RECURSIVE Run(_, _, _, _, _, _)
Run(dict, source, d, i, s, fuel) ==
  LET body == source[d]
      op   == body[i].op
      arg  == body[i].arg
      x    == Item(s, 1)
      Go(j, t) == Run(dict, source, d, j, t, fuel - 1)
  IN CASE fuel = 0 -> Undefined
       [] fuel > 0 /\ i > Len(body) -> [ok |-> TRUE, stack |-> s, fuel |-> fuel]
       [] OTHER ->
     CASE op = "NUM" -> Go(i + 1, Append(s, arg))
       [] op \in {"THEN", "BEGIN", "DO", "FOR"} -> Go(i + 1, s)
       [] op = "ELSE"   -> Go(Ahead(body, i, {"ELSE", "THEN"}) + 1, s)
       [] op = "REPEAT" -> Go(Behind(body, i), s)
       [] op \in Primitives -> IF CanRun(op, s) THEN Go(i + 1, Result(op, s)) ELSE Undefined
       [] op = "SYMBOL" ->
            IF dict[arg].type = "CONSTANT" THEN Go(i + 1, Append(s, dict[arg].value))
            ELSE LET r == Run(dict, source, arg, 1, s, fuel - 1)
                 IN IF r.ok THEN Run(dict, source, d, i + 1, r.stack, r.fuel) ELSE Undefined
       [] op = "LOOP" /\ Len(s) >= 2 ->
            IF Cut(x + 1) < Item(s, 2)
            THEN Go(Behind(body, i), Append(Below(s, 1), Cut(x + 1)))
            ELSE Go(i + 1, Below(s, 2))
       [] op = "NEXT" /\ s # <<>> ->
            IF Cut(x - 1) > 0
            THEN Go(Behind(body, i), Append(Below(s, 1), Cut(x - 1)))
            ELSE Go(i + 1, Below(s, 1))
       [] op = "IF" /\ s # <<>> ->
            Go((IF x = 0 THEN Ahead(body, i, {"ELSE", "THEN"}) ELSE i) + 1, Below(s, 1))
       [] op = "WHILE" /\ s # <<>> ->
            Go((IF x = 0 THEN Ahead(body, i, {"REPEAT"}) ELSE i) + 1, Below(s, 1))
       [] op = "UNTIL" /\ s # <<>> ->
            Go(IF x = 0 THEN Behind(body, i) ELSE i + 1, Below(s, 1))
       [] OTHER -> Undefined

=============================================================================
