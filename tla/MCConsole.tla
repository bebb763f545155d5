----------------------------- MODULE MCConsole -----------------------------
(***************************************************************************)
(* Small sessions for TLC.                                                 *)
(***************************************************************************)
EXTENDS ConsoleMeaning, Bitwise

BitAnd(a, b) == a & b
BitOr(a, b)  == a | b
BitXor(a, b) == a ^^ b

StructureWords ==
  {"IF", "ELSE", "THEN", "BEGIN", "WHILE", "REPEAT", "UNTIL", "DO", "LOOP", "FOR", "NEXT", "LEAVE"}

MacroWords == StructureWords \cup {"DUP", "1-", "#"}

\* Bound: a session has either one macro, short enough to be closed and
\* called once in the file, on the numbers that follow it, or two definitions
\* with short bodies, or a loop, perhaps damaged by UNTIL or LEAVE, compiled
\* behind a finished macro.
OneMacro ==
  /\ Len(dict) <= 1 /\ \A s \in DOMAIN dict : dict[s].name = "A" /\ dict[s].type = "MACRO"
  /\ \A s \in DOMAIN source : \A i \in DOMAIN source[s] : source[s][i].op \notin {"SYMBOL", "NUM"}
  /\ Cardinality(Bodies) + Cardinality({i \in DOMAIN cs : cs[i].id # "WHILE"}) <= MaxWords
  /\ (\A s \in DOMAIN dict : dict[s].hidden) => typed = 0
  /\ typed = IF run = Idle THEN dp ELSE Len(run.stack) + 1
  /\ state \notin {"INTERACTIVE", "LOST"} /\ ~interrupted

TwoDefinitions ==
  /\ \A s \in DOMAIN source : \A i \in DOMAIN source[s] :
       /\ source[s][i].op \in {"SYMBOL", "NUM", "DUP", "IF", "THEN"}
       /\ source[s][i].op = "NUM" => source[s][i].arg = 2
  /\ Cardinality(Bodies) <= 3
  /\ typed <= 2

LoopBehindMacro ==
  /\ \A s \in DOMAIN dict : dict[s].type = "MACRO"
  /\ \A s \in DOMAIN source : \A i \in DOMAIN source[s] :
       source[s][i].op \in {"DUP", "BEGIN", "UNTIL", "DO", "LEAVE", "LOOP"}
  /\ Cardinality(Bodies) <= 5
  /\ typed = 0 /\ state \in {"INTERPRET", "MACRO"} /\ run = Idle

OneKind == OneMacro \/ TwoDefinitions \/ LoopBehindMacro

=============================================================================
