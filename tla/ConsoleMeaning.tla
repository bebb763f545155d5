--------------------------- MODULE ConsoleMeaning ---------------------------
(***************************************************************************)
(* The macros of a session compared with the meaning of their source.      *)
(***************************************************************************)
EXTENDS Console

CONSTANT MaxFuel      \* bound: words in one run of a macro that has a meaning

ASSUME MeaningAssumption == MaxFuel \in Nat

Words == INSTANCE MacroMeaning

Meaning == Words!Run(dict, source, run.macro, 1, run.stack, MaxFuel)

\* A return comes back to the prompt and not to the caller (forth.c:423): a
\* macro survives a call only as its last word.
ReturnsOnly ==
  LET Plain[s \in DOMAIN dict] ==
        /\ Undamaged(s)
        /\ \A i \in DOMAIN source[s] :
             LET w == source[s][i] IN
               w.op = "SYMBOL" /\ dict[w.arg].type = "MACRO" => i = Len(source[s]) /\ Plain[w.arg]
  IN {s \in DOMAIN dict : Plain[s]}

Ended == pc = NULL /\ run.macro # NULL

(***************************************************************************)
(* A macro that has ended leaves on the stack what the words of its source *)
(* make of the stack it found: branches, loops, constants, and names bound *)
(* to what they meant when it was defined.  Left out are the macros that   *)
(* UNTIL or LEAVE damages and those that call a macro before their end.    *)
(***************************************************************************)
MacrosMean ==
  Ended /\ run.macro \in ReturnsOnly /\ Meaning.ok => Stack = Meaning.stack

(***************************************************************************)
(* The same of every macro without LEAVE or UNTIL, nested calls included.  *)
(* Not kept: fp_donext reads the cell above the one fp_docol wrote.        *)
(***************************************************************************)
EveryMacroMeans ==
  Ended /\ (\A s \in DOMAIN dict : Undamaged(s)) /\ Meaning.ok => Stack = Meaning.stack

(***************************************************************************)
(* A macro that means something ends: no branch of it leads it into a loop *)
(* its source does not have, or to a cell that is not an instruction.  It  *)
(* may instead run into the end of the stacks' array.                      *)
(***************************************************************************)
MacrosEnd ==
  (Running /\ run.macro \in ReturnsOnly /\ Meaning.ok) ~> (pc = NULL \/ state = "OUTSIDE")

=============================================================================
