------------------------------ MODULE Console ------------------------------
(***************************************************************************)
(* A session: the file is loaded, its macros compiled and called as it is  *)
(* read, and then words typed at the prompt (QLForth_init,                 *)
(* QLForth_interpreter, main).  One thread does all of it; the signal      *)
(* handler may break in between two turns of the macro loop.               *)
(***************************************************************************)
EXTENDS MacroVM

CONSTANTS
  ChipWords,   \* names in forth_bucket, which the prompt searches first
  MaxTyped     \* bound: words interpreted, in the file and at the prompt

VARIABLES
  typed,       \* words interpreted
  run,         \* history: the macro last started, and the stack it found
  interrupted  \* history: SIGINT or SIGTERM arrived during that run

sessionVars == <<typed, run, interrupted>>
vars == <<compilerVars, machineVars, sessionVars>>

Idle == [macro |-> NULL, stack |-> <<>>]

Init ==
  /\ CompilerInit /\ VMInit
  /\ typed = 0 /\ run = Idle /\ interrupted = FALSE

-----------------------------------------------------------------------------

Stack == [i \in 1..dp |-> IF i < dp THEN mem[i] ELSE tos]

\* The file's definitions hide built-in words; at the prompt those the chip
\* has too come first, and are good only for a primitive of the same name.
Interpreting == pc = NULL /\ state \in {"INTERPRET", "INTERACTIVE"}

Finds(name) ==
  /\ Visible(name) # {}
  /\ state = "INTERACTIVE" => name \notin ChipWords

Reads == Interpreting /\ typed < MaxTyped /\ typed' = typed + 1 /\ UNCHANGED compilerVars

Types == Reads /\ Apart

TypeName(name) ==
  /\ Types /\ Finds(name)
  /\ LET s == Newest(name) IN
       IF dict[s].type = "MACRO"
       THEN /\ Enter(s, NULL)
            /\ run' = [macro |-> s, stack |-> Stack]
            /\ interrupted' = FALSE
       ELSE /\ Push(dict[s].value)
            /\ run' = Idle
            /\ UNCHANGED <<vmVars, interrupted>>

TypePrimitive(w) ==
  /\ Types /\ Visible(w) = {}
  /\ dp >= Operands(w) /\ ~Fatal(w)
  /\ Primitive(w)
  /\ run' = Idle
  /\ UNCHANGED <<vmVars, interrupted>>

TypeNumber(n) ==
  /\ Types
  /\ Push(n)
  /\ run' = Idle
  /\ UNCHANGED <<vmVars, interrupted>>

\* forth_clear empties both stacks.
forth_clear ==
  /\ Reads
  /\ dp' = 0 /\ rp' = STACK_DEEP_SIZE - 1
  /\ run' = Idle
  /\ UNCHANGED <<mem, tos, pc, interrupted>>

\* ql_console_handler: QLForth_stop is empty.
Interrupt ==
  /\ Running /\ ~interrupted
  /\ interrupted' = TRUE
  /\ UNCHANGED <<compilerVars, machineVars, typed, run>>

LoadStep ==
  /\ pc = NULL /\ Load
  /\ run' = Idle
  /\ UNCHANGED <<vmVars, typed, interrupted>>

Interpret ==
  \/ \E name \in Names : TypeName(name)
  \/ \E w \in Uses \cap Primitives : TypePrimitive(w)
  \/ \E n \in Numbers : TypeNumber(n)
  \/ forth_clear

VMStep == Step /\ UNCHANGED sessionVars

Next == LoadStep \/ Interpret \/ Interrupt \/ VMStep

\* macro_execute turns without waiting for anything.
Spec == Init /\ [][Next]_vars /\ WF_vars(VMStep)

-----------------------------------------------------------------------------

(***************************************************************************)
(* The session's state keeps its types.  Cells of the array above rp hold  *)
(* addresses of code.                                                      *)
(***************************************************************************)
TypeOK ==
  /\ state \in States
  /\ \A s \in DOMAIN dict :
       /\ dict[s].name \in Names /\ dict[s].type \in {"MACRO", "CONSTANT"}
       /\ dict[s].hidden => s = Len(dict) /\ dict[s].type = "MACRO"
  /\ Len(source) = Len(dict)
  /\ cs # <<>> => \E s \in DOMAIN dict : dict[s].hidden
  /\ \A i \in DOMAIN cs : cs[i].pos \in 1..here
  /\ dp \in 0..rp /\ rp \in 0..STACK_DEEP_SIZE - 1
  /\ tos \in Cells /\ \A i \in 0..dp - 1 : mem[i] \in Cells
  /\ pc \in 0..Len(code)

\* The cells of the macro s.
First(s) == dict[s].value

Last(s) ==
  LET later == {t \in s + 1..Len(dict) : dict[t].type = "MACRO"}
  IN IF later = {} THEN Len(code) ELSE (CHOOSE v \in {First(t) : t \in later} : \A t \in later : v <= First(t)) - 1

Finished(s) == s \in DOMAIN dict /\ dict[s].type = "MACRO" /\ ~dict[s].hidden

\* The cells that lie before the macro being compiled, if there is one.
FinishedCells == {i \in DOMAIN code : \A s \in DOMAIN dict : dict[s].hidden => i < First(s)}

(***************************************************************************)
(* Once a macro has its name, neither its symbol nor a cell of it changes: *)
(* not when a later one fills in its branches, nor when UNTIL and LEAVE    *)
(* write through control entries they do not own, nor when a load fails    *)
(* half-way.                                                               *)
(***************************************************************************)
FinishedMacrosFrozen ==
  [][/\ \A s \in DOMAIN dict : ~dict[s].hidden => s \in DOMAIN dict' /\ dict'[s] = dict[s]
     /\ \A i \in FinishedCells : i \in DOMAIN code' /\ code'[i] = code[i]]_vars

\* UNTIL overwrites the first cell of a body, and LEAVE the loop's position.
Undamaged(s) ==
  \A i \in DOMAIN source[s] :
    /\ source[s][i].op # "LEAVE"
    /\ source[s][i].op = "UNTIL" => source[s][i - 1].op = "BEGIN"

Branches == {"(0BRANCH)", "(BRANCH)", "(LOOP)", "(FOR-NEXT)"}

Wide == Branches \cup {"(LEAVE)", "(DOLIT)"}

\* Where the instructions of the macro s begin.
Starts(s) ==
  LET Start[i \in First(s)..Last(s)] ==
        \/ i = First(s)
        \/ i > First(s) /\ Start[i - 1] /\ code[i - 1].op \notin Wide
        \/ i > First(s) + 1 /\ Start[i - 2] /\ code[i - 2].op \in Wide
  IN {i \in First(s)..Last(s) : Start[i]}

(***************************************************************************)
(* A macro is closed when it gets its name: its branches, however nested,  *)
(* lead to the beginning of an instruction of its own, its names to        *)
(* definitions made before it and finished, and it ends in its return.     *)
(* Macros with LEAVE, or with UNTIL behind a body, are left out            *)
(* (forth.c:577, forth.c:628).                                             *)
(***************************************************************************)
MacrosClosed ==
  \A s \in DOMAIN dict :
    s = Len(dict) /\ run = Idle /\ state = "INTERPRET" /\ Finished(s) /\ Undamaged(s) =>
      /\ code[Last(s)].op = "(NEXT)"
      /\ \A i \in Starts(s) :
           /\ code[i].op \in Branches => code[i + 1].arg \in Starts(s)
           /\ code[i].op = "SYMBOL" => code[i].arg < s /\ ~dict[code[i].arg].hidden

NoLeave == \A s \in DOMAIN source : \A i \in DOMAIN source[s] : source[s][i].op # "LEAVE"

(***************************************************************************)
(* The cell a return reads is NULL whenever no macro runs, so that the     *)
(* next macro's return ends its run, although nested calls leave rp lower  *)
(* each time and the data stack shares the array.  Not so once a macro has *)
(* LEAVE: its branch has no target, and taken in a nested call it ends the *)
(* run with the caller's address still on the return stack.                *)
(***************************************************************************)
NextReturnEnds == Interpreting /\ NoLeave => mem[rp] = NULL

(***************************************************************************)
(* "QLForth VM Stoped!", says the signal handler (main.c:51).  Not kept: a *)
(* macro that does not end by itself goes on.                              *)
(***************************************************************************)
InterruptStops == (Running /\ interrupted) ~> ~Running

=============================================================================
