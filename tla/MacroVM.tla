------------------------------ MODULE MacroVM ------------------------------
(***************************************************************************)
(* macro_execute and the words that macros are built from (forth.c,        *)
(* qlforth.c).  The return stack grows down from the top of data_stack, in *)
(* the same array that the data stack fills from below.                    *)
(***************************************************************************)
EXTENDS MacroCompiler

VARIABLES
  pc,    \* program_counter, a cell; NULL ends the run
  rp     \* ql4thvm_rp, as an index into mem

vmVars == <<pc, rp>>
machineVars == <<stackVars, vmVars>>

VMInit ==
  /\ StackInit
  /\ pc = NULL
  /\ rp = STACK_DEEP_SIZE - 1

Jump(i) == pc' = i

\* fp_docol, for a symbol in the way from one cell to next.
Enter(s, next) ==
  /\ mem' = [mem EXCEPT ![rp - 1] = next]
  /\ rp' = rp - 1
  /\ Jump(dict[s].value)
  /\ UNCHANGED <<dp, tos>>

Operand == code[pc + 1].arg
Next2 == pc + 2

\* Mutant: the test is turned round.
Mutfp_0branch == Pop /\ Jump(IF tos # 0 THEN Operand ELSE Next2) /\ UNCHANGED rp

fp_0branch == Pop /\ Jump(IF tos = 0 THEN Operand ELSE Next2) /\ UNCHANGED rp

fp_branch == Jump(Operand) /\ UNCHANGED <<stackVars, rp>>

fp_doliteral == Push(Operand) /\ Jump(Next2) /\ UNCHANGED rp

fp_do_for_next ==
  /\ UNCHANGED rp
  /\ IF Wrap(tos - 1) > 0
     THEN tos' = Wrap(tos - 1) /\ Jump(Operand) /\ UNCHANGED <<mem, dp>>
     ELSE Pop /\ Jump(Next2)

fp_do_loop ==
  /\ UNCHANGED <<mem, rp>>
  /\ IF Wrap(tos + 1) < nos
     THEN tos' = Wrap(tos + 1) /\ Jump(Operand) /\ UNCHANGED dp
     ELSE tos' = mem[dp - 2] /\ dp' = dp - 2 /\ Jump(Next2)

\* Mutant: the return leaves its cell on the stack.
Mutfp_donext ==
  /\ UNCHANGED <<stackVars, rp>>
  /\ Jump(mem[rp + 1])

\* The return pops first and reads then: not the cell that docol wrote last.
fp_donext ==
  /\ rp' = rp + 1
  /\ Jump(mem[rp + 1])
  /\ UNCHANGED stackVars

symbol(s) ==
  IF dict[s].type = "MACRO" THEN Enter(s, pc + 1)
  ELSE Push(dict[s].value) /\ Jump(pc + 1) /\ UNCHANGED rp

primitive(w) == Primitive(w) /\ Jump(pc + 1) /\ UNCHANGED rp

\* The cells a word of the VM takes off the data stack.
Needs(op) ==
  CASE op \in {"(0BRANCH)", "(FOR-NEXT)"} -> 1
    [] op = "(LOOP)"                      -> 2
    [] op \in Primitives                  -> Operands(op)
    [] OTHER                              -> 0

\* Nothing in the code keeps the data stack from meeting the return stack;
\* what happens then is outside the model.
Apart == dp + 1 < rp

\* Otherwise an underflow, a division that kills the program, or two stacks
\* that meet.
Able(op) == dp >= Needs(op) /\ Apart /\ ~Fatal(op)

Executes(op) == code[pc].op = op /\ Able(op)

\* One turn of the loop in macro_execute.
Execute ==
  \/ Executes("(0BRANCH)") /\ fp_0branch
  \/ Executes("(BRANCH)")  /\ fp_branch
  \/ Executes("(LEAVE)")   /\ fp_branch
  \/ Executes("(DOLIT)")   /\ fp_doliteral
  \/ Executes("(FOR-NEXT)") /\ fp_do_for_next
  \/ Executes("(LOOP)")    /\ fp_do_loop
  \/ Executes("(NEXT)")    /\ fp_donext
  \/ Executes("SYMBOL")    /\ symbol(code[pc].arg)
  \/ \E w \in Uses \cap Primitives : Executes(w) /\ primitive(w)

\* A number or an address in the place of a symbol is called all the same.
Crash ==
  /\ code[pc].op \in {"ADDR", "NUM"}
  /\ state' = "CRASHED"
  /\ UNCHANGED <<dict, code, cs, stray, source, machineVars>>

LeaveModel ==
  /\ ~Able(code[pc].op)
  /\ state' = "OUTSIDE"
  /\ UNCHANGED <<dict, code, cs, stray, source, machineVars>>

Running == pc # NULL /\ state \in {"INTERPRET", "INTERACTIVE"}

Step ==
  /\ Running
  /\ \/ Execute /\ UNCHANGED compilerVars
     \/ Crash
     \/ LeaveModel

=============================================================================
