----------------------------- MODULE Toolchain -----------------------------
(***************************************************************************)
(* The program end to end: QLForth_init loads the file (ColonCompiler) and *)
(* generates code from whatever SST the load left (CodeGen); then, at the  *)
(* console, words typed by the user run on the chip (J1) with the host's   *)
(* data stack copied to it and back (debug_word).  The three share the     *)
(* SST, the dictionary and the code, and their steps never overlap.        *)
(***************************************************************************)
EXTENDS SyntaxTree

CONSTANTS
  Names, Values, Ops, Uses, SST_NODE_MAX, DictCells, SymbolCells,
  ConstantValues, MEM_SIZE_IN_BYTE, Outside,
  And16(_, _), Or16(_, _), Xor16(_, _),
  HostValues,        \* numbers typed at the console
  MaxCells,          \* bound: cells on the host stack
  MaxCalls,          \* bound: words run at the console
  MaxSteps           \* bound: instructions per run

VARIABLES
  status, mode, dict, here, sst, cs, csp, creating,          \* ColonCompiler
  gen, node, code_ptr, code, location, value, room,          \* CodeGen
  tos, dstack, vdp, rstack, vrp, vpc, insn, running,         \* J1
  cells,      \* data_stack[0 .. dp - 1] and the cached top, tos last; the
              \* first cell is the junk below an empty stack
  caller,     \* ThisExecuteWord of debug_word: NULL, or the word on the chip
  called,     \* history: the words called and the stack and variables they found
  steps

Load == INSTANCE ColonCompiler
Gen  == INSTANCE CodeGen
Chip == INSTANCE J1 WITH ram <- code

ASSUME ToolchainAssumption ==
  /\ Values \cup ConstantValues \cup HostValues \subseteq Int
  /\ Ops \subseteq ExtensionOps
  /\ Uses \subseteq Load!Vocabulary
  /\ {SST_NODE_MAX, DictCells, MEM_SIZE_IN_BYTE, MaxCells, MaxCalls, MaxSteps} \subseteq Nat
  /\ SymbolCells \in Nat \ {0}
  /\ Outside \subseteq Chip!Word /\ Outside # {}

loadVars    == <<status, mode, here, cs, csp, creating>>
genVars     == <<gen, node, code_ptr, location, value, room>>
chipVars    == <<tos, dstack, vdp, rstack, vrp, vpc, insn, running>>
consoleVars == <<cells, caller, called, steps>>

vars == <<loadVars, dict, sst, genVars, code, chipVars, consoleVars>>

-----------------------------------------------------------------------------

Loading ==
  /\ Load!Next
  /\ UNCHANGED <<genVars, code, chipVars, consoleVars>>

\* Code_generation runs after a load that ended with an error, too.
Generating ==
  /\ status # "loading"
  /\ Gen!Next
  /\ UNCHANGED <<loadVars, chipVars, consoleVars>>

AtConsole == gen = "done" /\ caller = NULL

\* A number: qlforth_push.
PushNumber(v) ==
  /\ AtConsole
  /\ Len(cells) < MaxCells
  /\ cells' = Append(cells, v)
  /\ UNCHANGED <<loadVars, dict, sst, genVars, code, chipVars, caller, called, steps>>

VariableCells == {value[sst[i].ref] : i \in {j \in DOMAIN sst : sst[j].type = "VARIABLE"}}

Memory == [a \in VariableCells |-> Gen!Fetched(a)]

Word16 == 65536

\* The stack a word works on: the cells above the junk, as the chip sees them.
Operands == [i \in 1..Len(cells) - 1 |-> cells[i + 1] % Word16]

\* A word's name: debug_word hands the stack to the chip.
CallWord(s) ==
  /\ AtConsole
  /\ Len(called) < MaxCalls
  /\ dict[s].type = "WORD" /\ Gen!Newest(s)
  /\ Chip!Start(value[s], cells)
  /\ caller' = s
  /\ called' = Append(called, [word |-> s, ds |-> Operands, mem |-> Memory])
  /\ steps' = 0
  /\ UNCHANGED <<loadVars, dict, sst, genVars, cells>>

Running ==
  /\ steps < MaxSteps
  /\ Chip!Step
  /\ steps' = steps + 1
  /\ UNCHANGED <<loadVars, dict, sst, genVars, cells, caller, called>>

Stopped == caller # NULL /\ ~running

\* The chip has stopped: its stack becomes the host's.
ReturnToHost ==
  /\ Stopped
  /\ cells' = Chip!Result
  /\ caller' = NULL
  /\ UNCHANGED <<loadVars, dict, sst, genVars, code, chipVars, called, steps>>

-----------------------------------------------------------------------------

Init ==
  /\ Load!Init
  /\ gen = "idle" /\ node = 0 /\ code_ptr = Gen!CODE_START + 2
  /\ code = <<>> /\ location = <<>> /\ value = <<>> /\ room = <<>>
  /\ Chip!ChipInit
  /\ cells = <<0>> /\ caller = NULL /\ called = <<>> /\ steps = 0

Console ==
  \/ \E v \in HostValues : PushNumber(v)
  \/ \E s \in DOMAIN dict : CallWord(s)
  \/ Running
  \/ ReturnToHost

Next == Loading \/ Generating \/ Console

Spec == Init /\ [][Next]_vars

-----------------------------------------------------------------------------
(* Properties. *)

(***************************************************************************)
(* A file that loads to its end leaves no branch open, so that pass 2 of   *)
(* the code generator never follows a NULL.                                *)
(***************************************************************************)
LoadedNeverCrashes == status = "loaded" => gen # "crashed"

\* The generator's properties, on every tree a load can leave.
NodesApart        == Gen!NodesApart
BranchesGenerated == Gen!BranchesGenerated

(***************************************************************************)
(* After an error in the file the console still starts: no load makes the  *)
(* code generator crash.                                                   *)
(***************************************************************************)
EveryLoadSurvives == gen # "crashed"

=============================================================================
