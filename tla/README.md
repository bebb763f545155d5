# QLForth in TLA+

QLForth loads a Forth project file, cross-compiles its colon definitions to
code for the FPGA J1 processor, and then runs the compiled words interactively
on a simulator of that processor. Beside them it has a second language of its own:
macros, compiled to threaded cells and run on the host, with a data stack and a set
of primitives. This directory models both paths, from the characters of the file
to the numbers the console shows, and checks them with TLC on small instances. The
main safety properties of every stage (load, generated code, instructions of the
chip, macros, primitives, scanner) are also proved with TLAPS, for every file, buffer
size, contents of the stacks and width of a host cell.

Source references are to `src/src/`.

## 1. Inventory

| Component | State | Operations | Interacts by |
|---|---|---|---|
| **Outer interpreter** (`qlforth.c`) | mode `ql4thvm_state`, scan pointer, setjmp buffer | one dispatcher per mode: INTERACTIVE, INTERPRET, COMPILE, MACRO; `QLForth_error` longjmps to the loop | calls the handler of every token's symbol |
| **Dictionary** (`qlforth.c`) | hash buckets, `dict_buffer`, `ql4thvm_here`, hidden flags | `QLForth_symbol_add`, `QLForth_symbol_search`, `qlforth_alloc` | symbols point to SST nodes; the generator writes their addresses |
| **Colon compiler** (`forth.c`, `compiler.c`) | SST array, control stack, `ThisCreateWord` | `: ; VARIABLE CONSTANT # ALLOT`, control-flow words, extension words | appends nodes; patches earlier nodes through the control stack |
| **Macro compiler and VM** (`forth.c`, `qlforth.c`) | threaded cells in `dict_buffer`, `program_counter`, return stack | `:: ;;`, the MACRO halves of the control words, docol, donext, branches | shares control stack, dictionary and data stack |
| **Host stack and primitives** (`forth.c`) | `data_stack`, `dp`, cached top `tos` | stack, integer and floating-point words | operands of `#`, `ALLOT`, `CONSTANT`; copied to the chip |
| **Code generator** (`code.c`) | `code_ptr`, `code_buffer`, `location` and `value` fields | pass 1 per node, pass 2 per branch | reads the SST, writes the chip's memory |
| **Simulator** (`simulator.c`) | `tos`, two 32-cell circular stacks, `vpc`, `ram` | one instruction per iteration; `QLForth_chip_execute` | host stack copied in and out |
| **Scanner, errors** (`qlforth.c`) | text pointers | tokens, comments, numbers, line count | feeds the interpreter |
| **Console loop** (`main.c`) | input line | `fgets`, `QLForth_interpreter`, signal handler | one line at a time |

Nothing runs concurrently but the signal handler. The hard behaviours are long
legal token sequences over shared, uncleared state (control stack, hidden
symbols, pointers inside a union), errors that leave a handler in the middle,
buffers at their limits, redefinition, values that are correct only if two
passes agree, and numeric edges between a 32-bit host and a 16-bit chip.

What makes each component correct:

* *Colon compiler*: control structures close inside their own definition;
  finished code is never touched again; an open branch is always remembered;
  references reach finished definitions; nothing half-built is ever visible.
* *Dictionary*: newest visible definition wins; the pointer stays in the buffer.
* *Code generator*: no two nodes share memory; every branch leads behind its
  label and stays in its word; return folding preserves meaning.
* *Simulator*: each instruction word does what its Forth word means, from any
  position of the circular stacks.
* *Whole path*: running a compiled word gives the host what its source means.
* *Macro compiler and VM*: a macro's branches and names stay inside it and behind
  it; a finished macro never changes; running one means what its source means and
  ends when its source does; the last return ends the run.
* *Host stack*: array, pointer and cached top are one stack; each primitive has its
  effect on it and touches nothing below.
* *Scanner*: the words outside comments, in order; the reported line is the line of
  the error.
* *Console loop*: a line is carried out to its end; an interrupt stops a macro (it
  does not).

`PROJECT.json` lists the hazards of this code line by line, each with the
properties that guard it or the reason none does.

## 2. Modules

| Module | Models |
|---|---|
| `SyntaxTree` | SST nodes and symbols. Shared by everything below. |
| `ColonCompiler` | Loading a file in INTERPRET and COMPILE mode. One action per token: `cfp_colon`, `cfp_if`, ... are the handlers of the same name; `CompileReference` and `CompileExtension` the two generic cases; `BadToken` and `EndOfFile` the interpreter's own errors and end. |
| `WordStore` | Abstract specification of a load: an append-only library of closed definitions, correctly bound. |
| `PublishedWords` | Refinement mapping from `ColonCompiler` to `WordStore`. |
| `J1Code` | The instruction words of each node; return folding. Constants only. |
| `CodeGen` | `Code_generation`, one action per node and pass. |
| `J1` | The simulator, one action per instruction class; `Start` and `Result` are the two halves of `QLForth_chip_execute`. |
| `ForthWords` | Reference: the stack effect of each extension word. |
| `InstructionSet` | `J1` executing one encoded word, compared with `ForthWords`. |
| `ForthMeaning` | Reference: runs an SST word on abstract stacks. Recursive, so used by TLC only. |
| `Toolchain` | `ColonCompiler`, `CodeGen` and `J1` composed, with the console. |
| `ToolchainMeaning` | `Toolchain` with the properties that compare it with `ForthMeaning`. |
| `HostWords` | The names in `primitive_table`, by the shape of their effect. |
| `HostStack` | The primitives as the code does them: `mem`, `dp` and the cached `tos`. |
| `StackWords` | Reference: the meaning of each primitive on a sequence. |
| `DataStack` | Abstract specification of the host stack: one sequence, one word at a time. |
| `Scanner` | Tokens, comments, and the line count of an error. |
| `Interpreter` | INTERPRET mode: `Scanner` feeding `HostStack`, constants and the developer commands. Holds the refinement mapping to `DataStack`. |
| `MacroCompiler` | `:: ;;` and the MACRO half of every handler, one action per word of the file. |
| `MacroVM` | `macro_execute`: one action per word of the VM, on the array that both stacks share. |
| `Console` | A session: `MacroCompiler`, `MacroVM`, the prompt and the signal handler. |
| `MacroMeaning` | Reference: runs the words of a macro's source on a sequence. Recursive, so used by TLC only. |
| `ConsoleMeaning` | `Console` with the properties that compare the two. |
| `ColonCompilerProofs`, `WordProofs`, `StoreProofs` | Theorems about `ColonCompiler` and its refinement of `WordStore` (section 5); each extends the one before. |
| `ToolchainProofs` | Theorems about load and generator composed. |
| `InstructionSetProofs` | Theorems about the chip and the instructions it is given. |
| `HostStackProofs` | What every primitive keeps: the lemmas about `HostStack`. |
| `InterpreterProofs` | Theorems about `Interpreter`: its refinement of `DataStack`, its scanner and its errors. |
| `ConsoleProofs` | Theorems about `Console`. |
| `MC...` | Values for TLC's constants; they define no behaviour. |

### How state and actions correspond

* The SST array is a sequence; pointers into it are indices and NULL is 0. The
  union `{val, spc, sst}` is one field `ref`. `sst_current` is `Len(sst) + 1`.
* `cs` is the whole control-stack array, stale entries kept. It is indexed from
  0; `csp` is `cs_ptr - cs_stack`, so `:` leaves 1 and `;` leaves -1, as in the
  code. Entry 1 is never written; the first structure uses entry 2. The array is
  made large enough for any nesting the SST allows, so that overflow of the real
  array is a visible state (`csp` beyond its size) instead of undefined behaviour.
* A handler's sequence of appends and patches is one action. When the SST is full
  in the middle, the action leaves exactly the nodes that were appended and patches
  nothing that the code had not yet patched (`EmitTwo`, `cfp_semicolon`).
* After an error, mode, control stack and `ThisCreateWord` are left as they were
  before the failing token. The code may already have moved `cs_ptr`; nothing
  reads it again, since the file is loaded once.
* `here` counts cells after the built-in words; each symbol takes `SymbolCells`.
* `code_buffer` is a function holding only the words written; the rest reads 0.
  The chip's `ram` *is* that function (`J1 WITH ram <- code`).
* `room` is a history variable of the generator: the words of `code_buffer` that each
  node was given, for an instruction, a branch's hole, a variable or ALLOT, recorded
  apart from `code` and from how far `code_ptr` then moves. Nothing reads it but the
  properties.
* Widths: chip words are modulo 2^16, branch targets modulo 2^13, literals
  modulo 2^15. Host numbers are unbounded integers cut to 16 bits where the code
  cuts them. Shift counts of 32 and more, undefined in C, yield either what the
  processor's shift gives or 0.
* `Toolchain` runs the generator after *any* load, complete or failed, as
  `QLForth_init` does, then the console. `cells` is the host stack as copied to the chip: its
  first cell is the junk below an empty stack, its last the cached top. `called` is a
  history variable: the words run so far, each with the stack and the variables it
  found. `ToolchainMeaning` works out from it what the last word should have left.
* `InstructionSet` lets the chip execute one encoded node at a time, from two stacks
  that begin anywhere in their 32 cells. A return is folded in wherever `Folds`
  allows it, complemented literals included.
* `HostStack` keeps a cell as the code does, `Width` bits wide, wrapped where C's
  32-bit arithmetic wraps (`Wrap`; the overflow of a signed `int`, undefined in C,
  is taken to wrap, as the processor does). Division cuts towards zero; what raises
  SIGFPE on x86 ends the program (`Fatal`). The library's floating-point results are
  any cell. A word that finds fewer cells than it takes reads static data in front of
  `data_stack`: the model stops there (`outside`). Nothing compares `dp` with the end
  of the array either: `Interpreter` ends where a push would lie behind it (`Room`).
* In `Scanner` a character is a blank, a line end, one of `( ) \` or a glyph, which
  stands for a run of other characters, so that a word is one glyph. Numbers are a
  set of glyphs with values.
* In `MacroCompiler` a cell is a record: a pointer to a symbol or a VM word, an
  address, or a number. Headers of symbols lie between macros and take no number.
  `cs` holds only the entries above `cs_stack[1]`: `::` resets the pointer to that
  entry, which no handler ever writes, and every opener writes its own entry before
  another word reads it, so that entries left behind cannot be reached.
* `MacroVM`'s return stack grows down in `mem` from `STACK_DEEP_SIZE - 1`, in the same
  array as the data stack, as `QLForth_init` sets it up. A cell that is not an
  instruction, met by the loop, is a wild jump (`CRASHED`).
* `Console` interprets words while the file is read, between definitions, and at the
  prompt. An error at the prompt leaves all state as it was and is not an action. At
  the prompt, a name that the chip's bucket has too is not found as a macro.
* The signal handler may run between any two turns of the macro loop. It changes
  nothing (`QLForth_stop` is empty); `interrupted` is a history variable.

Bounds introduced for checking: `SST_NODE_MAX`, `DictCells`, `SymbolCells`
(sizes of real buffers, made small), `MaxCells`, `MaxCalls`, `MaxSteps`
(console activity and run length, in guards), and the sets `Names`, `Values`,
`Ops`, `Uses`, `HostValues`, `ConstantValues`, `Outside`; for the host side `Texts`,
`TokenMax`, `Width`, `STACK_DEEP_SIZE` (real sizes made small), `MaxMacros`,
`MaxWords`, `MaxTyped` (in guards) and `MaxFuel` (length of the reference's run).

## 3. Runs

Every configuration says `CHECK_DEADLOCK FALSE`: a load ends, the machine stops,
and the bounds above stop the console.

| Run | Shows | Bounds, and why they are enough |
|---|---|---|
| `ControlFlow` | `BranchesStayInWord`, `OpenBranchesHeld`, `LoopsNest`, `FinishedCodeFrozen`, `ImplementsWordStore` for all structure words together | 8 nodes, one name. A definition of 8 nodes has room for 5 inside: two structures nest, cross or follow each other, a WHILE loop has one more word in it, and a short word can come before a structure. The buffer also fills in the middle of every handler, and structures cross every error path |
| `Naming` | `CallsFinishedWords`, `VisibleWordsComplete`, `DictionaryFits`, `ImplementsWordStore`, `TypeOK` | 8 nodes, two names, dictionary for three symbols: definition, redefinition, reference to either and to the open one, IF and FOR structures inside the words, and exhaustion of both buffers |
| `InstructionSet` | `InstructionsMean`, `TypeOK` of the chip | every translated word and literal, with and without return; samples at 0, sign edges, -1, a memory address; stacks based where they wrap |
| `Programs` | `ResultsAgree`, `LoadedNeverCrashes` | `OneKind` in `MCToolchain` is the bound that keeps three kinds of file apart: literals (with and without bit 15) and arithmetic; variables and words that call words, two console calls; every mixture of IF ELSE THEN and BEGIN loops in 8 nodes with true and false operands, up to 40 instructions. Operands go beyond 16 bits. Failed loads with variables or structures are left to `Generation` |
| `Generation` | `NodesApart` (no two nodes share a word, variables and ALLOT included), `BranchesGenerated` (a branch leads to the first word that belongs to a node behind its own label, inside its word) | a 64-byte memory, ALLOT of an odd size and of one that leaves the buffer, a runtime word that exists or not, complete and failed loads |
| `Interpreter` | `WordsOutsideComments`, `ErrorNamesItsLine`, `ImplementsDataStack`, `TypeOK` | all texts of up to five characters over blank, CR, LF, `( ) \`, a number and an unusable word; all lines of four marks with a blank or LF after each; every primitive on every pair of edge operands (`min`, -2, -1, 0, 1, 2, `max`), on too few, PICK and ROLL with every index; a number and seven more pushes, so that the array is full. Cells have 4 bits, so that sums, differences and negations wrap and `min` over -1 is there |
| `Macros` | `MacrosClosed`, `MacrosMean`, `NextReturnEnds`, `FinishedMacrosFrozen`, `MacrosEnd`, `TypeOK` | `OneKind` in `MCConsole`: one macro of up to six words, which is enough for two structures nested, crossed or in sequence with a word inside, called once on the numbers 0 and 2; or two definitions with three words between them, redefinition, a call of the other one and of a chip word's name, interrupts, a failed load, and the prompt; or DO and BEGIN loops with UNTIL and LEAVE, up to five words, behind a finished macro (`LoopBehindMacro`). Nine cells for both stacks, so that they can meet |

`ResultsAgree` compares the chip with `ForthMeaning`, a reference that never looks
at instructions. It leaves out, by name (`Miscompiled`, `folded`), exactly the
cases that the violation runs below exhibit or that are listed with them, and runs that use more operands
than the stack holds or more steps than `MaxSteps`.

`LoadedNeverCrashes` is about loads that reach the end of the file; failed loads
do crash the generator (`LoadSurvives`).

`MacrosMean` compares the VM with `MacroMeaning` in the same way, and leaves out by
name the macros that the handlers of UNTIL and LEAVE damage (`Undamaged`) and those
that call a macro before their last word (`ReturnsOnly`, the subject of
`MacroReturn`). `MacrosEnd` is its liveness half: with fair turns of the loop, a
macro whose source ends, ends. `ImplementsDataStack` leaves out the steps of `*`,
which adds.

### Where the code departs from what it says

| Run | Property | What happens |
|---|---|---|
| `CallReturn` | `EveryCallReturns` | a RET that is not folded is a jump to 0x100C (`code.c:146`) |
| `LoadSurvives` | `EveryLoadSurvives` | an error inside IF makes pass 2 follow NULL (`code.c:198`) |
| `TwoDupXor` | `NamesMean` | 2DUPXOR sets T->R instead of T->N (`code.c:129`) |
| `MacroReturn` | `EveryMacroMeans` | `donext` increments before it reads, `docol` decrements before it writes: no macro goes on behind a call (`forth.c:423`) |
| `Interrupt` | `InterruptStops` | the handler says the VM stopped, and nothing stops it (`qlforth.c:626`) |

`NamesMean` fails in the same way, with the run's `Words` set to them, for NOOP,
which is a jump to address 0 (`code.c:95`), and for 2>R, 2R> and 2R@, which emit
nothing (`code.c:118`). More observations have no run, most because the model simply has
no guard that could prevent them: nothing compares the control stack with
`MAX_CONTROL_STACK_DEEP` (`forth.c:476`), and a load may fill the node that
`QLForth_init` needs for `SST_END` (`qlforth.c:605`); LEAVE does not see FOR although its message
names it (`forth.c:616`); 32 cells handed to the chip come back as none
(`simulator.c:170`); `*` adds (`forth.c:146`); in MACRO mode UNTIL overwrites the first
cell of its body, LEAVE the position of the entry on top, and NEXT leaves an SST
node behind that ends the program's initialisation (`forth.c:577`, `628`, `654`);
each nested macro call leaves the return pointer one cell lower; the branch that LEAVE
compiles never gets a target, so that taken in a nested call it ends the run with the
caller's address still on the return stack, and the return of the next macro goes on in
that caller (`NextReturnEnds` therefore excludes LEAVE by name; found when its
proof failed); IF may have
several ELSEs, whose parts are then taken in turn.

## 4. Fairness

`Console!Spec` has one fairness condition, `WF_vars(VMStep)`: `macro_execute` is a
loop in the only thread and waits for nothing, so while a macro runs the next
instruction is always taken. Nothing is assumed of the user, the file or signals:
`Interrupt`, typing and loading may never happen. `MacrosEnd` and `InterruptStops`
rest on it. The load and the generation are sequential loops over a finite input
and have no liveness property of their own; a compiled word need not end, and the
chip's loop tests nothing that could stop it.

## 5. Proofs

| Theorem | Statement |
|---|---|
| `ColonCompilerProofs!TypeCorrect` | `Spec => []TypeOK` |
| `ColonCompilerProofs!BranchesNeverLost` | `Spec => []OpenBranchesHeld` |
| `ColonCompilerProofs!FinishedCodeNeverChanges` | `Spec => FinishedCodeFrozen` |
| `ColonCompilerProofs!DictionaryNeverOverflows` | `Spec => []DictionaryFits` |
| `WordProofs!BranchesNeverLeaveWord` | `Spec => []BranchesStayInWord` |
| `WordProofs!VisibleWordsAreComplete` | `Spec => []VisibleWordsComplete` |
| `WordProofs!CallsGoToFinishedWords` | `Spec => []CallsFinishedWords` |
| `WordProofs!LoopsAlwaysNest` | `Spec => []LoopsNest` |
| `StoreProofs!LoadImplementsStore` | `Spec => ImplementsWordStore` |
| `ToolchainProofs!LoadedSafe` | `Spec => []LoadedNeverCrashes` of `Toolchain` |
| `ToolchainProofs!NothingWrittenTwice` | `Spec /\ []AllotsForward => []NodesApart` |
| `ToolchainProofs!BranchesLeadHome` | `Spec /\ []AllotsForward => [](called = <<>> => BranchesGenerated)`, if `MEM_SIZE_IN_BYTE <= 0x4000` |
| `InstructionSetProofs!ChipTypes` | `BitsAreWords => (InstructionSpec => []TypeOK)` |
| `InstructionSetProofs!EveryWordIsMeant` | `InstructionSpec => []InstructionsMean`, if `BitsAreWords`, `Translated` and `Cell` lies in memory |
| `InterpreterProofs!PrimitivesImplementStack` | `Spec => ImplementsDataStack` |
| `InterpreterProofs!CellsAlwaysStay` | `Spec => []CellsStay`: the stack's types, and constants that are cells |
| `InterpreterProofs!InterpreterTypes` | `Spec => []TypeOK` of `Interpreter` |
| `InterpreterProofs!ErrorsNameTheirLine` | `Spec => []ErrorNamesItsLine` |
| `ConsoleProofs!SessionTypes` | `Spec => []TypeOK` of `Console` |
| `ConsoleProofs!FinishedMacrosStay` | `Spec => FinishedMacrosFrozen` |
| `ConsoleProofs!ReturnsEndRuns` | `Spec => []NextReturnEnds` |

### The load (`ColonCompiler`)

Assumptions: `FileAssumption` and `SizeAssumption`, that is, any set of names, any
integer operands, any vocabulary, and any natural buffer sizes with at least one
cell per symbol.

`TypeOK` is not inductive: closing words write at `cs[csp].sst`, which the type
alone allows to be 0 or to lie outside the SST, and `csp` could run below the
array. The inductive invariant is

    IInv == TypeOK /\ OpenDefinition /\ ControlInv

`OpenDefinition` says that in COMPILE mode the newest symbol is the hidden word
being compiled, whose COLON node is in the SST. `ControlInv` says that every entry
between the first structure and `csp` points into the open definition at
a node of the type its opener appended (an open branch for IF and WHILE, a label
for BEGIN, ...), that no two entries point at one node, and that a WHILE has its
BEGIN below it, which is what makes REPEAT's second step down safe.
`ColonCompilerProofs` proves `IInv` with one lemma per handler shape (append one,
append two, close) and one step per action. From it follow that
every node a handler writes lies in the open definition
(`FinishedCodeNeverChanges`), and that `OpenBranchesHeld` is inductive relative
to `IInv`: a handler that fills a branch pops the only entry that held it, and
`;` finds the stack empty, so none is left. `DictionaryNeverOverflows` needs only
that every allocation leaves one cell free.

`WordProofs` then describes all handlers at once. A step of the load either grows
the open definition (`Grown`: old nodes stay but for an open branch that is sent to
a label behind COLON; each new node refers to what its type demands), or reveals it
(`;`), or enters a symbol (`:`, VARIABLE, CONSTANT), or changes neither nodes nor
symbols. The three invariants follow from these four shapes without looking at a
single handler again: a word is complete because nothing but `;` reveals one and
nothing grows behind a SEMICOLON; calls reach finished words because a search skips
the hidden symbol, and no step hides one again.

`LoopsNest` needs more. That LOOP closes the innermost open DO is known only to the
control stack, so `LoopsHeld` says that the loops without a LOOP or NEXT are
exactly those that a DO or FOR entry holds, and `;` finds no entry.

For the refinement, a step maps to a step of `WordStore` when it publishes (`;`,
VARIABLE, CONSTANT) or ends the load, and to a stutter otherwise. What is published
stays as it is by `FinishedCodeNeverChanges`; what `;` publishes is closed by the
invariants above and correctly bound by `NamesBound`: while a definition is open,
its references are to the newest visible symbols of their names, and stay the
newest since nothing is entered until it ends. `HiddenIsOpen` adds that the open
definition's symbol is the only hidden one. The references keep their symbols'
numbers, so the published names are found again by counting visible symbols.

### The generated code (`Toolchain`)

No assumption beyond those of the load and the generator's own: any file, any sizes,
any memory. The load is over when `Code_generation` begins, so the invariants of
`WordProofs` hold of the tree it walks; they are restated as `Tree`, which the
generator keeps although it writes addresses into the labels. `LoadedSafe` needs one
more fact, that a load that ends without an error has no open branch, which is
`OpenBranchesHeld` at the end of the file. `Phases` says which of these facts hold in
which pass.

The eleven emitting actions come down to four shapes: a node's words are written, a
place is marked (label, definition, branch), room is allotted, or the generation
breaks down. For the places the invariant is

    Layout == PlacesBounded /\ PlacesOrdered /\ LabelsFollowed /\ RoomsBounded
                /\ RoomsOrdered /\ LabelsAhead /\ Holes                     (by phase)

They are bounded by `code_ptr` and in the order of their nodes, strictly so behind a
branch, because a branch takes a cell. `LabelsFollowed` says that a RET puts at least
one cell between a label and whatever is defined behind it: the reason why a branch
to the very end of a word, as that of IF in front of `;`, still leads into this word.
`Holes` says that nothing lies behind `code_ptr`, that pass 1 leaves the holes empty,
and that pass 2 puts into each the address of its own label. `RoomsBounded` says that
what the nodes were given lies below `code_ptr`, and `RoomsOrdered` that every word of
an earlier node lies before every word of a later one, which is `NodesApart` and
more. `LabelsAhead` says that a label has the address of the first word that is given
to a node behind it. With `Holes` and `LabelsFollowed` it makes `BranchesLeadHome`.

The hypotheses are where the code has no guard. `AllotsForward` says that no ALLOT
node holds a negative number: ALLOT checks nothing, and with such a number
`code_ptr` moves back over generated code, so that both properties fail. The size is
0x4000 in `QLSOC.h`; a larger memory has addresses that do not fit into the 13 bits of
a branch. Once a compiled word runs it may store anywhere in the memory, code
included, hence `called = <<>>`.

### The instructions (`InstructionSet`)

`BitsAreWords` says that `&`, `|` and `^` of two 16-bit words are such words and do not
depend on the order of their operands: they are parameters of `J1`, because the module
`Bitwise` cannot be used in a proof. `PowersAssumption` says that small powers of two
are positive numbers. `Translated` excludes by name the five words whose instructions
do not do what the name says (NOOP, 2DUPXOR, 2>R, 2R>, 2R@: section 3). Words without
a meaning of their own in `ForthWords` (DSP, UP_1, RET and the like) satisfy
`InstructionsMean` because it promises nothing of them; so do words of the return
stack with a return folded in, and fetches and stores away from `Cell`.

The types are inductive with the position of the return stack added (`Typed`). For the
meaning, the invariant follows a word on its course:

    Coursing == Typed /\ \E x, y, held : Begun(x, y, held) /\ Course(x, y, held)

It is either `Ready` to execute its first instruction on the cells it was given, or
`Midway` between two instructions (`!`, UNLOOP, complemented literals), or `Ended`:
stacks, memory and the next address are as the word means. To get from one to the
next, `Fields` takes each of the code's hexadecimal words apart into the fields that
`execute` tests, and `Returning` shows that the bits of a folded return set exactly
its three fields, whatever the others are. `AluStands` then says what an instruction
of class 3 does to two stacks that lie anywhere in their circles, for all fields at
once; the cells it moves over do not wrap onto each other because a word uses fewer
than 32. On the other side `Gives` says what `ForthWords` makes of the same cells.

### The session (`Console`)

Assumptions: any names, words, sizes of the shared array, and width of a cell.
`NumbersAssumption` says that numbers of the file are cells, which is what
`forth_number` returns; `BitsAssumption` that the three bit operations stay within
a cell's bits; `PowerAssumption` that 2^(Width - 1), here `Half`, is a positive
number and half of 2^Width, because the provers know nothing of exponents.

A macro may be damaged: UNTIL and LEAVE write through control entries they do not
own, and a definition that fails leaves its cells and entries behind. So what a
macro's source was says little about where it leads, and the invariant speaks of the
cells alone. `Base` is the last cell in front of the macro being compiled.

    IInv == Typed /\ Dictionary /\ Code /\ Control /\ Machine

`Code` says that each cell up to `Base` is something from which the VM only gets to
cells up to `Base`: an instruction with an operand has it behind itself, an operand
that is an address is such a cell or NULL, a name is a symbol, and the cell at
`Base` is a return. `Control` says that entries lead behind `Base`, that no entry
leads to an operand that is a number (so that UNTIL's stray write makes no wide
instruction's operand into something else), and that WHILE has its BEGIN below it.
`Machine` says that `pc` and the return stack's cells lie up to `Base`, that the last
cell is NULL, and that a running macro has not popped it. `FinishedMacrosStay` and
`SessionTypes` follow. `HostStackProofs` supplies what the primitives do to the
shared array: cells stay cells in the given width, with wrapped sums and division
cut towards zero, and nothing above the pushed slot changes, which keeps the
return stack.

`ReturnsEndRuns` adds that, as long as no macro has LEAVE, every address that is
still NULL is one an IF or WHILE entry remembers (`Targets`), so that a finished
macro has none, and `pc` becomes NULL only by a return that reads it. The attempt to
prove this without that hypothesis failed, and rightly: see section 3 on LEAVE.

### The primitives (`Interpreter`)

The assumptions about width and bits are those of the session; `TokensAssumption`
says of the interpreter's numbers what `NumbersAssumption` says there.

The invariant is small: `CellsStay`, that the stack's three variables keep their types
and that constants are cells. The work is in the steps, because `StackWords` says what
a result *is* (the cell that agrees with a number in its low bits; the quotient whose
remainder has the sign of the dividend) and `HostStack` how the code *computes* it. So
the proof begins with arithmetic: wrapping yields the one cell that agrees
(`WrapCuts`), and division towards zero the one pair with that sign (`DivisionMeans`).
Then `StackLeaves` turns what a word writes to array, index and top into a
concatenation, and there is one lemma per shape of word: one result for its operands,
cells moved, PICK, ROLL, floating point. `RunsTogether` proves that the code stops
exactly where the promise cannot go on. `*` is excluded, since it adds.

The scanner takes no part in this proof: whichever word comes next, the step is right.

### The scanner and the line of an error (`Interpreter`)

`TokensAssumption` says also that texts are sequences. The scanner's loops and the line
count of `QLForth_error` are recursive functions of a position in the text, and the
library's induction theorems cannot be used. In their place stands one lemma that
needs no operator as a parameter: a nonempty set of numbers has a least one
(`LeastNumber`). From it follow `Descent`, induction on a *set* instead of a predicate,
and `DefinedDownwards`: a function that is defined at a position by its values at
later ones takes those values. So the scanner's loops stop inside the text
(`LoopsStop`), each token ends there (`TokenInText`), and `InterpreterTypes` needs no
more. `LinesAreCounted` and `LinesBounded` compare the count with the set of line ends,
from each position to the end: the count never exceeds their number, and falls short
of it only by the line ends that are skipped behind bare line feeds.

### Only model-checked

* `MacrosEnd` and `InterruptStops`: liveness under fairness.
* `ResultsAgree`, `MacrosMean`: `ForthMeaning` and `MacroMeaning` are recursive
  operators, with which the provers' SMT backend is lost. That the pieces fit together
  is proved as far as `EveryWordIsMeant` (each node), `NodesApart` and
  `BranchesLeadHome` (where the nodes lie) go.
* `MacrosClosed`: where a macro's instructions begin (`Starts`) is defined by recursion
  over its cells. Only what the VM can reach is proved (`Code` of the session).
* `WordsOutsideComments`: its reference is a fold over the text, that is, an operator
  passed to an operator, for which the induction on sets does not help.

## 6. Not modelled

* The formats of numbers (`forth_number`): text conversion. Which tokens are numbers,
  and their values, are constants.
* Listings, the output of SEE, .S and the prompt, file input: text only. `'` looks a
  word up and keeps nothing.
* Floating-point arithmetic: left to the C library.
* Memory behind `code_buffer`, in front of `data_stack`, and behind `dict_buffer`:
  reads return any sampled value or end the model, writes are dropped. So are jumps
  through a cell that is no instruction, and a longjmp into a frame that has
  returned: the model ends in a state of its own.
* Macros and constants run while a colon definition is compiled (`qlforth_compile`),
  and sessions that alternate between compiled words and macros: both act on one
  host stack, and neither path reads anything else of the other.
* Built-in defining and structure words hidden by a definition of the file; the hash
  function.
* ALLOT with a negative operand is in the model, but no run takes one: it moves
  `code_ptr` backwards over generated code, so that `NodesApart` would not hold.
  The theorems name it as a hypothesis (`AllotsForward`).

## 7. What is left

The modelling is complete but for what section 6 names. Of the safety properties that
the runs check, four are not proved, for the reasons given at the end of section 5.
The one that could still be approached is `WordsOutsideComments`, with a reference
that is a recursive function instead of a fold, and then by `Descent` as for the line
count.

## 8. Running

    tlc -workers 2 -config ControlFlow.cfg MCPublishedWords.tla
    tlc -workers 2 -config Macros.cfg MCConsole.tla
    tlapm StoreProofs.tla
    tlapm ToolchainProofs.tla
    tlapm InstructionSetProofs.tla
    tlapm InterpreterProofs.tla
    tlapm ConsoleProofs.tla

Each run's module is in `PROJECT.json`; the configuration has the run's name.
