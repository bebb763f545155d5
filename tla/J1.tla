--------------------------------- MODULE J1 ---------------------------------
(***************************************************************************)
(* The simulator of the FPGA J1 (simulator.c): a 16-bit machine with two   *)
(* circular stacks of 32 cells, its top of stack in a register, and one    *)
(* memory for code and data.  One action per instruction.                  *)
(*                                                                         *)
(* The host calls a word with QLForth_chip_execute: Start loads the host's *)
(* stack, Step runs, and the machine stops when control reaches address 0, *)
(* where the outermost return leads.                                       *)
(***************************************************************************)
EXTENDS Integers, Sequences

CONSTANTS
  MEM_SIZE_IN_BYTE,
  Outside,                               \* what may lie behind code_buffer
  And16(_, _), Or16(_, _), Xor16(_, _)         \* bitwise, on 16-bit words

STACK_DEEP == 32                         \* DSTACK_DEEP and RSTACK_DEEP

W == 65536                               \* unsigned short is modulo W
Word == 0..W - 1

ASSUME ChipAssumption ==
  /\ MEM_SIZE_IN_BYTE \in Nat
  /\ Outside \subseteq Word /\ Outside # {}

ASSUME PowersAssumption == \A c \in 0..15 : 2^c \in Nat \ {0}

VARIABLES
  ram,                \* the words written so far; the others are 0
  tos, dstack, vdp,   \* data stack
  rstack, vrp,        \* return stack
  vpc, insn,
  running             \* execute's loop has not ended

chip == <<tos, dstack, vdp, rstack, vrp, vpc, insn, running>>
vars == <<ram, chip>>

Stack == [0..STACK_DEEP - 1 -> Word]

TypeOK ==
  /\ DOMAIN ram \subseteq Nat /\ \A a \in DOMAIN ram : ram[a] \in Word
  /\ tos \in Word /\ vpc \in Word /\ insn \in Word
  /\ dstack \in Stack /\ vdp \in 0..STACK_DEEP - 1
  /\ rstack \in Stack /\ vrp \in 0..STACK_DEEP - 1 \cup {W - 1}
  /\ running \in BOOLEAN

-----------------------------------------------------------------------------
(* Words and memory. *)

Signed(w) == IF w >= W \div 2 THEN w - W ELSE w

Flag(b) == IF b THEN W - 1 ELSE 0

\* v << k and v >> k of an int; a count of 32 or more is undefined in C, and
\* the processor's shift takes it modulo 32.
Counts(k) == IF k < 32 THEN {k} ELSE {k % 32, 32}

ShiftLeft(v, k) == {IF c < 16 THEN (v * 2^c) % W ELSE 0 : c \in Counts(k)}

ShiftRight(v, k) == {IF c < 16 THEN v \div 2^c ELSE 0 : c \in Counts(k)}

\* ram[a]; behind code_buffer lies whatever the linker put there.
Reads(memory, a) ==
  IF a \in DOMAIN memory THEN {memory[a]}
  ELSE IF 2 * a < MEM_SIZE_IN_BYTE THEN {0} ELSE Outside

\* mem_fetch compares a word address with the size in bytes.
Fetches(a) == IF a < MEM_SIZE_IN_BYTE THEN Reads(ram, a) ELSE {0}

\* mem_store makes the same comparison; what it overwrites behind the buffer
\* is not modelled.
Stored(a, v) ==
  IF 2 * a < MEM_SIZE_IN_BYTE
  THEN [b \in DOMAIN ram \cup {a} |-> IF b = a THEN v ELSE ram[b]]
  ELSE ram

-----------------------------------------------------------------------------
(* One instruction. *)

Field(bit, size) == (insn \div bit) % size

Down(p) == (p - 1) % STACK_DEEP

MutUp(p) == p + 1

Up(p) == (p + 1) % STACK_DEEP

\* The end of an iteration: fetch the next instruction, leave at address 0.
Goto(pc) ==
  /\ vpc' = pc % W
  /\ insn' \in Reads(ram', pc % W)
  /\ running' = (pc # 0)

Sequential == vpc + 1

literal ==
  /\ insn >= \h8000
  /\ vdp' = Up(vdp)
  /\ dstack' = [dstack EXCEPT ![Up(vdp)] = tos]
  /\ tos' = insn % \h8000
  /\ vpc' = Sequential % W
  /\ insn' \in Reads(ram, Sequential % W)
  /\ UNCHANGED <<ram, rstack, vrp, running>>

Class(c) == insn \div \h2000 = c
Target   == insn % \h2000

jump ==
  /\ Class(0)
  /\ UNCHANGED <<ram, tos, dstack, vdp, rstack, vrp>>
  /\ Goto(Target)

conditional_jump ==
  /\ Class(1)
  /\ tos' = dstack[vdp]
  /\ vdp' = Down(vdp)
  /\ UNCHANGED <<ram, dstack, rstack, vrp>>
  /\ \/ tos = 0 /\ Goto(Target)
     \/ tos # 0 /\ Goto(Sequential)

call ==
  /\ Class(2)
  /\ vrp' = Up(vrp)
  /\ rstack' = [rstack EXCEPT ![Up(vrp)] = (2 * Sequential) % W]
  /\ UNCHANGED <<ram, tos, dstack, vdp>>
  /\ Goto(Target)

NOS == dstack[vdp]

AluResults ==
  CASE Field(256, 16) = 0  -> {tos}
    [] Field(256, 16) = 1  -> {NOS}
    [] Field(256, 16) = 2  -> {(tos + NOS) % W}
    [] Field(256, 16) = 3  -> {And16(tos, NOS)}
    [] Field(256, 16) = 4  -> {Or16(tos, NOS)}
    [] Field(256, 16) = 5  -> {Xor16(tos, NOS)}
    [] Field(256, 16) = 6  -> {W - 1 - tos}
    [] Field(256, 16) = 7  -> {Flag(tos = NOS)}
    [] Field(256, 16) = 8  -> {Flag(Signed(NOS) < Signed(tos))}
    [] Field(256, 16) = 9  -> ShiftRight(NOS, tos)
    [] Field(256, 16) = 10 -> {(tos - 1) % W}
    [] Field(256, 16) = 11 -> {rstack[vrp]}
    [] Field(256, 16) = 12 -> Fetches(tos)
    [] Field(256, 16) = 13 -> ShiftLeft(NOS, tos)
    [] Field(256, 16) = 14 -> {(256 * vrp + vdp) % W}
    [] OTHER               -> {Flag(NOS < tos)}

SignedExtension == <<0, 1, -2, -1>>       \* indexed by a field plus 1

MutMoved(p, bit) == (p + Field(bit, 4)) % STACK_DEEP

Moved(p, bit) == (p + SignedExtension[Field(bit, 4) + 1]) % STACK_DEEP

Flagged(bit) == Field(bit, 2) = 1

\* Stores come before the fetch of the next instruction.
alu ==
  /\ Class(3)
  /\ tos' \in AluResults
  /\ vdp' = Moved(vdp, 1)
  /\ vrp' = Moved(vrp, 4)
  /\ dstack' = IF Flagged(128) THEN [dstack EXCEPT ![vdp'] = tos] ELSE dstack
  /\ rstack' = IF Flagged(64) THEN [rstack EXCEPT ![vrp'] = tos] ELSE rstack
  /\ ram' = IF Flagged(32) THEN Stored(tos, NOS) ELSE ram
  /\ Goto(IF Flagged(4096) THEN rstack[vrp] \div 2 ELSE Sequential)

Step == running /\ (literal \/ jump \/ conditional_jump \/ call \/ alu)

-----------------------------------------------------------------------------
(* The host's call. *)

\* QLForth_chip_execute on the host cells, their top last: all but the top go
\* to dstack, cut to 16 bits, and execute begins with a call to entry.
Start(entry, cells) ==
  LET depth == Len(cells) - 1 IN
    /\ ~running
    /\ depth <= STACK_DEEP
    /\ dstack' = [i \in 0..STACK_DEEP - 1 |->
                    IF i < depth THEN cells[i + 1] % W ELSE dstack[i]]
    /\ tos' = cells[depth + 1] % W
    /\ vdp' = Down(depth)
    /\ vrp' = W - 1 /\ vpc' = W - 1
    /\ insn' = \h4000 + (entry % \h2000)
    /\ running' = TRUE
    /\ UNCHANGED <<ram, rstack>>

\* The cells it hands back.
Result ==
  [i \in 1..Up(vdp) + 1 |-> Signed(IF i <= Up(vdp) THEN dstack[i - 1] ELSE tos)]

ChipInit ==
  /\ tos = 0 /\ vdp = 0 /\ vrp = 0 /\ vpc = 0 /\ insn = 0
  /\ dstack = [i \in 0..STACK_DEEP - 1 |-> 0]
  /\ rstack = [i \in 0..STACK_DEEP - 1 |-> 0]
  /\ running = FALSE

=============================================================================
