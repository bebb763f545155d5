----------------------------- MODULE DataStack -----------------------------
(***************************************************************************)
(* What the host's data stack promises: each primitive replaces its        *)
(* operands by its results and touches nothing below them.                 *)
(*                                                                         *)
(* The promise leaves open which cell PICK and ROLL reach with an index    *)
(* that is negative or one too large, and what ROLL then does to the       *)
(* others; their effect on the depth is still promised.                    *)
(***************************************************************************)
EXTENDS StackWords

VARIABLES
  stack,
  input    \* the primitive to be carried out next, or anything else

Plain(w) == w \in Determined /\ stack' = Result(w, stack)

\* The library's result may be any cell.
Float(w) ==
  /\ w \in FloatUnary \cup FloatBinary \cup FloatTests
  /\ \E v \in IF w \in FloatTests THEN {QLF_TRUE, QLF_FALSE} ELSE Cell :
       stack' = Append(Below(stack, Operands(w)), v)

\* k PICK copies the k-th cell below k, counted from 0, and k ROLL moves it.
\* An index past the stack does nothing.
Pick(k, n) ==
  CASE k \in 0..n - 2 -> stack' = Append(Below(stack, 1), Item(stack, k + 2))
    [] k >= n         -> UNCHANGED stack
    [] OTHER          -> \E v \in Cell : stack' = Append(Below(stack, 1), v)

Roll(k, n) ==
  CASE k \in 0..n - 2 -> stack' = SubSeq(stack, 1, n - k - 2)
                           \o SubSeq(stack, n - k, n - 1) \o <<Item(stack, k + 2)>>
    [] k >= n         -> UNCHANGED stack
    [] OTHER          -> Len(stack') = n - 1

Run(w) ==
  \/ Plain(w)
  \/ Float(w)
  \/ w = "PICK" /\ Pick(Item(stack, 1), Len(stack))
  \/ w = "ROLL" /\ Roll(Item(stack, 1), Len(stack))

\* Numbers, constants, CONSTANT and CLEAR.
Other ==
  \/ \E v \in Cell : stack' = Append(stack, v)
  \/ stack # <<>> /\ stack' = Below(stack, 1)
  \/ stack' = <<>>
  \/ UNCHANGED stack

Init == stack = <<>>

\* A primitive that cannot run leaves the cells alone.
Next ==
  \/ input \notin Primitives /\ Other
  \/ input \in Primitives /\ CanRun(input, stack) /\ Run(input)
  \/ input \in Primitives /\ ~CanRun(input, stack) /\ UNCHANGED stack

Spec == Init /\ [][Next]_<<stack, input>>

=============================================================================
