-------------------------- MODULE ToolchainMeaning --------------------------
(***************************************************************************)
(* Toolchain against the meaning of the source: what a word typed at the   *)
(* console leaves on the host's stack, compared with what its SST nodes    *)
(* mean (ForthMeaning) for the stack and the variables it found.           *)
(***************************************************************************)
EXTENDS Toolchain

Forth == INSTANCE ForthMeaning

Meaning(call) ==
  Forth!Run(sst, dict, value, dict[call.word].sst + 1,
            [ds |-> call.ds, rs |-> <<>>, mem |-> call.mem], TRUE, MaxSteps)

\* What the last call means; nothing, after a call that had no meaning.
Promised ==
  IF \A i \in 1..Len(called) - 1 : Meaning(called[i]).ok
  THEN Meaning(called[Len(called)])
  ELSE Forth!Undefined

\* The stack and the variables are what the word means.
Delivered(meaning) ==
  /\ Len(Chip!Result) = Len(meaning.ds) + 1
  /\ \A i \in DOMAIN meaning.ds : Chip!Result[i + 1] % Word16 = meaning.ds[i]
  /\ Memory = meaning.mem

(***************************************************************************)
(* A word run from the console leaves on the host's stack, and in the      *)
(* variables, exactly what its source means, whatever it calls, provided   *)
(* its calls come back through a return folded into another instruction.   *)
(***************************************************************************)
ResultsAgree == Stopped /\ Promised.ok /\ Promised.folded => Delivered(Promised)

(***************************************************************************)
(* "RETURN" (compiler.c:289) is what the listing calls SST_RET: a called   *)
(* word comes back to its caller, whatever its last instruction is.        *)
(***************************************************************************)
EveryCallReturns == Stopped /\ Promised.ok => Delivered(Promised)

=============================================================================
