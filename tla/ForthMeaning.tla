---------------------------- MODULE ForthMeaning ----------------------------
(***************************************************************************)
(* What a compiled word means, read off its SST nodes: the reference that  *)
(* the code generator and the chip are compared with.                      *)
(*                                                                         *)
(* A nested call keeps its way back on the return stack, as the negated    *)
(* index of the node to go on with; a word that takes it for data has no   *)
(* meaning.  A meaning is defined (ok) when the word ends within the given *)
(* number of nodes, underflows no stack and addresses only variables.      *)
(* folded tells that every nested call came back through a node that the   *)
(* code generator can fold the return into, unharmed.                      *)
(***************************************************************************)
EXTENDS ForthWords, J1Code

Undefined == [ok |-> FALSE]

LOCAL Top(s)  == s[Len(s)]
LOCAL Pop(s)  == SubSeq(s, 1, Len(s) - 1)

\* Words whose last instruction pushes on the return stack.
Pushing == {"TO_R", "DUP_TO_R"}

\* Words that code.c does not translate into what they mean.
Miscompiled == {"NOOP", "2_DUP_XOR", "2_TO_R", "2_R_FROM", "2_R_FETCH"}

\* The RET after node n is folded into n, and comes back to the caller.
LOCAL Merged(sst, n) ==
  /\ Folds(sst[n].type, sst[n].ref)
  /\ sst[n].type \notin Pushing

\* Runs from node n in the state s; address[v] is the cell of variable v.
RECURSIVE Run(_, _, _, _, _, _, _)
Run(sst, dict, address, n, s, folded, fuel) ==
  LET op   == sst[n].type
      ref  == sst[n].ref
      ds   == s.ds
      rs   == s.rs
      back == rs # <<>> /\ Top(rs) < 0
      Go(m, t) == Run(sst, dict, address, m, t, folded, fuel - 1)
  IN
  IF fuel = 0 THEN Undefined
  ELSE
  CASE op = "RET" /\ rs = <<>> ->
         [ok |-> TRUE, folded |-> folded, ds |-> ds, mem |-> s.mem]
    [] op = "RET" /\ back ->
         Run(sst, dict, address, -Top(rs), [s EXCEPT !.rs = Pop(@)],
             folded /\ Merged(sst, n - 1), fuel - 1)
    [] op = "LITERAL" -> Go(n + 1, [s EXCEPT !.ds = Append(@, ref % W)])
    [] op = "VAR_REF" -> Go(n + 1, [s EXCEPT !.ds = Append(@, address[ref])])
    [] op = "WORD_REF" -> Go(dict[ref].sst + 1, [s EXCEPT !.rs = Append(@, -(n + 1))])
    [] op = "LABEL" -> Go(n + 1, s)
    [] op = "BRANCH" -> Go(ref, s)
    [] op = "0BRANCH" /\ ds # <<>> ->
         Go(IF Top(ds) = 0 THEN ref ELSE n + 1, [s EXCEPT !.ds = Pop(@)])
    [] op \in Known \ Miscompiled /\ Defined(op, s)
         /\ \A i \in 1..FromReturn(op) : rs[Len(rs) + 1 - i] >= 0 ->
         Go(n + 1, Effect(op, s))
    [] OTHER -> Undefined
=============================================================================
