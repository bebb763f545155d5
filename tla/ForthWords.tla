----------------------------- MODULE ForthWords -----------------------------
(***************************************************************************)
(* What the extension words mean in Forth: the reference that instructions *)
(* and compiled words are compared with.  A state has the data stack ds    *)
(* and the return stack rs, both sequences with their tops last, and the   *)
(* memory mem, a function on the addresses that may be used.               *)
(***************************************************************************)
EXTENDS Integers, Sequences

CONSTANTS And16(_, _), Or16(_, _), Xor16(_, _)

W == 65536
Truth(b)   == IF b THEN W - 1 ELSE 0
AsInt(w)   == IF w >= W \div 2 THEN w - W ELSE w
Scale(k)   == IF k < 16 THEN 2^k ELSE W
Below(stack, k) == SubSeq(stack, 1, Len(stack) - k)

\* y is the cell under the top x.
Binary == {"ADD", "AND", "OR", "XOR", "EQUAL", "LT", "U_LT", "LSHIFT", "RSHIFT"}

Yield(op, y, x) ==
  CASE op = "ADD"    -> (y + x) % W
    [] op = "AND"    -> And16(y, x)
    [] op = "OR"     -> Or16(y, x)
    [] op = "XOR"    -> Xor16(y, x)
    [] op = "EQUAL"  -> Truth(y = x)
    [] op = "LT"     -> Truth(AsInt(y) < AsInt(x))
    [] op = "U_LT"   -> Truth(y < x)
    [] op = "LSHIFT" -> (y * Scale(x)) % W
    [] op = "RSHIFT" -> y \div Scale(x)

\* Words of the data stack: what takes the place of the top one or two cells.
Unary == {"DUP", "DROP", "INVERT", "1_SUB"}

OfOne(op, x) ==
  CASE op = "DUP"    -> <<x, x>>
    [] op = "DROP"   -> <<>>
    [] op = "INVERT" -> <<W - 1 - x>>
    [] op = "1_SUB"  -> <<(x - 1) % W>>

Pairs == {"SWAP", "OVER", "NIP", "2_DUP_XOR", "2_DUP_EQUAL"}

OfTwo(op, y, x) ==
  CASE op = "SWAP"        -> <<x, y>>
    [] op = "OVER"        -> <<y, x, y>>
    [] op = "NIP"         -> <<x>>
    [] op = "2_DUP_XOR"   -> <<y, x, Xor16(y, x)>>
    [] op = "2_DUP_EQUAL" -> <<y, x, Truth(y = x)>>

\* How many cells a word takes from the data stack and from the return stack.
FromData ==
  [op \in Binary \cup Pairs \cup {"STORE", "STORE_NIP", "2_DUP_STORE", "2_TO_R"} |-> 2]

FromReturn(op) ==
  CASE op \in {"R_FROM", "R_FETCH"} -> 1
    [] op \in {"2_R_FROM", "2_R_FETCH", "UNLOOP"} -> 2
    [] OTHER -> 0

Reads  == {"FETCH", "DUP_FETCH"}
Writes == {"STORE", "STORE_NIP", "2_DUP_STORE"}

ReturnWords ==
  {"TO_R", "DUP_TO_R", "R_FROM", "R_FETCH", "2_TO_R", "2_R_FROM", "2_R_FETCH", "UNLOOP"}

Known == Binary \cup Unary \cup Pairs \cup Reads \cup Writes \cup ReturnWords \cup {"NOOP"}

Takes(op) ==
  IF op \in DOMAIN FromData THEN FromData[op]
  ELSE IF op \in Unary \cup Reads \cup {"TO_R", "DUP_TO_R"} THEN 1 ELSE 0

Defined(op, s) ==
  /\ op \in Known
  /\ Len(s.ds) >= Takes(op)
  /\ Len(s.rs) >= FromReturn(op)
  /\ op \in {"LSHIFT", "RSHIFT"} => s.ds[Len(s.ds)] < 32      \* in C, too
  /\ op \in Reads \cup Writes => s.ds[Len(s.ds)] \in DOMAIN s.mem

\* The state after op, in a state where it is defined.
Effect(op, s) ==
  LET d == Len(s.ds)
      r == Len(s.rs)
      x == s.ds[d]
      y == s.ds[d - 1]
      Data(k, cells)   == [s EXCEPT !.ds = Below(@, k) \o cells]
      Stored(k)        == [s EXCEPT !.ds = Below(@, k), !.mem[x] = y]
      Moved(k, kept, cells) ==
        [s EXCEPT !.ds = Below(@, k), !.rs = Below(@, kept) \o cells]
      Unstacked(k, cells) == [s EXCEPT !.ds = @ \o cells, !.rs = Below(@, k)]
  IN
  CASE op = "NOOP"        -> s
    [] op \in Binary      -> Data(2, <<Yield(op, y, x)>>)
    [] op \in Unary       -> Data(1, OfOne(op, x))
    [] op \in Pairs       -> Data(2, OfTwo(op, y, x))
    [] op = "FETCH"       -> Data(1, <<s.mem[x]>>)
    [] op = "DUP_FETCH"   -> Data(1, <<x, s.mem[x]>>)
    [] op = "STORE"       -> Stored(2)
    [] op = "STORE_NIP"   -> [s EXCEPT !.ds = Below(@, 2) \o <<x>>, !.mem[x] = y]
    [] op = "2_DUP_STORE" -> Stored(0)
    [] op = "TO_R"        -> Moved(1, 0, <<x>>)
    [] op = "DUP_TO_R"    -> Moved(0, 0, <<x>>)
    [] op = "2_TO_R"      -> Moved(2, 0, <<y, x>>)
    [] op = "R_FROM"      -> Unstacked(1, <<s.rs[r]>>)
    [] op = "R_FETCH"     -> Unstacked(0, <<s.rs[r]>>)
    [] op = "2_R_FROM"    -> Unstacked(2, <<s.rs[r - 1], s.rs[r]>>)
    [] op = "2_R_FETCH"   -> Unstacked(0, <<s.rs[r - 1], s.rs[r]>>)
    [] op = "UNLOOP"      -> Unstacked(2, <<>>)

=============================================================================
