------------------------------ MODULE Scanner ------------------------------
(***************************************************************************)
(* QLForth_token and the line count of QLForth_error (qlforth.c).  A text  *)
(* is a sequence of characters: the blanks, the three that begin and end   *)
(* comments, and glyphs.  A glyph stands for a run of other characters, so *)
(* that a word of the language is a token of one glyph.                    *)
(***************************************************************************)
EXTENDS Integers, Sequences, FiniteSets

CONSTANT TokenMax      \* TEXT_LINE_SIZE - 2: the longest token

ASSUME ScannerAssumption == TokenMax \in Nat \ {0}

VARIABLES
  text,   \* text_ptr[]
  scan    \* scan_ptr, as an index into text

End == Len(text) + 1

is_space(ch) == ch \in {"SP", "TAB", "CR", "LF"}

\* Where a loop that starts at p and runs while no character of the set
\* stops it ends.
Reach(p, Stops(_)) ==
  CHOOSE q \in p..End :
    /\ q = End \/ Stops(text[q])
    /\ \A r \in p..q - 1 : ~Stops(text[r])

Ink(ch) == ~is_space(ch)
Closes(ch) == ch = ")"
EndsLine(ch) == ch \in {"CR", "LF"}

AfterBlanks(p) == Reach(p, Ink)

\* A token ends at a blank, or when the buffer is full.
AfterWord(p) ==
  LET q == Reach(p, is_space) IN IF q - p > TokenMax THEN p + TokenMax ELSE q

\* Mutant: the closing parenthesis is left to be read.
MutAfterParen(p) == Reach(p, Closes)

AfterParen(p) == LET q == Reach(p, Closes) IN IF q = End THEN End ELSE q + 1

AfterLine(p) == Reach(p, EndsLine)

\* The next token from p, <<>> at the end of the text, and where it ends.
TokenFrom(p) ==
  LET T[q \in 1..End] ==
        LET first == AfterBlanks(q)
            next  == AfterWord(first)
            word  == SubSeq(text, first, next - 1)
        IN CASE word = <<"(">>  -> T[AfterParen(next)]
             [] word = <<"\\">> -> T[AfterLine(next)]
             [] OTHER           -> [word |-> word, next |-> next]
  IN T[p]

\* Mutant: both characters of CR LF are counted.
MutErrorLine(p) == 1 + Cardinality({q \in 1..p - 1 : EndsLine(text[q])})

\* The line that QLForth_error reports: the character after a line feed is
\* stepped over, whatever it is.
ErrorLine(p) ==
  LET L[q \in 1..p + 1] ==
        IF q >= p THEN 1
        ELSE CASE text[q] = "LF" -> 1 + L[q + 2]
               [] text[q] = "CR" ->
                    1 + L[IF q < Len(text) /\ text[q + 1] = "LF" THEN q + 2 ELSE q + 1]
               [] OTHER          -> L[q + 1]
  IN L[1]

=============================================================================
