---------------------------- MODULE Interpreter ----------------------------
(***************************************************************************)
(* ql4th_interpreter in INTERPRET mode (qlforth.c): a text is scanned for  *)
(* tokens, and numbers, constants and the host's primitives are carried    *)
(* out at once.  Definitions are in ColonCompiler and MacroCompiler.       *)
(***************************************************************************)
EXTENDS Scanner, HostStack, SequencesExt

CONSTANTS
  Texts,       \* the texts of the run
  Numbers,     \* the glyphs that forth_number takes, with their values
  ChipWords    \* names that only forth_bucket has

ASSUME TokensAssumption ==
  /\ \A t \in Texts : t \in Seq(STRING)
  /\ \A glyph \in DOMAIN Numbers : Numbers[glyph] \in Cells

VARIABLES
  status,      \* "reading", "done", "error", "exited"; "killed" by SIGFPE; "outside" the model
  line,        \* the line that an error reported
  words,       \* the tokens taken so far
  constants    \* the constants the text has defined, newest value by name

interpreterVars == <<text, scan, status, line, words, constants>>
vars == <<interpreterVars, stackVars>>

Init ==
  /\ text \in Texts
  /\ scan = 1
  /\ status = "reading"
  /\ line = 0
  /\ words = <<>>
  /\ constants = <<>>
  /\ StackInit

-----------------------------------------------------------------------------

Reading == status = "reading"

Token == TokenFrom(scan)

Take(word) ==
  /\ scan' = Token.next
  /\ words' = Append(words, word)

Continue == UNCHANGED <<text, status, line>>

\* QLForth_error: the rest of the text is never looked at.
Fail(p) ==
  /\ status' = "error"
  /\ line' = ErrorLine(p)
  /\ UNCHANGED <<text, constants, stackVars>>

Stop(how) ==
  /\ status' = how
  /\ UNCHANGED <<text, line, constants, stackVars>>

\* What the dispatcher finds: the file's constants hide the built-in words,
\* and a word that is not found may still be a number.
Commands == {"MAKE", "QUIT", ".S", "CLEAR", "SEE", "CONSTANT"}

Built(word, names) == word \in {<<n>> : n \in names}

Finds(word) ==
  CASE word \in DOMAIN constants -> "constant"
    [] OTHER ->
         CASE Built(word, Primitives)     -> "primitive"
           [] Built(word, Commands)       -> "command"
           [] Built(word, ChipWords)      -> "chip"
           [] Built(word, DOMAIN Numbers) -> "number"
           [] OTHER                       -> "nothing"

\* Nothing compares dp with the array's end; there the model ends.
Room == dp <= STACK_DEEP_SIZE

RunConstant(word) ==
  /\ Finds(word) = "constant" /\ Room
  /\ Take(word)
  /\ Push(constants[word])
  /\ Continue /\ UNCHANGED constants

RunPrimitive(word) ==
  /\ Finds(word) = "primitive" /\ Room
  /\ Take(word)
  /\ LET w == word[1] IN
       CASE ~Enough(w) -> Stop("outside")
         [] Enough(w) /\ Fatal(w) -> Stop("killed")
         [] OTHER -> Primitive(w) /\ Continue /\ UNCHANGED constants

RunNumber(word) ==
  /\ Finds(word) = "number" /\ Room
  /\ Take(word)
  /\ Push(Numbers[word[1]])
  /\ Continue /\ UNCHANGED constants

\* CLEAR leaves tos, and .S saves it where the next push would.
RunCommand(word) ==
  /\ word \in {<<"MAKE">>, <<"QUIT">>, <<".S">>, <<"CLEAR">>} /\ Finds(word) = "command"
  /\ Take(word)
  /\ IF word = <<"QUIT">> THEN Stop("exited")
     ELSE /\ dp' = IF word = <<"CLEAR">> THEN 0 ELSE dp
          /\ mem' = IF word = <<".S">> THEN [mem EXCEPT ![dp] = tos] ELSE mem
          /\ Continue /\ UNCHANGED <<tos, constants>>

\* CONSTANT and SEE read a second token, and any token will do as a name.
RunWithName(word) ==
  /\ word \in {<<"CONSTANT">>, <<"SEE">>} /\ Finds(word) = "command"
  /\ LET name == TokenFrom(Token.next) IN
       /\ scan' = name.next
       /\ words' = words \o IF name.word = <<>> THEN <<word>> ELSE <<word, name.word>>
       /\ CASE name.word = <<>> -> Fail(name.next)
            [] name.word # <<>> /\ word = <<"SEE">> ->
                 IF Finds(name.word) \in {"nothing", "number"} THEN Fail(name.next)
                 ELSE Continue /\ UNCHANGED <<constants, stackVars>>
            [] name.word # <<>> /\ word = <<"CONSTANT">> ->
                 IF dp = 0 THEN Stop("outside")
                 ELSE /\ Pop
                      /\ constants' = [n \in DOMAIN constants \cup {name.word} |->
                                         IF n = name.word THEN tos ELSE constants[n]]
                      /\ Continue

\* "word not found", or a word that only the chip has.
Refuse(word) ==
  /\ Finds(word) \in {"chip", "nothing"}
  /\ Take(word)
  /\ Fail(Token.next)

qlforth_interpret ==
  /\ Reading /\ Token.word # <<>>
  /\ LET word == Token.word IN
       \/ RunConstant(word)
       \/ RunPrimitive(word)
       \/ RunNumber(word)
       \/ RunCommand(word)
       \/ RunWithName(word)
       \/ Refuse(word)

EndOfText ==
  /\ Reading /\ Token.word = <<>>
  /\ scan' = Token.next
  /\ status' = "done"
  /\ UNCHANGED <<text, line, words, constants, stackVars>>

Next == qlforth_interpret \/ EndOfText

Spec == Init /\ [][Next]_vars

-----------------------------------------------------------------------------

(***************************************************************************)
(* The interpreter's state keeps its types: cells never leave their width, *)
(* whatever the arithmetic of forth.c does to them.                        *)
(***************************************************************************)
TypeOK ==
  /\ StackTypeOK
  /\ text \in Texts /\ scan \in 1..End
  /\ status \in {"reading", "done", "error", "exited", "killed", "outside"}
  /\ line \in 0..End
  /\ \A name \in DOMAIN constants : constants[name] \in Cells

\* A reading of the text one character at a time.  A comment begins where a
\* lone ( or \ is followed by a blank.
Character(r, ch) ==
  CASE r.mode = "(" -> [r EXCEPT !.mode = IF ch = ")" THEN "code" ELSE "("]
    [] r.mode = "\\" -> [r EXCEPT !.mode = IF ch \in {"CR", "LF"} THEN "code" ELSE "\\"]
    [] r.mode = "code" /\ ~is_space(ch) -> [r EXCEPT !.token = Append(r.token, ch)]
    [] r.mode = "code" /\ is_space(ch) ->
         [mode  |-> CASE r.token = <<"(">> -> "("
                      [] r.token = <<"\\">> /\ ch \notin {"CR", "LF"} -> "\\"
                      [] OTHER -> "code",
          token |-> <<>>,
          read  |-> IF r.token \in {<<>>, <<"(">>, <<"\\">>} THEN r.read
                    ELSE Append(r.read, r.token)]

\* The blank closes a token at the end of the text.
SourceWords ==
  FoldLeft(Character, [mode |-> "code", token |-> <<>>, read |-> <<>>], Append(text, "SP")).read

(***************************************************************************)
(* The interpreter carries out the words of the text that stand outside    *)
(* comments, in order and each of them once, as long as it has met no      *)
(* error; at the end of the text it has seen all of them.  (QLForth_token; *)
(* tokens longer than the buffer are cut in two and not claimed.)          *)
(***************************************************************************)
WordsOutsideComments ==
  (\A i \in DOMAIN SourceWords : Len(SourceWords[i]) <= TokenMax) =>
    /\ IsPrefix(words, SourceWords)
    /\ status = "done" => words = SourceWords

LineEnd(q) == text[q] = "CR" \/ (text[q] = "LF" /\ ~(q > 1 /\ text[q - 1] = "CR"))

BareFeed(q) == text[q] = "LF" /\ LineEnd(q)

(***************************************************************************)
(* An error is never reported on a line behind the place where the scanner *)
(* stopped, and on that very line unless a line feed without carriage      *)
(* return was followed at once by another line end.  (QLForth_error steps  *)
(* over the character after each line feed: blank lines are not counted.)  *)
(***************************************************************************)
ErrorNamesItsLine ==
  status = "error" =>
    LET before == {q \in 1..scan - 1 : LineEnd(q)} IN
      /\ line <= 1 + Cardinality(before)
      /\ (\A q \in before : BareFeed(q) /\ q + 1 < scan => ~LineEnd(q + 1)) =>
           line = 1 + Cardinality(before)

-----------------------------------------------------------------------------

\* The stack that the array and tos stand for, and the word that comes next.
Stack == [i \in 1..dp |-> IF i < dp THEN mem[i] ELSE tos]

Input ==
  IF Reading /\ Token.word # <<>> /\ Finds(Token.word) = "primitive"
  THEN Token.word[1] ELSE "other"

Promise == INSTANCE DataStack WITH stack <- Stack, input <- Input

\* * adds (cfp_mul), so its steps are left out.
Multiplying == Input = "*"

(***************************************************************************)
(* Every primitive does to the stack what its name says and touches no     *)
(* cell below its operands; a primitive that lacks operands, or whose      *)
(* division cannot be done, stops the program or the model there; nothing  *)
(* but a primitive moves cells about.                                      *)
(***************************************************************************)
ImplementsDataStack ==
  Promise!Init /\ [][Promise!Next \/ Multiplying]_<<Stack, Input>>

=============================================================================
