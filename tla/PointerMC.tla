------------------------------ MODULE PointerMC ------------------------------
(***************************************************************************)
(* What a failing parse reports: the parser and the error pointer composed *)
(* under small limits.  Whatever lexeme a parse fails at, the second scan  *)
(* is compared with where the parser stood.                                *)
(***************************************************************************)
EXTENDS Pointer, ParserMC

exotic(text, bytes) == [string(text, bytes) EXCEPT !.exotic = 1]

\* What can be wrong with, or unusual about, a lexeme: blanks before it, an escape
\* that shrinks the text, a control byte, a refused escape, an invalid encoding,
\* a string the input cuts short, and bytes that are no JSON at all.
unusual ==
  basic \cup
  {after(<<32>>, eof), after(<<32>>, lexeme(",", <<44>>)), after(<<32>>, one),
   lexeme("junk", <<63>>), lexeme("literal", text_null),
   exotic(<<10>>, <<92, 110>>),
   [string(<<10>>, <<10>>) EXCEPT !.control = 1],
   [exotic(<<195, 10>>, <<195, 10>>) EXCEPT !.control = 2],
   [exotic(<<120>>, <<92, 120>>) EXCEPT !.decoded = "SYNTAX"],
   [exotic(<<195>>, <<195>>) EXCEPT !.decoded = "UTF8"],
   [lexeme("string", <<34, 107, 107>>) EXCEPT !.closed = FALSE]}

\* The keys "~/" and "A", the second one escaped; a string with a line feed in it, one
\* the decoder refuses, one the input cuts short; a number, a line break and bytes that are
\* no JSON.
failing ==
  delimiters \cup
  {string(<<126, 47>>, <<126, 47>>), exotic(<<65>>, <<92, 117, 48, 48, 52, 49>>),
   [string(<<10>>, <<10>>) EXCEPT !.control = 1],
   [exotic(<<195>>, <<195>>) EXCEPT !.decoded = "UTF8"],
   [lexeme("string", <<34>>) EXCEPT !.closed = FALSE],
   number(<<55>>), lexeme("junk", <<63>>), after(<<10>>, lexeme(",", <<44>>)), eof}

Alphabet(name) == IF name = "unusual" THEN unusual ELSE failing

ErrorLexemes == unusual \cup failing

\* Every profile, one that does not exist, an input that is too long and one
\* whose allocation bound passes SizeMax.
ErrorCalls ==
  calls("unusual", Profiles, (0 .. 6) \cup {9}) \cup calls("unusual", {"none"}, {1})
    \cup calls("unusual", {"RFC8259"}, {22}) \cup calls("unusual", {"LAST_WINS"}, {21})
    \cup calls("failing", {"RFC8259", "LAST_WINS"}, {3, 9, 14})

Reading == Within(Alphabet)
ErrorSpec == Init /\ [][Next /\ Reading]_vars /\ WF_vars(Step /\ Reading)

-----------------------------------------------------------------------------
last_key(container) ==
  Greatest({i \in ChildrenOf(tokens, container) : tokens[i].object_key})

elements(container) == tokens[container].links.child_count

\* The step from an open container to the value the parser is at inside it.
StepInto(k) ==
  LET c == stack[k]
      inner == k < Len(stack)
  IN  IF tokens[c].type = "object"
      THEN IF inner \/ pc \in {"member", "delimiter"} THEN <<tokens[last_key(c)].text>> ELSE <<>>
      ELSE IF inner \/ pc = "delimiter" THEN <<digits[elements(c) - 1]>>
      ELSE <<digits[elements(c)]>>

\* The way from the root to the value the parser is at.
Path == Joined([k \in DOMAIN stack |-> StepInto(k)])

\* RFC 6901: reference tokens follow slashes; ~1 is a slash, then ~0 a tilde.
Unescaped(s) ==
  LET from[i \in 1 .. Len(s) + 2] ==
        IF i > Len(s) THEN <<>>
        ELSE IF s[i] = tilde THEN <<IF s[i + 1] = 49 THEN slash ELSE tilde>> \o from[i + 2]
        ELSE <<s[i]>> \o from[i + 1]
  IN  from[1]

Steps(s) ==
  LET ends(i) == {j \in i + 1 .. Len(s) + 1 : j = Len(s) + 1 \/ s[j] = slash}
      from[i \in 1 .. Len(s) + 1] ==
        IF i > Len(s) THEN <<>>
        ELSE <<Unescaped(SubSeq(s, i + 1, Least(ends(i)) - 1))>> \o from[Least(ends(i))]
  IN  from[1]

\* The parse fails in this step, at a lexeme whose pointer is the way to it.
FailsAtPath ==
  pc \in Scanning /\ pc' = "finish" /\ result' # "OK" =>
    Steps(emitted(input', call.size, error', TRUE, TRUE)) = Path

\* The pointer of an error names the value the parser was at when it failed, or the
\* enclosing object inside a key and before its colon: the second scan, which stops at
\* the offset of the error, ends with the containers, keys and positions of the parse.
PointerNamesValue == [][FailsAtPath]_vars

Failed == pc = "done" /\ result # "OK"

\* A buffer of any capacity holds as much of the pointer as fits and a NUL, bytes past
\* the NUL are left alone, and the length returned is that of the whole pointer, with
\* decoded keys or raw ones.
PointerTruncates ==
  Failed =>
    \A frames, memory \in BOOLEAN :
      LET text == emitted(input, call.size, error, frames, memory)
      IN  \A capacity \in {0, 1, 3, Len(text), Len(text) + 2} :
            LET e    == error_pointer(text, capacity)
                kept == IF Len(text) < capacity THEN Len(text) ELSE capacity - 1
            IN  /\ e.length = Len(text) /\ Len(e.buffer) = capacity
                /\ capacity > 0 =>
                     /\ SubSeq(e.buffer, 1, kept + 1) = SubSeq(text, 1, kept) \o <<0>>
                     /\ \A i \in kept + 2 .. capacity : e.buffer[i] = NONE

\* Line and column lead back to the offset of the error: as many line feeds precede it as
\* lines were counted, and the column counts from the last of them.
PositionLocatesOffset ==
  LET read   == spelled(input)
      place  == error_position(read, error.offset)
      breaks == {i \in 1 .. error.offset : read[i] = 10}
  IN  /\ place.line = Cardinality(breaks) + 1
      /\ place.column = error.offset - (IF breaks = {} THEN 0 ELSE Greatest(breaks)) + 1

\* Every failure is reported under the code that is returned, at an offset that lies in
\* the lexeme the parser was reading, with the line and the column of that offset.
ErrorIsPlaced == Failed => ErrorLocatesLastLexeme /\ PositionLocatesOffset
=============================================================================
