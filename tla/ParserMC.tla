------------------------------ MODULE ParserMC ------------------------------
(***************************************************************************)
(* What instances of the parser have in common: the lexemes inputs are     *)
(* made of, and what a document means.  Empty and one-byte keys keep the   *)
(* inputs short, so that repeated keys, nesting and every limit fit in a   *)
(* few bytes.  A call says which lexemes its input is made of.             *)
(***************************************************************************)
EXTENDS Document, Spelled

one   == number(<<49>>)
key_k == string(<<107>>, <<107>>)

\* Well-formed literals, every delimiter and the end of the input.
basic == delimiters \cup {string(<<>>, <<>>), key_k, one, eof}

\* Objects in objects under one key, where inputs can be longer.
nested == {l \in basic : l.kind \notin {"[", "]"} /\ l # key_k}

\* A lexeme read in this step is one the call's input is made of.
Within(Alphabet(_)) ==
  Len(input') > Len(input) => input'[Len(input')] \in Alphabet(call.alphabet)

calls(alphabet, profiles, sizes) ==
  [alphabet : {alphabet}, profile : profiles, size : sizes]

-----------------------------------------------------------------------------
SoundUnder(l) ==
  l.kind = "string" =>
    /\ l.control = NONE /\ l.closed /\ l.decoded = "OK"
    /\ call.profile = "CONTRACT_ASCII" => l.exotic = NONE

Json == INSTANCE JsonGrammar
          WITH Sound <- SoundUnder, Unique <- call.profile # "LAST_WINS"

RECURSIVE Tree(_)

\* The value a client sees through the accessors.
Tree(v) ==
  LET t == tokens[v]
  IN  CASE t.type = "object" ->
             [kind |-> "object",
              members |-> [i \in 1 .. object_size(v).value |->
                 LET m == object_member_at(v, i - 1).value
                 IN  [key |-> m.key, value |-> Tree(m.value)]]]
        [] t.type = "array" ->
             [kind |-> "array",
              items |-> [i \in 1 .. array_size(v).value |->
                           Tree(array_get(v, i - 1).value)]]
        [] t.type = "string" -> [kind |-> "string", text |-> value_string(v).value]
        [] t.type = "number" -> [kind |-> "number", text |-> value_number_text(v).value]
        [] OTHER -> [kind |-> t.type, text |-> t.text]

Body == IF input # <<>> /\ input[Len(input)].kind = "eof"
          THEN SubSeq(input, 1, Len(input) - 1) ELSE input

Published == pc = "done" /\ result = "OK"

\* A published document shows, through the accessors, exactly the value that the
\* grammar gives to the input: parse, compaction and children layout together
\* keep every member in the order of the surviving last occurrences.
DocumentDenotesInput == Published => Json!Values(Body) = {Tree(document_root)}

\* object_get, which stops at the first match, finds for every key of the input
\* the value object_member_at shows, and repeated keys never reach a client.
\* object_get_string hands out its text, or TYPE for a value of another type.
LookupAgreesWithTraversal ==
  Published =>
    \A v \in DOMAIN tokens :
      tokens[v].type = "object" =>
        \A i \in 0 .. object_size(v).value - 1 :
          LET m == object_member_at(v, i).value
              t == tokens[m.value]
          IN  /\ object_get(v, m.key) = answer("OK", m.value)
              /\ object_get_string(v, m.key) =
                   IF t.type = "string" THEN answer("OK", t.text) ELSE refusal("TYPE")

\* A SYNTAX error comes with the first lexeme that no JSON text continues with:
\* what was read before it could still have become JSON, with it no more.
SyntaxErrorIsTheFirst ==
  pc = "done" /\ result = "SYNTAX" =>
    LET before == SubSeq(input, 1, Len(input) - 1)
        fresh  == string(<<102>>, <<102>>)
    IN  /\ Json!Viable(before, fresh, one)
        /\ IF input[Len(input)].kind = "eof" THEN Json!Values(before) = {}
           ELSE ~Json!Viable(input, fresh, one)
=============================================================================
