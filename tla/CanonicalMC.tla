----------------------------- MODULE CanonicalMC -----------------------------
(***************************************************************************)
(* What a successful parse gives: the parser, its readers, the canonical   *)
(* check and the layout of the serializer composed.  Lexemes come with     *)
(* their bytes, and what the check answers for the published document is   *)
(* compared with what the serializer writes for a copy of it.              *)
(***************************************************************************)
EXTENDS Canonical, ParserMC

\* U+E000 and U+10000: the order of their bytes is not that of their UTF-16 units.
keys_apart ==
  {string(<<238, 128, 128>>, <<238, 128, 128>>),
   string(<<240, 144, 128, 128>>, <<240, 144, 128, 128>>)}

\* Objects of these two keys, where inputs can be longer.
ordering ==
  {l \in delimiters : l.kind \notin {"[", "]"}} \cup keys_apart
    \cup {number(<<55>>), eof, after(<<10>>, eof)}

\* Delimiters, blanks, a quote with its escape, a letter that is escaped without need,
\* an integer past the range, a zero with a sign, an exponent.
spelling ==
  delimiters \cup
  {after(<<32>>, colon), eof, after(<<10>>, eof),
   string(<<34>>, <<92, 34>>), string(<<65>>, <<92, 117, 48, 48, 52, 49>>),
   lexeme("literal", text_null), number(<<55>>), number(<<45, 48>>), number(<<51, 50>>),
   number(<<49, 101, 49>>)}

null == text_null

Alphabet(name) ==
  CASE name = "basic" -> basic [] name = "nested" -> nested
    [] name = "ordering" -> ordering [] name = "spelling" -> spelling

DocumentLexemes == basic \cup ordering \cup spelling

DocumentCalls ==
  calls("basic", {"LAST_WINS"}, {0, 12})
    \cup calls("nested", {"LAST_WINS", "RFC8259"}, {12, 16, 21})
    \cup calls("ordering", {"LAST_WINS"}, {18, 19})
    \cup calls("spelling", {"LAST_WINS"}, {1, 8, 11})

DocumentSpec == Init /\ [][Next /\ Within(Alphabet)]_vars

-----------------------------------------------------------------------------
\* The writer's nodes after writer_value on the document: keys move into the node of
\* their value, and a number that is not an integer keeps its lexeme.
values == SelectSeq([i \in DOMAIN tokens |-> i], LAMBDA i : ~tokens[i].object_key)

copied(v) ==
  LET t        == tokens[v]
      up       == t.links.parent
      position == Cardinality({i \in 1 .. up : ~tokens[i].object_key})
      whole    == t.type = "number" /\ integral(t.text)
  IN  [links |-> links_init(IF up = NONE THEN NONE ELSE position),
       type  |-> IF t.type = "literal" THEN "null" ELSE t.type,
       key   |-> IF up # NONE /\ tokens[up].type = "object" THEN tokens[v - 1].text ELSE NONE,
       text  |-> IF whole THEN NONE ELSE t.text,
       value |-> IF whole THEN integer(t.text) ELSE 0]

copy ==
  LET upto[i \in 0 .. Len(values)] ==
        IF i = 0 THEN <<>> ELSE attach(upto[i - 1], copied(values[i]))
  IN  upto[Len(values)]

\* The numbers of the canonical domain: integers of the two ranges.
canonical_numbers ==
  \A i \in DOMAIN tokens :
    tokens[i].type = "number" => integral(tokens[i].text) /\ in_range(integer(tokens[i].text))

plain(newline) == [indent |-> FALSE, ascii |-> FALSE, newline |-> newline]

\* is_canonical says yes exactly when the numbers are in the canonical domain and the
\* serializer, given a copy of the document, would write the very bytes that were
\* parsed: same key order, same spelling, no blank, no repeated key dropped on the way.
CanonicalIsWhatIsWritten ==
  Published =>
    \A newline \in BOOLEAN :
      document_is_canonical(newline) <=>
        canonical_numbers /\ Written(copy, plain(newline)) = document_bytes
=============================================================================
