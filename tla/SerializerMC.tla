---------------------------- MODULE SerializerMC ----------------------------
(***************************************************************************)
(* Trees for the serializer and a reference reader for what it writes:     *)
(* bytes to lexemes here, lexemes to values in JsonGrammar, string         *)
(* literals to texts in TextReference.                                     *)
(***************************************************************************)
EXTENDS Serializer

Reference == INSTANCE TextReference
Grammar   == INSTANCE JsonGrammar WITH Sound <- LAMBDA l : l.sound, Unique <- TRUE

\* A node below `parent`, in the form attach() takes.
item(parent, key, type, text, value) ==
  [links |-> links_init(parent), type |-> type, key |-> key, text |-> text, value |-> value]

\* The array the calls of a client leave, the root first.
tree(items) ==
  LET upto[i \in 0 .. Len(items)] == IF i = 0 THEN <<>> ELSE attach(upto[i - 1], items[i])
  IN  upto[Len(items)]

\* "a", "ab", U+00E9, U+E000 and U+10000: the last two change places between the
\* order of code points and that of UTF-16 units.
key_texts == {<<97>>, <<97, 98>>, <<195, 169>>, <<238, 128, 128>>, <<240, 144, 128, 128>>}

permutations(S, n) == {f \in [1 .. n -> S] : \A i, j \in 1 .. n : i # j => f[i] # f[j]}

object(keys) ==
  tree(<<item(NONE, NONE, "object", NONE, 0)>>
         \o [i \in DOMAIN keys |-> item(1, keys[i], "number", NONE, i * 5)])

\* Objects of up to three members, and of all five, in any order of their keys.
objects == {object(keys) : keys \in UNION {permutations(key_texts, n) : n \in {0, 1, 2, 3, 5}}}

\* A quote, a backslash, a line feed, U+0001, U+007F, U+10FFFF.
awkward == <<34, 92, 10, 1, 127, 244, 143, 191, 191>>

nested ==
  tree(<<item(NONE, NONE, "object", NONE, 0), item(1, <<98>>, "array", NONE, 0),
         item(2, NONE, "object", NONE, 0), item(2, NONE, "boolean", NONE, FALSE),
         item(2, NONE, "array", NONE, 0), item(3, awkward, "string", awkward, 0),
         item(1, <<>>, "number", <<49, 46, 53, 101, 51>>, 0),
         item(1, <<97>>, "object", NONE, 0), item(8, <<97>>, "null", NONE, 0),
         item(3, <<98>>, "number", NONE, -10), item(3, <<99>>, "boolean", NONE, TRUE)>>)

scalars == {tree(<<item(NONE, NONE, type[1], type[2], type[3])>>) :
              type \in {<<"string", <<>>, 0>>, <<"number", NONE, 0>>, <<"array", NONE, 0>>}}

Samples == {nested} \cup scalars \cup objects
AllFlags == [indent : BOOLEAN, ascii : BOOLEAN, newline : BOOLEAN]

-----------------------------------------------------------------------------
(* The reference reader.                                                    *)

blank == {9, 10, 13, 32}
punctuation == [b \in {123, 125, 91, 93, 44, 58} |->
                  CASE b = 123 -> "{" [] b = 125 -> "}" [] b = 91 -> "["
                    [] b = 93 -> "]" [] b = 44 -> "," [] b = 58 -> ":"]

\* An integer counts by its value, every other number by its bytes.
Amount(s) ==
  LET start == IF s[1] = 45 THEN 2 ELSE 1
      sum[i \in start - 1 .. Len(s)] ==
        IF i = start - 1 THEN 0 ELSE 10 * sum[i - 1] + (s[i] - 48)
  IN  IF \A i \in start .. Len(s) : s[i] \in 48 .. 57
      THEN <<IF start = 2 THEN -sum[Len(s)] ELSE sum[Len(s)]>> ELSE <<"text", s>>

literal(s) ==
  IF s[1] = 45 \/ s[1] \in 48 .. 57 THEN [kind |-> "number", text |-> Amount(s), sound |-> TRUE]
  ELSE [kind |-> "literal", text |-> s, sound |-> s \in {text_true, text_false, text_null}]

\* The end of the string that opens at i: a quote no backslash escapes.
Close(s, i) ==
  LET from[j \in Nat] == IF s[j] = 34 THEN j ELSE from[IF s[j] = 92 THEN j + 2 ELSE j + 1]
  IN  from[i + 1]

string(s) ==
  LET texts == Reference!Texts(s)
  IN  [kind |-> "string", text |-> texts,
       sound |-> texts # {} /\ \A i \in DOMAIN s : s[i] >= 32]

Lexemes(s) ==
  LET ends(i) == CHOOSE j \in i .. Len(s) :
                   /\ \A k \in i .. j : s[k] \notin blank \cup DOMAIN punctuation
                   /\ j < Len(s) => s[j + 1] \in blank \cup DOMAIN punctuation
      from[i \in Nat] ==
        IF i > Len(s) THEN <<>>
        ELSE IF s[i] \in blank THEN from[i + 1]
        ELSE IF s[i] \in DOMAIN punctuation
        THEN <<[kind |-> punctuation[s[i]], text |-> {}, sound |-> TRUE]>> \o from[i + 1]
        ELSE IF s[i] = 34
        THEN <<string(SubSeq(s, i + 1, Close(s, i) - 1))>> \o from[Close(s, i) + 1]
        ELSE <<literal(SubSeq(s, i, ends(i)))>> \o from[ends(i) + 1]
  IN  from[1]

RECURSIVE Value(_)

\* The value of a tree, its members in the order of their texts.
Value(i) ==
  LET node == nodes[i]
      kids == {j \in DOMAIN nodes : nodes[j].links.parent = i}
      text(j) == CHOOSE t \in Reference!Plain(nodes[j].key) : TRUE
      rank(j) == Cardinality({k \in kids : k = j \/ Reference!Before(text(k), text(j))})
      nth(n)  == CHOOSE j \in kids : rank(j) = n
  IN  CASE node.type = "object" ->
             [kind |-> "object",
              members |-> [n \in 1 .. Cardinality(kids) |->
                             [key |-> {text(nth(n))}, value |-> Value(nth(n))]]]
        [] node.type = "array" ->
             [kind |-> "array",
              items |-> [n \in 1 .. Cardinality(kids) |->
                           Value(CHOOSE j \in kids : Cardinality({k \in kids : k <= j}) = n)]]
        [] node.type = "string" -> [kind |-> "string", text |-> Reference!Plain(node.text)]
        [] node.type = "number" ->
             [kind |-> "number",
              text |-> IF node.text = NONE THEN <<node.value>> ELSE Amount(node.text)]
        [] node.type = "boolean" ->
             [kind |-> "literal", text |-> IF node.value THEN text_true ELSE text_false]
        [] OTHER -> [kind |-> "literal", text |-> text_null]

\* The output is JSON for the value of the tree, under every combination of flags:
\* members in the order of their UTF-16 units, strings escaped so that they decode to
\* the same text, and only ASCII bytes when MAELYS_JSON_WRITER_ASCII asks for them.
OutputReadsBack ==
  returned /\ result = "OK" =>
    /\ Grammar!Values(Lexemes(bytes)) = {Value(1)}
    /\ flags.ascii => \A i \in DOMAIN bytes : bytes[i] < 128
=============================================================================
