------------------------------ MODULE Canonical ------------------------------
(***************************************************************************)
(* maelys_json_document_is_canonical (src/src/canonical.c) on a published  *)
(* document: a cursor walks the bytes that were parsed and demands those   *)
(* the canonical writer would have produced.  A cursor is its offset, or   *)
(* NONE once something disagreed.                                          *)
(***************************************************************************)
EXTENDS Document, Layout

CONSTANTS
  UnsignedMax,      \* UINT64_MAX
  Spelling          \* the bytes of the one literal the lexemes have

ASSUME WidthAssumption == UnsignedMax \in Nat /\ UnsignedMax % 2 = 1

\* document->bytes: the blanks and the spelling of every lexeme.
document_bytes ==
  LET upto[i \in 0 .. Len(input)] ==
        IF i = 0 THEN <<>> ELSE upto[i - 1] \o input[i].blanks \o input[i].bytes
  IN  upto[Len(input)]

expect(cursor, text) ==
  IF cursor # NONE /\ cursor + Len(text) <= Len(document_bytes)
       /\ SubSeq(document_bytes, cursor + 1, cursor + Len(text)) = text
  THEN cursor + Len(text) ELSE NONE

expect_string(cursor, text) ==
  LET upto[i \in 0 .. Len(text)] ==
        IF i = 0 THEN expect(cursor, <<quote>>)
        ELSE expect(upto[i - 1], canonical_escape(text[i]))
  IN  expect(upto[Len(text)], <<quote>>)

-----------------------------------------------------------------------------
(* Numbers.  value_i64 and value_u64 read exactly what their range holds    *)
(* (NumbersMC!ReadsExactly).                                                *)

integral(text) == \A i \in DOMAIN text : text[i] \notin {46, 69, 101}
negative(text) == text[1] = 45

integer(text) ==
  LET start == IF negative(text) THEN 2 ELSE 1
      sum[i \in start - 1 .. Len(text)] ==
        IF i = start - 1 THEN 0 ELSE 10 * sum[i - 1] + (text[i] - 48)
  IN  IF negative(text) THEN -sum[Len(text)] ELSE sum[Len(text)]

in_range(n) == -((UnsignedMax + 1) \div 2) <= n /\ n <= UnsignedMax

expect_number(cursor, text) ==
  IF integral(text) /\ in_range(integer(text))
  THEN expect(cursor, decimal(integer(text))) ELSE NONE

-----------------------------------------------------------------------------
(* Containers.                                                              *)

RECURSIVE expect_value(_, _)

\* Mutant: keys in the order of their bytes are accepted too.
ordered_bytewise(previous, key) ==
  \/ utf16_compare(previous, key) < 0
  \/ \E k \in DOMAIN key : /\ SubSeq(previous, 1, k - 1) = SubSeq(key, 1, k - 1)
                           /\ k > Len(previous) \/ previous[k] < key[k]

\* A key comes strictly after the one before it.
ordered(previous, key) == utf16_compare(previous, key) < 0

expect_object(cursor, object) ==
  LET key(i) == tokens[child_at(object, 2 * (i - 1))].text
      upto[i \in 0 .. tokens[object].links.child_count \div 2] ==
        IF i = 0 THEN expect(cursor, <<123>>)
        ELSE LET here == IF i > 1 THEN expect(upto[i - 1], <<44>>) ELSE upto[i - 1]
             IN  IF i > 1 /\ ~ordered(key(i - 1), key(i)) THEN NONE
                 ELSE expect_value(expect(expect_string(here, key(i)), <<58>>),
                                   child_at(object, 2 * (i - 1) + 1))
  IN  expect(upto[tokens[object].links.child_count \div 2], <<125>>)

expect_array(cursor, array) ==
  LET upto[i \in 0 .. tokens[array].links.child_count] ==
        IF i = 0 THEN expect(cursor, <<91>>)
        ELSE expect_value(IF i > 1 THEN expect(upto[i - 1], <<44>>) ELSE upto[i - 1],
                          child_at(array, i - 1))
  IN  expect(upto[tokens[array].links.child_count], <<93>>)

expect_value(cursor, value) ==
  LET t == tokens[value]
  IN  CASE cursor = NONE -> NONE
        [] cursor # NONE /\ t.type = "object" -> expect_object(cursor, value)
        [] cursor # NONE /\ t.type = "array" -> expect_array(cursor, value)
        [] cursor # NONE /\ t.type = "string" -> expect_string(cursor, t.text)
        [] cursor # NONE /\ t.type = "number" -> expect_number(cursor, t.text)
        [] cursor # NONE /\ t.type = "literal" -> expect(cursor, Spelling)

document_is_canonical(newline) ==
  /\ duplicate_count = 0
  /\ tokens # <<>>
  /\ LET end_of_value == expect_value(0, document_root)
         last == IF newline THEN expect(end_of_value, <<10>>) ELSE end_of_value
     IN  last # NONE /\ last = Len(document_bytes)
=============================================================================
