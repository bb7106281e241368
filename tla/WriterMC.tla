------------------------------- MODULE WriterMC -------------------------------
(***************************************************************************)
(* What clients pass to the writer, and the documents it copies from.      *)
(***************************************************************************)
EXTENDS WriterHistory

text(name, size, utf8, ascii, number) ==
  [name |-> name, size |-> size, utf8 |-> utf8, ascii |-> ascii, number |-> number]

a == text("a", 1, TRUE, TRUE, FALSE)
b == text("b", 1, TRUE, TRUE, FALSE)
accented == text("accented", 2, TRUE, FALSE, FALSE)
malformed == text("malformed", 1, FALSE, FALSE, FALSE)
long == text("long", 4, TRUE, TRUE, FALSE)
fraction == text("fraction", 3, TRUE, TRUE, TRUE)
long_fraction == text("long_fraction", 4, TRUE, TRUE, TRUE)
integer == text("integer", 1, TRUE, TRUE, TRUE)
huge_integer == text("huge_integer", 3, TRUE, TRUE, TRUE)

value(type, content, reads, members) ==
  [type |-> type, text |-> content, integer |-> reads, kids |-> members]
member(key, v) == [key |-> key, value |-> v]
element(v) == [key |-> NONE, value |-> v]

plain_string(t) == value("string", t, "NOT_INTEGER", <<>>)
number(t, reads) == value("number", t, reads, <<>>)

CallTexts == {a, malformed, long, fraction}
NoDocument == <<>>
NoExclusions == {{}}
UnicodeProfiles == {"RFC8259", "RFC8259_LAST_WINS"}
AsciiProfile == {"CONTRACT_ASCII"}

AllScalars == {"number", "boolean", "null"}
OneText == {a}
NoScalar == {}

CopyTexts == {a, b, accented, fraction, integer, huge_integer, long_fraction, long}

\* {"a": {"b": fraction}, "b": integer}, [integer, huge_integer], and values that stand
\* elsewhere: a lexeme and a string too long, and one that is not ASCII.
CopyDocument == <<
  value("object", NONE, "NOT_INTEGER", <<member(a, 3), member(b, 5)>>),
  value("array", NONE, "NOT_INTEGER", <<element(5), element(6)>>),
  value("object", NONE, "NOT_INTEGER", <<member(b, 4)>>),
  number(fraction, "NOT_INTEGER"),
  number(integer, "OK"),
  number(huge_integer, "RANGE"),
  number(long_fraction, "NOT_INTEGER"),
  plain_string(long),
  plain_string(accented)>>
CopyExclusions == {{}, {a}, {b}}
=============================================================================
