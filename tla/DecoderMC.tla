------------------------------ MODULE DecoderMC ------------------------------
(***************************************************************************)
(* String literals put together from fragments: whole and cut sequences of *)
(* UTF-8 at every boundary of the encoding, escapes that are right, cut    *)
(* short, or halves of a surrogate pair.  Bytes below 0x20 and quotes are  *)
(* left out: scan_string_body keeps them from the decoder.                 *)
(***************************************************************************)
EXTENDS Decoder, TextReference

unicode(d) == <<backslash, letter_u>> \o d

\* U+0000, U+00E9, U+D7FF, U+D83D (high), U+DFFF (low), U+FFFF, and G, no digit.
escapes == {unicode(d) : d \in {<<48, 48, 48, 48>>, <<48, 48, 101, 57>>, <<68, 55, 70, 70>>,
              <<100, 56, 51, 68>>, <<68, 102, 102, 70>>, <<102, 102, 102, 102>>,
              <<48, 71, 48, 48>>}}
             \cup {<<backslash, b>> : b \in {backslash, 110, 47, 120}}

\* U+007F, U+0080, U+07FF, U+0800, U+D7FF, U+D800, U+E000, U+FFFF, U+10000,
\* U+10FFFF, U+110000, and overlong forms of U+007F, U+07FF and U+FFFF.
raw == {<<65>>, <<127>>, <<194, 128>>, <<223, 191>>, <<224, 160, 128>>, <<237, 159, 191>>,
        <<237, 160, 128>>, <<238, 128, 128>>, <<239, 191, 191>>, <<240, 144, 128, 128>>,
        <<244, 143, 191, 191>>, <<244, 144, 128, 128>>, <<193, 191>>, <<224, 159, 191>>,
        <<240, 143, 191, 191>>}

\* What cutting a fragment leaves.
cut == {<<backslash>>, <<backslash, letter_u>>, <<backslash, letter_u, 48, 48>>,
        <<194>>, <<224, 160>>, <<240, 144, 128>>, <<128>>, <<245>>}

Fragments == escapes \cup raw \cup cut

Literals == {<<>>} \cup Fragments \cup {a \o b : a, b \in Fragments}
              \cup {a \o b \o c : a \in escapes \cup {<<65>>},
                                  b \in escapes \cup cut, c \in escapes \cup cut}

-----------------------------------------------------------------------------
\* What the profile makes of the inside of a literal.
Meaning(s) ==
  IF profile # "CONTRACT_ASCII" THEN Texts(s)
  ELSE IF \A i \in DOMAIN s : s[i] \in 32 .. 126 /\ s[i] # backslash THEN {s} ELSE {}

\* decode_string accepts exactly the literals that denote a text, and writes the
\* UTF-8 of that text: surrogate pairs become one character, lone surrogates,
\* overlong forms, U+0000 and code points past U+10FFFF are refused.
DecodesLiteral ==
  /\ code = "OK" => /\ Plain(out) = Meaning(bytes) /\ Meaning(bytes) # {}
                    /\ (\A i \in DOMAIN bytes : bytes[i] # 0) => \A i \in DOMAIN out : out[i] # 0
  /\ code \in {"SYNTAX", "UTF8"} => Meaning(bytes) = {}

\* The offset reported with a refusal is that of the first character or escape that
\* cannot be read: what precedes it is a literal, and no longer prefix is one.
BadOffsetIsFirst ==
  code \in {"SYNTAX", "UTF8"} =>
    /\ bad_offset < size
    /\ Meaning(SubSeq(bytes, 1, bad_offset)) # {}
    /\ \A n \in bad_offset + 1 .. size : Meaning(SubSeq(bytes, 1, n)) = {}
=============================================================================
