-------------------------------- MODULE Utf8 --------------------------------
(***************************************************************************)
(* Bytes, code points and UTF-16 code units: the helpers of src/src/utf8.c *)
(* and maelys_json_canonical_escape of src/src/common.c.  A text is the    *)
(* sequence of its bytes, numbers from 0 to 255; byte i of the code is at  *)
(* position i + 1.  Shifts and masks are written with \div and %.          *)
(***************************************************************************)
EXTENDS Integers, Sequences

quote     == 34
backslash == 92
letter_u  == 117

Byte == 0 .. 255

continuation(byte) == byte \in 128 .. 191

\* Bytes of the well-formed sequence that begins at position i, 0 if none does.
sequence_size(s, i) ==
  LET a == s[i]
      rest(n) == i + n <= Len(s) /\ \A k \in 1 .. n : continuation(s[i + k])
  IN  CASE a <= 127 -> 1
        [] a \in 194 .. 223 /\ rest(1) -> 2
        [] a \in 224 .. 239 /\ rest(2) /\ ~(a = 224 /\ s[i + 1] < 160)
             /\ ~(a = 237 /\ s[i + 1] >= 160) -> 3
        [] a \in 240 .. 244 /\ rest(3) /\ ~(a = 240 /\ s[i + 1] < 144)
             /\ ~(a = 244 /\ s[i + 1] >= 144) -> 4
        [] OTHER -> 0

\* The size of the longest valid prefix.
utf8_valid_prefix(s) ==
  LET from[i \in 1 .. Len(s) + 1] ==
        IF i > Len(s) THEN Len(s)
        ELSE LET n == sequence_size(s, i)
             IN  IF n = 0 THEN i - 1 ELSE from[i + n]
  IN  from[1]

\* The code point at position i of validated text, and its bytes.
utf8_decode(s, i) ==
  LET a == s[i]
      low(k) == s[i + k] % 64
  IN  CASE a <= 127 -> [point |-> a, size |-> 1]
        [] a \in 128 .. 223 -> [point |-> (a % 32) * 64 + low(1), size |-> 2]
        [] a \in 224 .. 239 ->
             [point |-> (a % 16) * 4096 + low(1) * 64 + low(2), size |-> 3]
        [] OTHER -> [point |-> (a % 8) * 262144 + low(1) * 4096 + low(2) * 64 + low(3),
                     size |-> 4]

encode_utf8(point) ==
  LET low(shift) == 128 + ((point \div shift) % 64)
  IN  CASE point < 128 -> <<point>>
        [] 128 <= point /\ point < 2048 -> <<192 + point \div 64, low(1)>>
        [] 2048 <= point /\ point < 65536 -> <<224 + point \div 4096, low(64), low(1)>>
        [] OTHER -> <<240 + point \div 262144, low(4096), low(64), low(1)>>

-----------------------------------------------------------------------------
(* Escapes.                                                                 *)

hex_value(byte) ==
  CASE byte \in 48 .. 57 -> byte - 48
    [] byte \in 97 .. 102 -> byte - 97 + 10
    [] byte \in 65 .. 70 -> byte - 65 + 10
    [] OTHER -> -1

\* The unit spelled by the four digits after offset `at`, -1 if they are not.
read_u16(s, at) ==
  LET digit(k) == hex_value(s[at + k])
  IN  IF \E k \in 1 .. 4 : digit(k) < 0 THEN -1
      ELSE ((digit(1) * 16 + digit(2)) * 16 + digit(3)) * 16 + digit(4)

high_surrogate(unit) == 55296 <= unit /\ unit < 56320
low_surrogate(unit)  == 56320 <= unit /\ unit < 57344

\* Mutant: a high surrogate followed by any escape makes a pair.
pairs_unchecked(unit, low) == high_surrogate(unit)
\* The two units are a surrogate pair.
pairs(unit, low) == high_surrogate(unit) /\ low_surrogate(low)

\* Mutant: the digits are read and not passed over.
read_escape_point_stuck(s, input) ==
  IF input + 4 > Len(s) \/ read_u16(s, input) = -1
       \/ high_surrogate(read_u16(s, input)) \/ low_surrogate(read_u16(s, input))
  THEN [point |-> 0, input |-> input]
  ELSE [point |-> read_u16(s, input), input |-> input]

\* What the escape whose digits begin at `input` denotes, and where it ends; 0
\* stands for a refusal.
read_escape_point(s, input) ==
  LET unit    == read_u16(s, input)
      follows == /\ input + 10 <= Len(s)
                 /\ s[input + 5] = backslash /\ s[input + 6] = letter_u
      low     == read_u16(s, input + 6)
      refused == [point |-> 0, input |-> input]
  IN  IF input + 4 > Len(s) \/ unit = -1 \/ low_surrogate(unit) THEN refused
      ELSE IF ~high_surrogate(unit) THEN [point |-> unit, input |-> input + 4]
      ELSE IF follows /\ pairs(unit, low)
      THEN [point |-> 65536 + (unit - 55296) * 1024 + (low - 56320), input |-> input + 10]
      ELSE refused

\* The escapes of one letter and the byte each stands for.
simple_escape == {<<34, 34>>, <<92, 92>>, <<47, 47>>, <<98, 8>>, <<102, 12>>,
                  <<110, 10>>, <<114, 13>>, <<116, 9>>}

hex_digit(n) == IF n < 10 THEN 48 + n ELSE 97 + n - 10

\* The six bytes of the escape of a unit.
u16_escape(unit) ==
  <<backslash, letter_u, hex_digit(unit \div 4096), hex_digit((unit \div 256) % 16),
    hex_digit((unit \div 16) % 16), hex_digit(unit % 16)>>

\* The canonical spelling of one byte of text inside a string literal.
canonical_escape(byte) ==
  CASE byte \in {8, 9, 10, 12, 13, 34, 92} ->
         <<backslash, CHOOSE letter \in 0 .. 255 : <<letter, byte>> \in simple_escape>>
    [] byte \notin {8, 9, 10, 12, 13, 34, 92} /\ byte >= 32 -> <<byte>>
    [] OTHER -> u16_escape(byte)

-----------------------------------------------------------------------------
(* UTF-16 order.                                                            *)

\* Mutant: a supplementary code point counts as one unit.
point_units_whole(point) == <<point>>
\* The units utf16_next hands out for one code point.
point_units(point) ==
  IF point >= 65536
  THEN <<55296 + (point - 65536) \div 1024, 56320 + ((point - 65536) % 1024)>>
  ELSE <<point>>

\* The units a utf16_cursor streams.
utf16_units(s) ==
  LET from[i \in 1 .. Len(s) + 4] ==
        IF i > Len(s) THEN <<>>
        ELSE LET d == utf8_decode(s, i) IN point_units(d.point) \o from[i + d.size]
  IN  from[1]

\* -1, 0 or 1, decided at the first unit the two do not share.
utf16_compare(left, right) ==
  LET a == utf16_units(left)
      b == utf16_units(right)
      from[k \in Nat] ==
        IF k > Len(a) \/ k > Len(b)
        THEN (IF k > Len(a) THEN 0 ELSE 1) - (IF k > Len(b) THEN 0 ELSE 1)
        ELSE IF a[k] # b[k] THEN IF a[k] < b[k] THEN -1 ELSE 1
        ELSE from[k + 1]
  IN  from[1]
=============================================================================
