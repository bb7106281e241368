---------------------------- MODULE TextReference ----------------------------
(***************************************************************************)
(* What bytes mean, independently of the code: the definition of UTF-8 by  *)
(* shortest forms of scalar values, the string escapes of RFC 8259, and    *)
(* the order of texts by UTF-16 code units.  A text is a sequence of code  *)
(* points here.                                                            *)
(***************************************************************************)
EXTENDS Integers, Sequences

Scalar(p) == 0 <= p /\ p <= 1114111 /\ ~(55296 <= p /\ p <= 57343)

\* The least code point that needs n bytes.
Least_of == <<0, 128, 2048, 65536>>

\* The bits a lead byte of an n-byte form carries above its marker.
Lead(n, b) == CASE n = 1 /\ b < 128 -> b
                [] n = 2 /\ b \div 32 = 6 -> b % 32
                [] n = 3 /\ b \div 16 = 14 -> b % 16
                [] n = 4 /\ b \div 8 = 30 -> b % 8
                [] OTHER -> -1

\* The number whose digits to base 64 are the payloads of the n bytes of a form.
Payload(n, s) ==
  CASE n = 1 -> Lead(1, s[1])
    [] n = 2 -> Lead(2, s[1]) * 64 + (s[2] % 64)
    [] n = 3 -> Lead(3, s[1]) * 4096 + (s[2] % 64) * 64 + (s[3] % 64)
    [] OTHER -> Lead(4, s[1]) * 262144 + (s[2] % 64) * 4096 + (s[3] % 64) * 64 + (s[4] % 64)

\* The bytes are a lead byte and the continuations it calls for.
Whole(n, s) == n \in 1 .. 4 /\ Lead(n, s[1]) >= 0 /\ \A k \in 2 .. n : s[k] \div 64 = 2

\* The scalar values whose UTF-8 form is `s`: one or none.
Form(s) ==
  LET n == Len(s)
  IN  IF Whole(n, s) /\ Scalar(Payload(n, s)) /\ Payload(n, s) >= Least_of[n]
      THEN {Payload(n, s)} ELSE {}

\* The value of a hexadecimal digit.
Digit(b) == CASE b \in 48 .. 57 -> b - 48 [] b \in 65 .. 70 -> b - 55
              [] b \in 97 .. 102 -> b - 87 [] OTHER -> -1

\* The UTF-16 units whose escape is `s`: one or none.
Unit(s) ==
  IF Len(s) = 6 /\ s[1] = 92 /\ s[2] = 117 /\ \A k \in 3 .. 6 : Digit(s[k]) >= 0
  THEN {4096 * Digit(s[3]) + 256 * Digit(s[4]) + 16 * Digit(s[5]) + Digit(s[6])}
  ELSE {}

\* The escapes of one letter.
Letters == {<<34, 34>>, <<92, 92>>, <<47, 47>>, <<98, 8>>, <<102, 12>>, <<110, 10>>,
            <<114, 13>>, <<116, 9>>}

\* The code points one item of a string literal may denote: a raw character, a
\* two-byte escape, or the escapes of its one or two UTF-16 units.  U+0000 is
\* refused by design.
Item(s) ==
  LET short == IF Len(s) = 2 THEN {e[2] : e \in {f \in Letters : f[1] = s[2]}} ELSE {}
      one   == {u \in Unit(s) : Scalar(u) /\ u # 0}
      two   == IF Len(s) # 12 THEN {}
               ELSE {65536 + (h - 55296) * 1024 + (l - 56320) :
                       h \in Unit(SubSeq(s, 1, 6)) \cap (55296 .. 56319),
                       l \in Unit(SubSeq(s, 7, 12)) \cap (56320 .. 57343)}
  IN  IF s[1] # 92 THEN Form(s) ELSE short \cup one \cup two

\* The texts that end at j, given those that end before, when part[<<i, j>>] are the
\* code points the bytes after the i-th up to the j-th may stand for.
Ends(part, u, j) ==
  UNION {{rest \o <<p>> : rest \in u[i], p \in part[<<i, j>>]} :
         i \in {k \in 0 .. j - 1 : part[<<k, j>>] # {}}}

\* The texts that n bytes make.
Chains(part, n) ==
  LET upto[j \in 0 .. n] == IF j = 0 THEN {<<>>} ELSE Ends(part, upto, j)
  IN  upto[n]

Items(s) ==
  [c \in (0 .. Len(s)) \X (0 .. Len(s)) |->
     IF c[1] < c[2] THEN Item(SubSeq(s, c[1] + 1, c[2])) ELSE {}]
Forms(s) ==
  [c \in (0 .. Len(s)) \X (0 .. Len(s)) |->
     IF c[1] < c[2] THEN Form(SubSeq(s, c[1] + 1, c[2])) ELSE {}]

\* The texts the inside of a string literal denotes, and the texts the bytes are the
\* plain UTF-8 of: one or none.
Texts(s) == Chains(Items(s), Len(s))
Plain(s) == Chains(Forms(s), Len(s))

\* Where a code point stands in UTF-16 order: supplementary ones begin with a
\* surrogate and so come before U+E000.
Rank(p) == IF p < 55296 THEN p ELSE IF p >= 65536 THEN p - 10240 ELSE p + 1048576

\* Text a comes strictly before text b.
Before(a, b) ==
  \E k \in 0 .. Len(a) :
    /\ k < Len(b) /\ SubSeq(a, 1, k) = SubSeq(b, 1, k)
    /\ k = Len(a) \/ Rank(a[k + 1]) < Rank(b[k + 1])
=============================================================================
