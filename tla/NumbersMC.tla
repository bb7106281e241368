------------------------------ MODULE NumbersMC ------------------------------
(***************************************************************************)
(* Reference definitions for numbers, written from RFC 8259 section 6 and  *)
(* from decimal notation, and what the readers and the copy owe them.      *)
(***************************************************************************)
EXTENDS Numbers

\* The ASCII codes of "-", ".", "0", "1", "2", "3", "6" and "e": enough to write
\* the largest word, the extreme signed numbers and their neighbours.
SampleBytes == {45, 46, 48, 49, 50, 51, 54, 101}

digits(s, from, to) == \A i \in from .. to : is_digit(s[i])

\* number = [ minus ] int [ frac ] [ exp ], cut after positions m, i and f.
is_number(s) ==
  \E m, i, f \in 0 .. Len(s) :
    /\ m = 0 \/ (m = 1 /\ s[1] = minus)
    /\ i > m /\ digits(s, m + 1, i) /\ (s[m + 1] = zero => i = m + 1)
    /\ f = i \/ (f > i + 1 /\ s[i + 1] = point /\ digits(s, i + 2, f))
    /\ \/ f = Len(s)
       \/ \E k \in {1, 2} : /\ f + k < Len(s) /\ s[f + 1] \in exponent
                            /\ k = 2 => s[f + 2] \in {plus, minus}
                            /\ digits(s, f + k + 1, Len(s))

is_integer(s) == \A i \in DOMAIN s : s[i] # point /\ s[i] \notin exponent

\* The number the digits from position `from` to position `to` denote.
digits_value(s, from, to) ==
  LET value[n \in from - 1 .. Len(s)] ==
        IF n < from THEN 0 ELSE 10 * value[n - 1] + (s[n] - zero)
  IN  value[to]

\* The number an integer lexeme denotes.
decimal(s) == IF s[1] = minus THEN -digits_value(s, 2, Len(s)) ELSE digits_value(s, 1, Len(s))

\* Where the fraction or the exponent begins, or one past the lexeme.
int_end(s) ==
  CHOOSE e \in 1 .. Len(s) + 1 :
    /\ \A i \in 1 .. e - 1 : s[i] # point /\ s[i] \notin exponent
    /\ e <= Len(s) => s[e] = point \/ s[e] \in exponent

\* The size of a number without its sign, its fraction and its exponent.
int_magnitude(s) == digits_value(s, IF s[1] = minus THEN 2 ELSE 1, int_end(s) - 1)

fits(n) == IF signed THEN -SignedMagnitude <= n /\ n <= SignedMax
           ELSE 0 <= n /\ n <= UnsignedMax

largest_magnitude == IF signed THEN SignedMagnitude ELSE UnsignedMax

\* The lexemes number_syntax accepts are the numbers of RFC 8259 and no others.
SyntaxIsGrammar ==
  /\ pc = "refused" => ~is_number(lexeme)
  /\ pc \notin {"parse", "refused"} => is_number(lexeme)

\* An integer reader answers an integer lexeme with its value, or RANGE exactly
\* when it does not fit.  It never reads a number with a fraction or an exponent:
\* the answer is NOT_INTEGER when the digits before them could be the magnitude
\* of an integer it reads, and RANGE when they already are too large for one,
\* where include/maelys/json.h has NOT_INTEGER for both (FractionsAreCopied is
\* about what comes of it).
ReadsExactly ==
  pc = "done" /\ caller # "copy" =>
    IF ~is_integer(lexeme)
    THEN code = IF int_magnitude(lexeme) <= largest_magnitude THEN "NOT_INTEGER" ELSE "RANGE"
    ELSE IF fits(decimal(lexeme)) THEN code = "OK" /\ number = decimal(lexeme)
    ELSE code = "RANGE"

\* A copied number is still the number it was: an integer by value, within
\* [-2^63, 2^64 - 1] and exactly there; the rest, if at all, by its lexeme.
CopyKeepsNumber ==
  pc = "done" /\ caller = "copy" =>
    IF ~is_integer(lexeme) THEN written.as # "integer"
    ELSE LET n == decimal(lexeme)
         IN  IF -SignedMagnitude <= n /\ n <= UnsignedMax
             THEN written = [as |-> "integer", number |-> n]
             ELSE written = nothing /\ code = "RANGE"

\* "An integer in [-2^63, 2^64 - 1] is written as an integer; any other number is
\* copied by its lexeme, ... so what was read can always be written again. An
\* integer beyond that interval is a RANGE error" (include/maelys/json.h).
FractionsAreCopied ==
  pc = "done" /\ caller = "copy" /\ ~is_integer(lexeme) => written.as = "lexeme"
=============================================================================
