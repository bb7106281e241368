------------------------------- MODULE Numbers -------------------------------
(***************************************************************************)
(* The integer readers of src/src/document.c and the copy of a number in   *)
(* src/src/writer.c, one byte of the lexeme a step.  A lexeme is the       *)
(* sequence of its ASCII codes.  Machine words have UnsignedMax + 1        *)
(* values, and arithmetic on them wraps.                                   *)
(***************************************************************************)
EXTENDS Integers, Sequences

CONSTANTS
  Bytes, MaxLength,      \* the lexemes considered
  UnsignedMax            \* UINT64_MAX

SignedMagnitude == (UnsignedMax + 1) \div 2     \* minimum_magnitude, 2^63
SignedMax == SignedMagnitude - 1                \* INT64_MAX

ASSUME NumbersAssumption ==
  /\ UnsignedMax \in Nat /\ UnsignedMax >= 17 /\ UnsignedMax % 2 = 1
  /\ Bytes \subseteq Nat /\ MaxLength \in Nat

minus == 45
point == 46
plus == 43
zero == 48
nine == 57
exponent == {69, 101}

is_digit(byte) == zero <= byte /\ byte <= nine

-----------------------------------------------------------------------------
(* maelys_json_number_syntax.  An offset is a position in the lexeme, and   *)
(* one past it at the end; 0 says that the lexeme is refused.               *)

while_digits(s, from) ==
  CHOOSE o \in from .. Len(s) + 1 :
    /\ \A i \in from .. o - 1 : is_digit(s[i])
    /\ o <= Len(s) => ~is_digit(s[o])

\* Mutant: a fraction or an exponent may have no digit.
some_digits_none(s, from) == while_digits(s, from)
some_digits(s, from) == LET o == while_digits(s, from) IN IF o = from THEN 0 ELSE o

after_sign(s) == IF s # <<>> /\ s[1] = minus THEN 2 ELSE 1

integer_part(s, from) ==
  IF from > Len(s) THEN 0
  ELSE IF s[from] = zero THEN from + 1
  ELSE some_digits(s, from)

fraction_part(s, from) ==
  IF from \in DOMAIN s /\ s[from] = point THEN some_digits(s, from + 1) ELSE from

exponent_part(s, from) ==
  IF from \in DOMAIN s /\ s[from] \in exponent
  THEN some_digits(s, IF from + 1 <= Len(s) /\ s[from + 1] \in {plus, minus}
                      THEN from + 2 ELSE from + 1)
  ELSE from

number_syntax(s) ==
  LET i == integer_part(s, after_sign(s))
      f == fraction_part(s, i)
      e == exponent_part(s, f)
  IN  i # 0 /\ f # 0 /\ e = Len(s) + 1

-----------------------------------------------------------------------------
VARIABLES
  lexeme,              \* bytes up to the next delimiter, then text of a token
  pc,                  \* "parse", "refused", "idle", "scan", "return", "done"
  caller,              \* "u64", "i64" or "copy"
  maximum, negative,   \* of read_magnitude
  offset, magnitude,
  code, number,        \* what the reader returns
  written              \* what copy_number hands to the writer

vars == <<lexeme, pc, caller, maximum, negative, offset, magnitude, code, number, written>>

nothing == [as |-> "nothing", number |-> 0]

\* parse_primitive accepts a number or refuses the document.
Parse ==
  /\ pc = "parse"
  /\ pc' = IF number_syntax(lexeme) THEN "idle" ELSE "refused"
  /\ UNCHANGED <<lexeme, caller, maximum, negative, offset, magnitude, code, number, written>>

\* The reader copy_number and the two public calls end in.
signed == caller = "i64" \/ (caller = "copy" /\ negative)

\* read_magnitude up to its loop.
Call(who) ==
  /\ pc = "idle" /\ pc' = "scan"
  /\ caller' = who
  /\ negative' = (lexeme[1] = minus)
  /\ offset' = after_sign(lexeme)
  /\ magnitude' = 0
  /\ maximum' = IF signed' THEN SignedMagnitude ELSE UnsignedMax
  /\ UNCHANGED <<lexeme, code, number, written>>

Scanning == pc = "scan" /\ offset <= Len(lexeme)
digit == lexeme[offset] - zero

\* Mutant: the digit to come is not taken into account.
out_of_range_digit == magnitude > maximum \div 10
out_of_range == magnitude > (maximum - digit) \div 10

Return(result) == pc' = "return" /\ code' = result

NotInteger ==
  /\ Scanning /\ ~is_digit(lexeme[offset])
  /\ Return("NOT_INTEGER")
  /\ UNCHANGED <<lexeme, caller, maximum, negative, offset, magnitude, number, written>>

OutOfRange ==
  /\ Scanning /\ is_digit(lexeme[offset]) /\ out_of_range
  /\ Return("RANGE")
  /\ UNCHANGED <<lexeme, caller, maximum, negative, offset, magnitude, number, written>>

Digit ==
  /\ Scanning /\ is_digit(lexeme[offset]) /\ ~out_of_range
  /\ magnitude' = (magnitude * 10 + digit) % (UnsignedMax + 1)
  /\ offset' = offset + 1
  /\ UNCHANGED <<lexeme, pc, caller, maximum, negative, code, number, written>>

Scanned == pc = "scan" /\ offset > Len(lexeme)

ReturnUnsigned ==
  /\ Scanned /\ ~signed
  /\ \/ negative /\ magnitude # 0 /\ Return("RANGE") /\ UNCHANGED number
     \/ ~(negative /\ magnitude # 0) /\ Return("OK") /\ number' = magnitude
  /\ UNCHANGED <<lexeme, caller, maximum, negative, offset, magnitude, written>>

\* A word read as a signed number.
to_signed(word) == IF word <= SignedMax THEN word ELSE word - (UnsignedMax + 1)

\* Mutant: the least number is negated like the others.
signed_value_negated == IF negative THEN -to_signed(magnitude) ELSE to_signed(magnitude)
signed_value ==
  IF negative /\ magnitude = SignedMagnitude THEN -SignedMagnitude
  ELSE IF negative THEN -to_signed(magnitude) ELSE to_signed(magnitude)

ReturnSigned ==
  /\ Scanned /\ signed
  /\ \/ ~negative /\ magnitude > SignedMax /\ Return("RANGE") /\ UNCHANGED number
     \/ ~(~negative /\ magnitude > SignedMax) /\ Return("OK") /\ number' = signed_value
  /\ UNCHANGED <<lexeme, caller, maximum, negative, offset, magnitude, written>>

Answer ==
  /\ pc = "return" /\ caller \in {"u64", "i64"} /\ pc' = "done"
  /\ UNCHANGED <<lexeme, caller, maximum, negative, offset, magnitude, code, number, written>>

\* Mutant: a lexeme stands in for every number the reader refuses.
copy_number_lexeme ==
  /\ pc = "return" /\ caller = "copy" /\ pc' = "done"
  /\ written' = IF code = "OK" THEN [as |-> "integer", number |-> number]
                ELSE [as |-> "lexeme", number |-> 0]
  /\ code' = "OK"
  /\ UNCHANGED <<lexeme, caller, maximum, negative, offset, magnitude, number>>

\* copy_number after its reader; a lexeme is handed over as it is.
copy_number ==
  /\ pc = "return" /\ caller = "copy" /\ pc' = "done"
  /\ written' = CASE code = "OK" -> [as |-> "integer", number |-> number]
                  [] code = "NOT_INTEGER" -> [as |-> "lexeme", number |-> 0]
                  [] code = "RANGE" -> nothing
  /\ code' = IF code = "NOT_INTEGER" THEN "OK" ELSE code
  /\ UNCHANGED <<lexeme, caller, maximum, negative, offset, magnitude, number>>

Lexemes == UNION {[1 .. n -> Bytes] : n \in 1 .. MaxLength}

Init ==
  /\ lexeme \in Lexemes
  /\ pc = "parse" /\ caller = "none" /\ maximum = 0 /\ negative = FALSE
  /\ offset = 1 /\ magnitude = 0 /\ code = "none" /\ number = 0
  /\ written = nothing

Next ==
  \/ Parse
  \/ \E who \in {"u64", "i64", "copy"} : Call(who)
  \/ NotInteger \/ OutOfRange \/ Digit
  \/ ReturnUnsigned \/ ReturnSigned \/ Answer \/ copy_number

Spec == Init /\ [][Next]_vars

-----------------------------------------------------------------------------
(* Properties.                                                              *)

\* Every field has its type: a magnitude is a word no larger than the maximum the
\* caller gave, so that the subtraction in the guard never wraps either.
TypeOK ==
  /\ lexeme \in Seq(Bytes) /\ lexeme # <<>>
  /\ pc \in {"parse", "refused", "idle", "scan", "return", "done"}
  /\ caller \in {"none", "u64", "i64", "copy"}
  /\ maximum \in {0, SignedMagnitude, UnsignedMax} /\ negative \in BOOLEAN
  /\ offset \in Nat \ {0} /\ magnitude \in 0 .. maximum
  /\ code \in {"none", "OK", "NOT_INTEGER", "RANGE"} /\ number \in Int

\* The word never wraps: each digit step computes the mathematical value, for the
\* largest words included (the guard of read_magnitude).
NeverWraps == [][Digit => magnitude' = 10 * magnitude + digit]_vars
=============================================================================
