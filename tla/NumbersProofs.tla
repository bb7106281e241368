---------------------------- MODULE NumbersProofs ----------------------------
(***************************************************************************)
(* Number syntax, the integer readers and the copy, for lexemes of every   *)
(* length and words of every width: number_syntax accepts the numbers of   *)
(* the grammar, no digit step wraps, and what is read or copied is the     *)
(* number the lexeme denotes.                                              *)
(***************************************************************************)
EXTENDS NumbersMC, FiniteSetTheorems, TLAPS

\* The guard of read_magnitude is exact: what passes it stays within the maximum.
LEMMA GuardSuffices ==
  ASSUME NEW maxi \in Nat, NEW m \in Nat, NEW d \in 0 .. 9, maxi >= 9,
         ~(m > (maxi - d) \div 10)
  PROVE  10 * m + d <= maxi
  OBVIOUS

\* The two maxima the readers use: large enough for a digit to be subtracted.
LEMMA MaximumFacts ==
  /\ SignedMagnitude \in Nat /\ SignedMagnitude >= 9 /\ SignedMagnitude <= UnsignedMax
  /\ UnsignedMax \in Nat /\ UnsignedMax >= 9
  BY NumbersAssumption DEF SignedMagnitude

\* A lexeme is a non-empty sequence of bytes.
LEMMA LexemesAreSequences ==
  ASSUME NEW s \in Lexemes
  PROVE  s \in Seq(Bytes) /\ s # <<>>
<1>1. PICK n \in 1 .. MaxLength : s \in [1 .. n -> Bytes]
  BY DEF Lexemes
<1>2. n \in Nat /\ n >= 1
  BY <1>1, NumbersAssumption
<1>3. s \in Seq(Bytes) /\ Len(s) = n
  BY <1>1, <1>2
<1> QED
  BY <1>2, <1>3

\* In the loop the maximum is one of the readers'.
Started == pc = "scan" => maximum \in {SignedMagnitude, UnsignedMax}

\* The inductive invariant.
Inv == TypeOK /\ Started

\* The digit of a byte that is one, and the step it allows.
LEMMA DigitStep ==
  ASSUME Inv, Digit
  PROVE  /\ digit \in 0 .. 9
         /\ 10 * magnitude + digit \in 0 .. maximum
         /\ magnitude' = 10 * magnitude + digit
<1>1. lexeme[offset] \in Nat /\ offset \in Nat
  <2>1. lexeme \in Seq(Bytes) /\ offset \in Nat /\ offset >= 1 /\ offset <= Len(lexeme)
    BY DEF Inv, TypeOK, Digit, Scanning
  <2>2. offset \in 1 .. Len(lexeme)
    BY <2>1
  <2>3. lexeme[offset] \in Bytes
    BY <2>1, <2>2
  <2> QED
    BY <2>1, <2>3, NumbersAssumption
<1>2. digit \in 0 .. 9
  BY <1>1 DEF Digit, is_digit, digit, zero, nine
<1>3. maximum \in Nat /\ maximum >= 9 /\ maximum <= UnsignedMax /\ magnitude \in Nat
  BY MaximumFacts DEF Inv, TypeOK, Started, Digit, Scanning
<1>4. 10 * magnitude + digit <= maximum
  <2>1. ~(magnitude > (maximum - digit) \div 10)
    BY DEF Digit, out_of_range
  <2> QED
    BY <1>2, <1>3, <2>1, GuardSuffices
<1>5. 10 * magnitude + digit \in 0 .. maximum
  BY <1>2, <1>3, <1>4
<1>6. magnitude' = (10 * magnitude + digit) % (UnsignedMax + 1)
  BY <1>2, <1>3 DEF Digit
<1>7. (10 * magnitude + digit) % (UnsignedMax + 1) = 10 * magnitude + digit
  <2> DEFINE x == 10 * magnitude + digit
  <2>1. x \in Nat /\ x <= UnsignedMax /\ UnsignedMax \in Nat
    BY <1>3, <1>5, MaximumFacts
  <2> HIDE DEF x
  <2>2. x % (UnsignedMax + 1) = x
    BY <2>1
  <2> QED
    BY <2>2 DEF x
<1> QED
  BY <1>2, <1>5, <1>6, <1>7

\* The invariant holds before the call.
LEMMA InvInit == Init => Inv
<1> SUFFICES ASSUME Init
             PROVE  Inv
  OBVIOUS
<1>1. lexeme \in Seq(Bytes) /\ lexeme # <<>>
  BY LexemesAreSequences DEF Init
<1>2. maximum = 0 /\ magnitude \in 0 .. maximum /\ offset \in Nat \ {0} /\ number \in Int
  BY DEF Init
<1>3. negative \in BOOLEAN
  BY DEF Init
<1>4. /\ pc \in {"parse", "refused", "idle", "scan", "return", "done"} /\ Started
      /\ caller \in {"none", "u64", "i64", "copy"}
      /\ code \in {"none", "OK", "NOT_INTEGER", "RANGE"}
  BY DEF Init, Started
<1> QED
  BY <1>1, <1>2, <1>3, <1>4 DEF Inv, TypeOK

\* Each step preserves the invariant.
LEMMA InvStep == Inv /\ [Next]_vars => Inv'
<1> SUFFICES ASSUME Inv, [Next]_vars
             PROVE  Inv'
  OBVIOUS
<1> USE DEF Inv, TypeOK, Started
<1>0. CASE UNCHANGED vars
  BY <1>0 DEF vars
<1>1. CASE Parse
  BY <1>1 DEF Parse
<1>2. ASSUME NEW who \in {"u64", "i64", "copy"}, Call(who)
      PROVE  Inv'
  <2>1. offset' \in Nat \ {0} /\ negative' \in BOOLEAN
    BY <1>2 DEF Call, after_sign
  <2>2. maximum' \in {SignedMagnitude, UnsignedMax} /\ magnitude' \in 0 .. maximum'
    BY <1>2, MaximumFacts DEF Call
  <2> QED
    BY <1>2, <2>1, <2>2 DEF Call
<1>3. CASE NotInteger
  BY <1>3 DEF NotInteger, Return
<1>4. CASE OutOfRange
  BY <1>4 DEF OutOfRange, Return
<1>5. CASE Digit
  <2>1. magnitude' \in 0 .. maximum
    BY <1>5, DigitStep
  <2> QED
    BY <1>5, <2>1 DEF Digit
<1>6. CASE ReturnUnsigned
  <2>1. number' \in Int
    BY <1>6, MaximumFacts DEF ReturnUnsigned
  <2> QED
    BY <1>6, <2>1 DEF ReturnUnsigned, Return
<1>7. CASE ReturnSigned
  <2>1. signed_value \in Int
    BY MaximumFacts DEF signed_value, to_signed, SignedMax
  <2>2. number' \in Int
    BY <1>7, <2>1 DEF ReturnSigned
  <2> QED
    BY <1>7, <2>2 DEF ReturnSigned, Return
<1>8. CASE Answer
  BY <1>8 DEF Answer
<1>9. CASE copy_number
  BY <1>9 DEF copy_number
<1> QED
  BY <1>0, <1>1, <1>2, <1>3, <1>4, <1>5, <1>6, <1>7, <1>8, <1>9 DEF Next

\* The readers keep their types, and the magnitude its bound, whatever the width.
THEOREM NumbersTyped == Spec => []TypeOK
<1>1. Inv => TypeOK
  BY DEF Inv
<1> QED
  BY <1>1, InvInit, InvStep, PTL DEF Spec

\* No digit step of read_magnitude wraps, whatever the width of a word.
THEOREM NoWrap == Spec => NeverWraps
<1>1. Inv /\ [Next]_vars => [Digit => magnitude' = 10 * magnitude + digit]_vars
  BY DigitStep
<1> QED
  BY <1>1, InvInit, InvStep, PTL DEF Spec, NeverWraps

-----------------------------------------------------------------------------
(* Numbers are well ordered, and a set of them can be induced over.         *)

\* A nonempty set of numbers has a least one.
LEMMA LeastNumber ==
  ASSUME NEW S \in SUBSET Nat, S # {}
  PROVE  \E d \in S : \A e \in S : d <= e
  <1> PICK m \in S : TRUE OBVIOUS
  <1> DEFINE T == {0 .. d : d \in {x \in S : x <= m}}
             W == FiniteSubsetsOf(0 .. m)
             R == StrictSubsetOrdering(0 .. m)
  <1>1. T \subseteq W
    <2> SUFFICES ASSUME NEW d \in S, d <= m PROVE 0 .. d \in W OBVIOUS
    <2>1. IsFiniteSet(0 .. d) BY FS_Interval
    <2> QED BY <2>1 DEF FiniteSubsetsOf
  <1>2. T # {} OBVIOUS
  <1>3. IsWellFoundedOn(R, W) BY FS_StrictSubsetOrderingWellFounded
  <1> HIDE DEF W, R
  <1>4. PICK I \in T : \A J \in T : ~ (<<J, I>> \in R) BY <1>1, <1>2, <1>3, WFMin
  <1>5. PICK d \in S : d <= m /\ I = 0 .. d OBVIOUS
  <1>6. \A e \in S : d <= e
    <2> SUFFICES ASSUME NEW e \in S, e < d PROVE FALSE OBVIOUS
    <2>1. 0 .. e \in T BY <1>5
    <2>2. (0 .. e) \subseteq (0 .. d) /\ d \in 0 .. d /\ d \notin 0 .. e OBVIOUS
    <2>3. (0 .. d) \subseteq 0 .. m BY <1>5
    <2>4. <<0 .. e, 0 .. d>> \in R BY <2>2, <2>3 DEF R, StrictSubsetOrdering
    <2> QED BY <1>4, <1>5, <2>1, <2>4
  <1> QED BY <1>6

\* Induction, for a predicate given by the set of the numbers it holds of.
LEMMA NumbersInduction ==
  ASSUME NEW S \in SUBSET Nat, NEW low \in Nat, low \in S,
         \A n \in S : n >= low => n + 1 \in S
  PROVE  \A n \in Nat : n >= low => n \in S
  <1> DEFINE T == {n \in Nat : n >= low /\ n \notin S}
  <1> SUFFICES ASSUME T # {} PROVE FALSE OBVIOUS
  <1>1. PICK d \in T : \A e \in T : d <= e BY LeastNumber
  <1>2. d # low /\ d - 1 \in Nat /\ d - 1 >= low BY <1>1
  <1>3. d - 1 \notin T BY <1>1, <1>2
  <1>4. d - 1 \in S BY <1>2, <1>3
  <1>5. (d - 1) + 1 \in S BY <1>2, <1>4
  <1> QED BY <1>1, <1>5

-----------------------------------------------------------------------------
(* number_syntax.                                                           *)

\* What while_digits returns: the end of the run of digits that begins at `from`.
EndsRun(s, from, o) ==
  /\ o \in from .. Len(s) + 1 /\ digits(s, from, o - 1)
  /\ o <= Len(s) => ~is_digit(s[o])

\* Every run of digits has an end.
LEMMA RunEnds ==
  ASSUME NEW s \in Seq(Nat), NEW from \in 1 .. Len(s) + 1
  PROVE  EndsRun(s, from, while_digits(s, from))
  <1> DEFINE S == {o \in from .. Len(s) + 1 : o = Len(s) + 1 \/ ~is_digit(s[o])}
  <1>1. S \in SUBSET Nat /\ Len(s) + 1 \in S OBVIOUS
  <1>2. PICK o \in S : \A e \in S : o <= e BY <1>1, LeastNumber
  <1>3. \A i \in from .. o - 1 : is_digit(s[i])
    <2> SUFFICES ASSUME NEW i \in from .. o - 1, ~is_digit(s[i]) PROVE FALSE OBVIOUS
    <2>1. i \in S /\ i < o BY <1>2
    <2> QED BY <1>2, <2>1
  <1>4. EndsRun(s, from, o) BY <1>2, <1>3 DEF EndsRun, digits
  <1> QED BY <1>4 DEF EndsRun, digits, while_digits

\* A run has one end.
LEMMA RunEndsOnce ==
  ASSUME NEW s \in Seq(Nat), NEW from \in 1 .. Len(s) + 1, NEW o, EndsRun(s, from, o)
  PROVE  while_digits(s, from) = o
  <1> DEFINE w == while_digits(s, from)
  <1>1. EndsRun(s, from, w) BY RunEnds
  <1> HIDE DEF w
  <1>2. ASSUME w < o PROVE FALSE
    <2>1. w \in from .. o - 1 /\ w <= Len(s) BY <1>1, <1>2 DEF EndsRun
    <2> QED BY <1>1, <2>1 DEF EndsRun, digits
  <1>3. ASSUME o < w PROVE FALSE
    <2>1. o \in from .. w - 1 /\ o <= Len(s) BY <1>1, <1>3 DEF EndsRun
    <2> QED BY <1>1, <2>1 DEF EndsRun, digits
  <1>4. w = o BY <1>1, <1>2, <1>3 DEF EndsRun
  <1> QED BY <1>4 DEF w

\* The bytes that are no digits.
LEMMA NoDigits ==
  /\ ~is_digit(minus) /\ ~is_digit(plus) /\ ~is_digit(point)
  /\ \A b \in exponent : ~is_digit(b) /\ b # point
  /\ is_digit(zero)
  BY DEF is_digit, minus, plus, point, exponent, zero, nine

\* The lexeme has a sign, m = 1, or none, m = 0.
LEMMA SignPart ==
  ASSUME NEW s \in Seq(Nat), s # <<>>
  PROVE  \E m \in {0, 1} : /\ after_sign(s) = m + 1 /\ (m = 1 => s[1] = minus)
                           /\ m = 0 => s[1] # minus
  <1>1. CASE s[1] = minus BY <1>1 DEF after_sign
  <1>2. CASE s[1] # minus BY <1>2 DEF after_sign
  <1> QED BY <1>1, <1>2

\* What number_syntax accepts is a number of the grammar.
LEMMA AcceptedIsNumber ==
  ASSUME NEW s \in Seq(Nat), s # <<>>, number_syntax(s)
  PROVE  is_number(s)
  <1> DEFINE a == after_sign(s)
             i == integer_part(s, a)
             f == fraction_part(s, i)
             e == exponent_part(s, f)
  <1>1. i # 0 /\ f # 0 /\ e = Len(s) + 1 BY DEF number_syntax
  <1>2. PICK m \in {0, 1} : a = m + 1 /\ (m = 1 => s[1] = minus) BY SignPart
  <1>0. Len(s) \in Nat /\ Len(s) >= 1 OBVIOUS
  <1>3. a \in 1 .. Len(s) BY <1>0, <1>1, <1>2 DEF integer_part
  <1>4. /\ i \in a + 1 .. Len(s) + 1 /\ digits(s, a, i - 1)
        /\ s[a] = zero => i = a + 1
    <2>1. CASE s[a] = zero
      <3>1. i = a + 1 BY <1>3, <2>1 DEF integer_part
      <3> QED BY <1>3, <2>1, <3>1, NoDigits DEF digits
    <2>2. CASE s[a] # zero
      <3>1. i = while_digits(s, a) /\ i # a
        BY <1>1, <1>3, <2>2 DEF integer_part, some_digits
      <3>2. EndsRun(s, a, i) BY <1>3, <3>1, RunEnds
      <3> QED BY <1>3, <2>2, <3>1, <3>2 DEF EndsRun
    <2> QED BY <2>1, <2>2
  <1> HIDE DEF a, i
  <1>5. \/ f = i
        \/ f \in i + 2 .. Len(s) + 1 /\ s[i] = point /\ digits(s, i + 1, f - 1)
    <2>1. CASE i \in DOMAIN s /\ s[i] = point
      <3>1. i \in 1 .. Len(s) BY <2>1
      <3>2. f = while_digits(s, i + 1) /\ f # i + 1
        BY <1>1, <2>1 DEF fraction_part, some_digits
      <3>3. EndsRun(s, i + 1, f) BY <3>1, <3>2, RunEnds
      <3> QED BY <2>1, <3>1, <3>2, <3>3 DEF EndsRun
    <2>2. CASE ~(i \in DOMAIN s /\ s[i] = point) BY <2>2 DEF fraction_part
    <2> QED BY <2>1, <2>2
  <1> HIDE DEF f
  <1>6. f \in 1 .. Len(s) + 1 BY <1>2, <1>3, <1>4, <1>5
  <1>7. \/ f = Len(s) + 1
        \/ \E k \in {1, 2} : /\ f + k <= Len(s) /\ s[f] \in exponent
                             /\ k = 2 => s[f + 1] \in {plus, minus}
                             /\ digits(s, f + k, Len(s))
    <2>1. CASE f \in DOMAIN s /\ s[f] \in exponent
      <3> DEFINE k == IF f + 1 <= Len(s) /\ s[f + 1] \in {plus, minus} THEN 2 ELSE 1
      <3>1. f \in 1 .. Len(s) BY <2>1
      <3>2. /\ k \in {1, 2} /\ (k = 2 => s[f + 1] \in {plus, minus})
            /\ f + k \in 1 .. Len(s) + 1 BY <3>1
      <3>3. e = some_digits(s, f + k) BY <2>1 DEF exponent_part
      <3> HIDE DEF k
      <3>4. e = while_digits(s, f + k) /\ e # f + k
        BY <1>1, <3>3 DEF some_digits
      <3>5. EndsRun(s, f + k, Len(s) + 1) BY <1>1, <3>2, <3>4, RunEnds
      <3>6. f + k <= Len(s) BY <1>1, <3>2, <3>4
      <3>7. digits(s, f + k, Len(s)) BY <3>5 DEF EndsRun, digits
      <3> QED BY <2>1, <3>2, <3>6, <3>7
    <2>2. CASE ~(f \in DOMAIN s /\ s[f] \in exponent)
      BY <1>1, <2>2 DEF exponent_part
    <2> QED BY <2>1, <2>2
  <1>8. /\ m \in 0 .. Len(s) /\ i - 1 \in 0 .. Len(s) /\ f - 1 \in 0 .. Len(s)
        /\ (m = 0 \/ (m = 1 /\ s[1] = minus)) /\ i - 1 > m
    BY <1>2, <1>3, <1>4, <1>6
  <1>9. digits(s, m + 1, i - 1) /\ (s[m + 1] = zero => i - 1 = m + 1)
    BY <1>2, <1>3, <1>4
  <1>10. \/ f - 1 = i - 1
         \/ /\ f - 1 > (i - 1) + 1 /\ s[(i - 1) + 1] = point
            /\ digits(s, (i - 1) + 2, f - 1)
    BY <1>3, <1>4, <1>5
  <1>11. \/ f - 1 = Len(s)
         \/ \E k \in {1, 2} : /\ (f - 1) + k < Len(s) /\ s[(f - 1) + 1] \in exponent
                              /\ k = 2 => s[(f - 1) + 2] \in {plus, minus}
                              /\ digits(s, (f - 1) + k + 1, Len(s))
    <2>1. (f - 1) + 1 = f /\ (f - 1) + 2 = f + 1 BY <1>6
    <2>2. \A k \in {1, 2} : (f - 1) + k + 1 = f + k /\ ((f - 1) + k < Len(s) <=> f + k <= Len(s))
      BY <1>6
    <2> QED BY <1>6, <1>7, <2>1, <2>2
  <1> QED BY <1>8, <1>9, <1>10, <1>11 DEF is_number

\* number_syntax accepts every number of the grammar.
LEMMA NumberIsAccepted ==
  ASSUME NEW s \in Seq(Nat), s # <<>>, is_number(s)
  PROVE  number_syntax(s)
  <1>1. PICK m \in 0 .. Len(s), i \in 0 .. Len(s), f \in 0 .. Len(s) :
          /\ m = 0 \/ (m = 1 /\ s[1] = minus)
          /\ i > m /\ digits(s, m + 1, i) /\ (s[m + 1] = zero => i = m + 1)
          /\ f = i \/ (f > i + 1 /\ s[i + 1] = point /\ digits(s, i + 2, f))
          /\ \/ f = Len(s)
             \/ \E k \in {1, 2} : /\ f + k < Len(s) /\ s[f + 1] \in exponent
                                  /\ k = 2 => s[f + 2] \in {plus, minus}
                                  /\ digits(s, f + k + 1, Len(s))
    BY DEF is_number
  <1>2. after_sign(s) = m + 1
    <2>1. CASE m = 0
      <3>1. is_digit(s[1]) BY <1>1, <2>1 DEF digits
      <3> QED BY <2>1, <3>1, NoDigits DEF after_sign
    <2>2. CASE m = 1 BY <1>1, <2>2 DEF after_sign
    <2> QED BY <1>1, <2>1, <2>2
  <1>3. integer_part(s, m + 1) = i + 1
    <2>1. m + 1 \in 1 .. Len(s) BY <1>1
    <2>2. CASE s[m + 1] = zero BY <1>1, <2>1, <2>2 DEF integer_part
    <2>3. CASE s[m + 1] # zero
      <3>1. i + 1 <= Len(s) => ~is_digit(s[i + 1])
        <4>1. CASE f = i BY <1>1, <4>1, NoDigits
        <4>2. CASE s[i + 1] = point BY <4>2, NoDigits
        <4> QED BY <1>1, <4>1, <4>2
      <3>2. EndsRun(s, m + 1, i + 1) BY <1>1, <2>1, <3>1 DEF EndsRun, digits
      <3>3. while_digits(s, m + 1) = i + 1 BY <2>1, <3>2, RunEndsOnce
      <3>4. i + 1 # m + 1 BY <1>1
      <3>5. some_digits(s, m + 1) = i + 1 BY <3>3, <3>4 DEF some_digits
      <3> QED BY <2>1, <2>3, <3>5 DEF integer_part
    <2> QED BY <2>2, <2>3
  <1>4. fraction_part(s, i + 1) = f + 1
    <2>1. CASE f = i
      <3>1. ~(i + 1 \in DOMAIN s /\ s[i + 1] = point) BY <1>1, <2>1, NoDigits
      <3> QED BY <2>1, <3>1 DEF fraction_part
    <2>2. CASE f > i + 1 /\ s[i + 1] = point /\ digits(s, i + 2, f)
      <3>1. i + 1 \in DOMAIN s /\ i + 2 \in 1 .. Len(s) + 1 BY <1>1, <2>2
      <3>2. f + 1 <= Len(s) => ~is_digit(s[f + 1]) BY <1>1, NoDigits
      <3>3. EndsRun(s, i + 2, f + 1) BY <1>1, <2>2, <3>1, <3>2 DEF EndsRun, digits
      <3>4. while_digits(s, i + 2) = f + 1 BY <3>1, <3>3, RunEndsOnce
      <3>5. (i + 1) + 1 = i + 2 /\ f + 1 # i + 2 BY <1>1, <2>2
      <3> QED BY <2>2, <3>1, <3>4, <3>5 DEF fraction_part, some_digits
    <2> QED BY <1>1, <2>1, <2>2
  <1>5. exponent_part(s, f + 1) = Len(s) + 1
    <2>1. CASE f = Len(s)
      <3>1. f + 1 \notin DOMAIN s BY <2>1
      <3> QED BY <2>1, <3>1 DEF exponent_part
    <2>2. CASE f # Len(s)
      <3>1. PICK k \in {1, 2} : /\ f + k < Len(s) /\ s[f + 1] \in exponent
                                /\ k = 2 => s[f + 2] \in {plus, minus}
                                /\ digits(s, f + k + 1, Len(s))
        BY <1>1, <2>2
      <3>2. f + 1 \in DOMAIN s /\ f + k + 1 \in 1 .. Len(s) + 1
        <4>1. Len(s) \in Nat /\ DOMAIN s = 1 .. Len(s) OBVIOUS
        <4>2. f + k < Len(s) BY <3>1
        <4> QED BY <4>1, <4>2
      <3>3. EndsRun(s, f + k + 1, Len(s) + 1) BY <3>1, <3>2 DEF EndsRun, digits
      <3>4. while_digits(s, f + k + 1) = Len(s) + 1 BY <3>2, <3>3, RunEndsOnce
      <3>5. (IF f + 2 <= Len(s) /\ s[f + 2] \in {plus, minus} THEN f + 3 ELSE f + 2) = f + k + 1
        <4>1. CASE k = 2 BY <1>1, <3>1, <4>1
        <4>2. CASE k = 1
          <5>1. is_digit(s[f + 2]) BY <1>1, <3>1, <4>2 DEF digits
          <5>2. s[f + 2] \notin {plus, minus} BY <5>1, NoDigits
          <5>3. f + 2 = f + k + 1 BY <4>2
          <5> QED BY <5>2, <5>3
        <4> QED BY <4>1, <4>2
      <3>6. (f + 1) + 1 = f + 2 /\ (f + 1) + 2 = f + 3 BY <1>1
      <3>7. exponent_part(s, f + 1) = some_digits(s, f + k + 1)
        BY <3>1, <3>2, <3>5, <3>6 DEF exponent_part
      <3> QED BY <1>1, <3>1, <3>4, <3>7 DEF some_digits
    <2> QED BY <2>1, <2>2
  <1>6. i + 1 # 0 /\ f + 1 # 0 BY <1>1, SMTT(40)
  <1> QED BY <1>2, <1>3, <1>4, <1>5, <1>6 DEF number_syntax

-----------------------------------------------------------------------------
(* The number an integer lexeme denotes.                                    *)

\* The numbers its prefixes denote, from the sign on.
Prefixes(s, from) ==
  LET value[n \in from - 1 .. Len(s)] ==
        IF n < from THEN 0 ELSE 10 * value[n - 1] + (s[n] - zero)
  IN  value

\* The decimal of a lexeme is the one of its last prefix.
LEMMA DecimalIsPrefix ==
  ASSUME NEW s
  PROVE  decimal(s) = IF s[1] = minus THEN -Prefixes(s, 2)[Len(s)] ELSE Prefixes(s, 1)[Len(s)]
  <1>1. CASE s[1] = minus BY <1>1 DEF decimal, digits_value, Prefixes
  <1>2. CASE s[1] # minus BY <1>2 DEF decimal, digits_value, Prefixes
  <1> QED BY <1>1, <1>2

Equation(s, from, last, g) ==
  g = [n \in from - 1 .. last |-> IF n < from THEN 0 ELSE 10 * g[n - 1] + (s[n] - zero)]

\* The recursive definition has a solution, and Prefixes is one.
LEMMA PrefixesExist ==
  ASSUME NEW s \in Seq(Nat), NEW from \in {1, 2}, from <= Len(s) + 1
  PROVE  Equation(s, from, Len(s), Prefixes(s, from))
  <1> DEFINE S == {n \in Nat : \E g : Equation(s, from, n, g)}
  <1>1. from - 1 \in S
    <2>1. Equation(s, from, from - 1, [n \in from - 1 .. from - 1 |-> 0])
      BY DEF Equation
    <2> QED BY <2>1
  <1>2. ASSUME NEW n \in S, n >= from - 1 PROVE n + 1 \in S
    <2>1. PICK g : Equation(s, from, n, g) BY <1>2
    <2> DEFINE h == [k \in from - 1 .. n + 1 |->
                       IF k <= n THEN g[k] ELSE 10 * g[n] + (s[n + 1] - zero)]
    <2>2. /\ \A k \in from - 1 .. n : h[k] = g[k]
          /\ h[n + 1] = 10 * g[n] + (s[n + 1] - zero)
      BY <1>2
    <2>3. ASSUME NEW k \in from - 1 .. n + 1
          PROVE  h[k] = IF k < from THEN 0 ELSE 10 * h[k - 1] + (s[k] - zero)
      <3> HIDE DEF h
      <3>1. CASE k <= n
        <4>1. g[k] = IF k < from THEN 0 ELSE 10 * g[k - 1] + (s[k] - zero)
          BY <1>2, <2>1, <3>1 DEF Equation
        <4>2. k >= from => h[k - 1] = g[k - 1] BY <1>2, <2>2, <3>1
        <4> QED BY <1>2, <2>2, <3>1, <4>1, <4>2
      <3>2. CASE k = n + 1
        <4>1. ~(k < from) /\ k - 1 = n BY <1>2, <3>2
        <4>2. h[k - 1] = g[n] BY <1>2, <2>2, <4>1
        <4> QED BY <2>2, <3>2, <4>1, <4>2
      <3> QED BY <1>2, <3>1, <3>2
    <2>4. h = [k \in from - 1 .. n + 1 |-> h[k]] OBVIOUS
    <2> HIDE DEF h
    <2>5. Equation(s, from, n + 1, h) BY <2>3, <2>4 DEF Equation
    <2> QED BY <2>5
  <1>3. S \in SUBSET Nat /\ from - 1 \in Nat OBVIOUS
  <1> HIDE DEF S
  <1>4. Len(s) \in Nat /\ Len(s) >= from - 1 OBVIOUS
  <1>5. \A n \in Nat : n >= from - 1 => n \in S BY <1>1, <1>2, <1>3, NumbersInduction
  <1>6. Len(s) \in S BY <1>4, <1>5
  <1>7. \E g : Equation(s, from, Len(s), g) BY <1>6 DEF S
  <1> QED BY <1>7 DEF Equation, Prefixes

\* What the equation says of each prefix.
LEMMA PrefixFacts ==
  ASSUME NEW s \in Seq(Nat), NEW from \in {1, 2}, from <= Len(s) + 1
  PROVE  /\ Prefixes(s, from)[from - 1] = 0
         /\ \A n \in from .. Len(s) :
              Prefixes(s, from)[n] = 10 * Prefixes(s, from)[n - 1] + (s[n] - zero)
  <1> DEFINE g == Prefixes(s, from)
  <1>1. g = [n \in from - 1 .. Len(s) |-> IF n < from THEN 0 ELSE 10 * g[n - 1] + (s[n] - zero)]
    BY PrefixesExist DEF Equation
  <1> HIDE DEF g
  <1>2. from - 1 \in from - 1 .. Len(s) /\ from - 1 < from OBVIOUS
  <1>3. g[from - 1] = 0 BY <1>1, <1>2
  <1>4. ASSUME NEW n \in from .. Len(s) PROVE g[n] = 10 * g[n - 1] + (s[n] - zero)
    <2>1. n \in from - 1 .. Len(s) /\ ~(n < from) OBVIOUS
    <2> QED BY <1>1, <2>1
  <1> QED BY <1>3, <1>4 DEF g

\* A digit more makes a number larger.
LEMMA DigitGrows ==
  \A a, b, d \in Nat : 10 * b + d \in Nat /\ (a <= b => a <= 10 * b + d)
  OBVIOUS

\* As long as there are digits, prefixes denote natural numbers and grow.
LEMMA PrefixesGrow ==
  ASSUME NEW s \in Seq(Nat), NEW from \in {1, 2}, from <= Len(s) + 1,
         NEW to \in from - 1 .. Len(s), digits(s, from, to)
  PROVE  \A n \in from - 1 .. to :
           Prefixes(s, from)[n] \in Nat /\ Prefixes(s, from)[n] <= Prefixes(s, from)[to]
  <1> DEFINE g == Prefixes(s, from)
  <1>0. to \in Nat /\ to <= Len(s) /\ Len(s) \in Nat OBVIOUS
  <1>1. g[from - 1] = 0 /\ \A n \in from .. to : g[n] = 10 * g[n - 1] + (s[n] - zero)
    <2>1. \A n \in from .. Len(s) : g[n] = 10 * g[n - 1] + (s[n] - zero) BY PrefixFacts
    <2>2. g[from - 1] = 0 BY PrefixFacts
    <2>3. \A n \in from .. to : n \in from .. Len(s) BY <1>0
    <2> HIDE DEF g
    <2> QED BY <2>1, <2>2, <2>3
  <1>2. \A n \in from .. to : s[n] - zero \in Nat
    <2> SUFFICES ASSUME NEW n \in from .. to PROVE s[n] - zero \in Nat OBVIOUS
    <2>1. s[n] \in Nat /\ is_digit(s[n])
      <3>1. n \in 1 .. Len(s) BY <1>0
      <3> QED BY <3>1 DEF digits
    <2> QED BY <2>1 DEF is_digit, zero, nine
  <1> HIDE DEF g
  <1>3. from - 1 \in Nat /\ to \in Nat BY <1>0
  <1>4. \A n \in Nat : n >= from - 1 => n \in {k \in Nat : k <= to => g[k] \in Nat}
    <2> DEFINE S == {k \in Nat : k <= to => g[k] \in Nat}
    <2>1. from - 1 \in S BY <1>1, <1>3
    <2>2. ASSUME NEW n \in S, n >= from - 1 PROVE n + 1 \in S
      <3> SUFFICES ASSUME n + 1 <= to PROVE g[n + 1] \in Nat OBVIOUS
      <3>1. n + 1 \in from .. to /\ (n + 1) - 1 = n /\ g[n] \in Nat BY <1>3, <2>2
      <3>2. g[n + 1] = 10 * g[n] + (s[n + 1] - zero) BY <1>1, <3>1
      <3>3. s[n + 1] - zero \in Nat BY <1>2, <3>1
      <3> HIDE DEF S
      <3>4. 10 * g[n] + (s[n + 1] - zero) \in Nat BY <3>1, <3>3, DigitGrows, Zenon
      <3> QED BY <3>2, <3>4, Zenon
    <2>3. S \in SUBSET Nat OBVIOUS
    <2> HIDE DEF S
    <2>4. \A n \in Nat : n >= from - 1 => n \in S BY <1>3, <2>1, <2>2, <2>3, NumbersInduction
    <2> QED BY <2>4 DEF S
  <1>5. ASSUME NEW n \in from - 1 .. to PROVE g[n] \in Nat /\ g[n] <= g[to]
    <2> DEFINE S == {k \in Nat : k <= to => g[n] <= g[k]}
    <2>0. \A k \in from - 1 .. to : g[k] \in Nat BY <1>3, <1>4
    <2>1. n \in S /\ n \in Nat BY <1>3, <2>0
    <2>2. ASSUME NEW k \in S, k >= n PROVE k + 1 \in S
      <3> SUFFICES ASSUME k + 1 <= to PROVE g[n] <= g[k + 1] OBVIOUS
      <3>1. k \in from - 1 .. to /\ k + 1 \in from .. to /\ (k + 1) - 1 = k /\ g[n] <= g[k]
        BY <1>3, <2>2
      <3>2. g[k + 1] = 10 * g[k] + (s[k + 1] - zero) BY <1>1, <3>1
      <3>3. s[k + 1] - zero \in Nat /\ g[k] \in Nat /\ g[n] \in Nat BY <1>2, <2>0, <3>1
      <3> HIDE DEF S
      <3>4. g[n] <= 10 * g[k] + (s[k + 1] - zero) BY <3>1, <3>3, DigitGrows, Zenon
      <3> QED BY <3>2, <3>4, Zenon
    <2>3. S \in SUBSET Nat OBVIOUS
    <2> HIDE DEF S
    <2>4. \A k \in Nat : k >= n => k \in S BY <2>1, <2>2, <2>3, NumbersInduction
    <2>5. to \in S BY <1>3, <2>4
    <2> QED BY <1>3, <2>0, <2>5 DEF S
  <1> QED BY <1>5 DEF g

\* Where the fraction or the exponent of a number begins, if it has one.
EndsInt(s, e) ==
  /\ e \in after_sign(s) + 1 .. Len(s) + 1 /\ digits(s, after_sign(s), e - 1)
  /\ e <= Len(s) => s[e] = point \/ s[e] \in exponent

\* In a number of the grammar a fraction or an exponent ends the digits.
LEMMA IntEnds ==
  ASSUME NEW s \in Seq(Nat), s # <<>>, is_number(s)
  PROVE  \E e : EndsInt(s, e)
  <1>1. PICK m \in 0 .. Len(s), i \in 0 .. Len(s), f \in 0 .. Len(s) :
          /\ m = 0 \/ (m = 1 /\ s[1] = minus)
          /\ i > m /\ digits(s, m + 1, i)
          /\ f = i \/ (f > i + 1 /\ s[i + 1] = point)
          /\ \/ f = Len(s)
             \/ \E k \in {1, 2} : f + k < Len(s) /\ s[f + 1] \in exponent
    BY SMTT(60) DEF is_number
  <1>2. m + 1 \in 1 .. i /\ (m = 0 => is_digit(s[1])) BY <1>1 DEF digits
  <1>3. after_sign(s) = m + 1 BY <1>1, <1>2, NoDigits DEF after_sign
  <1>4. i + 1 \in after_sign(s) + 1 .. Len(s) + 1 /\ (i + 1) - 1 = i BY <1>1, <1>3
  <1>5. digits(s, after_sign(s), (i + 1) - 1) BY <1>1, <1>3, <1>4
  <1>6. i + 1 <= Len(s) => s[i + 1] = point \/ s[i + 1] \in exponent
    <2> SUFFICES ASSUME i + 1 <= Len(s), f = i PROVE s[i + 1] \in exponent BY <1>1
    <2>1. f # Len(s) OBVIOUS
    <2> QED BY <1>1, <2>1
  <1> QED BY <1>4, <1>5, <1>6 DEF EndsInt

\* In an integer of the grammar everything after the sign is a digit.
LEMMA IntegerIsDigits ==
  ASSUME NEW s \in Seq(Nat), s # <<>>, is_number(s), is_integer(s)
  PROVE  digits(s, after_sign(s), Len(s))
  <1>1. PICK e : EndsInt(s, e) BY IntEnds
  <1>2. e \in 1 .. Len(s) + 1 BY <1>1 DEF EndsInt, after_sign
  <1>3. e = Len(s) + 1 BY <1>1, <1>2 DEF EndsInt, is_integer
  <1> QED BY <1>1, <1>3 DEF EndsInt

\* There is one such place, and it is int_end.
LEMMA IntEndsOnce ==
  ASSUME NEW s \in Seq(Nat), s # <<>>, NEW e, EndsInt(s, e)
  PROVE  int_end(s) = e
  <1> DEFINE Cut(c) == /\ \A i \in 1 .. c - 1 : s[i] # point /\ s[i] \notin exponent
                       /\ c <= Len(s) => s[c] = point \/ s[c] \in exponent
  <1>1. e \in 1 .. Len(s) + 1 /\ after_sign(s) \in {1, 2} BY DEF EndsInt, after_sign
  <1>2. ASSUME NEW i \in 1 .. e - 1 PROVE s[i] # point /\ s[i] \notin exponent
    <2>1. CASE i >= after_sign(s)
      <3>1. is_digit(s[i]) BY <1>1, <2>1 DEF EndsInt, digits
      <3> QED BY <3>1, NoDigits
    <2>2. CASE i < after_sign(s)
      <3>1. i = 1 /\ s[1] = minus BY <1>1, <2>2 DEF after_sign
      <3> QED BY <3>1 DEF minus, point, exponent
    <2> QED BY <1>1, <2>1, <2>2
  <1>3. Cut(e) BY <1>2 DEF EndsInt
  <1>4. ASSUME NEW c \in 1 .. Len(s) + 1, Cut(c) PROVE c = e
    <2>1. ~(c < e)
      <3> SUFFICES ASSUME c < e PROVE FALSE OBVIOUS
      <3>1. c \in 1 .. e - 1 /\ c <= Len(s) BY <1>1
      <3> QED BY <1>2, <1>4, <3>1
    <2>2. ~(e < c)
      <3> SUFFICES ASSUME e < c PROVE FALSE OBVIOUS
      <3>1. e \in 1 .. c - 1 /\ e <= Len(s) BY <1>1
      <3> QED BY <1>3, <1>4, <3>1
    <2> QED BY <1>1, <2>1, <2>2
  <1>5. int_end(s) = CHOOSE c \in 1 .. Len(s) + 1 : Cut(c) BY DEF int_end
  <1> HIDE DEF Cut
  <1> QED BY <1>1, <1>3, <1>4, <1>5

\* What stands before the fraction and the exponent, and what it is worth.
LEMMA IntPart ==
  ASSUME NEW s \in Seq(Nat), s # <<>>, is_number(s)
  PROVE  /\ EndsInt(s, int_end(s))
         /\ int_magnitude(s) = Prefixes(s, after_sign(s))[int_end(s) - 1]
  <1>1. EndsInt(s, int_end(s)) BY IntEnds, IntEndsOnce
  <1>2. int_magnitude(s) = Prefixes(s, after_sign(s))[int_end(s) - 1]
    <2>1. CASE s[1] = minus BY <2>1 DEF int_magnitude, digits_value, Prefixes, after_sign
    <2>2. CASE s[1] # minus BY <2>2 DEF int_magnitude, digits_value, Prefixes, after_sign
    <2> QED BY <2>1, <2>2
  <1> QED BY <1>1, <1>2

\* And a lexeme of digits after its sign is an integer.
LEMMA DigitsAreInteger ==
  ASSUME NEW s \in Seq(Nat), s # <<>>, digits(s, after_sign(s), Len(s))
  PROVE  is_integer(s)
  <1> SUFFICES ASSUME NEW i \in DOMAIN s PROVE s[i] # point /\ s[i] \notin exponent
    BY DEF is_integer
  <1>1. CASE i >= after_sign(s)
    <2>1. i \in after_sign(s) .. Len(s) BY <1>1 DEF after_sign
    <2>2. is_digit(s[i]) BY <2>1 DEF digits
    <2> QED BY <2>2, NoDigits
  <1>2. CASE i < after_sign(s)
    <2>1. s[1] = minus /\ i = 1 BY <1>2 DEF after_sign
    <2> QED BY <2>1 DEF minus, point, exponent
  <1>3. i \in Nat /\ after_sign(s) \in Nat BY DEF after_sign
  <1> QED BY <1>1, <1>2, <1>3

\* The decimal of a lexeme of digits, and its sign.
LEMMA DecimalOfDigits ==
  ASSUME NEW s \in Seq(Nat), s # <<>>, digits(s, after_sign(s), Len(s)),
         after_sign(s) <= Len(s) + 1
  PROVE  LET d == Prefixes(s, after_sign(s))[Len(s)]
         IN  /\ d \in Nat
             /\ decimal(s) = IF s[1] = minus THEN -d ELSE d
             /\ \A n \in after_sign(s) - 1 .. Len(s) : Prefixes(s, after_sign(s))[n] <= d
  <1>1. after_sign(s) \in {1, 2} BY DEF after_sign
  <1>2. \A n \in after_sign(s) - 1 .. Len(s) :
           /\ Prefixes(s, after_sign(s))[n] \in Nat
           /\ Prefixes(s, after_sign(s))[n] <= Prefixes(s, after_sign(s))[Len(s)]
    <2>1. Len(s) \in after_sign(s) - 1 .. Len(s) BY <1>1
    <2> QED BY <1>1, <2>1, PrefixesGrow
  <1>3. Len(s) \in after_sign(s) - 1 .. Len(s) BY <1>1
  <1>4. decimal(s) = IF s[1] = minus THEN -Prefixes(s, after_sign(s))[Len(s)]
                     ELSE Prefixes(s, after_sign(s))[Len(s)]
    BY DecimalIsPrefix DEF after_sign
  <1> QED BY <1>2, <1>3, <1>4

-----------------------------------------------------------------------------
(* What the readers return and the copy writes.                             *)

\* The guard of read_magnitude is necessary: what fails it is beyond the maximum.
LEMMA GuardNecessary ==
  ASSUME NEW maxi \in Nat, NEW m \in Nat, NEW d \in 0 .. 9, maxi >= 9,
         m > (maxi - d) \div 10
  PROVE  10 * m + d > maxi
  OBVIOUS

\* A call has given its parameters.
Called ==
  pc \in {"scan", "return", "done"} =>
    /\ caller # "none" /\ negative = (lexeme[1] = minus)

\* The magnitude is the value of the digits before the offset.
Progress ==
  pc = "scan" =>
    /\ maximum = IF signed THEN SignedMagnitude ELSE UnsignedMax
    /\ offset \in after_sign(lexeme) .. Len(lexeme) + 1
    /\ digits(lexeme, after_sign(lexeme), offset - 1)
    /\ magnitude = Prefixes(lexeme, after_sign(lexeme))[offset - 1]

\* What a reader owes its caller.
Exact ==
  /\ code \in {"OK", "NOT_INTEGER", "RANGE"}
  /\ IF ~is_integer(lexeme)
     THEN code = IF int_magnitude(lexeme) <= largest_magnitude THEN "NOT_INTEGER" ELSE "RANGE"
     ELSE IF fits(decimal(lexeme)) THEN code = "OK" /\ number = decimal(lexeme)
     ELSE code = "RANGE"

Read == pc = "return" \/ (pc = "done" /\ caller # "copy") => Exact

\* The inductive invariant of the readers and the copy.
ReadInv == Inv /\ SyntaxIsGrammar /\ Called /\ Progress /\ Read /\ CopyKeepsNumber

\* The lexeme in hand, and its sign.
LEMMA LexemeFacts ==
  ASSUME Inv
  PROVE  /\ lexeme \in Seq(Nat) /\ lexeme # <<>> /\ Len(lexeme) \in Nat /\ Len(lexeme) >= 1
         /\ after_sign(lexeme) \in {1, 2} /\ after_sign(lexeme) <= Len(lexeme) + 1
  <1>1. lexeme \in Seq(Bytes) /\ lexeme # <<>> BY DEF Inv, TypeOK
  <1>2. lexeme \in Seq(Nat)
    <2>1. \A i \in 1 .. Len(lexeme) : lexeme[i] \in Bytes BY <1>1
    <2>2. \A i \in 1 .. Len(lexeme) : lexeme[i] \in Nat BY <2>1, NumbersAssumption
    <2> QED BY <1>1, <2>2
  <1> QED BY <1>1, <1>2 DEF after_sign

\* The decimal of an integer is the value of its digits, under its sign.
LEMMA IntegerFacts ==
  ASSUME Inv, is_number(lexeme), is_integer(lexeme)
  PROVE  LET d == Prefixes(lexeme, after_sign(lexeme))[Len(lexeme)]
         IN  /\ d \in Nat
             /\ decimal(lexeme) = IF lexeme[1] = minus THEN -d ELSE d
             /\ \A n \in after_sign(lexeme) - 1 .. Len(lexeme) :
                  Prefixes(lexeme, after_sign(lexeme))[n] <= d
  <1>1. digits(lexeme, after_sign(lexeme), Len(lexeme)) BY LexemeFacts, IntegerIsDigits
  <1> QED BY <1>1, LexemeFacts, DecimalOfDigits

\* A byte that is no digit is not in an integer, and what was read up to it is
\* the number before the fraction or the exponent.
LEMMA NotIntegerExact ==
  ASSUME ReadInv, NotInteger
  PROVE  Exact'
  <1>1. /\ pc = "scan" /\ offset <= Len(lexeme) /\ ~is_digit(lexeme[offset])
        /\ code' = "NOT_INTEGER" /\ lexeme' = lexeme
    BY DEF NotInteger, Scanning, Return
  <1>2. is_number(lexeme) BY <1>1 DEF ReadInv, SyntaxIsGrammar
  <1>3. offset \in after_sign(lexeme) .. Len(lexeme)
    BY <1>1, LexemeFacts DEF ReadInv, Progress
  <1>4. ~digits(lexeme, after_sign(lexeme), Len(lexeme)) BY <1>1, <1>3 DEF digits
  <1>5. ~is_integer(lexeme) BY <1>2, <1>4, LexemeFacts, IntegerIsDigits DEF ReadInv
  <1>6. ~is_integer(lexeme)' BY <1>1, <1>5 DEF is_integer
  <1>7. int_end(lexeme) = offset
    <2> DEFINE e == int_end(lexeme)
    <2>1. EndsInt(lexeme, e) BY <1>2, LexemeFacts, IntPart DEF ReadInv
    <2> HIDE DEF e
    <2>2. e \in Nat /\ offset \in Nat /\ ~(offset < e)
      BY <1>1, <1>3, <2>1, LexemeFacts DEF EndsInt, digits, ReadInv
    <2>3. ~(e < offset)
      <3> SUFFICES ASSUME e < offset PROVE FALSE OBVIOUS
      <3>1. e \in after_sign(lexeme) .. offset - 1 /\ e <= Len(lexeme)
        BY <1>3, <2>1, LexemeFacts DEF EndsInt, ReadInv
      <3>2. is_digit(lexeme[e]) BY <1>1, <3>1 DEF ReadInv, Progress, digits
      <3> QED BY <2>1, <3>1, <3>2, NoDigits DEF EndsInt
    <2>4. e = offset BY <2>2, <2>3
    <2> QED BY <2>4 DEF e
  <1>8. int_magnitude(lexeme) = magnitude
    BY <1>1, <1>2, <1>7, LexemeFacts, IntPart DEF ReadInv, Progress
  <1>9. magnitude <= maximum /\ maximum = largest_magnitude
    BY <1>1, MaximumFacts DEF ReadInv, Inv, TypeOK, Progress, largest_magnitude
  <1>10. int_magnitude(lexeme)' <= largest_magnitude'
    BY <1>1, <1>8, <1>9 DEF NotInteger, largest_magnitude, signed
  <1> QED BY <1>1, <1>6, <1>10 DEF Exact

\* A digit too many: the number is beyond the maximum, for what follows only
\* makes it larger.
LEMMA OutOfRangeExact ==
  ASSUME ReadInv, OutOfRange
  PROVE  Exact'
  <1> DEFINE g == Prefixes(lexeme, after_sign(lexeme))
  <1>1. /\ pc = "scan" /\ offset <= Len(lexeme) /\ is_digit(lexeme[offset]) /\ out_of_range
        /\ code' = "RANGE" /\ lexeme' = lexeme /\ caller' = caller /\ negative' = negative
    BY DEF OutOfRange, Scanning, Return
  <1>2. is_number(lexeme) BY <1>1 DEF ReadInv, SyntaxIsGrammar
  <1>3. /\ offset \in after_sign(lexeme) .. Len(lexeme) /\ magnitude = g[offset - 1]
        /\ maximum = IF signed THEN SignedMagnitude ELSE UnsignedMax
    BY <1>1, LexemeFacts DEF ReadInv, Progress
  <1>4. /\ offset \in after_sign(lexeme) .. int_end(lexeme) - 1
        /\ int_end(lexeme) \in 1 .. Len(lexeme) + 1
        /\ digits(lexeme, after_sign(lexeme), int_end(lexeme) - 1)
        /\ int_magnitude(lexeme) = g[int_end(lexeme) - 1]
    <2> DEFINE e == int_end(lexeme)
    <2>1. EndsInt(lexeme, e) /\ int_magnitude(lexeme) = g[e - 1]
      BY <1>2, LexemeFacts, IntPart DEF ReadInv
    <2> HIDE DEF e, g
    <2>2. e \in after_sign(lexeme) + 1 .. Len(lexeme) + 1 /\ e \in Nat
      BY <2>1, LexemeFacts DEF EndsInt, ReadInv
    <2>3. ASSUME e <= offset PROVE FALSE
      <3>0. offset \in Nat /\ after_sign(lexeme) \in Nat BY <1>3, LexemeFacts DEF ReadInv
      <3>1. e \in after_sign(lexeme) .. offset - 1 \/ e = offset BY <2>2, <2>3, <3>0
      <3>2. is_digit(lexeme[e]) /\ e <= Len(lexeme)
        BY <1>1, <1>3, <3>1 DEF ReadInv, Progress, digits
      <3> QED BY <2>1, <3>2, NoDigits DEF EndsInt
    <2>4. offset \in after_sign(lexeme) .. e - 1 BY <1>3, <2>2, <2>3, LexemeFacts DEF ReadInv
    <2>5. e \in 1 .. Len(lexeme) + 1 BY <2>2, LexemeFacts DEF ReadInv
    <2> QED BY <2>1, <2>4, <2>5 DEF e, EndsInt
  <1>5. g[offset] \in Nat /\ g[offset] <= int_magnitude(lexeme) /\ int_magnitude(lexeme) \in Nat
    <2> DEFINE w == int_end(lexeme) - 1
    <2>1. /\ w \in after_sign(lexeme) - 1 .. Len(lexeme) /\ offset \in after_sign(lexeme) - 1 .. w
          /\ w \in after_sign(lexeme) - 1 .. w
          /\ digits(lexeme, after_sign(lexeme), w) /\ int_magnitude(lexeme) = g[w]
      BY <1>4, LexemeFacts DEF ReadInv
    <2> HIDE DEF w
    <2> QED BY <2>1, LexemeFacts, PrefixesGrow DEF ReadInv
  <1>6. g[offset] = 10 * g[offset - 1] + (lexeme[offset] - zero)
    BY <1>3, LexemeFacts, PrefixFacts DEF ReadInv
  <1>7. lexeme[offset] \in Nat /\ digit \in 0 .. 9
    <2>1. lexeme[offset] \in Nat BY <1>3, LexemeFacts DEF ReadInv
    <2> QED BY <1>1, <2>1 DEF is_digit, digit, zero, nine
  <1>8. maximum \in Nat /\ maximum >= 9 /\ magnitude \in Nat
    BY <1>3, MaximumFacts DEF ReadInv, Inv, TypeOK
  <1>9. 10 * magnitude + digit > maximum
    BY <1>1, <1>7, <1>8, GuardNecessary DEF out_of_range
  <1>10. g[offset] = 10 * magnitude + digit BY <1>3, <1>6 DEF digit
  <1> HIDE DEF g
  <1>11. int_magnitude(lexeme) > maximum BY <1>5, <1>7, <1>8, <1>9, <1>10
  <1>12. CASE ~is_integer(lexeme)
    <2>1. ~(int_magnitude(lexeme) <= largest_magnitude)
      BY <1>3, <1>5, <1>8, <1>11 DEF largest_magnitude
    <2>2. ~(int_magnitude(lexeme)' <= largest_magnitude')
      BY <1>1, <2>1 DEF largest_magnitude, signed
    <2> QED BY <1>1, <1>12, <2>2 DEF Exact, is_integer
  <1>13. CASE is_integer(lexeme)
    <2>1. int_end(lexeme) = Len(lexeme) + 1
      BY <1>2, <1>13, LexemeFacts, IntPart DEF ReadInv, EndsInt, is_integer
    <2>2. decimal(lexeme) = IF lexeme[1] = minus THEN -int_magnitude(lexeme)
                            ELSE int_magnitude(lexeme)
      BY <1>2, <1>4, <1>13, <2>1, IntegerFacts, LexemeFacts DEF ReadInv, g
    <2>3. negative = (lexeme[1] = minus) BY <1>1 DEF ReadInv, Called
    <2>4. SignedMax < SignedMagnitude /\ SignedMax \in Nat BY <1>8, MaximumFacts DEF SignedMax
    <2>5. ~fits(decimal(lexeme))
      <3>1. CASE signed
        BY <1>3, <1>5, <1>8, <1>11, <2>2, <2>4, <3>1, MaximumFacts DEF fits
      <3>2. CASE ~signed
        BY <1>3, <1>5, <1>8, <1>11, <2>2, <2>4, <3>2, MaximumFacts DEF fits
      <3> QED BY <3>1, <3>2
    <2> QED BY <1>1, <1>13, <2>5 DEF Exact, is_integer, fits, signed
  <1> QED BY <1>12, <1>13

\* After the last digit the magnitude is the value of all of them.
LEMMA ScannedFacts ==
  ASSUME ReadInv, Scanned
  PROVE  /\ is_integer(lexeme) /\ magnitude \in Nat /\ maximum >= magnitude
         /\ negative \in BOOLEAN
         /\ maximum = IF signed THEN SignedMagnitude ELSE UnsignedMax
         /\ decimal(lexeme) = IF negative THEN -magnitude ELSE magnitude
  <1>1. pc = "scan" /\ offset > Len(lexeme) BY DEF Scanned
  <1>2. offset = Len(lexeme) + 1 /\ offset - 1 = Len(lexeme)
    BY <1>1, LexemeFacts DEF ReadInv, Progress
  <1>3. digits(lexeme, after_sign(lexeme), Len(lexeme)) BY <1>1, <1>2 DEF ReadInv, Progress
  <1>4. is_integer(lexeme) BY <1>3, LexemeFacts, DigitsAreInteger DEF ReadInv
  <1>5. is_number(lexeme) BY <1>1 DEF ReadInv, SyntaxIsGrammar
  <1>6. magnitude = Prefixes(lexeme, after_sign(lexeme))[Len(lexeme)]
    BY <1>1, <1>2 DEF ReadInv, Progress
  <1>7. decimal(lexeme) = IF lexeme[1] = minus THEN -magnitude ELSE magnitude
    BY <1>4, <1>5, <1>6, IntegerFacts DEF ReadInv
  <1>8. negative = (lexeme[1] = minus) /\ negative \in BOOLEAN
    BY <1>1 DEF ReadInv, Inv, TypeOK, Called
  <1>9. maximum = IF signed THEN SignedMagnitude ELSE UnsignedMax BY <1>1 DEF ReadInv, Progress
  <1>10. magnitude \in Nat /\ maximum >= magnitude
    BY <1>9, MaximumFacts DEF ReadInv, Inv, TypeOK
  <1> QED BY <1>4, <1>7, <1>8, <1>9, <1>10

\* maelys_json_value_u64 and the unsigned side of copy_number.
LEMMA UnsignedExact ==
  ASSUME ReadInv, ReturnUnsigned
  PROVE  Exact'
  <1>1. Scanned /\ ~signed /\ lexeme' = lexeme /\ caller' = caller /\ negative' = negative
    BY DEF ReturnUnsigned
  <1>2. /\ is_integer(lexeme) /\ magnitude \in Nat /\ UnsignedMax >= magnitude
        /\ decimal(lexeme) = IF negative THEN -magnitude ELSE magnitude
    BY <1>1, ScannedFacts
  <1>3. fits(decimal(lexeme)) <=> ~(negative /\ magnitude # 0)
    BY <1>1, <1>2, MaximumFacts DEF fits
  <1>4. CASE negative /\ magnitude # 0
    BY <1>1, <1>2, <1>3, <1>4 DEF ReturnUnsigned, Return, Exact, fits, signed, is_integer
  <1>5. CASE ~(negative /\ magnitude # 0)
    <2>1. decimal(lexeme) = magnitude BY <1>2, <1>5
    <2>2. code' = "OK" /\ number' = magnitude BY <1>5 DEF ReturnUnsigned, Return
    <2>3. decimal(lexeme)' = magnitude /\ is_integer(lexeme)' /\ fits(decimal(lexeme))'
      BY <1>1, <1>2, <1>3, <1>5, <2>1 DEF fits, signed, is_integer, decimal
    <2> QED BY <2>2, <2>3 DEF Exact
  <1> QED BY <1>4, <1>5

\* maelys_json_value_i64 and the signed side of copy_number, the least number included.
LEMMA SignedExact ==
  ASSUME ReadInv, ReturnSigned
  PROVE  Exact'
  <1>1. Scanned /\ signed /\ lexeme' = lexeme /\ caller' = caller /\ negative' = negative
    BY DEF ReturnSigned
  <1>2. /\ is_integer(lexeme) /\ magnitude \in Nat /\ SignedMagnitude >= magnitude
        /\ decimal(lexeme) = IF negative THEN -magnitude ELSE magnitude
    BY <1>1, ScannedFacts
  <1>3. SignedMax \in Nat /\ SignedMagnitude = SignedMax + 1
    BY MaximumFacts DEF SignedMax
  <1>4. fits(decimal(lexeme)) <=> ~(~negative /\ magnitude > SignedMax)
    BY <1>1, <1>2, <1>3, MaximumFacts DEF fits
  <1>5. CASE ~negative /\ magnitude > SignedMax
    BY <1>1, <1>2, <1>4, <1>5 DEF ReturnSigned, Return, Exact, fits, signed, is_integer
  <1>6. CASE ~(~negative /\ magnitude > SignedMax)
    <2>1. decimal(lexeme) = signed_value
      BY <1>2, <1>3, <1>6 DEF signed_value, to_signed
    <2>2. code' = "OK" /\ number' = signed_value BY <1>6 DEF ReturnSigned, Return
    <2>3. decimal(lexeme)' = decimal(lexeme) /\ is_integer(lexeme)' /\ fits(decimal(lexeme))'
      BY <1>1, <1>2, <1>4, <1>6 DEF fits, signed, is_integer
    <2> QED BY <2>1, <2>2, <2>3 DEF Exact
  <1> QED BY <1>5, <1>6

\* copy_number writes what its reader read, and the two readers share the integers.
LEMMA CopyExact ==
  ASSUME ReadInv, copy_number
  PROVE  CopyKeepsNumber'
  <1>1. /\ pc = "return" /\ caller = "copy" /\ lexeme' = lexeme
    BY DEF copy_number
  <1>2. Exact /\ (signed <=> negative) /\ negative = (lexeme[1] = minus)
    BY <1>1 DEF ReadInv, Read, Called, signed
  <1>3. is_number(lexeme) BY <1>1 DEF ReadInv, SyntaxIsGrammar
  <1>4. CASE ~is_integer(lexeme)
    <2>1. written'.as # "integer"
      BY <1>2, <1>4 DEF copy_number, Exact, nothing
    <2> QED BY <1>1, <1>4, <2>1 DEF CopyKeepsNumber, is_integer
  <1>5. CASE is_integer(lexeme)
    <2>1. PICK d \in Nat : decimal(lexeme) = IF negative THEN -d ELSE d
      BY <1>2, <1>3, <1>5, IntegerFacts DEF ReadInv
    <2>2. SignedMax \in Nat /\ SignedMax = SignedMagnitude - 1 /\ UnsignedMax >= SignedMagnitude
      BY MaximumFacts DEF SignedMax
    <2>3. fits(decimal(lexeme)) <=>
            -SignedMagnitude <= decimal(lexeme) /\ decimal(lexeme) <= UnsignedMax
      BY <1>2, <2>1, <2>2, MaximumFacts DEF fits
    <2>4. CASE fits(decimal(lexeme))
      <3>1. code = "OK" /\ number = decimal(lexeme) BY <1>2, <1>5, <2>4 DEF Exact
      <3>2. written' = [as |-> "integer", number |-> decimal(lexeme)]
        BY <3>1 DEF copy_number
      <3> QED BY <1>1, <2>3, <2>4, <3>2, <1>5 DEF CopyKeepsNumber, is_integer
    <2>5. CASE ~fits(decimal(lexeme))
      <3>1. code = "RANGE" BY <1>2, <1>5, <2>5 DEF Exact
      <3>2. written' = nothing /\ code' = "RANGE" BY <3>1 DEF copy_number
      <3> QED BY <1>1, <2>3, <2>5, <3>2, <1>5 DEF CopyKeepsNumber, is_integer
    <2> QED BY <2>4, <2>5
  <1> QED BY <1>4, <1>5

\* Nothing is read before the call.
LEMMA ReadInvInit == Init => ReadInv
  BY InvInit DEF Init, ReadInv, SyntaxIsGrammar, Called, Progress, Read, CopyKeepsNumber

\* parse_primitive asks number_syntax, which is the grammar.
LEMMA ParseStep ==
  ASSUME ReadInv, Parse
  PROVE  SyntaxIsGrammar' /\ Called' /\ Progress' /\ Read' /\ CopyKeepsNumber'
  <1>1. number_syntax(lexeme) <=> is_number(lexeme)
    BY LexemeFacts, AcceptedIsNumber, NumberIsAccepted DEF ReadInv
  <1>2. lexeme' = lexeme /\ pc' = IF number_syntax(lexeme) THEN "idle" ELSE "refused"
    BY DEF Parse
  <1>3. SyntaxIsGrammar'
    BY <1>1, <1>2 DEF SyntaxIsGrammar, is_number, digits
  <1> QED BY <1>2, <1>3 DEF Called, Progress, Read, CopyKeepsNumber

\* read_magnitude begins after the sign, with nothing read.
LEMMA CallStep ==
  ASSUME ReadInv, NEW who \in {"u64", "i64", "copy"}, Call(who)
  PROVE  Called' /\ Progress'
  <1>1. /\ pc' = "scan" /\ lexeme' = lexeme /\ caller' = who
        /\ negative' = (lexeme[1] = minus) /\ offset' = after_sign(lexeme) /\ magnitude' = 0
        /\ maximum' = IF signed' THEN SignedMagnitude ELSE UnsignedMax
    BY DEF Call
  <1>2. after_sign(lexeme)' = after_sign(lexeme) BY <1>1 DEF after_sign
  <1>3. offset' \in after_sign(lexeme) .. Len(lexeme) + 1 BY <1>1, LexemeFacts DEF ReadInv
  <1>4. digits(lexeme, after_sign(lexeme), offset' - 1)
    BY <1>1, LexemeFacts DEF digits, ReadInv
  <1>5. Prefixes(lexeme, after_sign(lexeme))[offset' - 1] = 0
    BY <1>1, LexemeFacts, PrefixFacts DEF ReadInv
  <1>6. Called' BY <1>1 DEF Called
  <1>7. Progress'
    BY <1>1, <1>2, <1>3, <1>4, <1>5 DEF Progress, digits, Prefixes
  <1> QED BY <1>6, <1>7

\* A digit extends the prefix by one.
LEMMA DigitProgress ==
  ASSUME ReadInv, Digit
  PROVE  Progress'
  <1> DEFINE a == after_sign(lexeme)
  <1>1. /\ pc = "scan" /\ offset <= Len(lexeme) /\ is_digit(lexeme[offset])
        /\ lexeme' = lexeme /\ caller' = caller /\ negative' = negative /\ maximum' = maximum
        /\ offset' = offset + 1 /\ pc' = pc
    BY DEF Digit, Scanning
  <1>2. /\ maximum = IF signed THEN SignedMagnitude ELSE UnsignedMax
        /\ offset \in a .. Len(lexeme) + 1 /\ digits(lexeme, a, offset - 1)
        /\ magnitude = Prefixes(lexeme, a)[offset - 1]
    BY <1>1 DEF ReadInv, Progress
  <1>3. a \in {1, 2} /\ Len(lexeme) \in Nat BY LexemeFacts DEF ReadInv
  <1>4. offset' \in a .. Len(lexeme) + 1 /\ offset' - 1 = offset /\ offset \in a .. Len(lexeme)
    BY <1>1, <1>2, <1>3
  <1>5. digits(lexeme, a, offset' - 1) BY <1>1, <1>2, <1>3, <1>4 DEF digits
  <1>6. Prefixes(lexeme, a)[offset] = 10 * Prefixes(lexeme, a)[offset - 1] + (lexeme[offset] - zero)
    BY <1>4, LexemeFacts, PrefixFacts DEF ReadInv
  <1>7. magnitude' = Prefixes(lexeme, a)[offset' - 1]
    BY <1>2, <1>4, <1>6, DigitStep DEF ReadInv, digit
  <1>8. after_sign(lexeme)' = a BY <1>1 DEF after_sign
  <1>9. (signed' <=> signed) BY <1>1 DEF signed
  <1> HIDE DEF a
  <1> QED BY <1>1, <1>2, <1>4, <1>5, <1>7, <1>8, <1>9 DEF Progress, digits, Prefixes

\* Each step preserves the invariant.
LEMMA ReadInvStep == ReadInv /\ [Next]_vars => ReadInv'
  <1> SUFFICES ASSUME ReadInv, [Next]_vars PROVE ReadInv' OBVIOUS
  <1>1. Inv' BY InvStep DEF ReadInv
  <1>2. CASE UNCHANGED vars
    <2>1. SyntaxIsGrammar' BY <1>2 DEF vars, ReadInv, SyntaxIsGrammar, is_number, digits
    <2>2. Called' BY <1>2 DEF vars, ReadInv, Called
    <2>3. Progress' BY <1>2 DEF vars, ReadInv, Progress, signed
    <2>4. Read' BY <1>2 DEF vars, ReadInv, Read, Exact, fits, signed, largest_magnitude
    <2>5. CopyKeepsNumber' BY <1>2 DEF vars, ReadInv, CopyKeepsNumber
    <2> QED BY <1>1, <2>1, <2>2, <2>3, <2>4, <2>5 DEF ReadInv
  <1>3. CASE Parse BY <1>1, <1>3, ParseStep DEF ReadInv
  <1>4. ASSUME NEW who \in {"u64", "i64", "copy"}, Call(who) PROVE ReadInv'
    <2>1. pc = "idle" /\ pc' = "scan" /\ lexeme' = lexeme BY <1>4 DEF Call
    <2>2. SyntaxIsGrammar' BY <2>1 DEF ReadInv, SyntaxIsGrammar, is_number, digits
    <2>3. Read' /\ CopyKeepsNumber' BY <2>1 DEF Read, CopyKeepsNumber
    <2> QED BY <1>1, <1>4, <2>2, <2>3, CallStep DEF ReadInv
  <1>5. CASE Digit
    <2>1. /\ pc = "scan" /\ pc' = "scan" /\ lexeme' = lexeme /\ caller' = caller
          /\ negative' = negative
      BY <1>5 DEF Digit, Scanning
    <2>2. SyntaxIsGrammar' BY <2>1 DEF ReadInv, SyntaxIsGrammar, is_number, digits
    <2>3. Called' /\ Read' /\ CopyKeepsNumber' BY <2>1 DEF ReadInv, Called, Read, CopyKeepsNumber
    <2> QED BY <1>1, <1>5, <2>2, <2>3, DigitProgress DEF ReadInv
  <1>6. ASSUME pc = "scan", pc' = "return", lexeme' = lexeme, caller' = caller,
               negative' = negative, Exact'
        PROVE  ReadInv'
    <2>1. SyntaxIsGrammar' BY <1>6 DEF ReadInv, SyntaxIsGrammar, is_number, digits
    <2>2. Called' BY <1>6 DEF ReadInv, Called
    <2>3. Progress' /\ Read' /\ CopyKeepsNumber' BY <1>6 DEF Progress, Read, CopyKeepsNumber
    <2> QED BY <1>1, <2>1, <2>2, <2>3 DEF ReadInv
  <1>7. CASE NotInteger
    BY <1>6, <1>7, NotIntegerExact DEF NotInteger, Scanning, Return
  <1>8. CASE OutOfRange
    BY <1>6, <1>8, OutOfRangeExact DEF OutOfRange, Scanning, Return
  <1>9. CASE ReturnUnsigned
    BY <1>6, <1>9, UnsignedExact DEF ReturnUnsigned, Scanned, Return
  <1>10. CASE ReturnSigned
    BY <1>6, <1>10, SignedExact DEF ReturnSigned, Scanned, Return
  <1>11. CASE Answer
    <2>1. /\ pc = "return" /\ pc' = "done" /\ caller # "copy"
          /\ UNCHANGED <<lexeme, caller, negative, code, number>>
      BY <1>11 DEF Answer
    <2>2. SyntaxIsGrammar' BY <2>1 DEF ReadInv, SyntaxIsGrammar, is_number, digits
    <2>3. Called' BY <2>1 DEF ReadInv, Called
    <2>4. Read' BY <2>1 DEF ReadInv, Read, Exact, fits, signed, largest_magnitude
    <2>5. Progress' /\ CopyKeepsNumber' BY <2>1 DEF Progress, CopyKeepsNumber
    <2> QED BY <1>1, <2>2, <2>3, <2>4, <2>5 DEF ReadInv
  <1>12. CASE copy_number
    <2>1. /\ pc = "return" /\ pc' = "done" /\ caller = "copy"
          /\ UNCHANGED <<lexeme, caller, negative>>
      BY <1>12 DEF copy_number
    <2>2. SyntaxIsGrammar' BY <2>1 DEF ReadInv, SyntaxIsGrammar, is_number, digits
    <2>3. Called' BY <2>1 DEF ReadInv, Called
    <2>4. Read' /\ Progress' BY <2>1 DEF Read, Progress
    <2> QED BY <1>1, <1>12, <2>2, <2>3, <2>4, CopyExact DEF ReadInv
  <1> QED BY <1>2, <1>3, <1>4, <1>5, <1>7, <1>8, <1>9, <1>10, <1>11, <1>12 DEF Next

\* The lexemes maelys_json_number_syntax accepts, whatever their length, are the
\* numbers of RFC 8259 and no others.
THEOREM SyntaxIsTheGrammar == Spec => []SyntaxIsGrammar
<1>1. ReadInv => SyntaxIsGrammar BY DEF ReadInv
<1> QED BY <1>1, ReadInvInit, ReadInvStep, PTL DEF Spec

\* maelys_json_value_u64 and maelys_json_value_i64 answer the number an integer
\* denotes, or RANGE exactly when it does not fit; a fraction or an exponent gets
\* NOT_INTEGER, or RANGE exactly when the digits before it are already too large.
THEOREM ReadersAreExact == Spec => []ReadsExactly
<1>1. ReadInv => ReadsExactly BY DEF ReadInv, Read, Exact, ReadsExactly
<1> QED BY <1>1, ReadInvInit, ReadInvStep, PTL DEF Spec

\* copy_number hands the writer the number it read, and refuses an integer exactly
\* when it is beyond both readers.
THEOREM CopyIsExact == Spec => []CopyKeepsNumber
<1>1. ReadInv => CopyKeepsNumber BY DEF ReadInv
<1> QED BY <1>1, ReadInvInit, ReadInvStep, PTL DEF Spec
=============================================================================
