---------------------------- MODULE DecoderProofs ----------------------------
(***************************************************************************)
(* decode_string is right for every input of bytes and every profile: it   *)
(* never writes past its claim, writes the UTF-8 of the one text the       *)
(* literal denotes, and refuses where the first character or escape that   *)
(* cannot be read begins.  The bound is what Parser assumes of a string    *)
(* lexeme: that its text is no longer than the bytes between its quotes.   *)
(*                                                                         *)
(* A text is a chain of items (TextReference), and the argument is that at *)
(* most one item begins at any byte: the bytes consumed then make one      *)
(* text, which what is written spells, and where no item begins no longer  *)
(* prefix of the input makes a text.                                       *)
(***************************************************************************)
EXTENDS DecoderMC, FiniteSetTheorems, SequenceTheorems, TLAPS

Inv ==
  /\ bytes \in Seq(Byte) /\ input \in Nat /\ out \in Seq(Int)
  /\ OutputFits

\* The value of a digit, or -1.
LEMMA HexInt == \A b \in Byte : hex_value(b) \in Int
<1> SUFFICES ASSUME NEW b \in Byte PROVE hex_value(b) \in Int
  OBVIOUS
<1>0. b \in Int
  BY DEF Byte
<1>1. CASE b \in 48 .. 57
  BY <1>0, <1>1 DEF hex_value
<1>2. CASE b \in 97 .. 102
  BY <1>0, <1>2 DEF hex_value
<1>3. CASE b \in 65 .. 70
  BY <1>0, <1>3 DEF hex_value
<1>4. CASE b \notin 48 .. 57 /\ b \notin 97 .. 102 /\ b \notin 65 .. 70
  BY <1>4 DEF hex_value
<1> QED BY <1>1, <1>2, <1>3, <1>4

\* Four digits make a unit or nothing.
LEMMA ReadUnit ==
  ASSUME NEW s \in Seq(Byte), NEW at \in Nat, at + 4 <= Len(s)
  PROVE  read_u16(s, at) \in Int
<1>1. \A i \in 1 .. Len(s) : hex_value(s[i]) \in Int
  BY ElementOfSeq, HexInt
<1>2. /\ hex_value(s[at + 1]) \in Int /\ hex_value(s[at + 2]) \in Int
      /\ hex_value(s[at + 3]) \in Int /\ hex_value(s[at + 4]) \in Int
  <2>1. /\ at + 1 \in 1 .. Len(s) /\ at + 2 \in 1 .. Len(s)
        /\ at + 3 \in 1 .. Len(s) /\ at + 4 \in 1 .. Len(s)
    OBVIOUS
  <2> QED BY <1>1, <2>1, Zenon
<1> QED BY <1>2 DEF read_u16

\* An escape that is accepted is read to its end, inside the input.
LEMMA ReadPoint ==
  ASSUME NEW s \in Seq(Byte), NEW at \in Nat,
         read_escape_point(s, at).point # 0
  PROVE  /\ read_escape_point(s, at).point \in Int
         /\ read_escape_point(s, at).input \in Nat
         /\ at + 4 <= read_escape_point(s, at).input
         /\ read_escape_point(s, at).input <= Len(s)
<1>1. at + 4 <= Len(s)
  BY DEF read_escape_point
<1>2. read_u16(s, at) \in Int
  BY <1>1, ReadUnit
<1>3. at + 10 <= Len(s) => read_u16(s, at + 6) \in Int
  BY ReadUnit
<1> DEFINE unit == read_u16(s, at)
           low  == read_u16(s, at + 6)
           pair == 65536 + (unit - 55296) * 1024 + (low - 56320)
<1>4. \/ read_escape_point(s, at) = [point |-> unit, input |-> at + 4]
      \/ /\ read_escape_point(s, at) = [point |-> pair, input |-> at + 10]
         /\ at + 10 <= Len(s)
  BY DEF read_escape_point
<1>5. at + 10 <= Len(s) => pair \in Int
  BY <1>2, <1>3
<1>6. Len(s) \in Nat
  BY LenProperties
<1> HIDE DEF unit, pair
<1>7. unit \in Int
  BY <1>2 DEF unit
<1> QED BY <1>1, <1>4, <1>5, <1>6, <1>7

\* A code point takes at most four bytes.
LEMMA EncodeFits ==
  ASSUME NEW point \in Int
  PROVE  encode_utf8(point) \in Seq(Int) /\ Len(encode_utf8(point)) <= 4
  BY DEF encode_utf8

\* A run of raw bytes is as long as what it takes of the input.
LEMMA RunFits ==
  ASSUME NEW s, NEW m \in Nat, NEW n \in Nat, m + 1 <= n, \A i \in m + 1 .. n : s[i] \in Int
  PROVE  SubSeq(s, m + 1, n) \in Seq(Int) /\ Len(SubSeq(s, m + 1, n)) <= n - m
  BY SubSeqProperties

\* Writing no more than is consumed keeps the output behind the input.
LEMMA TakeFits ==
  ASSUME Inv, NEW end \in Nat, NEW text \in Seq(Int), Take(end, text),
         end <= size, Len(text) <= end - input
  PROVE  Inv'
<1>1. out \o text \in Seq(Int) /\ Len(out \o text) = Len(out) + Len(text)
  BY ConcatProperties DEF Inv
<1>2. Len(out) \in Nat /\ Len(text) \in Nat
  BY LenProperties DEF Inv
<1> QED BY <1>1, <1>2 DEF Inv, OutputFits, Take, size

\* Every turn of the loop keeps the invariant.
LEMMA StepInv == Inv /\ [decode_string]_vars => Inv'
<1> SUFFICES ASSUME Inv, [decode_string]_vars PROVE Inv'
  OBVIOUS
<1>1. bytes \in Seq(Byte) /\ input \in Nat /\ size \in Nat
  BY LenProperties DEF Inv, size
<1>2. ASSUME NEW why, NEW at, Refuse(why, at) PROVE Inv'
  BY <1>2 DEF Inv, OutputFits, Refuse, size
<1>0. \A i \in 1 .. size : bytes[i] \in Int
  <2>1. \A i \in 1 .. size : bytes[i] \in Byte
    BY <1>1, ElementOfSeq, Zenon DEF size
  <2> QED BY <2>1 DEF Byte
<1>3. CASE AsciiByte
  <2>1. CASE Take(input + 1, <<byte>>)
    <3>1. input + 1 \in 1 .. size /\ input + 1 \in Nat /\ input + 1 <= size
      BY <1>1, <1>3 DEF AsciiByte, Reading
    <3>2. byte \in Int
      BY <1>0, <3>1, Zenon DEF byte
    <3>3. <<byte>> \in Seq(Int) /\ Len(<<byte>>) <= (input + 1) - input
      BY <1>1, <3>2
    <3> QED BY <2>1, <3>1, <3>3, TakeFits, Zenon
  <2> QED BY <1>2, <1>3, <2>1 DEF AsciiByte
<1>4. CASE RawRun
  <2>1. PICK end \in input + 1 .. size :
          \/ Refuse("UTF8", invalid_at(utf8_valid_prefix(SubSeq(bytes, input + 1, end))))
          \/ Take(end, SubSeq(bytes, input + 1, end))
    BY <1>4 DEF RawRun
  <2>2. CASE Take(end, SubSeq(bytes, input + 1, end))
    <3>1. end \in Nat /\ end <= size /\ input + 1 <= end /\ input + 1 \in Int /\ end \in Int
      BY <1>1
    <3>2. \A i \in input + 1 .. end : bytes[i] \in Int
      BY <1>0, <1>1, <3>1
    <3>3. SubSeq(bytes, input + 1, end) \in Seq(Int)
          /\ Len(SubSeq(bytes, input + 1, end)) <= end - input
      BY <1>1, <3>1, <3>2, RunFits
    <3> QED BY <2>2, <3>1, <3>3, TakeFits, Zenon
  <2> QED BY <1>2, <2>1, <2>2
<1>5. CASE LoneBackslash
  BY <1>2, <1>5 DEF LoneBackslash
<1>6. CASE UnicodeEscape
  <2> DEFINE read == read_escape_point(bytes, input + 2)
  <2>1. CASE read.point # 0 /\ Take(read.input, encode_utf8(read.point))
    <3>1. read.point \in Int /\ read.input \in Nat /\ input + 6 <= read.input /\ read.input <= size
      BY <1>1, <2>1, ReadPoint DEF size
    <3> HIDE DEF read
    <3>2. encode_utf8(read.point) \in Seq(Int) /\ Len(encode_utf8(read.point)) <= 4
      BY <3>1, EncodeFits
    <3>3. Len(encode_utf8(read.point)) \in Nat
      BY <3>2, LenProperties
    <3>4. Len(encode_utf8(read.point)) <= read.input - input
      BY <1>1, <3>1, <3>2, <3>3
    <3> QED BY <2>1, <3>1, <3>2, <3>4, TakeFits, Zenon
  <2> QED BY <1>2, <1>6, <2>1 DEF UnicodeEscape
<1>7. CASE SimpleEscape
  <2>1. CASE \E e \in simple_escape : Take(input + 2, <<e[2]>>)
    <3>1. PICK e \in simple_escape : Take(input + 2, <<e[2]>>)
      BY <2>1
    <3>2. <<e[2]>> \in Seq(Int) /\ Len(<<e[2]>>) = 1
      BY DEF simple_escape
    <3>3. input + 2 <= size /\ input + 2 \in Nat /\ Len(<<e[2]>>) <= (input + 2) - input
      BY <1>1, <1>7, <3>2 DEF SimpleEscape
    <3> QED BY <3>1, <3>2, <3>3, TakeFits, Zenon
  <2> QED BY <1>2, <1>7, <2>1 DEF SimpleEscape
<1>8. CASE Finish
  BY <1>8 DEF Finish, Inv, OutputFits, size
<1>9. CASE UNCHANGED vars
  BY <1>9 DEF vars, Inv, OutputFits, size
<1> QED BY <1>3, <1>4, <1>5, <1>6, <1>7, <1>8, <1>9 DEF decode_string

\* For every input and profile: the text never overtakes the bytes it is decoded from, so
\* it and its NUL fit in the claim of size + 1 bytes.
THEOREM DecodedFits == Spec => []OutputFits
<1>1. Init => Inv
  <2> SUFFICES ASSUME Init PROVE Inv
    OBVIOUS
  <2>1. bytes \in Seq(Byte) /\ out = <<>> /\ input = 0
    BY InputsAssumption DEF Init
  <2> QED BY <2>1, LenProperties DEF Inv, OutputFits, size
<1>2. Inv => OutputFits
  BY DEF Inv
<1> QED BY <1>1, <1>2, StepInv, PTL DEF Spec

-----------------------------------------------------------------------------
(* Recursive functions.  A measure that goes down with every call makes the *)
(* defining equation have one solution.                                     *)

\* A nonempty set of numbers has a least one.
LEMMA LeastNumber ==
  ASSUME NEW S \in SUBSET Nat, S # {}
  PROVE  \E d \in S : \A e \in S : d <= e
  <1> PICK m \in S : TRUE OBVIOUS
  <1> DEFINE T == {0 .. d : d \in {x \in S : x <= m}}
             W == FiniteSubsetsOf(0 .. m)
             R == StrictSubsetOrdering(0 .. m)
  <1>1. T \subseteq W
    <2> SUFFICES ASSUME NEW d \in S, d <= m PROVE 0 .. d \in W OBVIOUS
    <2>1. IsFiniteSet(0 .. d) BY FS_Interval
    <2> QED BY <2>1 DEF FiniteSubsetsOf
  <1>2. T # {} OBVIOUS
  <1>3. IsWellFoundedOn(R, W) BY FS_StrictSubsetOrderingWellFounded
  <1> HIDE DEF W, R
  <1>4. PICK I \in T : \A J \in T : ~ (<<J, I>> \in R) BY <1>1, <1>2, <1>3, WFMin
  <1>5. PICK d \in S : d <= m /\ I = 0 .. d OBVIOUS
  <1>6. \A e \in S : d <= e
    <2> SUFFICES ASSUME NEW e \in S, e < d PROVE FALSE OBVIOUS
    <2>1. 0 .. e \in T BY <1>5
    <2>2. (0 .. e) \subseteq (0 .. d) /\ d \in 0 .. d /\ d \notin 0 .. e OBVIOUS
    <2>3. (0 .. d) \subseteq 0 .. m BY <1>5
    <2>4. <<0 .. e, 0 .. d>> \in R BY <2>2, <2>3 DEF R, StrictSubsetOrdering
    <2> QED BY <1>4, <1>5, <2>1, <2>4
  <1> QED BY <1>6

\* A set that contains what everything smaller being in it puts there is everything.
LEMMA MeasureInduction ==
  ASSUME NEW D, NEW m \in [D -> Nat], NEW T,
         \A d \in D : (\A e \in D : m[e] < m[d] => e \in T) => d \in T
  PROVE  \A d \in D : d \in T
  <1> SUFFICES ASSUME NEW c \in D, c \notin T PROVE FALSE OBVIOUS
  <1> DEFINE S == {m[d] : d \in {x \in D : x \notin T}}
  <1>1. S \in SUBSET Nat /\ S # {} OBVIOUS
  <1>2. PICK n \in S : \A k \in S : n <= k BY <1>1, LeastNumber
  <1>3. PICK d \in D : d \notin T /\ n = m[d] BY <1>2
  <1>4. \A e \in D : m[e] < m[d] => e \in T
    <2> SUFFICES ASSUME NEW e \in D, m[e] < m[d], e \notin T PROVE FALSE OBVIOUS
    <2>1. m[e] \in S OBVIOUS
    <2>2. n <= m[e] BY <1>2, <2>1
    <2>3. m[e] \in Nat /\ m[d] \in Nat OBVIOUS
    <2> QED BY <1>3, <2>2, <2>3
  <1> QED BY <1>3, <1>4

\* f and g agree where they agree on everything smaller.
Determined(D, m, f, g) ==
  /\ m \in [D -> Nat]
  /\ \A d \in D : (\A e \in D : m[e] < m[d] => f[e] = g[e]) => f[d] = g[d]

\* Two solutions of the same equation agree.
LEMMA RecursionUnique ==
  ASSUME NEW D, NEW m, NEW f, NEW g, Determined(D, m, f, g)
  PROVE  \A d \in D : f[d] = g[d]
  <1> DEFINE T == {d \in D : f[d] = g[d]}
  <1>1. \A d \in D : (\A e \in D : m[e] < m[d] => e \in T) => d \in T BY DEF Determined
  <1>2. m \in [D -> Nat] BY DEF Determined
  <1> HIDE DEF T
  <1>3. \A d \in D : d \in T BY <1>1, <1>2, MeasureInduction
  <1> QED BY <1>3 DEF T

\* G gives each value from smaller ones.
Recursion(D, V, m, G) ==
  /\ V # {} /\ m \in [D -> Nat] /\ G \in [[D -> V] -> [D -> V]]
  /\ \A g, h \in [D -> V] : \A d \in D :
       (\A e \in D : m[e] < m[d] => g[e] = h[e]) => G[g][d] = G[h][d]

\* Such an equation has a solution.
LEMMA RecursionExists ==
  ASSUME NEW D, NEW V, NEW m, NEW G, Recursion(D, V, m, G)
  PROVE  \E g \in [D -> V] : g = G[g]
  <1> USE DEF Recursion
  <1> DEFINE Upto(n, g) == \A d \in D : m[d] < n => g[d] = G[g][d]
             S == {n \in Nat : \A g \in [D -> V] : ~Upto(n, g)}
  <1>1. S = {}
    <2> SUFFICES ASSUME S # {} PROVE FALSE OBVIOUS
    <2>1. S \in SUBSET Nat OBVIOUS
    <2>2. PICK n \in S : \A k \in S : n <= k BY <2>1, LeastNumber
    <2>3. CASE n = 0
      <3>1. PICK v \in V : TRUE OBVIOUS
      <3>2. [d \in D |-> v] \in [D -> V] OBVIOUS
      <3>3. Upto(0, [d \in D |-> v]) OBVIOUS
      <3> QED BY <2>2, <2>3, <3>2, <3>3
    <2>4. CASE n # 0
      <3>1. n - 1 \in Nat /\ n - 1 \notin S BY <2>2, <2>4
      <3>2. PICK g \in [D -> V] : Upto(n - 1, g) BY <3>1
      <3>3. G[g] \in [D -> V] OBVIOUS
      <3>4. ASSUME NEW d \in D, m[d] < n PROVE G[g][d] = G[G[g]][d]
        <4>1. \A e \in D : m[e] < m[d] => g[e] = G[g][e]
          <5> SUFFICES ASSUME NEW e \in D, m[e] < m[d] PROVE g[e] = G[g][e] OBVIOUS
          <5>1. m[e] \in Nat /\ m[d] \in Nat /\ n \in Nat OBVIOUS
          <5>2. m[e] < n - 1 BY <3>4, <5>1
          <5> QED BY <3>2, <5>2
        <4> QED BY <3>3, <4>1
      <3>5. Upto(n, G[g]) BY <3>4
      <3> QED BY <3>3, <3>5
    <2> QED BY <2>3, <2>4
  <1>2. ASSUME NEW n \in Nat PROVE \E g \in [D -> V] : Upto(n, g)
    <2>1. n \notin S BY <1>1
    <2> HIDE DEF Upto
    <2> QED BY <2>1
  <1> DEFINE s == [n \in Nat |-> CHOOSE g \in [D -> V] : Upto(n, g)]
             r == [d \in D |-> s[m[d] + 1][d]]
  <1>3. ASSUME NEW n \in Nat PROVE s[n] \in [D -> V] /\ Upto(n, s[n])
    <2>1. s[n] = CHOOSE g \in [D -> V] : Upto(n, g) OBVIOUS
    <2>2. \E g \in [D -> V] : Upto(n, g) BY <1>2
    <2> HIDE DEF Upto, s
    <2> QED BY <2>1, <2>2
  <1> HIDE DEF S, s
  <1>4. r \in [D -> V] BY <1>3
  <1>5. ASSUME NEW n \in Nat, NEW k \in Nat
        PROVE  \A d \in D : m[d] < n /\ m[d] < k => s[n][d] = s[k][d]
    <2> DEFINE T == {d \in D : m[d] < n /\ m[d] < k => s[n][d] = s[k][d]}
    <2>1. ASSUME NEW d \in D, \A e \in D : m[e] < m[d] => e \in T PROVE d \in T
      <3> SUFFICES ASSUME m[d] < n, m[d] < k PROVE s[n][d] = s[k][d] OBVIOUS
      <3>1. \A e \in D : m[e] < m[d] => s[n][e] = s[k][e]
        <4> SUFFICES ASSUME NEW e \in D, m[e] < m[d] PROVE s[n][e] = s[k][e] OBVIOUS
        <4>1. m[e] \in Nat /\ m[d] \in Nat /\ e \in T BY <2>1
        <4>2. m[e] < n /\ m[e] < k BY <4>1
        <4> QED BY <4>1, <4>2
      <3>2. G[s[n]][d] = G[s[k]][d] BY <1>3, <3>1
      <3>3. s[n][d] = G[s[n]][d] /\ s[k][d] = G[s[k]][d] BY <1>3
      <3> QED BY <3>2, <3>3
    <2> HIDE DEF T
    <2>2. \A d \in D : d \in T BY <2>1, MeasureInduction
    <2> QED BY <2>2 DEF T
  <1>6. ASSUME NEW d \in D PROVE r[d] = G[r][d]
    <2> DEFINE n == m[d] + 1
    <2>1. n \in Nat /\ m[d] < n /\ m[d] \in Nat OBVIOUS
    <2>2. \A e \in D : m[e] < m[d] => s[n][e] = r[e]
      <3> SUFFICES ASSUME NEW e \in D, m[e] < m[d] PROVE s[n][e] = r[e] OBVIOUS
      <3>1. m[e] \in Nat /\ m[e] < n /\ m[e] < m[e] + 1 /\ m[e] + 1 \in Nat BY <2>1
      <3> HIDE DEF n
      <3>2. s[n][e] = s[m[e] + 1][e] BY <1>5, <2>1, <3>1
      <3> QED BY <3>2
    <2>3. r[d] = s[n][d] OBVIOUS
    <2> HIDE DEF n
    <2>4. s[n] \in [D -> V] /\ s[n][d] = G[s[n]][d] BY <1>3, <2>1
    <2> HIDE DEF r
    <2>5. G[s[n]][d] = G[r][d] BY <1>4, <2>2, <2>4
    <2> QED BY <2>3, <2>4, <2>5
  <1> HIDE DEF r
  <1>7. r = G[r] BY <1>4, <1>6
  <1> QED BY <1>4, <1>7

-----------------------------------------------------------------------------
(* Texts put together from parts.                                           *)

\* Every part stands for some numbers.
Parts(part, n) == \A i, j \in 0 .. n : part[<<i, j>>] \in SUBSET Int

\* The text x ends at j with a part of its own.
Extends(part, u, j, x) ==
  \E i \in 0 .. j - 1 : \E rest \in u[i], p \in part[<<i, j>>] : x = rest \o <<p>>

Chained(part, n, u) == u = [j \in 0 .. n |-> IF j = 0 THEN {<<>>} ELSE Ends(part, u, j)]

\* A text that ends at j has a last part.
LEMMA EndsElement ==
  ASSUME NEW part, NEW u, NEW j, NEW x
  PROVE  x \in Ends(part, u, j) <=> Extends(part, u, j, x)
  <1> DEFINE S(i) == {rest \o <<p>> : rest \in u[i], p \in part[<<i, j>>]}
             I == {k \in 0 .. j - 1 : part[<<k, j>>] # {}}
  <1>1. ASSUME NEW i PROVE x \in S(i) <=> \E rest \in u[i], p \in part[<<i, j>>] : x = rest \o <<p>>
    OBVIOUS
  <1>2. Ends(part, u, j) = UNION {S(i) : i \in I} BY DEF Ends
  <1>3. x \in UNION {S(i) : i \in I} <=> \E i \in I : x \in S(i)
    <2> HIDE DEF S, I
    <2> QED BY Zenon
  <1>4. \A i \in 0 .. j - 1 : x \in S(i) => i \in I
    <2> HIDE DEF S
    <2> SUFFICES ASSUME NEW i \in 0 .. j - 1, x \in S(i) PROVE part[<<i, j>>] # {} OBVIOUS
    <2> QED BY <1>1
  <1>5. \A i \in I : i \in 0 .. j - 1 OBVIOUS
  <1> HIDE DEF S, I
  <1>6. x \in Ends(part, u, j) <=> \E i \in 0 .. j - 1 : x \in S(i) BY <1>2, <1>3, <1>4, <1>5
  <1> QED BY <1>1, <1>6 DEF Extends

\* The texts are those of the parts that end at the same places.
LEMMA EndsAgree ==
  ASSUME NEW part, NEW other, NEW u, NEW v, NEW j \in Nat,
         \A i \in 0 .. j - 1 : u[i] = v[i] /\ part[<<i, j>>] = other[<<i, j>>]
  PROVE  Ends(part, u, j) = Ends(other, v, j)
  <1>1. ASSUME NEW x PROVE x \in Ends(part, u, j) <=> x \in Ends(other, v, j)
    <2>1. x \in Ends(part, u, j) <=> Extends(part, u, j, x) BY EndsElement, Zenon
    <2>2. x \in Ends(other, v, j) <=> Extends(other, v, j, x) BY EndsElement, Zenon
    <2>3. Extends(part, u, j, x) <=> Extends(other, v, j, x) BY DEF Extends
    <2> QED BY <2>1, <2>2, <2>3
  <1> QED BY <1>1

\* The texts are sequences of numbers.
LEMMA EndsTyped ==
  ASSUME NEW n \in Nat, NEW part, Parts(part, n), NEW u, NEW j \in 0 .. n,
         \A i \in 0 .. j - 1 : u[i] \in SUBSET Seq(Int)
  PROVE  Ends(part, u, j) \in SUBSET Seq(Int)
  <1> SUFFICES ASSUME NEW x, x \in Ends(part, u, j) PROVE x \in Seq(Int) OBVIOUS
  <1>0. Extends(part, u, j, x) BY EndsElement, Zenon
  <1>1. PICK i \in 0 .. j - 1 : \E rest \in u[i], p \in part[<<i, j>>] : x = rest \o <<p>>
    BY <1>0 DEF Extends
  <1>2. PICK rest \in u[i], p \in part[<<i, j>>] : x = rest \o <<p>> BY <1>1
  <1>3. i \in 0 .. n BY <1>1
  <1>4. p \in Int BY <1>2, <1>3 DEF Parts
  <1>5. rest \in Seq(Int) BY <1>1, <1>2
  <1> QED BY <1>2, <1>4, <1>5

\* The equation behind Chains has a solution.
LEMMA ChainsExist ==
  ASSUME NEW n \in Nat, NEW part, Parts(part, n)
  PROVE  \E u \in [0 .. n -> SUBSET Seq(Int)] : Chained(part, n, u)
  <1> DEFINE D == 0 .. n
             V == SUBSET Seq(Int)
             m == [d \in D |-> d]
             E(u, j) == IF j = 0 THEN {<<>>} ELSE Ends(part, u, j)
             G == [u \in [D -> V] |-> [j \in D |-> E(u, j)]]
  <1>1. V # {} /\ m \in [D -> Nat]
    <2>1. V # {} BY Zenon
    <2> QED BY <2>1
  <1>2. ASSUME NEW u \in [D -> V], NEW j \in D PROVE E(u, j) \in V
    <2>1. CASE j = 0 BY <2>1
    <2>2. CASE j # 0
      <3>1. \A i \in 0 .. j - 1 : u[i] \in SUBSET Seq(Int)
        <4> SUFFICES ASSUME NEW i \in 0 .. j - 1 PROVE u[i] \in V OBVIOUS
        <4>1. i \in D OBVIOUS
        <4> HIDE DEF D, V
        <4> QED BY <4>1
      <3> QED BY <2>2, <3>1, EndsTyped
    <2> QED BY <2>1, <2>2
  <1> HIDE DEF E
  <1>3. G \in [[D -> V] -> [D -> V]]
    <2> HIDE DEF D, V
    <2> QED BY <1>2
  <1>4. ASSUME NEW g \in [D -> V], NEW h \in [D -> V], NEW d \in D,
               \A e \in D : m[e] < m[d] => g[e] = h[e]
        PROVE  G[g][d] = G[h][d]
    <2>1. d # 0 => Ends(part, g, d) = Ends(part, h, d)
      <3>1. \A i \in 0 .. d - 1 : g[i] = h[i]
        <4> SUFFICES ASSUME NEW i \in 0 .. d - 1 PROVE g[i] = h[i] OBVIOUS
        <4>1. i \in D /\ m[i] < m[d] OBVIOUS
        <4> HIDE DEF D, V, m
        <4> QED BY <1>4, <4>1
      <3>2. d \in Nat OBVIOUS
      <3> HIDE DEF D, V, m
      <3> QED BY <3>1, <3>2, EndsAgree
    <2>2. E(g, d) = E(h, d) BY <2>1 DEF E
    <2> HIDE DEF D, V
    <2> QED BY <2>2
  <1>5. \E u \in [D -> V] : u = G[u]
    <2> HIDE DEF G, D, V, m
    <2>1. Recursion(D, V, m, G) BY <1>1, <1>3, <1>4 DEF Recursion
    <2> QED BY <2>1, RecursionExists
  <1>6. PICK u \in [D -> V] : u = G[u] BY <1>5
  <1>7. u = [j \in D |-> E(u, j)]
    <2> HIDE DEF D, V
    <2> QED BY <1>6
  <1> QED BY <1>6, <1>7 DEF E, Chained

\* Two solutions agree where their parts do.
LEMMA ChainedAgree ==
  ASSUME NEW n \in Nat, NEW other_n \in Nat, NEW k \in 0 .. n, k <= other_n,
         NEW part, NEW other, NEW u, NEW v, Chained(part, n, u), Chained(other, other_n, v),
         \A j \in 0 .. k : \A i \in 0 .. j - 1 : part[<<i, j>>] = other[<<i, j>>]
  PROVE  \A j \in 0 .. k : u[j] = v[j]
  <1> DEFINE D == 0 .. k
             m == [d \in D |-> d]
  <1>1. m \in [D -> Nat] OBVIOUS
  <1>2. ASSUME NEW d \in D PROVE /\ u[d] = IF d = 0 THEN {<<>>} ELSE Ends(part, u, d)
                                 /\ v[d] = IF d = 0 THEN {<<>>} ELSE Ends(other, v, d)
    <2>1. d \in 0 .. n /\ d \in 0 .. other_n OBVIOUS
    <2> QED BY <2>1 DEF Chained
  <1>3. ASSUME NEW d \in D, \A e \in D : m[e] < m[d] => u[e] = v[e] PROVE u[d] = v[d]
    <2>1. CASE d = 0 BY <1>2, <2>1
    <2>2. CASE d # 0
      <3>1. \A i \in 0 .. d - 1 : u[i] = v[i] /\ part[<<i, d>>] = other[<<i, d>>]
        <4> SUFFICES ASSUME NEW i \in 0 .. d - 1 PROVE u[i] = v[i] /\ part[<<i, d>>] = other[<<i, d>>]
          OBVIOUS
        <4>1. i \in D /\ m[i] < m[d] OBVIOUS
        <4>2. u[i] = v[i] BY <1>3, <4>1
        <4> QED BY <4>2
      <3>2. d \in Nat OBVIOUS
      <3>3. Ends(part, u, d) = Ends(other, v, d) BY <3>1, <3>2, EndsAgree
      <3> QED BY <1>2, <2>2, <3>3
    <2> QED BY <2>1, <2>2
  <1>4. Determined(D, m, u, v)
    <2> HIDE DEF D, m
    <2> QED BY <1>1, <1>3 DEF Determined
  <1> HIDE DEF m
  <1> QED BY <1>4, RecursionUnique

\* What Chains hands out is the last value of a solution.
LEMMA ChainsSolve ==
  ASSUME NEW n \in Nat, NEW part, Parts(part, n)
  PROVE  \E u \in [0 .. n -> SUBSET Seq(Int)] : Chained(part, n, u) /\ Chains(part, n) = u[n]
  <1> DEFINE F == CHOOSE u : Chained(part, n, u)
  <1>1. PICK u \in [0 .. n -> SUBSET Seq(Int)] : Chained(part, n, u) BY ChainsExist
  <1>4. Chained(part, n, F) BY <1>1
  <1>5. Chains(part, n) = F[n] BY Zenon DEF Chains, Chained
  <1> HIDE DEF F
  <1>6. \A j \in 0 .. n : u[j] = F[j]
    <2>1. n \in 0 .. n /\ n <= n OBVIOUS
    <2>2. \A j \in 0 .. n : \A i \in 0 .. j - 1 : part[<<i, j>>] = part[<<i, j>>] OBVIOUS
    <2> QED BY <1>1, <1>4, <2>1, <2>2, ChainedAgree
  <1>7. n \in 0 .. n OBVIOUS
  <1>8. Chains(part, n) = u[n] BY <1>5, <1>6, <1>7
  <1> QED BY <1>1, <1>8

\* The texts of the first bytes depend on their parts alone.
LEMMA ChainsAgree ==
  ASSUME NEW n \in Nat, NEW k \in 0 .. n, NEW part, Parts(part, n), NEW other, Parts(other, k),
         \A j \in 0 .. k : \A i \in 0 .. j - 1 : part[<<i, j>>] = other[<<i, j>>]
  PROVE  \A u : Chained(part, n, u) => u[k] = Chains(other, k)
  <1> SUFFICES ASSUME NEW u, Chained(part, n, u) PROVE u[k] = Chains(other, k) OBVIOUS
  <1>1. k \in Nat /\ k <= k OBVIOUS
  <1>2. PICK v : Chained(other, k, v) /\ Chains(other, k) = v[k] BY <1>1, ChainsSolve
  <1>3. \A j \in 0 .. k : u[j] = v[j] BY <1>1, <1>2, ChainedAgree
  <1>4. k \in 0 .. k OBVIOUS
  <1> QED BY <1>2, <1>3, <1>4

\* The texts of the first bytes of a longer sequence.
LEMMA ChainsPrefix ==
  ASSUME NEW n \in Nat, NEW k \in 0 .. n, NEW part, Parts(part, n), NEW other, Parts(other, k),
         \A j \in 0 .. k : \A i \in 0 .. j - 1 : part[<<i, j>>] = other[<<i, j>>]
  PROVE  Chains(part, k) = Chains(other, k)
  <1>1. PICK u : Chained(part, n, u) BY ChainsSolve
  <1>2. u[k] = Chains(other, k) BY <1>1, ChainsAgree
  <1>3. Parts(part, k) BY DEF Parts
  <1>4. \A j \in 0 .. k : \A i \in 0 .. j - 1 : part[<<i, j>>] = part[<<i, j>>] OBVIOUS
  <1>5. u[k] = Chains(part, k) BY <1>1, <1>3, <1>4, ChainsAgree
  <1> QED BY <1>2, <1>5

\* The text x ends at j: a part follows a shorter one.
LastPart(part, j, x) ==
  \E i \in 0 .. j - 1 : \E rest \in Chains(part, i), p \in part[<<i, j>>] : x = rest \o <<p>>

\* The texts by their last parts.
LEMMA ChainsEquation ==
  ASSUME NEW n \in Nat, NEW part, Parts(part, n)
  PROVE  /\ Chains(part, 0) = {<<>>}
         /\ \A j \in 0 .. n : Chains(part, j) \in SUBSET Seq(Int)
         /\ \A j \in 1 .. n : \A x : x \in Chains(part, j) <=> LastPart(part, j, x)
  <1>1. PICK u \in [0 .. n -> SUBSET Seq(Int)] : Chained(part, n, u) BY ChainsSolve
  <1>2. ASSUME NEW j \in 0 .. n PROVE u[j] = Chains(part, j)
    <2>1. Parts(part, j) BY DEF Parts
    <2>2. \A b \in 0 .. j : \A i \in 0 .. b - 1 : part[<<i, b>>] = part[<<i, b>>] OBVIOUS
    <2> QED BY <1>1, <2>1, <2>2, ChainsAgree
  <1>3. \A j \in 0 .. n : u[j] \in SUBSET Seq(Int) BY <1>1
  <1>4. \A j \in 0 .. n : u[j] = IF j = 0 THEN {<<>>} ELSE Ends(part, u, j)
    BY <1>1 DEF Chained
  <1>5. Chains(part, 0) = {<<>>}
    <2>1. 0 \in 0 .. n OBVIOUS
    <2> QED BY <1>2, <1>4, <2>1
  <1>6. ASSUME NEW j \in 1 .. n, NEW x
        PROVE  x \in Chains(part, j) <=> LastPart(part, j, x)
    <2>1. j \in 0 .. n /\ j # 0 OBVIOUS
    <2>2. x \in Chains(part, j) <=> x \in Ends(part, u, j) BY <1>2, <1>4, <2>1
    <2>3. \A i \in 0 .. j - 1 : u[i] = Chains(part, i)
      <3>1. \A i \in 0 .. j - 1 : i \in 0 .. n OBVIOUS
      <3> QED BY <1>2, <3>1
    <2>4. x \in Ends(part, u, j) <=> Extends(part, u, j, x) BY EndsElement, Zenon
    <2> QED BY <2>2, <2>3, <2>4 DEF Extends, LastPart
  <1> QED BY <1>2, <1>3, <1>5, <1>6

\* No part that begins at the end of a text before i goes beyond i.
Sealed(part, n, i) ==
  \A k \in 0 .. i - 1 :
    Chains(part, k) # {} => \A j \in k + 1 .. n : part[<<k, j>>] # {} => j <= i

\* No text ends behind i as long as no part that begins there does.
LEMMA ChainsGap ==
  ASSUME NEW n \in Nat, NEW part, Parts(part, n), NEW i \in 0 .. n, Sealed(part, n, i),
         NEW e \in i + 1 .. n + 1, \A j \in i + 1 .. e - 1 : part[<<i, j>>] = {}
  PROVE  \A k \in i + 1 .. e - 1 : Chains(part, k) = {}
  <1> DEFINE S == {k \in i + 1 .. e - 1 : Chains(part, k) # {}}
  <1> SUFFICES ASSUME S # {} PROVE FALSE OBVIOUS
  <1>1. S \in SUBSET Nat OBVIOUS
  <1>2. PICK k \in S : \A b \in S : k <= b BY <1>1, LeastNumber
  <1>3. k \in 1 .. n /\ k \in i + 1 .. e - 1 /\ Chains(part, k) # {} BY <1>2
  <1>4. PICK b \in 0 .. k - 1 : \E rest \in Chains(part, b), p \in part[<<b, k>>] : TRUE
    <2>1. PICK x : x \in Chains(part, k) BY <1>3
    <2>2. LastPart(part, k, x) BY <1>3, <2>1, ChainsEquation
    <2> QED BY <2>2 DEF LastPart
  <1>5. Chains(part, b) # {} /\ part[<<b, k>>] # {} BY <1>4
  <1>6. CASE b < i
    <2>1. b \in 0 .. i - 1 /\ k \in b + 1 .. n BY <1>3, <1>6
    <2>2. k <= i BY <1>5, <2>1 DEF Sealed
    <2> QED BY <1>3, <2>2
  <1>7. CASE b = i BY <1>3, <1>5, <1>7
  <1>8. CASE b > i
    <2>1. b \in S BY <1>3, <1>5, <1>8
    <2> QED BY <1>2, <2>1
  <1> QED BY <1>6, <1>7, <1>8

\* The first i bytes stand for w and for nothing else, and no part crosses their end.
Reached(part, n, i, w) == i \in 0 .. n /\ Chains(part, i) = {w} /\ Sealed(part, n, i)

\* The part from i to e stands for p, and no other part begins at i.
Only(part, n, i, e, p) ==
  /\ e \in i + 1 .. n /\ part[<<i, e>>] = {p}
  /\ \A j \in i + 1 .. n : part[<<i, j>>] # {} => j = e

\* The one part that begins at i makes the texts that end where it ends.
LEMMA ChainsStep ==
  ASSUME NEW n, NEW part, NEW i, NEW w, NEW e, NEW p, n \in Nat, Parts(part, n),
         Reached(part, n, i, w), Only(part, n, i, e, p)
  PROVE  /\ Reached(part, n, e, w \o <<p>>)
         /\ \A k \in i + 1 .. e - 1 : Chains(part, k) = {}
  <1>0. /\ i \in 0 .. n /\ Chains(part, i) = {w} /\ Sealed(part, n, i)
        /\ e \in i + 1 .. n /\ part[<<i, e>>] = {p}
        /\ \A j \in i + 1 .. n : part[<<i, j>>] # {} => j = e
    BY DEF Reached, Only
  <1>1. \A k \in i + 1 .. e - 1 : Chains(part, k) = {}
    <2>1. e \in i + 1 .. n + 1 /\ \A j \in i + 1 .. e - 1 : part[<<i, j>>] = {} BY <1>0
    <2> QED BY <1>0, <2>1, ChainsGap
  <1>2. e \in 1 .. n /\ i \in 0 .. e - 1 BY <1>0
  <1>3. ASSUME NEW x
        PROVE  x \in Chains(part, e) <=> LastPart(part, e, x)
    BY <1>0, <1>2, ChainsEquation
  <1>4. w \o <<p>> \in Chains(part, e)
    <2>1. LastPart(part, e, w \o <<p>>) BY <1>0, <1>2 DEF LastPart
    <2> QED BY <1>0, <1>3, <2>1
  <1>5. ASSUME NEW x \in Chains(part, e) PROVE x = w \o <<p>>
    <2>1. PICK b \in 0 .. e - 1 :
            \E rest \in Chains(part, b), q \in part[<<b, e>>] : x = rest \o <<q>>
      BY <1>0, <1>3, <1>5 DEF LastPart
    <2>2. PICK rest \in Chains(part, b), q \in part[<<b, e>>] : x = rest \o <<q>> BY <1>0, <2>1
    <2>3. Chains(part, b) # {} /\ part[<<b, e>>] # {} BY <1>0, <2>2
    <2>4. CASE b < i
      <3>1. b \in 0 .. i - 1 /\ e \in b + 1 .. n BY <1>0, <2>4
      <3>2. e <= i BY <1>0, <2>3, <3>1 DEF Sealed
      <3> QED BY <1>0, <3>2
    <2>5. CASE b = i
      <3>1. rest = w /\ q = p BY <1>0, <2>2, <2>5
      <3> QED BY <1>0, <2>2, <3>1
    <2>6. CASE b > i
      <3>1. b \in i + 1 .. e - 1 BY <1>0, <2>6
      <3> QED BY <1>0, <1>1, <2>3, <3>1
    <2> QED BY <1>0, <2>4, <2>5, <2>6
  <1>6. Sealed(part, n, e)
    <2> SUFFICES ASSUME NEW k \in 0 .. e - 1, Chains(part, k) # {},
                        NEW j \in k + 1 .. n, part[<<k, j>>] # {}
                 PROVE  j <= e
      BY <1>0 DEF Sealed
    <2>1. CASE k < i
      <3>1. k \in 0 .. i - 1 BY <1>0, <2>1
      <3>2. j <= i BY <1>0, <3>1 DEF Sealed
      <3> QED BY <1>0, <3>2
    <2>2. CASE k = i BY <1>0, <2>2
    <2>3. CASE k > i
      <3>1. k \in i + 1 .. e - 1 BY <1>0, <2>3
      <3> QED BY <1>0, <1>1, <3>1
    <2> QED BY <1>0, <2>1, <2>2, <2>3
  <1>7. e \in 0 .. n BY <1>0
  <1>8. Chains(part, e) = {w \o <<p>>} BY <1>4, <1>5
  <1> QED BY <1>1, <1>6, <1>7, <1>8 DEF Reached

-----------------------------------------------------------------------------
(* UTF-8.                                                                   *)

\* Well-formed sequences of one to four bytes.
OneByte(a) == a <= 127
TwoBytes(a, b) == a \in 194 .. 223 /\ continuation(b)
ThreeBytes(a, b, c) ==
  /\ a \in 224 .. 239 /\ continuation(b) /\ continuation(c)
  /\ ~(a = 224 /\ b < 160) /\ ~(a = 237 /\ b >= 160)
FourBytes(a, b, c, d) ==
  /\ a \in 240 .. 244 /\ continuation(b) /\ continuation(c) /\ continuation(d)
  /\ ~(a = 240 /\ b < 144) /\ ~(a = 244 /\ b >= 144)

\* A continuation carries six bits.
LEMMA LowBits ==
  ASSUME NEW b \in Byte
  PROVE  /\ b % 64 \in 0 .. 63 /\ (b \div 64 = 2 <=> continuation(b))
         /\ continuation(b) => b % 64 = b - 128
  BY DEF Byte, continuation

\* What a lead byte carries.
LEMMA LeadBits ==
  ASSUME NEW a \in Byte
  PROVE  /\ Lead(1, a) = IF a < 128 THEN a ELSE -1
         /\ Lead(2, a) = IF a \in 192 .. 223 THEN a - 192 ELSE -1
         /\ Lead(3, a) = IF a \in 224 .. 239 THEN a - 224 ELSE -1
         /\ Lead(4, a) = IF a \in 240 .. 247 THEN a - 240 ELSE -1
  <1>1. /\ a \div 32 = 6 <=> a \in 192 .. 223
        /\ a \in 192 .. 223 => a % 32 = a - 192
    BY DEF Byte
  <1>2. /\ a \div 16 = 14 <=> a \in 224 .. 239
        /\ a \in 224 .. 239 => a % 16 = a - 224
    BY DEF Byte
  <1>3. /\ a \div 8 = 30 <=> a \in 240 .. 247
        /\ a \in 240 .. 247 => a % 8 = a - 240
    BY DEF Byte
  <1> QED BY <1>1, <1>2, <1>3 DEF Lead, Byte

\* One byte is a form when it is ASCII.
LEMMA FormOfOne ==
  ASSUME NEW s, Len(s) = 1, s[1] \in Byte
  PROVE  Form(s) = IF OneByte(s[1]) THEN {s[1]} ELSE {}
  <1> DEFINE a == s[1]
  <1>1. a \in 0 .. 255 BY DEF Byte
  <1>2. Lead(1, a) = IF a < 128 THEN a ELSE -1 BY LeadBits
  <1>3. Whole(1, s) <=> a < 128 BY <1>1, <1>2 DEF Whole
  <1>4. Payload(1, s) = Lead(1, a) BY DEF Payload
  <1>5. Least_of[1] = 0 BY DEF Least_of
  <1>6. Form(s) = IF Whole(1, s) /\ Scalar(Payload(1, s)) /\ Payload(1, s) >= 0
                  THEN {Payload(1, s)} ELSE {}
    BY <1>5 DEF Form
  <1> HIDE DEF a
  <1>7. CASE a < 128
    <2>1. Scalar(a) BY <1>1, <1>7 DEF Scalar
    <2>2. OneByte(a) BY <1>1, <1>7 DEF OneByte
    <2> QED BY <1>1, <1>2, <1>3, <1>4, <1>6, <1>7, <2>1, <2>2 DEF a
  <1>8. CASE ~(a < 128)
    <2>1. ~OneByte(a) BY <1>1, <1>8 DEF OneByte
    <2> QED BY <1>3, <1>6, <1>8, <2>1 DEF a
  <1> QED BY <1>7, <1>8

\* Two bytes.
LEMMA FormOfTwo ==
  ASSUME NEW s, Len(s) = 2, s[1] \in Byte, s[2] \in Byte
  PROVE  Form(s) = IF TwoBytes(s[1], s[2]) THEN {(s[1] - 192) * 64 + (s[2] - 128)} ELSE {}
  <1> DEFINE a == s[1]
             b == s[2]
  <1>1. a \in Byte /\ b \in Byte OBVIOUS
  <1>2. a \in 0 .. 255 /\ b \in 0 .. 255 BY <1>1 DEF Byte
  <1>3. Lead(2, a) = IF a \in 192 .. 223 THEN a - 192 ELSE -1 BY <1>1, LeadBits
  <1>4. Whole(2, s) <=> a \in 192 .. 223 /\ continuation(b)
    <2>1. (\A k \in 2 .. 2 : s[k] \div 64 = 2) <=> b \div 64 = 2
      OBVIOUS
    <2>2. (b \div 64 = 2 <=> continuation(b))
      BY <1>1, LowBits
    <2> HIDE DEF a, b
    <2>3. Whole(2, s) <=> Lead(2, a) >= 0 /\ \A k \in 2 .. 2 : s[k] \div 64 = 2 BY DEF Whole, a
    <2> QED BY <1>2, <1>3, <2>1, <2>2, <2>3
  <1>5. Payload(2, s) = Lead(2, a) * 64 + (b % 64) BY DEF Payload
  <1>6. Least_of[2] = 128 BY DEF Least_of
  <1>7. continuation(b) => b % 64 = b - 128 /\ b \in 128 .. 191
    BY <1>1, LowBits DEF continuation
  <1>8. Form(s) = IF Whole(2, s) /\ Scalar(Payload(2, s)) /\ Payload(2, s) >= 128
                  THEN {Payload(2, s)} ELSE {}
    BY <1>6 DEF Form
  <1> HIDE DEF a, b
  <1>9. CASE a \in 192 .. 223 /\ continuation(b)
    <2>1. Payload(2, s) = (a - 192) * 64 + (b - 128) BY <1>3, <1>5, <1>7, <1>9
    <2>2. (a - 192) * 64 + (b - 128) >= 128 <=> a >= 194 BY <1>2, <1>7, <1>9
    <2>3. Scalar((a - 192) * 64 + (b - 128)) BY <1>2, <1>7, <1>9 DEF Scalar
    <2>4. TwoBytes(a, b) <=> a >= 194 BY <1>2, <1>9 DEF TwoBytes
    <2>5. Form(s) = IF TwoBytes(a, b) THEN {(a - 192) * 64 + (b - 128)} ELSE {}
      BY <1>4, <1>8, <1>9, <2>1, <2>2, <2>3, <2>4
    <2> QED BY <2>5 DEF a, b
  <1>10. CASE ~(a \in 192 .. 223 /\ continuation(b))
    BY <1>2, <1>4, <1>8, <1>10 DEF TwoBytes, a, b
  <1> QED BY <1>9, <1>10

\* Three bytes.
LEMMA FormOfThree ==
  ASSUME NEW s, Len(s) = 3, s[1] \in Byte, s[2] \in Byte, s[3] \in Byte
  PROVE  Form(s) = IF ThreeBytes(s[1], s[2], s[3])
                   THEN {(s[1] - 224) * 4096 + (s[2] - 128) * 64 + (s[3] - 128)} ELSE {}
  <1> DEFINE a == s[1]
             b == s[2]
             c == s[3]
             p == (a - 224) * 4096 + (b - 128) * 64 + (c - 128)
  <1>1. a \in Byte /\ b \in Byte /\ c \in Byte OBVIOUS
  <1>2. a \in 0 .. 255 /\ b \in 0 .. 255 /\ c \in 0 .. 255 BY <1>1 DEF Byte
  <1>3. Lead(3, a) = IF a \in 224 .. 239 THEN a - 224 ELSE -1 BY <1>1, LeadBits
  <1>4. Whole(3, s) <=> a \in 224 .. 239 /\ continuation(b) /\ continuation(c)
    <2>1. (\A k \in 2 .. 3 : s[k] \div 64 = 2) <=> b \div 64 = 2 /\ c \div 64 = 2
      OBVIOUS
    <2>2. (b \div 64 = 2 <=> continuation(b)) /\ (c \div 64 = 2 <=> continuation(c))
      BY <1>1, LowBits
    <2> HIDE DEF a, b, c
    <2>3. Whole(3, s) <=> Lead(3, a) >= 0 /\ \A k \in 2 .. 3 : s[k] \div 64 = 2 BY DEF Whole, a
    <2> QED BY <1>2, <1>3, <2>1, <2>2, <2>3
  <1>5. Payload(3, s) = Lead(3, a) * 4096 + (b % 64) * 64 + (c % 64) BY DEF Payload
  <1>6. Least_of[3] = 2048 BY DEF Least_of
  <1>7. /\ continuation(b) => b % 64 = b - 128 /\ b \in 128 .. 191
        /\ continuation(c) => c % 64 = c - 128 /\ c \in 128 .. 191
    BY <1>1, LowBits DEF continuation
  <1>8. Form(s) = IF Whole(3, s) /\ Scalar(Payload(3, s)) /\ Payload(3, s) >= 2048
                  THEN {Payload(3, s)} ELSE {}
    BY <1>6 DEF Form
  <1> HIDE DEF a, b, c
  <1>9. CASE a \in 224 .. 239 /\ continuation(b) /\ continuation(c)
    <2>1. Payload(3, s) = p BY <1>3, <1>5, <1>7, <1>9
    <2>2. p >= 2048 <=> ~(a = 224 /\ b < 160) BY <1>2, <1>7, <1>9
    <2>3. 55296 <= p /\ p <= 57343 <=> a = 237 /\ b >= 160 BY <1>2, <1>7, <1>9
    <2>4. 0 <= p /\ p <= 1114111 BY <1>2, <1>7, <1>9
    <2>5. Scalar(p) <=> ~(a = 237 /\ b >= 160) BY <2>3, <2>4 DEF Scalar
    <2>6. ThreeBytes(a, b, c) <=> ~(a = 224 /\ b < 160) /\ ~(a = 237 /\ b >= 160)
      BY <1>9 DEF ThreeBytes
    <2> HIDE DEF p
    <2>7. Form(s) = IF ThreeBytes(a, b, c) THEN {p} ELSE {}
      BY <1>4, <1>8, <1>9, <2>1, <2>2, <2>5, <2>6
    <2> QED BY <2>7 DEF a, b, c, p
  <1>10. CASE ~(a \in 224 .. 239 /\ continuation(b) /\ continuation(c))
    BY <1>4, <1>8, <1>10 DEF ThreeBytes, a, b, c
  <1> QED BY <1>9, <1>10

\* Four bytes.
LEMMA FormOfFour ==
  ASSUME NEW s, Len(s) = 4, s[1] \in Byte, s[2] \in Byte, s[3] \in Byte, s[4] \in Byte
  PROVE  Form(s) = IF FourBytes(s[1], s[2], s[3], s[4])
                   THEN {(s[1] - 240) * 262144 + (s[2] - 128) * 4096 + (s[3] - 128) * 64
                           + (s[4] - 128)} ELSE {}
  <1> DEFINE a == s[1]
             b == s[2]
             c == s[3]
             d == s[4]
             p == (a - 240) * 262144 + (b - 128) * 4096 + (c - 128) * 64 + (d - 128)
  <1>1. a \in Byte /\ b \in Byte /\ c \in Byte /\ d \in Byte OBVIOUS
  <1>2. a \in 0 .. 255 /\ b \in 0 .. 255 /\ c \in 0 .. 255 /\ d \in 0 .. 255 BY <1>1 DEF Byte
  <1>3. Lead(4, a) = IF a \in 240 .. 247 THEN a - 240 ELSE -1 BY <1>1, LeadBits
  <1>4. Whole(4, s) <=> a \in 240 .. 247 /\ continuation(b) /\ continuation(c) /\ continuation(d)
    <2>1. (\A k \in 2 .. 4 : s[k] \div 64 = 2) <=> b \div 64 = 2 /\ c \div 64 = 2 /\ d \div 64 = 2
      OBVIOUS
    <2>2. (b \div 64 = 2 <=> continuation(b)) /\ (c \div 64 = 2 <=> continuation(c)) /\ (d \div 64 = 2 <=> continuation(d))
      BY <1>1, LowBits
    <2> HIDE DEF a, b, c, d
    <2>3. Whole(4, s) <=> Lead(4, a) >= 0 /\ \A k \in 2 .. 4 : s[k] \div 64 = 2 BY DEF Whole, a
    <2> QED BY <1>2, <1>3, <2>1, <2>2, <2>3
  <1>5. Payload(4, s) = Lead(4, a) * 262144 + (b % 64) * 4096 + (c % 64) * 64 + (d % 64)
    BY DEF Payload
  <1>6. Least_of[4] = 65536 BY DEF Least_of
  <1>7. /\ continuation(b) => b % 64 = b - 128 /\ b \in 128 .. 191
        /\ continuation(c) => c % 64 = c - 128 /\ c \in 128 .. 191
        /\ continuation(d) => d % 64 = d - 128 /\ d \in 128 .. 191
    BY <1>1, LowBits DEF continuation
  <1>8. Form(s) = IF Whole(4, s) /\ Scalar(Payload(4, s)) /\ Payload(4, s) >= 65536
                  THEN {Payload(4, s)} ELSE {}
    BY <1>6 DEF Form
  <1> HIDE DEF a, b, c, d
  <1>9. CASE a \in 240 .. 247 /\ continuation(b) /\ continuation(c) /\ continuation(d)
    <2>1. Payload(4, s) = p BY <1>3, <1>5, <1>7, <1>9
    <2>2. p >= 65536 <=> ~(a = 240 /\ b < 144) BY <1>2, <1>7, <1>9
    <2>3. p <= 1114111 <=> a < 244 \/ (a = 244 /\ b < 144) BY <1>2, <1>7, <1>9
    <2>4. p >= 65536 => (Scalar(p) <=> p <= 1114111) BY <1>2, <1>7, <1>9 DEF Scalar
    <2>5. FourBytes(a, b, c, d) <=> p >= 65536 /\ p <= 1114111
      <3> HIDE DEF p
      <3> QED BY <1>2, <1>9, <2>2, <2>3 DEF FourBytes
    <2> HIDE DEF p
    <2>6. Form(s) = IF FourBytes(a, b, c, d) THEN {p} ELSE {}
      BY <1>4, <1>8, <1>9, <2>1, <2>4, <2>5
    <2> QED BY <2>6 DEF a, b, c, d, p
  <1>10. CASE ~(a \in 240 .. 247 /\ continuation(b) /\ continuation(c) /\ continuation(d))
    BY <1>2, <1>4, <1>8, <1>10 DEF FourBytes, a, b, c, d
  <1> QED BY <1>9, <1>10

\* A text of n bytes.  The elements are named apart from the sequence, to keep the
\* obligations about them free of sequences of sequences.
Text(s, n) == n \in Nat /\ Len(s) = n /\ \A k \in 1 .. n : s[k] \in Byte

\* A piece of a text is a text.
LEMMA Slice ==
  ASSUME NEW s, NEW n, Text(s, n), NEW i \in 0 .. n, NEW j \in i .. n
  PROVE  /\ Text(SubSeq(s, i + 1, j), j - i)
         /\ \A k \in 1 .. j - i : SubSeq(s, i + 1, j)[k] = s[i + k]
  <1>1. n \in Nat /\ \A k \in 1 .. n : s[k] \in Byte BY DEF Text
  <1>2. i + 1 \in Int /\ j \in Int /\ i \in Nat /\ j - i \in Nat BY <1>1
  <1>3. \A k \in i + 1 .. j : s[k] \in Byte BY <1>1
  <1> DEFINE t == SubSeq(s, i + 1, j)
  <1>4. /\ Len(t) = IF i + 1 <= j THEN j - (i + 1) + 1 ELSE 0
        /\ \A k \in 1 .. j - (i + 1) + 1 : t[k] = s[i + 1 + k - 1]
    BY <1>2, <1>3, SubSeqProperties
  <1> HIDE DEF t
  <1>5. Len(t) = j - i BY <1>1, <1>2, <1>4
  <1>6. ASSUME NEW k \in 1 .. j - i PROVE t[k] = s[i + k] /\ t[k] \in Byte
    <2>1. k \in 1 .. j - (i + 1) + 1 /\ i + 1 + k - 1 = i + k /\ i + k \in i + 1 .. j
      BY <1>1, <1>2
    <2> QED BY <1>3, <1>4, <2>1
  <1> QED BY <1>2, <1>5, <1>6 DEF Text, t

\* When sequence_size finds how many bytes.
LEMMA SizeIs ==
  ASSUME NEW s, NEW n, Text(s, n), NEW i \in 1 .. n
  PROVE  /\ sequence_size(s, i) \in 0 .. 4
         /\ sequence_size(s, i) = 1 <=> OneByte(s[i])
         /\ sequence_size(s, i) = 2 <=> i + 1 <= n /\ TwoBytes(s[i], s[i + 1])
         /\ sequence_size(s, i) = 3 <=> i + 2 <= n /\ ThreeBytes(s[i], s[i + 1], s[i + 2])
         /\ sequence_size(s, i) = 4
              <=> i + 3 <= n /\ FourBytes(s[i], s[i + 1], s[i + 2], s[i + 3])
  <1> DEFINE a == s[i]
             rest(m) == i + m <= Len(s) /\ \A k \in 1 .. m : continuation(s[i + k])
             two == a \in 194 .. 223 /\ rest(1)
             three == /\ a \in 224 .. 239 /\ rest(2) /\ ~(a = 224 /\ s[i + 1] < 160)
                      /\ ~(a = 237 /\ s[i + 1] >= 160)
             four == /\ a \in 240 .. 244 /\ rest(3) /\ ~(a = 240 /\ s[i + 1] < 144)
                     /\ ~(a = 244 /\ s[i + 1] >= 144)
             z == sequence_size(s, i)
  <1>1. z = CASE a <= 127 -> 1 [] two -> 2 [] three -> 3 [] four -> 4 [] OTHER -> 0
    BY DEF sequence_size
  <1>2. (two => a \in 194 .. 223) /\ (three => a \in 224 .. 239) /\ (four => a \in 240 .. 244)
    BY Zenon
  <1>3. a \in 0 .. 255 /\ Len(s) = n /\ n \in Nat BY DEF Text, Byte
  <1>4. /\ rest(1) <=> i + 1 <= n /\ continuation(s[i + 1])
        /\ rest(2) <=> i + 2 <= n /\ continuation(s[i + 1]) /\ continuation(s[i + 2])
        /\ rest(3) <=> /\ i + 3 <= n /\ continuation(s[i + 1]) /\ continuation(s[i + 2])
                       /\ continuation(s[i + 3])
    BY <1>3
  <1>5. /\ two <=> i + 1 <= n /\ TwoBytes(a, s[i + 1])
        /\ three <=> i + 2 <= n /\ ThreeBytes(a, s[i + 1], s[i + 2])
        /\ four <=> i + 3 <= n /\ FourBytes(a, s[i + 1], s[i + 2], s[i + 3])
    <2> HIDE DEF rest
    <2> QED BY <1>4 DEF TwoBytes, ThreeBytes, FourBytes
  <1> HIDE DEF two, three, four, a, z
  <1>6. /\ z \in 0 .. 4 /\ (z = 1 <=> a <= 127) /\ (z = 2 <=> two) /\ (z = 3 <=> three)
        /\ (z = 4 <=> four)
    <2>1. CASE a <= 127
      <3>1. ~two /\ ~three /\ ~four BY <1>2, <1>3, <2>1
      <3>2. z = 1 BY <1>1, <2>1, <3>1
      <3> QED BY <2>1, <3>1, <3>2
    <2>2. CASE two
      <3>1. ~(a <= 127) /\ ~three /\ ~four BY <1>2, <1>3, <2>2
      <3>2. z = 2 BY <1>1, <2>2, <3>1
      <3> QED BY <2>2, <3>1, <3>2
    <2>3. CASE three
      <3>1. ~(a <= 127) /\ ~two /\ ~four BY <1>2, <1>3, <2>3
      <3>2. z = 3 BY <1>1, <2>3, <3>1
      <3> QED BY <2>3, <3>1, <3>2
    <2>4. CASE four
      <3>1. ~(a <= 127) /\ ~two /\ ~three BY <1>2, <1>3, <2>4
      <3>2. z = 4 BY <1>1, <2>4, <3>1
      <3> QED BY <2>4, <3>1, <3>2
    <2>5. CASE ~(a <= 127) /\ ~two /\ ~three /\ ~four
      <3>1. z = 0 BY <1>1, <2>5
      <3> QED BY <2>5, <3>1
    <2> QED BY <2>1, <2>2, <2>3, <2>4, <2>5
  <1> QED BY <1>5, <1>6 DEF OneByte, a, z

Single(S) == \E p \in Int : S = {p}

\* A piece is a form when sequence_size finds it.
LEMMA FormAt ==
  ASSUME NEW s, NEW n, Text(s, n), NEW i \in 0 .. n - 1, NEW j \in i + 1 .. n
  PROVE  /\ Form(SubSeq(s, i + 1, j)) # {} <=> sequence_size(s, i + 1) = j - i
         /\ Form(SubSeq(s, i + 1, j)) \in SUBSET Int
         /\ Form(SubSeq(s, i + 1, j)) # {} => Single(Form(SubSeq(s, i + 1, j)))
  <1> DEFINE t == SubSeq(s, i + 1, j)
             z == sequence_size(s, i + 1)
  <1>1. n \in Nat BY DEF Text
  <1>2. i \in 0 .. n /\ j \in i .. n /\ i + 1 \in 1 .. n /\ i \in Nat /\ j \in Nat /\ j - i \in Nat
    BY <1>1
  <1>3. Text(t, j - i) /\ \A k \in 1 .. j - i : t[k] = s[i + k] BY <1>2, Slice
  <1>4. /\ z \in 0 .. 4
        /\ z = 1 <=> OneByte(s[i + 1])
        /\ z = 2 <=> i + 1 + 1 <= n /\ TwoBytes(s[i + 1], s[i + 1 + 1])
        /\ z = 3 <=> i + 1 + 2 <= n /\ ThreeBytes(s[i + 1], s[i + 1 + 1], s[i + 1 + 2])
        /\ z = 4 <=> i + 1 + 3 <= n
                       /\ FourBytes(s[i + 1], s[i + 1 + 1], s[i + 1 + 2], s[i + 1 + 3])
    BY <1>2, SizeIs, Zenon
  <1>5. i + 1 + 1 = i + 2 /\ i + 1 + 2 = i + 3 /\ i + 1 + 3 = i + 4 BY <1>2
  <1> HIDE DEF t, z
  <1>6. Len(t) = j - i /\ \A k \in 1 .. j - i : t[k] \in Byte /\ t[k] \in Int
    <2>1. Len(t) = j - i /\ \A k \in 1 .. j - i : t[k] \in Byte BY <1>3 DEF Text
    <2>2. \A b \in Byte : b \in Int BY DEF Byte
    <2> QED BY <2>1, <2>2
  <1>7. CASE j - i = 1
    <2>1. 1 \in 1 .. j - i BY <1>7
    <2>2. t[1] = s[i + 1] /\ t[1] \in Byte /\ t[1] \in Int BY <1>3, <1>6, <2>1
    <2>3. Form(t) = IF OneByte(t[1]) THEN {t[1]} ELSE {} BY <1>6, <1>7, <2>2, FormOfOne
    <2>4. Form(t) # {} => Single(Form(t)) BY <2>2, <2>3 DEF Single
    <2>5. (Form(t) # {} <=> z = j - i) /\ Form(t) \in SUBSET Int BY <1>4, <1>7, <2>2, <2>3
    <2> QED BY <2>4, <2>5 DEF t, z
  <1>8. CASE j - i = 2
    <2>1. 1 \in 1 .. j - i /\ 2 \in 1 .. j - i BY <1>8
    <2>2. /\ t[1] = s[i + 1] /\ t[1] \in Byte /\ t[1] \in Int
          /\ t[2] = s[i + 2] /\ t[2] \in Byte /\ t[2] \in Int
      BY <1>3, <1>6, <2>1
    <2>3. Form(t) = IF TwoBytes(t[1], t[2]) THEN {(t[1] - 192) * 64 + (t[2] - 128)} ELSE {}
      BY <1>6, <1>8, <2>2, FormOfTwo
    <2>4. (t[1] - 192) * 64 + (t[2] - 128) \in Int BY <2>2
    <2>5. i + 2 <= n BY <1>1, <1>2, <1>8
    <2>6. z = 2 <=> TwoBytes(t[1], t[2]) BY <1>4, <1>5, <2>2, <2>5
    <2>7. Form(t) # {} => Single(Form(t)) BY <2>3, <2>4 DEF Single
    <2>8. (Form(t) # {} <=> z = j - i) /\ Form(t) \in SUBSET Int BY <1>8, <2>3, <2>4, <2>6
    <2> QED BY <2>7, <2>8 DEF t, z
  <1>9. CASE j - i = 3
    <2>1. 1 \in 1 .. j - i /\ 2 \in 1 .. j - i /\ 3 \in 1 .. j - i BY <1>9
    <2>2. /\ t[1] = s[i + 1] /\ t[1] \in Byte /\ t[1] \in Int
          /\ t[2] = s[i + 2] /\ t[2] \in Byte /\ t[2] \in Int
          /\ t[3] = s[i + 3] /\ t[3] \in Byte /\ t[3] \in Int
      BY <1>3, <1>6, <2>1
    <2> DEFINE p == (t[1] - 224) * 4096 + (t[2] - 128) * 64 + (t[3] - 128)
    <2>3. Form(t) = IF ThreeBytes(t[1], t[2], t[3]) THEN {p} ELSE {}
      <3>1. Len(t) = 3 BY <1>6, <1>9
      <3> QED BY <2>2, <3>1, FormOfThree, Zenon
    <2>4. p \in Int BY <2>2
    <2>5. i + 3 <= n BY <1>1, <1>2, <1>9
    <2>6. z = 3 <=> ThreeBytes(t[1], t[2], t[3]) BY <1>4, <1>5, <2>2, <2>5
    <2> HIDE DEF p
    <2>7. Form(t) # {} => Single(Form(t)) BY <2>3, <2>4 DEF Single
    <2>8. (Form(t) # {} <=> z = j - i) /\ Form(t) \in SUBSET Int BY <1>9, <2>3, <2>4, <2>6
    <2> QED BY <2>7, <2>8 DEF t, z
  <1>10. CASE j - i = 4
    <2>1. 1 \in 1 .. j - i /\ 2 \in 1 .. j - i /\ 3 \in 1 .. j - i /\ 4 \in 1 .. j - i BY <1>10
    <2>2. /\ t[1] = s[i + 1] /\ t[1] \in Byte /\ t[1] \in Int
          /\ t[2] = s[i + 2] /\ t[2] \in Byte /\ t[2] \in Int
          /\ t[3] = s[i + 3] /\ t[3] \in Byte /\ t[3] \in Int
          /\ t[4] = s[i + 4] /\ t[4] \in Byte /\ t[4] \in Int
      BY <1>3, <1>6, <2>1
    <2> DEFINE p == (t[1] - 240) * 262144 + (t[2] - 128) * 4096 + (t[3] - 128) * 64 + (t[4] - 128)
    <2>3. Form(t) = IF FourBytes(t[1], t[2], t[3], t[4]) THEN {p} ELSE {}
      <3>1. Len(t) = 4 BY <1>6, <1>10
      <3>2. /\ Len(t) = 4 /\ t[1] \in Byte /\ t[2] \in Byte /\ t[3] \in Byte /\ t[4] \in Byte
        BY <2>2, <3>1
      <3> QED BY <3>2, FormOfFour
    <2>4. p \in Int BY <2>2
    <2>5. i + 4 <= n BY <1>1, <1>2, <1>10
    <2>6. z = 4 <=> FourBytes(t[1], t[2], t[3], t[4]) BY <1>4, <1>5, <2>2, <2>5
    <2> HIDE DEF p
    <2>7. Form(t) # {} => Single(Form(t)) BY <2>3, <2>4 DEF Single
    <2>8. (Form(t) # {} <=> z = j - i) /\ Form(t) \in SUBSET Int BY <1>10, <2>3, <2>4, <2>6
    <2> QED BY <2>7, <2>8 DEF t, z
  <1>11. CASE j - i \notin 1 .. 4
    <2>1. ~Whole(Len(t), t) BY <1>6, <1>11 DEF Whole
    <2>2. Form(t) = {} BY <2>1 DEF Form
    <2>3. z # j - i BY <1>2, <1>4, <1>11
    <2> QED BY <2>2, <2>3 DEF t, z
  <1> QED BY <1>2, <1>7, <1>8, <1>9, <1>10, <1>11

\* A sequence of bytes.  The name keeps sequences out of obligations about elements.
Bytes(s) == s \in Seq(Byte)

\* It is a text as long as it is.
LEMMA BytesText == ASSUME NEW s, Bytes(s) PROVE Text(s, Len(s)) /\ Len(s) \in Nat
  <1>1. Len(s) \in Nat BY LenProperties DEF Bytes
  <1>2. \A k \in 1 .. Len(s) : s[k] \in Byte BY ElementOfSeq, Zenon DEF Bytes
  <1> QED BY <1>1, <1>2 DEF Text

\* And so is a piece.
LEMMA PieceBytes ==
  ASSUME NEW s, Bytes(s), NEW i \in 0 .. Len(s), NEW j \in i .. Len(s)
  PROVE  Bytes(SubSeq(s, i + 1, j)) /\ Len(SubSeq(s, i + 1, j)) = j - i
  <1>1. Len(s) \in Nat /\ \A k \in 1 .. Len(s) : s[k] \in Byte BY BytesText DEF Text
  <1>2. i + 1 \in Int /\ j \in Int /\ i \in Nat BY <1>1
  <1>3. \A k \in i + 1 .. j : s[k] \in Byte BY <1>1, <1>2
  <1>4. SubSeq(s, i + 1, j) \in Seq(Byte) BY <1>2, <1>3, SubSeqProperties
  <1>5. Text(SubSeq(s, i + 1, j), j - i) BY <1>1, BytesText, Slice
  <1> QED BY <1>4, <1>5 DEF Bytes, Text

\* A piece of a piece is a piece.
LEMMA PieceOfPiece ==
  ASSUME NEW s, Bytes(s), NEW a \in 0 .. Len(s), NEW b \in a .. Len(s),
         NEW i \in 0 .. b - a, NEW j \in i + 1 .. b - a
  PROVE  SubSeq(SubSeq(s, a + 1, b), i + 1, j) = SubSeq(s, a + i + 1, a + j)
  <1>1. Len(s) \in Nat BY BytesText
  <1>2. /\ a + 1 \in 1 .. Len(s) /\ b \in 1 .. Len(s)
        /\ i + 1 \in 1 .. b - (a + 1) + 1 /\ j \in 1 .. b - (a + 1) + 1
        /\ a + 1 + (i + 1) - 1 = a + i + 1 /\ a + 1 + j - 1 = a + j
    BY <1>1
  <1>3. s \in Seq(Byte) BY DEF Bytes
  <1>4. SubSeq(SubSeq(s, a + 1, b), i + 1, j) = SubSeq(s, a + 1 + (i + 1) - 1, a + 1 + j - 1)
    BY <1>2, <1>3, SubSeqOfSubSeq
  <1> QED BY <1>2, <1>4

\* Two texts put together keep their pieces.
LEMMA Join ==
  ASSUME NEW f, NEW g, Bytes(f), Bytes(g)
  PROVE  /\ Bytes(f \o g) /\ Len(f \o g) = Len(f) + Len(g)
         /\ \A j \in 1 .. Len(f) : \A i \in 0 .. j - 1 :
              SubSeq(f \o g, i + 1, j) = SubSeq(f, i + 1, j)
         /\ Len(g) > 0 => SubSeq(f \o g, Len(f) + 1, Len(f) + Len(g)) = g
  <1>1. Len(f) \in Nat /\ Len(g) \in Nat BY BytesText
  <1>2. f \in Seq(Byte) /\ g \in Seq(Byte) BY DEF Bytes
  <1>3. Bytes(f \o g) /\ Len(f \o g) = Len(f) + Len(g) BY <1>2, ConcatProperties DEF Bytes
  <1>4. ASSUME NEW j \in 1 .. Len(f), NEW i \in 0 .. j - 1
        PROVE  SubSeq(f \o g, i + 1, j) = SubSeq(f, i + 1, j)
    <2>1. i + 1 \in 1 .. Len(f) BY <1>1
    <2> QED BY <1>2, <2>1, SubSeqOfConcat1
  <1>5. ASSUME Len(g) > 0 PROVE SubSeq(f \o g, Len(f) + 1, Len(f) + Len(g)) = g
    <2>1. /\ Len(f) + 1 \in Len(f) + 1 .. Len(f) + Len(g)
          /\ Len(f) + Len(g) \in Len(f) + 1 .. Len(f) + Len(g)
          /\ Len(f) + 1 - Len(f) = 1 /\ Len(f) + Len(g) - Len(f) = Len(g)
      BY <1>1, <1>5
    <2>2. SubSeq(f \o g, Len(f) + 1, Len(f) + Len(g)) = SubSeq(g, 1, Len(g))
      BY <1>2, <2>1, SubSeqOfConcat2
    <2>3. SubSeq(g, 1, Len(g)) = g BY <1>2, SubSeqFull
    <2> QED BY <2>2, <2>3
  <1> QED BY <1>3, <1>4, <1>5

\* The table of the forms of a text.
LEMMA FormsTable ==
  ASSUME NEW s, Bytes(s)
  PROVE  /\ Parts(Forms(s), Len(s))
         /\ \A j \in 0 .. Len(s) : \A i \in 0 .. j - 1 :
              Forms(s)[<<i, j>>] = Form(SubSeq(s, i + 1, j))
  <1>1. Len(s) \in Nat /\ Text(s, Len(s)) BY BytesText
  <1> DEFINE n == Len(s)
             P == (0 .. n) \X (0 .. n)
             e(c) == IF c[1] < c[2] THEN Form(SubSeq(s, c[1] + 1, c[2])) ELSE {}
  <1>2. \A c \in P : Forms(s)[c] = e(c) BY DEF Forms
  <1> HIDE DEF n
  <1>3. ASSUME NEW i \in 0 .. n, NEW j \in 0 .. n
        PROVE  Forms(s)[<<i, j>>] = IF i < j THEN Form(SubSeq(s, i + 1, j)) ELSE {}
    <2>1. <<i, j>> \in P OBVIOUS
    <2> QED BY <1>2, <2>1
  <1>4. ASSUME NEW j \in 0 .. n, NEW i \in 0 .. j - 1
        PROVE  Forms(s)[<<i, j>>] = Form(SubSeq(s, i + 1, j))
    <2>1. i \in 0 .. n /\ i < j BY <1>1 DEF n
    <2> QED BY <1>3, <2>1
  <1>5. ASSUME NEW i \in 0 .. n, NEW j \in 0 .. n PROVE Forms(s)[<<i, j>>] \in SUBSET Int
    <2>1. CASE i < j
      <3>1. i \in 0 .. n - 1 /\ j \in i + 1 .. n BY <1>1, <2>1 DEF n
      <3>2. Form(SubSeq(s, i + 1, j)) \in SUBSET Int BY <1>1, <3>1, FormAt DEF n
      <3> QED BY <1>3, <2>1, <3>2
    <2>2. CASE ~(i < j)
      <3>1. Forms(s)[<<i, j>>] = {} BY <1>3, <2>2
      <3> QED BY <3>1
    <2> QED BY <2>1, <2>2
  <1> QED BY <1>4, <1>5 DEF n, Parts

\* What begins at a place has one length.
LEMMA FormUnique ==
  ASSUME NEW s, Bytes(s), NEW i \in 0 .. Len(s) - 1, NEW j \in i + 1 .. Len(s),
         NEW k \in i + 1 .. Len(s),
         Forms(s)[<<i, j>>] # {}, Forms(s)[<<i, k>>] # {}
  PROVE  j = k
  <1>1. Len(s) \in Nat /\ Text(s, Len(s)) BY BytesText
  <1>2. /\ j \in 0 .. Len(s) /\ i \in 0 .. j - 1 /\ k \in 0 .. Len(s) /\ i \in 0 .. k - 1
        /\ i \in Int /\ j \in Int /\ k \in Int
    BY <1>1
  <1>3. Form(SubSeq(s, i + 1, j)) # {} /\ Form(SubSeq(s, i + 1, k)) # {}
    BY <1>2, FormsTable
  <1>4. sequence_size(s, i + 1) = j - i /\ sequence_size(s, i + 1) = k - i
    BY <1>1, <1>3, FormAt
  <1> QED BY <1>2, <1>4

\* The bytes f are the UTF-8 of w, and no form is cut at their end.
Spells(f, w) ==
  /\ Bytes(f) /\ Plain(f) = {w}
  /\ \A k \in 0 .. Len(f) - 1 :
       Chains(Forms(f), k) # {} => \E j \in k + 1 .. Len(f) : Forms(f)[<<k, j>>] # {}

\* Nothing spells nothing.
LEMMA SpellsNothing == Spells(<<>>, <<>>)
  <1> DEFINE f == <<>>
  <1>1. Bytes(f) BY EmptySeq DEF Bytes
  <1>2. Len(f) = 0 OBVIOUS
  <1>3. Parts(Forms(f), Len(f)) BY <1>1, FormsTable
  <1>4. Chains(Forms(f), 0) = {<<>>} BY <1>2, <1>3, ChainsEquation
  <1> HIDE DEF f
  <1>5. \A k \in 0 .. Len(f) - 1 : FALSE BY <1>2
  <1> QED BY <1>1, <1>2, <1>4, <1>5 DEF Spells, Plain, f

\* A form appended is one more code point.
LEMMA SpellsStep ==
  ASSUME NEW f, NEW w, Spells(f, w), NEW g, Bytes(g), Len(g) > 0, NEW p, Form(g) = {p}
  PROVE  Spells(f \o g, w \o <<p>>)
  <1> DEFINE h == f \o g
             m == Len(f)
             n == Len(h)
             part == Forms(h)
  <1>1. Bytes(f) /\ m \in Nat /\ Len(g) \in Nat BY BytesText DEF Spells
  <1>2. /\ Bytes(h) /\ n = m + Len(g)
        /\ \A j \in 1 .. m : \A i \in 0 .. j - 1 : SubSeq(h, i + 1, j) = SubSeq(f, i + 1, j)
        /\ SubSeq(h, m + 1, m + Len(g)) = g
    BY <1>1, Join
  <1>3. /\ Parts(part, n)
        /\ \A j \in 0 .. n : \A i \in 0 .. j - 1 : part[<<i, j>>] = Form(SubSeq(h, i + 1, j))
    BY <1>2, FormsTable
  <1>4. /\ Parts(Forms(f), m)
        /\ \A j \in 0 .. m : \A i \in 0 .. j - 1 : Forms(f)[<<i, j>>] = Form(SubSeq(f, i + 1, j))
    BY <1>1, FormsTable
  <1>5. /\ Chains(Forms(f), m) = {w}
        /\ \A k \in 0 .. m - 1 :
             Chains(Forms(f), k) # {} => \E j \in k + 1 .. m : Forms(f)[<<k, j>>] # {}
    BY DEF Spells, Plain
  <1>6. \A i \in 0 .. n - 1 : \A j, k \in i + 1 .. n :
          part[<<i, j>>] # {} /\ part[<<i, k>>] # {} => j = k
    BY <1>2, FormUnique
  <1> HIDE DEF h, m, n, part
  <1>7. n \in Nat /\ m \in 0 .. n /\ m < n BY <1>1, <1>2
  <1>8. ASSUME NEW j \in 0 .. m, NEW i \in 0 .. j - 1
        PROVE  part[<<i, j>>] = Forms(f)[<<i, j>>]
    <2>1. j \in 0 .. n /\ j \in 1 .. m BY <1>1, <1>7
    <2> QED BY <1>2, <1>3, <1>4, <2>1
  <1>9. ASSUME NEW k \in 0 .. m PROVE Chains(part, k) = Chains(Forms(f), k)
    <2>1. k \in 0 .. n /\ Parts(Forms(f), k) BY <1>1, <1>4, <1>7 DEF Parts
    <2>2. ASSUME NEW j \in 0 .. k, NEW i \in 0 .. j - 1
          PROVE  part[<<i, j>>] = Forms(f)[<<i, j>>]
      <3>1. j \in 0 .. m BY <1>1
      <3> QED BY <1>8, <3>1
    <2> QED BY <1>3, <1>7, <2>1, <2>2, ChainsPrefix
  <1>10. Sealed(part, n, m)
    <2> SUFFICES ASSUME NEW k \in 0 .. m - 1, Chains(part, k) # {},
                        NEW j \in k + 1 .. n, part[<<k, j>>] # {}
                 PROVE  j <= m
      BY DEF Sealed
    <2>1. k \in 0 .. m /\ k \in 0 .. n - 1 BY <1>1, <1>7
    <2>2. PICK l \in k + 1 .. m : Forms(f)[<<k, l>>] # {} BY <1>5, <1>9, <2>1
    <2>3. l \in 0 .. m /\ k \in 0 .. l - 1 /\ l \in k + 1 .. n BY <1>1, <1>7
    <2>4. part[<<k, l>>] # {} BY <1>8, <2>2, <2>3
    <2>5. j = l BY <1>6, <2>1, <2>3, <2>4
    <2> QED BY <1>1, <2>3, <2>5
  <1>11. part[<<m, n>>] = {p}
    <2>1. n \in 0 .. n /\ m \in 0 .. n - 1 BY <1>1, <1>7
    <2> QED BY <1>2, <1>3, <2>1
  <1>12. n \in m + 1 .. n /\ m \in 0 .. n - 1 BY <1>1, <1>7
  <1>13. \A j \in m + 1 .. n : part[<<m, j>>] # {} => j = n
    BY <1>6, <1>11, <1>12
  <1>14. m \in 0 .. m BY <1>1
  <1>15. Chains(part, m) = {w} BY <1>5, <1>9, <1>14
  <1>16. /\ Chains(part, n) = {w \o <<p>>}
         /\ \A k \in m + 1 .. n - 1 : Chains(part, k) = {}
    <2>1. Reached(part, n, m, w) BY <1>7, <1>10, <1>15 DEF Reached
    <2>2. Only(part, n, m, n, p) BY <1>11, <1>12, <1>13 DEF Only
    <2>3. /\ Reached(part, n, n, w \o <<p>>)
          /\ \A k \in m + 1 .. n - 1 : Chains(part, k) = {}
      BY <1>3, <1>7, <2>1, <2>2, ChainsStep, Zenon
    <2> QED BY <2>3 DEF Reached
  <1>17. ASSUME NEW k \in 0 .. n - 1, Chains(part, k) # {}
         PROVE  \E j \in k + 1 .. n : part[<<k, j>>] # {}
    <2>1. CASE k < m
      <3>1. k \in 0 .. m /\ k \in 0 .. m - 1 BY <1>1, <1>7, <2>1
      <3>2. PICK j \in k + 1 .. m : Forms(f)[<<k, j>>] # {} BY <1>5, <1>9, <1>17, <3>1
      <3>3. j \in 0 .. m /\ k \in 0 .. j - 1 /\ j \in k + 1 .. n BY <1>1, <1>7, <3>1
      <3> QED BY <1>8, <3>2, <3>3
    <2>2. CASE k = m BY <1>11, <1>12, <2>2
    <2>3. CASE k > m
      <3>1. k \in m + 1 .. n - 1 BY <1>1, <1>7, <2>3
      <3> QED BY <1>16, <1>17, <3>1
    <2>4. k < m \/ k = m \/ k > m BY <1>1, <1>7
    <2> QED BY <2>1, <2>2, <2>3, <2>4, Zenon
  <1> QED BY <1>2, <1>16, <1>17 DEF Spells, Plain, h, n, part

\* The last digit of a number to base 64, and the others.
LEMMA LastDigit ==
  ASSUME NEW p \in Nat
  PROVE  p = (p \div 64) * 64 + (p % 64) /\ p % 64 \in 0 .. 63 /\ p \div 64 \in Nat
  OBVIOUS

\* A quotient is what fits.
LEMMA Quotients ==
  ASSUME NEW p \in Nat, NEW q \in Nat, NEW r \in Nat
  PROVE  /\ p = q * 4096 + r /\ r < 4096 => p \div 4096 = q
         /\ p = q * 262144 + r /\ r < 262144 => p \div 262144 = q
  <1>1. ASSUME p = q * 4096 + r, r < 4096 PROVE p \div 4096 = q BY <1>1
  <1>2. ASSUME p = q * 262144 + r, r < 262144 PROVE p \div 262144 = q BY <1>2
  <1> QED BY <1>1, <1>2

\* The digits of a number to base 64.
LEMMA SixBits ==
  ASSUME NEW p \in Nat
  PROVE  /\ (p \div 1) % 64 = p % 64 /\ p % 64 \in 0 .. 63
         /\ (p \div 64) % 64 \in 0 .. 63 /\ (p \div 4096) % 64 \in 0 .. 63
         /\ p < 2048 => p = (p \div 64) * 64 + (p % 64) /\ p \div 64 \in 0 .. 31
         /\ p < 65536 => /\ p = (p \div 4096) * 4096 + ((p \div 64) % 64) * 64 + (p % 64)
                         /\ p \div 4096 \in 0 .. 15
         /\ p < 2097152 => /\ p = (p \div 262144) * 262144 + ((p \div 4096) % 64) * 4096
                                    + ((p \div 64) % 64) * 64 + (p % 64)
                           /\ p \div 262144 \in 0 .. 7
  <1> DEFINE q1 == p \div 64
             q2 == q1 \div 64
             q3 == q2 \div 64
             d0 == p % 64
             d1 == q1 % 64
             d2 == q2 % 64
  <1>1. p = q1 * 64 + d0 /\ d0 \in 0 .. 63 /\ q1 \in Nat BY LastDigit
  <1>2. q1 = q2 * 64 + d1 /\ d1 \in 0 .. 63 /\ q2 \in Nat BY <1>1, LastDigit
  <1>3. q2 = q3 * 64 + d2 /\ d2 \in 0 .. 63 /\ q3 \in Nat BY <1>2, LastDigit
  <1>4. p \div 4096 = q2
    <2> HIDE DEF q1, q2, d0, d1
    <2> DEFINE r == d1 * 64 + d0
    <2>1. r \in Nat /\ r < 4096 /\ p = q2 * 4096 + r BY <1>1, <1>2
    <2> HIDE DEF r
    <2> QED BY <1>2, <2>1, Quotients
  <1>5. p \div 262144 = q3
    <2> HIDE DEF q1, q2, q3, d0, d1, d2
    <2> DEFINE r == d2 * 4096 + d1 * 64 + d0
    <2>1. r \in Nat /\ r < 262144 /\ p = q3 * 262144 + r BY <1>1, <1>2, <1>3
    <2> HIDE DEF r
    <2> QED BY <1>3, <2>1, Quotients
  <1>6. p \div 1 = p OBVIOUS
  <1> HIDE DEF d0, d1, d2, q1, q2, q3
  <1>7. p < 2048 => q1 \in 0 .. 31 BY <1>1
  <1>8. p < 65536 => p = q2 * 4096 + d1 * 64 + d0 /\ q2 \in 0 .. 15 BY <1>1, <1>2
  <1>9. p < 2097152 => p = q3 * 262144 + d2 * 4096 + d1 * 64 + d0 /\ q3 \in 0 .. 7
    BY <1>1, <1>2, <1>3
  <1>10. p \div 64 = q1 /\ p % 64 = d0 /\ q1 % 64 = d1 /\ q2 % 64 = d2 BY DEF q1, d0, d1, d2
  <1>11. (p \div 1) % 64 = d0 BY <1>6, <1>10
  <1>12. (p \div 64) % 64 = d1 /\ (p \div 4096) % 64 = d2 BY <1>4, <1>10
  <1>13. /\ d0 \in 0 .. 63 /\ d1 \in 0 .. 63 /\ d2 \in 0 .. 63
         /\ p < 2048 => p = q1 * 64 + d0 /\ q1 \in 0 .. 31
    BY <1>1, <1>2, <1>3, <1>7
  <1>14. /\ (p \div 1) % 64 = p % 64 /\ p % 64 \in 0 .. 63
         /\ (p \div 64) % 64 \in 0 .. 63 /\ (p \div 4096) % 64 \in 0 .. 63
    BY <1>10, <1>11, <1>12, <1>13
  <1>15. p < 2048 => p = (p \div 64) * 64 + (p % 64) /\ p \div 64 \in 0 .. 31
    BY <1>10, <1>13
  <1>16. p < 65536 => /\ p = (p \div 4096) * 4096 + ((p \div 64) % 64) * 64 + (p % 64)
                      /\ p \div 4096 \in 0 .. 15
    BY <1>4, <1>8, <1>10, <1>12
  <1>17. p < 2097152 => /\ p = (p \div 262144) * 262144 + ((p \div 4096) % 64) * 4096
                                   + ((p \div 64) % 64) * 64 + (p % 64)
                        /\ p \div 262144 \in 0 .. 7
    BY <1>5, <1>9, <1>10, <1>12
  <1> QED BY <1>14, <1>15, <1>16, <1>17

\* What encode_utf8 writes is the form of the code point.
LEMMA EncodeSpells ==
  ASSUME NEW p, Scalar(p), p \in Nat
  PROVE  /\ Bytes(encode_utf8(p)) /\ Len(encode_utf8(p)) > 0 /\ Form(encode_utf8(p)) = {p}
         /\ p # 0 => \A k \in 1 .. Len(encode_utf8(p)) : encode_utf8(p)[k] # 0
  <1> DEFINE g == encode_utf8(p)
             d0 == p % 64
             d1 == (p \div 64) % 64
             d2 == (p \div 4096) % 64
  <1>1. p <= 1114111 /\ ~(55296 <= p /\ p <= 57343) BY DEF Scalar
  <1>2. d0 \in 0 .. 63 /\ d1 \in 0 .. 63 /\ d2 \in 0 .. 63 BY SixBits
  <1>3. CASE p < 128
    <2>1. g = <<p>> BY <1>3 DEF encode_utf8
    <2>2. p \in Byte BY <1>3 DEF Byte
    <2> HIDE DEF g
    <2>3. Bytes(g) BY <2>1, <2>2 DEF Bytes
    <2>4. Len(g) = 1 /\ g[1] = p BY <2>1
    <2>5. Form(g) = IF OneByte(p) THEN {p} ELSE {} BY <2>2, <2>4, FormOfOne
    <2>6. OneByte(p) BY <1>3 DEF OneByte
    <2> QED BY <2>3, <2>4, <2>5, <2>6 DEF g
  <1>4. CASE 128 <= p /\ p < 2048
    <2> DEFINE a == 192 + p \div 64
               b == 128 + d0
    <2>1. g = <<a, b>> BY <1>4, SixBits DEF encode_utf8
    <2>2. p = (p \div 64) * 64 + d0 /\ p \div 64 \in 0 .. 31 BY <1>4, SixBits
    <2>3. a \in 194 .. 223 /\ b \in 128 .. 191 /\ (a - 192) * 64 + (b - 128) = p
      BY <1>2, <1>4, <2>2
    <2> HIDE DEF g, a, b
    <2>4. a \in Byte /\ b \in Byte /\ a # 0 /\ b # 0 BY <2>3 DEF Byte
    <2>5. Bytes(g) BY <2>1, <2>4 DEF Bytes
    <2>6. Len(g) = 2 /\ g[1] = a /\ g[2] = b BY <2>1
    <2>7. Form(g) = IF TwoBytes(a, b) THEN {(a - 192) * 64 + (b - 128)} ELSE {}
      BY <2>4, <2>6, FormOfTwo
    <2>8. TwoBytes(a, b) BY <2>3 DEF TwoBytes, continuation
    <2>9. \A k \in 1 .. Len(g) : g[k] # 0 BY <2>4, <2>6
    <2> QED BY <2>3, <2>5, <2>6, <2>7, <2>8, <2>9 DEF g
  <1>5. CASE 2048 <= p /\ p < 65536
    <2> DEFINE a == 224 + p \div 4096
               b == 128 + d1
               c == 128 + d0
    <2>1. g = <<a, b, c>> BY <1>5, SixBits DEF encode_utf8
    <2>2. p = (p \div 4096) * 4096 + d1 * 64 + d0 /\ p \div 4096 \in 0 .. 15 BY <1>5, SixBits
    <2>3. /\ a \in 224 .. 239 /\ b \in 128 .. 191 /\ c \in 128 .. 191
          /\ (a - 224) * 4096 + (b - 128) * 64 + (c - 128) = p
      BY <1>2, <1>5, <2>2
    <2> HIDE DEF g, a, b, c, d0, d1
    <2>4. ~(a = 224 /\ b < 160) /\ ~(a = 237 /\ b >= 160) BY <1>1, <1>5, <2>3
    <2>5. a \in Byte /\ b \in Byte /\ c \in Byte /\ a # 0 /\ b # 0 /\ c # 0 BY <2>3 DEF Byte
    <2>6. Bytes(g) BY <2>1, <2>5 DEF Bytes
    <2>7. Len(g) = 3 /\ g[1] = a /\ g[2] = b /\ g[3] = c BY <2>1
    <2>8. Form(g) = IF ThreeBytes(a, b, c)
                    THEN {(a - 224) * 4096 + (b - 128) * 64 + (c - 128)} ELSE {}
      BY <2>5, <2>7, FormOfThree
    <2>9. ThreeBytes(a, b, c) BY <2>3, <2>4 DEF ThreeBytes, continuation
    <2>10. \A k \in 1 .. Len(g) : g[k] # 0 BY <2>5, <2>7
    <2> QED BY <2>3, <2>6, <2>7, <2>8, <2>9, <2>10 DEF g
  <1>6. CASE 65536 <= p
    <2> DEFINE a == 240 + p \div 262144
               b == 128 + d2
               c == 128 + d1
               d == 128 + d0
    <2>1. g = <<a, b, c, d>> BY <1>6, SixBits DEF encode_utf8
    <2>2. /\ p = (p \div 262144) * 262144 + d2 * 4096 + d1 * 64 + d0
          /\ p \div 262144 \in 0 .. 7
      BY <1>1, <1>6, SixBits
    <2>3. /\ a \in 240 .. 244 /\ b \in 128 .. 191 /\ c \in 128 .. 191 /\ d \in 128 .. 191
          /\ (a - 240) * 262144 + (b - 128) * 4096 + (c - 128) * 64 + (d - 128) = p
      <3> DEFINE q == p \div 262144
      <3>1. p = q * 262144 + d2 * 4096 + d1 * 64 + d0 /\ q \in 0 .. 7 BY <2>2
      <3> HIDE DEF q, d0, d1, d2
      <3>2. q \in 0 .. 4 BY <1>1, <1>2, <3>1
      <3> QED BY <1>2, <3>1, <3>2 DEF q
    <2> HIDE DEF g, a, b, c, d, d0, d1, d2
    <2>4. ~(a = 240 /\ b < 144) /\ ~(a = 244 /\ b >= 144) BY <1>1, <1>6, <2>3
    <2>5. /\ a \in Byte /\ b \in Byte /\ c \in Byte /\ d \in Byte
          /\ a # 0 /\ b # 0 /\ c # 0 /\ d # 0
      BY <2>3 DEF Byte
    <2>6. Bytes(g) BY <2>1, <2>5 DEF Bytes
    <2>7. Len(g) = 4 /\ g[1] = a /\ g[2] = b /\ g[3] = c /\ g[4] = d BY <2>1
    <2>8. Form(g) = IF FourBytes(a, b, c, d)
                    THEN {(a - 240) * 262144 + (b - 128) * 4096 + (c - 128) * 64 + (d - 128)}
                    ELSE {}
      BY <2>5, <2>7, FormOfFour
    <2>9. FourBytes(a, b, c, d) BY <2>3, <2>4 DEF FourBytes, continuation
    <2>10. \A k \in 1 .. Len(g) : g[k] # 0 BY <2>5, <2>7
    <2> QED BY <2>3, <2>6, <2>7, <2>8, <2>9, <2>10 DEF g
  <1> QED BY <1>3, <1>4, <1>5, <1>6

-----------------------------------------------------------------------------
(* Escapes.                                                                 *)

\* The grammar's digits are those the code reads.
LEMMA DigitValue ==
  ASSUME NEW b \in Byte
  PROVE  Digit(b) = hex_value(b) /\ Digit(b) \in -1 .. 15
  <1>1. b \in 0 .. 255 BY DEF Byte
  <1>2. CASE b \in 48 .. 57 BY <1>1, <1>2 DEF Digit, hex_value
  <1>3. CASE b \in 97 .. 102 BY <1>1, <1>3 DEF Digit, hex_value
  <1>4. CASE b \in 65 .. 70 BY <1>1, <1>4 DEF Digit, hex_value
  <1>5. CASE b \notin 48 .. 57 /\ b \notin 97 .. 102 /\ b \notin 65 .. 70
    BY <1>5 DEF Digit, hex_value
  <1> QED BY <1>2, <1>3, <1>4, <1>5

\* The unit an escape of the text spells.
LEMMA UnitAt ==
  ASSUME NEW s, NEW n, Text(s, n), NEW i \in 0 .. n, i + 6 <= n,
         s[i + 1] = 92, s[i + 2] = 117
  PROVE  /\ read_u16(s, i + 2) \in Int /\ -1 <= read_u16(s, i + 2) /\ read_u16(s, i + 2) <= 65535
         /\ Unit(SubSeq(s, i + 1, i + 6))
              = IF read_u16(s, i + 2) = -1 THEN {} ELSE {read_u16(s, i + 2)}
  <1> DEFINE t == SubSeq(s, i + 1, i + 6)
             v(k) == hex_value(s[i + 2 + k])
  <1>0. n \in Nat /\ i \in Nat BY DEF Text
  <1>1. i + 6 \in i .. n /\ i + 6 - i = 6 BY <1>0
  <1>2. Text(t, 6) /\ \A k \in 1 .. 6 : t[k] = s[i + k] BY <1>1, Slice
  <1> HIDE DEF t
  <1>3. Len(t) = 6 /\ t[1] = 92 /\ t[2] = 117 BY <1>2 DEF Text
  <1>4. /\ t[3] \in Byte /\ t[4] \in Byte /\ t[5] \in Byte /\ t[6] \in Byte
        /\ t[3] = s[i + 3] /\ t[4] = s[i + 4] /\ t[5] = s[i + 5] /\ t[6] = s[i + 6]
    BY <1>2 DEF Text
  <1>5. i + 2 + 1 = i + 3 /\ i + 2 + 2 = i + 4 /\ i + 2 + 3 = i + 5 /\ i + 2 + 4 = i + 6
    BY <1>0
  <1>6. /\ Digit(t[3]) = v(1) /\ Digit(t[4]) = v(2) /\ Digit(t[5]) = v(3) /\ Digit(t[6]) = v(4)
        /\ v(1) \in -1 .. 15 /\ v(2) \in -1 .. 15 /\ v(3) \in -1 .. 15 /\ v(4) \in -1 .. 15
    BY <1>4, <1>5, DigitValue
  <1>7. read_u16(s, i + 2) = IF \E k \in 1 .. 4 : v(k) < 0 THEN -1
                             ELSE ((v(1) * 16 + v(2)) * 16 + v(3)) * 16 + v(4)
    BY DEF read_u16
  <1>8. Unit(t) = IF \A k \in 3 .. 6 : Digit(t[k]) >= 0
                  THEN {4096 * Digit(t[3]) + 256 * Digit(t[4]) + 16 * Digit(t[5]) + Digit(t[6])}
                  ELSE {}
    BY <1>3 DEF Unit
  <1> HIDE DEF v
  <1>9. (\A k \in 3 .. 6 : Digit(t[k]) >= 0)
          <=> v(1) >= 0 /\ v(2) >= 0 /\ v(3) >= 0 /\ v(4) >= 0
    BY <1>6
  <1>10. (\E k \in 1 .. 4 : v(k) < 0) <=> v(1) < 0 \/ v(2) < 0 \/ v(3) < 0 \/ v(4) < 0
    OBVIOUS
  <1>13. /\ read_u16(s, i + 2) \in Int /\ -1 <= read_u16(s, i + 2) /\ read_u16(s, i + 2) <= 65535
         /\ Unit(t) = IF read_u16(s, i + 2) = -1 THEN {} ELSE {read_u16(s, i + 2)}
    <2>1. CASE v(1) >= 0 /\ v(2) >= 0 /\ v(3) >= 0 /\ v(4) >= 0
      <3>1. v(1) \in 0 .. 15 /\ v(2) \in 0 .. 15 /\ v(3) \in 0 .. 15 /\ v(4) \in 0 .. 15
        BY <1>6, <2>1
      <3> DEFINE u == ((v(1) * 16 + v(2)) * 16 + v(3)) * 16 + v(4)
                 q == 4096 * v(1) + 256 * v(2) + 16 * v(3) + v(4)
      <3>2. u = q /\ u \in Nat /\ u <= 65535
        <4> DEFINE x == v(1) * 16 + v(2)
                   y == x * 16 + v(3)
        <4>1. x \in 0 .. 255 BY <3>1
        <4>2. y \in Nat /\ y <= 4095 /\ y = 256 * v(1) + 16 * v(2) + v(3)
          <5>1. x = v(1) * 16 + v(2) OBVIOUS
          <5> HIDE DEF x
          <5>2. y \in Nat /\ y <= 4095 BY <3>1, <4>1
          <5>3. y = 256 * v(1) + 16 * v(2) + v(3) BY <3>1, <4>1, <5>1
          <5> QED BY <5>2, <5>3
        <4>3. u = y * 16 + v(4) OBVIOUS
        <4>4. q = 4096 * v(1) + 256 * v(2) + 16 * v(3) + v(4) OBVIOUS
        <4> HIDE DEF x, y, u, q
        <4> QED BY <3>1, <4>2, <4>3, <4>4
      <3>3. read_u16(s, i + 2) = u BY <1>6, <1>7, <1>10, <2>1
      <3>4. Unit(t) = {q} BY <1>6, <1>8, <1>9, <2>1
      <3> HIDE DEF u, q
      <3> QED BY <3>2, <3>3, <3>4
    <2>2. CASE ~(v(1) >= 0 /\ v(2) >= 0 /\ v(3) >= 0 /\ v(4) >= 0)
      <3>1. read_u16(s, i + 2) = -1 BY <1>6, <1>7, <1>10, <2>2
      <3>2. Unit(t) = {} BY <1>8, <1>9, <2>2
      <3> QED BY <3>1, <3>2
    <2> QED BY <2>1, <2>2
  <1> QED BY <1>13 DEF t

\* What follows a backslash by its length.
LEMMA ItemCases ==
  ASSUME NEW t, t[1] = 92
  PROVE  /\ Len(t) = 2 => Item(t) = {e[2] : e \in {f \in Letters : f[1] = t[2]}}
         /\ Len(t) = 6 => Item(t) = {u \in Unit(t) : Scalar(u) /\ u # 0}
         /\ Len(t) = 12 =>
              Item(t) = {65536 + (h - 55296) * 1024 + (l - 56320) :
                           h \in Unit(SubSeq(t, 1, 6)) \cap (55296 .. 56319),
                           l \in Unit(SubSeq(t, 7, 12)) \cap (56320 .. 57343)}
         /\ Len(t) \notin {2, 6, 12} => Item(t) = {}
  <1> DEFINE short == IF Len(t) = 2 THEN {e[2] : e \in {f \in Letters : f[1] = t[2]}} ELSE {}
             one == {u \in Unit(t) : Scalar(u) /\ u # 0}
             pair == {65536 + (h - 55296) * 1024 + (l - 56320) :
                        h \in Unit(SubSeq(t, 1, 6)) \cap (55296 .. 56319),
                        l \in Unit(SubSeq(t, 7, 12)) \cap (56320 .. 57343)}
             two == IF Len(t) # 12 THEN {} ELSE pair
  <1>1. Item(t) = short \cup one \cup two BY DEF Item
  <1>2. Len(t) # 6 => one = {} BY DEF Unit
  <1>3. Len(t) # 12 => two = {} OBVIOUS
  <1>4. Len(t) # 2 => short = {} OBVIOUS
  <1>5. Len(t) = 12 => two = pair OBVIOUS
  <1>6. Len(t) = 2 => short = {e[2] : e \in {f \in Letters : f[1] = t[2]}} OBVIOUS
  <1> HIDE DEF short, one, two, pair
  <1>7. Len(t) = 2 => Item(t) = short BY <1>1, <1>2, <1>3
  <1>8. Len(t) = 6 => Item(t) = one BY <1>1, <1>3, <1>4
  <1>9. Len(t) = 12 => Item(t) = pair BY <1>1, <1>2, <1>4, <1>5
  <1>10. Len(t) \notin {2, 6, 12} => Item(t) = {} BY <1>1, <1>2, <1>3, <1>4
  <1> QED BY <1>6, <1>7, <1>8, <1>9, <1>10 DEF one, pair

\* The escape of a unit begins after i.
SpelledAt(s, i) == s[i + 1] = 92 /\ s[i + 2] = 117 /\ read_u16(s, i + 2) # -1

UnitOf(s, i, t) ==
  /\ Unit(t) = IF SpelledAt(s, i) THEN {read_u16(s, i + 2)} ELSE {}
  /\ SpelledAt(s, i) => read_u16(s, i + 2) \in Nat /\ read_u16(s, i + 2) <= 65535

\* The units of six bytes of a text.
LEMMA UnitPiece ==
  ASSUME NEW s, NEW n, Text(s, n), NEW i \in 0 .. n, i + 6 <= n
  PROVE  UnitOf(s, i, SubSeq(s, i + 1, i + 6))
  <1> USE DEF UnitOf
  <1>1. CASE s[i + 1] = 92 /\ s[i + 2] = 117
    <2>1. /\ read_u16(s, i + 2) \in Int /\ -1 <= read_u16(s, i + 2)
          /\ read_u16(s, i + 2) <= 65535
          /\ Unit(SubSeq(s, i + 1, i + 6))
               = IF read_u16(s, i + 2) = -1 THEN {} ELSE {read_u16(s, i + 2)}
      BY <1>1, UnitAt
    <2>2. SpelledAt(s, i) <=> read_u16(s, i + 2) # -1 BY <1>1 DEF SpelledAt
    <2> QED BY <2>1, <2>2
  <1>2. CASE ~(s[i + 1] = 92 /\ s[i + 2] = 117)
    <2> DEFINE t == SubSeq(s, i + 1, i + 6)
    <2>1. n \in Nat /\ i \in Nat BY DEF Text
    <2>2. i + 6 \in i .. n /\ 1 \in 1 .. i + 6 - i /\ 2 \in 1 .. i + 6 - i BY <2>1
    <2>3. t[1] = s[i + 1] /\ t[2] = s[i + 2] BY <2>2, Slice
    <2> HIDE DEF t
    <2>4. Unit(t) = {} BY <1>2, <2>3 DEF Unit
    <2> QED BY <1>2, <2>4 DEF SpelledAt, t
  <1> QED BY <1>1, <1>2

\* The supplementary code point of two units.
Paired(h, l) == 65536 + (h - 55296) * 1024 + (l - 56320)

\* The first half of a pair.
LEMMA HighOf ==
  ASSUME NEW u \in Nat
  PROVE  {u} \cap (55296 .. 56319) = IF high_surrogate(u) THEN {u} ELSE {}
  <1> DEFINE R == 55296 .. 56319
  <1>1. u \in R <=> high_surrogate(u) BY DEF high_surrogate
  <1> HIDE DEF R
  <1>2. {u} \cap R = IF high_surrogate(u) THEN {u} ELSE {} BY <1>1
  <1> QED BY <1>2 DEF R

\* The second half.
LEMMA LowOf ==
  ASSUME NEW u \in Nat
  PROVE  {u} \cap (56320 .. 57343) = IF low_surrogate(u) THEN {u} ELSE {}
  <1> DEFINE R == 56320 .. 57343
  <1>1. u \in R <=> low_surrogate(u) BY DEF low_surrogate
  <1> HIDE DEF R
  <1>2. {u} \cap R = IF low_surrogate(u) THEN {u} ELSE {} BY <1>1
  <1> QED BY <1>2 DEF R

\* What the escape from i to j stands for.
EscapeItem(s, i, j, points) ==
  /\ j = i + 2 => points = {e[2] : e \in {f \in Letters : f[1] = s[i + 2]}}
  /\ j = i + 6 => points = IF SpelledAt(s, i) /\ Scalar(read_u16(s, i + 2))
                              /\ read_u16(s, i + 2) # 0
                           THEN {read_u16(s, i + 2)} ELSE {}
  /\ j = i + 12 => points = IF SpelledAt(s, i) /\ high_surrogate(read_u16(s, i + 2))
                               /\ SpelledAt(s, i + 6) /\ low_surrogate(read_u16(s, i + 8))
                            THEN {Paired(read_u16(s, i + 2), read_u16(s, i + 8))} ELSE {}
  /\ j \notin {i + 2, i + 6, i + 12} => points = {}

\* An escape of the text by its length.
LEMMA EscapeAt ==
  ASSUME NEW s, Bytes(s), NEW i \in 0 .. Len(s) - 1, NEW j \in i + 1 .. Len(s), s[i + 1] = 92
  PROVE  EscapeItem(s, i, j, Item(SubSeq(s, i + 1, j)))
  <1> DEFINE t == SubSeq(s, i + 1, j)
             n == Len(s)
             u == read_u16(s, i + 2)
             v == read_u16(s, i + 8)
  <1>1. Text(s, n) /\ n \in Nat /\ i \in Nat /\ j \in Nat /\ i \in 0 .. n /\ j \in i .. n
        /\ j - i >= 1 /\ i < n
    BY BytesText
  <1>2. Text(t, j - i) /\ \A k \in 1 .. j - i : t[k] = s[i + k] BY <1>1, Slice
  <1>3. Len(t) = j - i BY <1>2 DEF Text
  <1>4. t[1] = 92
    <2>1. 1 \in 1 .. j - i BY <1>1
    <2> QED BY <1>2, <2>1
  <1>5. \A a \in 0 .. 6 : a + 6 <= j - i =>
          SubSeq(t, a + 1, a + 6) = SubSeq(s, i + a + 1, i + (a + 6))
    <2> SUFFICES ASSUME NEW a \in 0 .. 6, a + 6 <= j - i
                 PROVE  SubSeq(t, a + 1, a + 6) = SubSeq(s, i + a + 1, i + (a + 6))
      OBVIOUS
    <2>1. a \in 0 .. j - i /\ a + 6 \in a + 1 .. j - i BY <1>1
    <2> QED BY <1>1, <2>1, PieceOfPiece
  <1>6. j = i + 2 => Item(t) = {e[2] : e \in {f \in Letters : f[1] = s[i + 2]}}
    <2> SUFFICES ASSUME j = i + 2 PROVE Item(t) = {e[2] : e \in {f \in Letters : f[1] = s[i + 2]}}
      OBVIOUS
    <2>1. 2 \in 1 .. j - i /\ j - i = 2 BY <1>1
    <2>2. t[2] = s[i + 2] /\ Len(t) = 2 BY <1>2, <1>3, <2>1
    <2> HIDE DEF t
    <2>3. Item(t) = {e[2] : e \in {f \in Letters : f[1] = t[2]}} BY <1>4, <2>2, ItemCases
    <2> QED BY <2>2, <2>3
  <1>7. j = i + 6 => Item(t) = IF SpelledAt(s, i) /\ Scalar(u) /\ u # 0 THEN {u} ELSE {}
    <2> SUFFICES ASSUME j = i + 6
                 PROVE  Item(t) = IF SpelledAt(s, i) /\ Scalar(u) /\ u # 0 THEN {u} ELSE {}
      OBVIOUS
    <2>1. Unit(t) = IF SpelledAt(s, i) THEN {u} ELSE {}
      <3>1. i + 6 <= n BY <1>1
      <3> HIDE DEF n
      <3>2. UnitOf(s, i, SubSeq(s, i + 1, i + 6)) BY <1>1, <3>1, UnitPiece, Zenon
      <3> QED BY <3>2 DEF UnitOf
    <2>2. Len(t) = 6 BY <1>1, <1>3
    <2> HIDE DEF t, u
    <2>3. Item(t) = {x \in Unit(t) : Scalar(x) /\ x # 0} BY <1>4, <2>2, ItemCases
    <2> QED BY <2>1, <2>3
  <1>8. j = i + 12 =>
          Item(t) = IF SpelledAt(s, i) /\ high_surrogate(u) /\ SpelledAt(s, i + 6)
                       /\ low_surrogate(v)
                    THEN {Paired(u, v)} ELSE {}
    <2> SUFFICES ASSUME j = i + 12
                 PROVE  Item(t) = IF SpelledAt(s, i) /\ high_surrogate(u)
                                     /\ SpelledAt(s, i + 6) /\ low_surrogate(v)
                                  THEN {Paired(u, v)} ELSE {}
      OBVIOUS
    <2> DEFINE U == Unit(SubSeq(t, 1, 6))
               V == Unit(SubSeq(t, 7, 12))
               H == Unit(SubSeq(t, 1, 6)) \cap (55296 .. 56319)
               L == Unit(SubSeq(t, 7, 12)) \cap (56320 .. 57343)
    <2>1. Len(t) = 12 BY <1>1, <1>3
    <2>2. SubSeq(t, 1, 6) = SubSeq(s, i + 1, i + 6) /\ SubSeq(t, 7, 12) = SubSeq(s, i + 7, i + 12)
      <3>1. /\ 0 \in 0 .. 6 /\ 6 \in 0 .. 6 /\ 0 + 6 <= j - i /\ 6 + 6 <= j - i
            /\ i + 0 + 1 = i + 1 /\ i + (0 + 6) = i + 6 /\ i + 6 + 1 = i + 7
            /\ i + (6 + 6) = i + 12 /\ 0 + 1 = 1 /\ 0 + 6 = 6 /\ 6 + 1 = 7 /\ 6 + 6 = 12
        BY <1>1
      <3> HIDE DEF t
      <3> QED BY <1>5, <3>1
    <2>3. /\ Unit(SubSeq(s, i + 1, i + 6)) = IF SpelledAt(s, i) THEN {u} ELSE {}
          /\ SpelledAt(s, i) => u \in Nat
      <3>1. i + 6 <= n BY <1>1
      <3> HIDE DEF n
      <3>2. UnitOf(s, i, SubSeq(s, i + 1, i + 6)) BY <1>1, <3>1, UnitPiece, Zenon
      <3> QED BY <3>2 DEF UnitOf
    <2>4. /\ Unit(SubSeq(s, i + 7, i + 12)) = IF SpelledAt(s, i + 6) THEN {v} ELSE {}
          /\ SpelledAt(s, i + 6) => v \in Nat
      <3>1. /\ i + 6 \in 0 .. n /\ i + 6 + 6 <= n /\ i + 6 + 1 = i + 7 /\ i + 6 + 6 = i + 12
            /\ i + 6 + 2 = i + 8
        BY <1>1
      <3>2. /\ Unit(SubSeq(s, i + 6 + 1, i + 6 + 6))
                 = IF SpelledAt(s, i + 6) THEN {read_u16(s, i + 6 + 2)} ELSE {}
            /\ SpelledAt(s, i + 6) => read_u16(s, i + 6 + 2) \in Nat
        <4>1. Text(s, n) /\ i + 6 \in 0 .. n /\ i + 6 + 6 <= n BY <1>1, <3>1
        <4> HIDE DEF n
        <4>2. UnitOf(s, i + 6, SubSeq(s, i + 6 + 1, i + 6 + 6)) BY <4>1, UnitPiece, Zenon
        <4> QED BY <4>2 DEF UnitOf
      <3> QED BY <3>1, <3>2
    <2> HIDE DEF t, u, v
    <2>5. Item(t) = {65536 + (h - 55296) * 1024 + (l - 56320) : h \in H, l \in L}
      BY <1>4, <2>1, ItemCases
    <2>6. H = IF SpelledAt(s, i) /\ high_surrogate(u) THEN {u} ELSE {}
      <3>1. U = IF SpelledAt(s, i) THEN {u} ELSE {} BY <2>2, <2>3
      <3>2. H = U \cap (55296 .. 56319) OBVIOUS
      <3> HIDE DEF U, H
      <3>3. CASE SpelledAt(s, i)
        <4>1. u \in Nat /\ U = {u} BY <2>3, <3>1, <3>3
        <4>2. H = IF high_surrogate(u) THEN {u} ELSE {} BY <3>2, <4>1, HighOf
        <4> QED BY <3>3, <4>2
      <3>4. CASE ~SpelledAt(s, i)
        <4>1. H = {} BY <3>1, <3>2, <3>4
        <4> QED BY <3>4, <4>1
      <3> QED BY <3>3, <3>4
    <2>7. L = IF SpelledAt(s, i + 6) /\ low_surrogate(v) THEN {v} ELSE {}
      <3>1. V = IF SpelledAt(s, i + 6) THEN {v} ELSE {} BY <2>2, <2>4
      <3>2. L = V \cap (56320 .. 57343) OBVIOUS
      <3> HIDE DEF V, L
      <3>3. CASE SpelledAt(s, i + 6)
        <4>1. v \in Nat /\ V = {v} BY <2>4, <3>1, <3>3
        <4>2. L = IF low_surrogate(v) THEN {v} ELSE {} BY <3>2, <4>1, LowOf
        <4> QED BY <3>3, <4>2
      <3>4. CASE ~SpelledAt(s, i + 6)
        <4>1. L = {} BY <3>1, <3>2, <3>4
        <4> QED BY <3>4, <4>1
      <3> QED BY <3>3, <3>4
    <2> HIDE DEF H, L
    <2>8. Item(t) = {Paired(h, l) : h \in H, l \in L} BY <2>5 DEF Paired
    <2>9. CASE H = {u} /\ L = {v}
      <3>1. Item(t) = {Paired(u, v)} BY <2>8, <2>9
      <3> QED BY <2>6, <2>7, <2>9, <3>1
    <2>10. CASE H = {} \/ L = {}
      <3>1. Item(t) = {} BY <2>8, <2>10
      <3> QED BY <2>6, <2>7, <2>10, <3>1
    <2> QED BY <2>6, <2>7, <2>9, <2>10
  <1>9. j \notin {i + 2, i + 6, i + 12} => Item(t) = {}
    <2> SUFFICES ASSUME j \notin {i + 2, i + 6, i + 12} PROVE Item(t) = {} OBVIOUS
    <2>1. Len(t) \notin {2, 6, 12} BY <1>1, <1>3
    <2> HIDE DEF t
    <2> QED BY <1>4, <2>1, ItemCases
  <1> QED BY <1>6, <1>7, <1>8, <1>9 DEF EscapeItem

\* Items are numbers.
LEMMA ItemTyped ==
  ASSUME NEW s, Bytes(s), NEW i \in 0 .. Len(s) - 1, NEW j \in i + 1 .. Len(s)
  PROVE  Item(SubSeq(s, i + 1, j)) \in SUBSET Int
  <1> DEFINE t == SubSeq(s, i + 1, j)
             n == Len(s)
             u == read_u16(s, i + 2)
             v == read_u16(s, i + 8)
  <1>1. Text(s, n) /\ n \in Nat /\ i \in Nat /\ i \in 0 .. n /\ j \in i .. n /\ 1 \in 1 .. j - i
    BY BytesText
  <1>2. t[1] = s[i + 1] BY <1>1, Slice
  <1>3. CASE s[i + 1] # 92
    <2>1. Form(t) \in SUBSET Int BY <1>1, FormAt
    <2>2. Item(t) = Form(t) BY <1>2, <1>3 DEF Item
    <2> HIDE DEF t
    <2> QED BY <2>1, <2>2 DEF t
  <1>4. CASE s[i + 1] = 92
    <2>0. EscapeItem(s, i, j, Item(t)) BY <1>4, EscapeAt, Zenon
    <2>1. ASSUME j = i + 2 PROVE Item(t) \in SUBSET Int
      <3>1. Item(t) = {e[2] : e \in {f \in Letters : f[1] = s[i + 2]}} BY <2>0, <2>1 DEF EscapeItem
      <3>2. \A e \in Letters : e[2] \in Int BY DEF Letters
      <3> HIDE DEF t
      <3> QED BY <3>1, <3>2
    <2>2. ASSUME j = i + 6 PROVE Item(t) \in SUBSET Int
      <3>1. Item(t) = IF SpelledAt(s, i) /\ Scalar(u) /\ u # 0 THEN {u} ELSE {}
        BY <2>0, <2>2 DEF EscapeItem
      <3>2. i + 6 <= n BY <1>1, <2>2
      <3> HIDE DEF n
      <3>3. UnitOf(s, i, SubSeq(s, i + 1, i + 6)) BY <1>1, <3>2, UnitPiece, Zenon
      <3>4. SpelledAt(s, i) => u \in Int BY <3>3 DEF UnitOf
      <3> HIDE DEF t, u
      <3> QED BY <3>1, <3>4
    <2>3. ASSUME j = i + 12 PROVE Item(t) \in SUBSET Int
      <3> DEFINE both == SpelledAt(s, i) /\ high_surrogate(u) /\ SpelledAt(s, i + 6)
                           /\ low_surrogate(v)
      <3>1. Item(t) = IF both THEN {Paired(u, v)} ELSE {} BY <2>0, <2>3 DEF EscapeItem
      <3>2. i + 6 <= n /\ i + 6 \in 0 .. n /\ i + 6 + 6 <= n /\ i + 6 + 2 = i + 8 BY <1>1, <2>3
      <3> HIDE DEF n
      <3>3. UnitOf(s, i, SubSeq(s, i + 1, i + 6)) BY <1>1, <3>2, UnitPiece, Zenon
      <3>4. UnitOf(s, i + 6, SubSeq(s, i + 6 + 1, i + 6 + 6)) BY <1>1, <3>2, UnitPiece, Zenon
      <3>5. both => u \in Int BY <3>3 DEF UnitOf
      <3>6. both => v \in Int BY <3>2, <3>4 DEF UnitOf
      <3> HIDE DEF t, u, v, both
      <3>7. both => Paired(u, v) \in Int BY <3>5, <3>6 DEF Paired
      <3> QED BY <3>1, <3>7
    <2>4. ASSUME j \notin {i + 2, i + 6, i + 12} PROVE Item(t) \in SUBSET Int
      <3>1. Item(t) = {} BY <2>0, <2>4 DEF EscapeItem
      <3> HIDE DEF t
      <3> QED BY <3>1
    <2> QED BY <2>1, <2>2, <2>3, <2>4
  <1> QED BY <1>3, <1>4

\* The table of the items of a text.
LEMMA ItemsTable ==
  ASSUME NEW s, Bytes(s)
  PROVE  /\ Parts(Items(s), Len(s))
         /\ \A j \in 0 .. Len(s) : \A i \in 0 .. j - 1 :
              Items(s)[<<i, j>>] = Item(SubSeq(s, i + 1, j))
  <1>1. Len(s) \in Nat BY BytesText
  <1> DEFINE n == Len(s)
             P == (0 .. n) \X (0 .. n)
             e(c) == IF c[1] < c[2] THEN Item(SubSeq(s, c[1] + 1, c[2])) ELSE {}
  <1>2. \A c \in P : Items(s)[c] = e(c) BY DEF Items
  <1> HIDE DEF n
  <1>3. ASSUME NEW i \in 0 .. n, NEW j \in 0 .. n
        PROVE  Items(s)[<<i, j>>] = IF i < j THEN Item(SubSeq(s, i + 1, j)) ELSE {}
    <2>1. <<i, j>> \in P OBVIOUS
    <2> QED BY <1>2, <2>1
  <1>4. ASSUME NEW j \in 0 .. n, NEW i \in 0 .. j - 1
        PROVE  Items(s)[<<i, j>>] = Item(SubSeq(s, i + 1, j))
    <2>1. i \in 0 .. n /\ i < j BY <1>1 DEF n
    <2> QED BY <1>3, <2>1
  <1>5. ASSUME NEW i \in 0 .. n, NEW j \in 0 .. n PROVE Items(s)[<<i, j>>] \in SUBSET Int
    <2>1. CASE i < j
      <3>1. i \in 0 .. n - 1 /\ j \in i + 1 .. n BY <1>1, <2>1 DEF n
      <3>2. Item(SubSeq(s, i + 1, j)) \in SUBSET Int BY <3>1, ItemTyped DEF n
      <3> QED BY <1>3, <2>1, <3>2
    <2>2. CASE ~(i < j)
      <3>1. Items(s)[<<i, j>>] = {} BY <1>3, <2>2
      <3> QED BY <3>1
    <2> QED BY <2>1, <2>2
  <1> QED BY <1>4, <1>5 DEF n, Parts

\* No part begins at i.
Nowhere(part, n, i) == \A j \in i + 1 .. n : part[<<i, j>>] = {}

\* A raw character.
LEMMA RawAt ==
  ASSUME NEW s, Bytes(s), NEW i \in 0 .. Len(s) - 1, s[i + 1] # 92, NEW z,
         z = sequence_size(s, i + 1)
  PROVE  /\ z = 0 => Nowhere(Items(s), Len(s), i)
         /\ z # 0 => \E p : /\ Only(Items(s), Len(s), i, i + z, p)
                            /\ Form(SubSeq(s, i + 1, i + z)) = {p}
  <1> DEFINE n == Len(s)
             part == Items(s)
  <1>1. Text(s, n) /\ n \in Nat /\ i \in Nat /\ i \in 0 .. n /\ i + 1 \in 1 .. n BY BytesText
  <1>2. ASSUME NEW j \in i + 1 .. n
        PROVE  /\ part[<<i, j>>] = Form(SubSeq(s, i + 1, j))
               /\ Form(SubSeq(s, i + 1, j)) # {} <=> z = j - i
    <2>1. j \in 0 .. n /\ i \in 0 .. j - 1 /\ j \in i .. n /\ 1 \in 1 .. j - i BY <1>1
    <2> DEFINE t == SubSeq(s, i + 1, j)
    <2>2. part[<<i, j>>] = Item(t) BY <2>1, ItemsTable
    <2>3. t[1] = s[i + 1] BY <1>1, <2>1, Slice
    <2>4. Form(t) # {} <=> z = j - i BY <1>1, FormAt
    <2>5. Item(t) = Form(t) BY <2>3 DEF Item
    <2> HIDE DEF t, part
    <2> QED BY <2>2, <2>4, <2>5 DEF t
  <1>3. z \in 0 .. 4 /\ (z # 0 => i + z <= n)
    BY <1>1, SizeIs
  <1>4. ASSUME NEW j \in i + 1 .. n, Form(SubSeq(s, i + 1, j)) # {}
        PROVE  Single(Form(SubSeq(s, i + 1, j)))
    <2>1. i \in 0 .. n - 1 OBVIOUS
    <2> HIDE DEF n
    <2> QED BY <1>1, <1>4, <2>1, FormAt
  <1> HIDE DEF n, part
  <1>5. ASSUME z = 0 PROVE Nowhere(part, n, i)
    <2> SUFFICES ASSUME NEW j \in i + 1 .. n PROVE part[<<i, j>>] = {} BY DEF Nowhere
    <2>1. z # j - i BY <1>1, <1>5
    <2> QED BY <1>2, <2>1
  <1>6. ASSUME z # 0 PROVE \E p : Only(part, n, i, i + z, p) /\ Form(SubSeq(s, i + 1, i + z)) = {p}
    <2>0. z \in Int /\ 1 <= z /\ i + z <= n /\ n \in Int /\ i \in Int BY <1>1, <1>3, <1>6
    <2>1. i + z \in i + 1 .. n /\ z = (i + z) - i BY <2>0
    <2>2. Form(SubSeq(s, i + 1, i + z)) # {} BY <1>2, <2>1
    <2>3. PICK p : Form(SubSeq(s, i + 1, i + z)) = {p}
      BY <1>4, <2>1, <2>2 DEF Single
    <2>4. part[<<i, i + z>>] = {p} BY <1>2, <2>1, <2>3
    <2>5. ASSUME NEW j \in i + 1 .. n, part[<<i, j>>] # {} PROVE j = i + z
      <3>1. z = j - i BY <1>2, <2>5
      <3> QED BY <1>1, <3>1
    <2>6. Only(part, n, i, i + z, p) BY <2>1, <2>4, <2>5 DEF Only
    <2> QED BY <2>3, <2>6
  <1> QED BY <1>5, <1>6 DEF n, part

\* A backslash at the end.
LEMMA LoneAt ==
  ASSUME NEW s, Bytes(s), NEW i \in 0 .. Len(s) - 1, s[i + 1] = 92, i + 1 >= Len(s)
  PROVE  Nowhere(Items(s), Len(s), i)
  <1>0. Len(s) \in Nat BY BytesText
  <1> SUFFICES ASSUME NEW j \in i + 1 .. Len(s) PROVE Items(s)[<<i, j>>] = {} BY DEF Nowhere
  <1>1. j \in 0 .. Len(s) /\ i \in 0 .. j - 1 /\ j \notin {i + 2, i + 6, i + 12} BY <1>0
  <1>2. Items(s)[<<i, j>>] = Item(SubSeq(s, i + 1, j)) BY <1>1, ItemsTable
  <1>3. EscapeItem(s, i, j, Item(SubSeq(s, i + 1, j))) BY EscapeAt, Zenon
  <1> QED BY <1>1, <1>2, <1>3 DEF EscapeItem

\* A backslash and a byte that is no u.
LEMMA LetterAt ==
  ASSUME NEW s, Bytes(s), NEW i \in 0 .. Len(s) - 1, s[i + 1] = 92, i + 1 < Len(s),
         s[i + 2] # 117
  PROVE  /\ (\A e \in simple_escape : e[1] # s[i + 2]) => Nowhere(Items(s), Len(s), i)
         /\ \A e \in simple_escape : e[1] = s[i + 2] => Only(Items(s), Len(s), i, i + 2, e[2])
  <1> DEFINE n == Len(s)
             part == Items(s)
             L == {e[2] : e \in {f \in Letters : f[1] = s[i + 2]}}
  <1>0. n \in Nat /\ i \in Nat BY BytesText
  <1>1. ~SpelledAt(s, i) BY DEF SpelledAt
  <1>2. ASSUME NEW j \in i + 1 .. n PROVE part[<<i, j>>] = IF j = i + 2 THEN L ELSE {}
    <2> DEFINE t == SubSeq(s, i + 1, j)
    <2>1. j \in 0 .. n /\ i \in 0 .. j - 1 BY <1>0
    <2>2. part[<<i, j>>] = Item(t) BY <2>1, ItemsTable
    <2>0. EscapeItem(s, i, j, Item(t)) BY EscapeAt
    <2>3. j = i + 2 => Item(t) = L BY <2>0 DEF EscapeItem
    <2>4. j = i + 6 => Item(t) = {} BY <1>1, <2>0 DEF EscapeItem
    <2>5. j = i + 12 => Item(t) = {} BY <1>1, <2>0 DEF EscapeItem
    <2>6. j \notin {i + 2, i + 6, i + 12} => Item(t) = {} BY <2>0 DEF EscapeItem
    <2> HIDE DEF t, part, L
    <2> QED BY <2>2, <2>3, <2>4, <2>5, <2>6
  <1>3. simple_escape = Letters BY DEF simple_escape, Letters
  <1>4. \A e, f \in Letters : e[1] = f[1] => e = f BY DEF Letters
  <1>5. (\A e \in Letters : e[1] # s[i + 2]) => L = {} OBVIOUS
  <1>6. \A e \in Letters : e[1] = s[i + 2] => L = {e[2]} BY <1>4
  <1>7. i + 2 \in i + 1 .. n BY <1>0
  <1> HIDE DEF n, part, L
  <1>8. (\A e \in Letters : e[1] # s[i + 2]) => Nowhere(part, n, i)
    BY <1>2, <1>5 DEF Nowhere
  <1>9. ASSUME NEW e \in Letters, e[1] = s[i + 2] PROVE Only(part, n, i, i + 2, e[2])
    <2>1. L = {e[2]} BY <1>6, <1>9
    <2>2. part[<<i, i + 2>>] = {e[2]} BY <1>2, <1>7, <2>1
    <2>3. \A j \in i + 1 .. n : part[<<i, j>>] # {} => j = i + 2 BY <1>2
    <2> QED BY <1>7, <2>2, <2>3 DEF Only
  <1> QED BY <1>3, <1>8, <1>9 DEF n, part

\* The escape of a code point.
LEMMA PointAt ==
  ASSUME NEW s, Bytes(s), NEW i \in 0 .. Len(s) - 1, s[i + 1] = 92, i + 1 < Len(s),
         s[i + 2] = 117, NEW r, r = read_escape_point(s, i + 2)
  PROVE  /\ r.point = 0 => Nowhere(Items(s), Len(s), i)
         /\ r.point # 0 => /\ Only(Items(s), Len(s), i, r.input, r.point)
                           /\ r.point \in Nat /\ Scalar(r.point)
  <1> DEFINE n == Len(s)
             part == Items(s)
             u == read_u16(s, i + 2)
             v == read_u16(s, i + 8)
             six == {x \in {u} : SpelledAt(s, i) /\ Scalar(u) /\ u # 0}
             both == SpelledAt(s, i) /\ high_surrogate(u) /\ SpelledAt(s, i + 6) /\ low_surrogate(v)
             twelve == {x \in {Paired(u, v)} : both}
  <1>0. Text(s, n) /\ n \in Nat /\ i \in Nat /\ i \in 0 .. n BY BytesText
  <1>1. ASSUME NEW j \in i + 1 .. n
        PROVE  /\ j = i + 6 => part[<<i, j>>] = six
               /\ j = i + 12 => part[<<i, j>>] = twelve
               /\ j \notin {i + 6, i + 12} => part[<<i, j>>] = {}
    <2> DEFINE t == SubSeq(s, i + 1, j)
    <2>1. j \in 0 .. n /\ i \in 0 .. j - 1 BY <1>0
    <2>2. part[<<i, j>>] = Item(t) BY <2>1, ItemsTable
    <2>0. EscapeItem(s, i, j, Item(t)) BY EscapeAt, Zenon
    <2>3. j = i + 2 => Item(t) = {}
      <3>1. j = i + 2 => Item(t) = {e[2] : e \in {f \in Letters : f[1] = s[i + 2]}}
        BY <2>0 DEF EscapeItem
      <3>2. \A f \in Letters : f[1] # 117 BY DEF Letters
      <3> HIDE DEF t
      <3> QED BY <3>1, <3>2
    <2>4. j = i + 6 => Item(t) = IF SpelledAt(s, i) /\ Scalar(u) /\ u # 0 THEN {u} ELSE {}
      BY <2>0 DEF EscapeItem
    <2>5. j = i + 12 => Item(t) = IF both THEN {Paired(u, v)} ELSE {} BY <2>0 DEF EscapeItem
    <2>6. j \notin {i + 2, i + 6, i + 12} => Item(t) = {} BY <2>0 DEF EscapeItem
    <2> HIDE DEF t, part, u, v, both
    <2> QED BY <2>2, <2>3, <2>4, <2>5, <2>6
  <1>2. i + 6 <= n =>
          (SpelledAt(s, i) <=> u # -1) /\ (SpelledAt(s, i) => u \in Nat /\ u <= 65535)
    <2> SUFFICES ASSUME i + 6 <= n
                 PROVE  (SpelledAt(s, i) <=> u # -1) /\ (SpelledAt(s, i) => u \in Nat /\ u <= 65535)
      OBVIOUS
    <2>1. SpelledAt(s, i) <=> u # -1 BY DEF SpelledAt
    <2> HIDE DEF n
    <2>2. UnitOf(s, i, SubSeq(s, i + 1, i + 6)) BY <1>0, UnitPiece, Zenon
    <2>3. SpelledAt(s, i) => u \in Nat /\ u <= 65535 BY <2>2 DEF UnitOf
    <2> QED BY <2>1, <2>3
  <1>3. /\ i + 12 <= n => (SpelledAt(s, i + 6) => v \in Nat)
        /\ SpelledAt(s, i + 6) <=> s[i + 7] = 92 /\ s[i + 8] = 117 /\ v # -1
    <2>1. i + 6 + 1 = i + 7 /\ i + 6 + 2 = i + 8 BY <1>0
    <2>2. SpelledAt(s, i + 6) <=> s[i + 7] = 92 /\ s[i + 8] = 117 /\ v # -1
      BY <2>1 DEF SpelledAt
    <2>3. ASSUME i + 12 <= n, SpelledAt(s, i + 6) PROVE v \in Nat
      <3>1. i + 6 \in 0 .. n /\ i + 6 + 6 <= n BY <1>0, <2>3
      <3> HIDE DEF n
      <3>2. UnitOf(s, i + 6, SubSeq(s, i + 6 + 1, i + 6 + 6)) BY <1>0, <3>1, UnitPiece, Zenon
      <3> QED BY <2>1, <2>3, <3>2 DEF UnitOf
    <2> QED BY <2>2, <2>3
  <1> DEFINE follows == i + 12 <= n /\ s[i + 7] = 92 /\ s[i + 8] = 117
             refused == [point |-> 0, input |-> i + 2]
  <1>4. r = IF i + 6 > n \/ u = -1 \/ low_surrogate(u) THEN refused
            ELSE IF ~high_surrogate(u) THEN [point |-> u, input |-> i + 6]
            ELSE IF follows /\ pairs(u, v) THEN [point |-> Paired(u, v), input |-> i + 12]
            ELSE refused
    <2>1. /\ i + 2 + 4 = i + 6 /\ i + 2 + 10 = i + 12 /\ i + 2 + 5 = i + 7 /\ i + 2 + 6 = i + 8
      BY <1>0
    <2>2. read_escape_point(s, i + 2)
            = IF i + 2 + 4 > n \/ u = -1 \/ low_surrogate(u) THEN refused
              ELSE IF ~high_surrogate(u) THEN [point |-> u, input |-> i + 2 + 4]
              ELSE IF /\ i + 2 + 10 <= n /\ s[i + 2 + 5] = 92 /\ s[i + 2 + 6] = 117
                      /\ pairs(u, read_u16(s, i + 2 + 6))
              THEN [point |-> Paired(u, read_u16(s, i + 2 + 6)), input |-> i + 2 + 10]
              ELSE refused
      BY DEF read_escape_point, backslash, letter_u, Paired
    <2> HIDE DEF u
    <2> QED BY <2>1, <2>2
  <1> HIDE DEF n, part, u, v
  <1>5. ASSUME six = {}, i + 12 <= n => twelve = {} PROVE Nowhere(part, n, i)
    <2> SUFFICES ASSUME NEW j \in i + 1 .. n PROVE part[<<i, j>>] = {} BY DEF Nowhere
    <2>1. j = i + 12 => i + 12 <= n BY <1>0
    <2> HIDE DEF six, twelve
    <2> QED BY <1>1, <1>5, <2>1
  <1>6. CASE i + 6 > n
    <2>1. r.point = 0 BY <1>4, <1>6
    <2>2. ASSUME NEW j \in i + 1 .. n PROVE part[<<i, j>>] = {}
      <3>1. j # i + 6 /\ j # i + 12 BY <1>0, <1>6
      <3> QED BY <1>1, <3>1
    <2> QED BY <2>1, <2>2 DEF Nowhere, n, part
  <1>7. CASE i + 6 <= n /\ (u = -1 \/ low_surrogate(u))
    <2>1. r.point = 0 BY <1>4, <1>7
    <2>2. ~(SpelledAt(s, i) /\ Scalar(u)) /\ ~(SpelledAt(s, i) /\ high_surrogate(u))
      BY <1>2, <1>7 DEF Scalar, low_surrogate, high_surrogate
    <2>3. six = {} /\ twelve = {} BY <2>2
    <2>4. Nowhere(part, n, i) BY <1>5, <2>3
    <2> QED BY <2>1, <2>4 DEF n, part
  <1>8. CASE i + 6 <= n /\ u # -1 /\ ~low_surrogate(u) /\ ~high_surrogate(u)
    <2>1. r.point = u /\ r.input = i + 6 BY <1>0, <1>4, <1>8
    <2>2. SpelledAt(s, i) /\ u \in Nat /\ u <= 65535 BY <1>2, <1>8
    <2>3. Scalar(u) BY <1>8, <2>2 DEF Scalar, low_surrogate, high_surrogate
    <2>4. twelve = {} BY <1>8
    <2>5. CASE u = 0
      <3>1. six = {} BY <2>5
      <3>2. Nowhere(part, n, i) BY <1>5, <2>4, <3>1
      <3> QED BY <2>1, <2>5, <3>2 DEF n, part
    <2>6. CASE u # 0
      <3>1. six = {u} BY <2>2, <2>3, <2>6
      <3> HIDE DEF six, twelve
      <3>2. i + 6 \in i + 1 .. n BY <1>0, <1>8
      <3>3. part[<<i, i + 6>>] = {u} BY <1>1, <3>1, <3>2
      <3>4. ASSUME NEW j \in i + 1 .. n, part[<<i, j>>] # {} PROVE j = i + 6
        BY <1>1, <2>4, <3>4
      <3>5. Only(part, n, i, i + 6, u) BY <3>2, <3>3, <3>4 DEF Only
      <3> QED BY <2>1, <2>2, <2>3, <2>6, <3>5 DEF n, part
    <2> QED BY <2>5, <2>6
  <1>9. CASE i + 6 <= n /\ u # -1 /\ ~low_surrogate(u) /\ high_surrogate(u)
    <2>1. SpelledAt(s, i) /\ u \in Nat BY <1>2, <1>9
    <2>2. six = {}
      <3>1. ~Scalar(u) BY <1>9, <2>1 DEF Scalar, high_surrogate
      <3> QED BY <3>1
    <2>3. CASE follows /\ pairs(u, v)
      <3>1. r.point = Paired(u, v) /\ r.input = i + 12 BY <1>0, <1>4, <1>9, <2>3
      <3>2. low_surrogate(v) BY <2>3 DEF pairs
      <3>3. v # -1 BY <3>2 DEF low_surrogate
      <3>4. SpelledAt(s, i + 6) /\ v \in Nat BY <1>3, <2>3, <3>3
      <3>5. twelve = {Paired(u, v)} BY <1>9, <2>1, <3>2, <3>4
      <3>6. Paired(u, v) \in Nat /\ Paired(u, v) >= 65536 /\ Paired(u, v) <= 1114111
        BY <1>9, <2>1, <3>2, <3>4 DEF Paired, high_surrogate, low_surrogate
      <3> HIDE DEF six, twelve
      <3>7. i + 12 \in i + 1 .. n BY <1>0, <2>3
      <3>8. part[<<i, i + 12>>] = {Paired(u, v)} BY <1>1, <3>5, <3>7
      <3>9. ASSUME NEW j \in i + 1 .. n, part[<<i, j>>] # {} PROVE j = i + 12
        BY <1>1, <2>2, <3>9
      <3>10. Only(part, n, i, i + 12, Paired(u, v)) BY <3>7, <3>8, <3>9 DEF Only
      <3>11. Scalar(Paired(u, v)) /\ Paired(u, v) # 0 BY <3>6 DEF Scalar
      <3> QED BY <3>1, <3>6, <3>10, <3>11 DEF n, part
    <2>4. CASE ~(follows /\ pairs(u, v))
      <3>1. r.point = 0 BY <1>4, <1>9, <2>4
      <3>2. ASSUME i + 12 <= n PROVE twelve = {}
        <4>1. ~both BY <1>3, <1>9, <2>4, <3>2 DEF pairs
        <4> QED BY <4>1
      <3>3. Nowhere(part, n, i) BY <1>5, <2>2, <3>2
      <3> QED BY <3>1, <3>3 DEF n, part
    <2> QED BY <2>3, <2>4
  <1>10. n \in Nat /\ i \in Nat BY <1>0
  <1> QED BY <1>6, <1>7, <1>8, <1>9, <1>10

-----------------------------------------------------------------------------
(* What has been read.                                                      *)

\* The texts of the first bytes.
LEMMA TextsPrefix ==
  ASSUME NEW s, Bytes(s), NEW n \in 0 .. Len(s)
  PROVE  Texts(SubSeq(s, 1, n)) = Chains(Items(s), n)
  <1> DEFINE t == SubSeq(s, 1, n)
  <1>1. Len(s) \in Nat /\ n \in Nat /\ 0 \in 0 .. Len(s) /\ n \in 0 .. Len(s) BY BytesText
  <1>2. Bytes(SubSeq(s, 0 + 1, n)) /\ Len(SubSeq(s, 0 + 1, n)) = n - 0 BY <1>1, PieceBytes
  <1>3. Bytes(t) /\ Len(t) = n BY <1>1, <1>2
  <1>4. Parts(Items(s), Len(s)) /\ Parts(Items(t), n) BY <1>3, ItemsTable
  <1>5. ASSUME NEW j \in 0 .. n, NEW i \in 0 .. j - 1
        PROVE  Items(s)[<<i, j>>] = Items(t)[<<i, j>>]
    <2>1. j \in 0 .. Len(s) /\ i \in 0 .. n - 0 /\ j \in i + 1 .. n - 0 BY <1>1
    <2>2. SubSeq(SubSeq(s, 0 + 1, n), i + 1, j) = SubSeq(s, 0 + i + 1, 0 + j)
      BY <1>1, <2>1, PieceOfPiece
    <2>3. SubSeq(t, i + 1, j) = SubSeq(s, i + 1, j) BY <1>1, <2>1, <2>2
    <2>4. Items(s)[<<i, j>>] = Item(SubSeq(s, i + 1, j)) BY <2>1, ItemsTable
    <2>5. Items(t)[<<i, j>>] = Item(SubSeq(t, i + 1, j)) BY <1>3, ItemsTable
    <2> QED BY <2>3, <2>4, <2>5
  <1> HIDE DEF t
  <1>6. Chains(Items(s), n) = Chains(Items(t), n) BY <1>1, <1>4, <1>5, ChainsPrefix
  <1> QED BY <1>3, <1>6 DEF Texts, t

\* The first i bytes of s have been read as a text, and f is its UTF-8.
Read(s, i, f) == \E w : Reached(Items(s), Len(s), i, w) /\ Spells(f, w)

\* At the beginning.
LEMMA ReadNothing == ASSUME NEW s, Bytes(s) PROVE Read(s, 0, <<>>)
  <1>1. Len(s) \in Nat /\ Parts(Items(s), Len(s)) BY BytesText, ItemsTable
  <1>2. Chains(Items(s), 0) = {<<>>} BY <1>1, ChainsEquation
  <1>3. \A k \in 0 .. 0 - 1 : FALSE OBVIOUS
  <1>4. Sealed(Items(s), Len(s), 0) BY <1>3 DEF Sealed
  <1>5. Reached(Items(s), Len(s), 0, <<>>) BY <1>1, <1>2, <1>4 DEF Reached
  <1> QED BY <1>5, SpellsNothing DEF Read

\* One item more.
LEMMA ReadStep ==
  ASSUME NEW s, Bytes(s), NEW i, NEW f, Read(s, i, f), NEW e, NEW p,
         Only(Items(s), Len(s), i, e, p), NEW g, Bytes(g), Len(g) > 0, Form(g) = {p}
  PROVE  Read(s, e, f \o g)
  <1>1. PICK w : Reached(Items(s), Len(s), i, w) /\ Spells(f, w) BY DEF Read
  <1>2. Len(s) \in Nat /\ Parts(Items(s), Len(s)) BY BytesText, ItemsTable
  <1>3. Reached(Items(s), Len(s), e, w \o <<p>>) BY <1>1, <1>2, ChainsStep, Zenon
  <1>4. Spells(f \o g, w \o <<p>>) BY <1>1, SpellsStep, Zenon
  <1> QED BY <1>3, <1>4 DEF Read

\* At the end.
LEMMA ReadEnd ==
  ASSUME NEW s, Bytes(s), NEW f, Read(s, Len(s), f)
  PROVE  Plain(f) = Texts(s) /\ Texts(s) # {}
  BY DEF Read, Reached, Spells, Texts

\* Where nothing can be read on.
LEMMA ReadStop ==
  ASSUME NEW s, Bytes(s), NEW i, NEW f, Read(s, i, f), Nowhere(Items(s), Len(s), i)
  PROVE  /\ Texts(SubSeq(s, 1, i)) # {}
         /\ \A n \in i + 1 .. Len(s) : Texts(SubSeq(s, 1, n)) = {}
  <1> DEFINE n == Len(s)
             part == Items(s)
  <1>1. n \in Nat /\ Parts(part, n) BY BytesText, ItemsTable
  <1>2. PICK w : Reached(part, n, i, w) BY DEF Read
  <1>3. i \in 0 .. n /\ Chains(part, i) # {} /\ Sealed(part, n, i) BY <1>2 DEF Reached
  <1>4. \A k \in 0 .. n : Texts(SubSeq(s, 1, k)) = Chains(part, k) BY TextsPrefix
  <1>5. Nowhere(part, n, i) OBVIOUS
  <1> HIDE DEF n, part
  <1> DEFINE e == n + 1
  <1>6. e \in i + 1 .. n + 1 /\ \A j \in i + 1 .. e - 1 : part[<<i, j>>] = {}
    BY <1>1, <1>3, <1>5 DEF Nowhere
  <1>7. \A k \in i + 1 .. e - 1 : Chains(part, k) = {}
    <2> HIDE DEF e
    <2> QED BY <1>1, <1>3, <1>6, ChainsGap
  <1>8. \A k \in i + 1 .. n : Texts(SubSeq(s, 1, k)) = {}
    <2> SUFFICES ASSUME NEW k \in i + 1 .. n PROVE Texts(SubSeq(s, 1, k)) = {} OBVIOUS
    <2>1. k \in 0 .. n /\ k \in i + 1 .. e - 1 BY <1>1, <1>3
    <2> QED BY <1>4, <1>7, <2>1
  <1> QED BY <1>3, <1>4, <1>8 DEF n

-----------------------------------------------------------------------------
(* Raw runs.                                                                *)

\* The equation behind utf8_valid_prefix.
Scanned(s, g) ==
  g = [i \in 1 .. Len(s) + 1 |->
         IF i > Len(s) THEN Len(s)
         ELSE LET z == sequence_size(s, i) IN IF z = 0 THEN i - 1 ELSE g[i + z]]

\* It has a solution.
LEMMA ScanExists ==
  ASSUME NEW s, Bytes(s)
  PROVE  \E g : Scanned(s, g)
  <1> DEFINE n == Len(s)
             D == 1 .. n + 1
             V == 0 .. n
             m == [i \in D |-> n + 1 - i]
             z == [i \in D |-> sequence_size(s, i)]
             G == [g \in [D -> V] |-> [i \in D |->
                     IF i > n THEN n ELSE IF z[i] = 0 THEN i - 1 ELSE g[i + z[i]]]]
  <1>1. n \in Nat /\ n \in V
    <2>1. n \in Nat BY BytesText
    <2> HIDE DEF n
    <2> QED BY <2>1
  <1>2. ASSUME NEW i \in 1 .. n PROVE z[i] \in 0 .. 4 /\ i + z[i] \in D
    <2>1. Text(s, n) BY BytesText
    <2>2. /\ sequence_size(s, i) \in 0 .. 4
          /\ sequence_size(s, i) = 2 => i + 1 <= n
          /\ sequence_size(s, i) = 3 => i + 2 <= n
          /\ sequence_size(s, i) = 4 => i + 3 <= n
      <3> HIDE DEF n
      <3> QED BY <2>1, SizeIs
    <2>3. i \in D /\ z[i] = sequence_size(s, i) BY <1>1
    <2> HIDE DEF z, n
    <2> QED BY <1>1, <2>2, <2>3
  <1> HIDE DEF n, z
  <1>3. m \in [D -> Nat] /\ V # {} BY <1>1
  <1>4. G \in [[D -> V] -> [D -> V]]
    <2> SUFFICES ASSUME NEW g \in [D -> V], NEW i \in D
                 PROVE  (IF i > n THEN n ELSE IF z[i] = 0 THEN i - 1 ELSE g[i + z[i]]) \in V
      OBVIOUS
    <2>1. CASE i > n BY <1>1, <2>1
    <2>2. CASE ~(i > n)
      <3>1. i \in 1 .. n BY <1>1, <2>2
      <3>2. i + z[i] \in D BY <1>2, <3>1
      <3>3. g[i + z[i]] \in V BY <3>2
      <3>4. i - 1 \in V BY <1>1, <3>1
      <3> HIDE DEF V, D
      <3> QED BY <2>2, <3>3, <3>4
    <2> QED BY <2>1, <2>2
  <1>5. ASSUME NEW g \in [D -> V], NEW h \in [D -> V], NEW d \in D,
               \A e \in D : m[e] < m[d] => g[e] = h[e]
        PROVE  G[g][d] = G[h][d]
    <2>1. CASE d > n \/ z[d] = 0 BY <2>1
    <2>2. CASE ~(d > n \/ z[d] = 0)
      <3>1. d \in 1 .. n /\ z[d] \in 0 .. 4 /\ d + z[d] \in D BY <1>1, <1>2, <2>2
      <3>2. m[d + z[d]] < m[d]
        <4>1. m[d + z[d]] = n + 1 - (d + z[d]) /\ m[d] = n + 1 - d BY <3>1
        <4>2. z[d] \in Nat /\ z[d] > 0 /\ d \in Nat BY <2>2, <3>1
        <4> HIDE DEF m, D, V, G
        <4> QED BY <1>1, <4>1, <4>2
      <3>3. g[d + z[d]] = h[d + z[d]] BY <1>5, <3>1, <3>2
      <3>4. ASSUME NEW f \in [D -> V] PROVE G[f][d] = f[d + z[d]]
        <4> HIDE DEF D, V
        <4> QED BY <2>2
      <3> HIDE DEF G
      <3> QED BY <3>3, <3>4
    <2> QED BY <2>1, <2>2
  <1>6. \E g \in [D -> V] : g = G[g]
    <2> HIDE DEF G, D, V, m
    <2>1. Recursion(D, V, m, G) BY <1>3, <1>4, <1>5 DEF Recursion
    <2> QED BY <2>1, RecursionExists
  <1>7. PICK g \in [D -> V] : g = G[g] BY <1>6
  <1>8. g = [i \in D |-> IF i > n THEN n ELSE IF z[i] = 0 THEN i - 1 ELSE g[i + z[i]]]
    BY <1>7
  <1>9. \A i \in D : z[i] = sequence_size(s, i) BY DEF z
  <1>10. g = [i \in D |-> IF i > n THEN n
                          ELSE LET k == sequence_size(s, i) IN IF k = 0 THEN i - 1 ELSE g[i + k]]
    BY <1>8, <1>9
  <1> QED BY <1>10 DEF Scanned, n

\* The prefix is the first value of a solution.
LEMMA ScanSolve ==
  ASSUME NEW s, Bytes(s)
  PROVE  \E g : Scanned(s, g) /\ utf8_valid_prefix(s) = g[1]
  <1> DEFINE F == CHOOSE g : Scanned(s, g)
  <1>1. \E g : Scanned(s, g) BY ScanExists
  <1>2. Scanned(s, F) BY <1>1
  <1>3. utf8_valid_prefix(s) = F[1] BY Zenon DEF utf8_valid_prefix, Scanned
  <1> HIDE DEF F
  <1> QED BY <1>2, <1>3

\* The run from i to end is all the raw bytes there are.
Run(s, i, end) ==
  /\ i \in 0 .. Len(s) - 1 /\ end \in i + 1 .. Len(s)
  /\ \A k \in i + 1 .. end : s[k] # 92
  /\ end < Len(s) => s[end + 1] = 92

\* A sequence of the text lies in the run.
LEMMA SequenceInRun ==
  ASSUME NEW s, Bytes(s), NEW i, NEW end, Run(s, i, end), NEW k \in i .. end - 1,
         NEW z, z = sequence_size(s, k + 1), z # 0
  PROVE  k + z \in k + 1 .. end
  <1>1. /\ Len(s) \in Nat /\ Text(s, Len(s)) /\ i \in 0 .. Len(s) - 1 /\ end \in i + 1 .. Len(s)
        /\ end < Len(s) => s[end + 1] = 92
    BY BytesText DEF Run
  <1>2. k + 1 \in 1 .. Len(s) /\ k \in Nat /\ end \in Nat BY <1>1
  <1> DEFINE n == Len(s)
             at == k + 1
  <1>3. /\ z \in 0 .. 4
        /\ z = 2 => at + 1 <= n /\ continuation(s[at + 1])
        /\ z = 3 => at + 2 <= n /\ continuation(s[at + 1]) /\ continuation(s[at + 2])
        /\ z = 4 => at + 3 <= n /\ continuation(s[at + 1]) /\ continuation(s[at + 2])
                      /\ continuation(s[at + 3])
    <2> HIDE DEF n, at
    <2>1. /\ z \in 0 .. 4
          /\ z = 2 => at + 1 <= n /\ TwoBytes(s[at], s[at + 1])
          /\ z = 3 => at + 2 <= n /\ ThreeBytes(s[at], s[at + 1], s[at + 2])
          /\ z = 4 => at + 3 <= n /\ FourBytes(s[at], s[at + 1], s[at + 2], s[at + 3])
      BY <1>1, <1>2, SizeIs DEF n, at
    <2> QED BY <2>1 DEF TwoBytes, ThreeBytes, FourBytes
  <1>4. ~continuation(92) BY DEF continuation
  <1>5. z \in 0 .. 4 /\ z # 0 BY <1>3
  <1>6. ASSUME k + z > end PROVE FALSE
    <2>1. PICK d \in {1, 2, 3} : d < z /\ end + 1 = at + d
      <3> DEFINE d == end - k
      <3>1. d \in Int /\ 1 <= d /\ d < z /\ z <= 4 /\ z \in Int /\ end + 1 = at + d
        <4>1. z \in Int /\ z <= 4 BY <1>5
        <4>2. k \in Int /\ end \in Int /\ k < end BY <1>1
        <4> HIDE DEF n
        <4> QED BY <1>6, <4>1, <4>2
      <3> HIDE DEF d, at
      <3> QED BY <3>1
    <2>2. z \in {2, 3, 4} BY <1>3, <2>1
    <2> HIDE DEF n, at
    <2>3. end + 1 <= n /\ continuation(s[end + 1])
      <3>1. CASE d = 1
        <4>1. end + 1 = at + 1 BY <2>1, <3>1
        <4>2. at \in Int /\ n \in Int BY <1>1, <1>2 DEF n, at
        <4> QED BY <1>3, <2>2, <4>1, <4>2
      <3>2. CASE d = 2
        <4>1. end + 1 = at + 2 /\ z # 2 BY <2>1, <3>2
        <4>2. at \in Int /\ n \in Int BY <1>1, <1>2 DEF n, at
        <4> QED BY <1>3, <2>2, <4>1, <4>2
      <3>3. CASE d = 3
        <4>1. end + 1 = at + 3 /\ z = 4 BY <2>1, <2>2, <3>3
        <4> QED BY <1>3, <4>1
      <3> QED BY <3>1, <3>2, <3>3
    <2>4. end < n BY <1>1, <1>2, <2>3 DEF n
    <2> QED BY <1>1, <1>4, <2>3, <2>4 DEF n
  <1>7. z \in Int /\ 1 <= z /\ k \in Int /\ end \in Int BY <1>1, <1>5
  <1> HIDE DEF n, at
  <1> QED BY <1>6, <1>7

\* A form by its size.
LEMMA SizeAt ==
  ASSUME NEW s, NEW n, Text(s, n), NEW a \in 1 .. n, NEW x \in 1 .. n - a + 1
  PROVE  Form(SubSeq(s, a, a + x - 1)) # {} <=> sequence_size(s, a) = x
  <1> DEFINE i == a - 1
             j == a + x - 1
  <1>1. n \in Nat BY DEF Text
  <1>2. i \in 0 .. n - 1 /\ j \in i + 1 .. n /\ i + 1 = a /\ j - i = x BY <1>1
  <1> HIDE DEF i, j
  <1>3. Form(SubSeq(s, i + 1, j)) # {} <=> sequence_size(s, i + 1) = j - i BY <1>2, FormAt
  <1> QED BY <1>2, <1>3 DEF j

\* sequence_size sees in the run what it sees in the text.
LEMMA SizeInRun ==
  ASSUME NEW s, Bytes(s), NEW i, NEW end, Run(s, i, end), NEW k \in 1 .. end - i
  PROVE  sequence_size(SubSeq(s, i + 1, end), k) = sequence_size(s, i + k)
  <1> SUFFICES ASSUME NEW run, run = SubSeq(s, i + 1, end)
               PROVE  sequence_size(run, k) = sequence_size(s, i + k)
    OBVIOUS
  <1> DEFINE n == Len(s)
             m == end - i
             z == sequence_size(run, k)
             y == sequence_size(s, i + k)
  <1>1. n \in Nat /\ i \in 0 .. n - 1 /\ end \in i + 1 .. n /\ Text(s, n) BY BytesText DEF Run
  <1>2. i \in 0 .. n /\ end \in i .. n /\ i \in Nat /\ m \in Nat /\ k \in Nat BY <1>1
  <1>3. Bytes(run) /\ Len(run) = m /\ Text(run, m) BY <1>2, PieceBytes, BytesText
  <1>4. ASSUME NEW x \in 1 .. m - k + 1 PROVE z = x <=> y = x
    <2>1. k \in Int /\ m \in Int /\ x \in Int /\ 1 <= k /\ k <= m /\ 1 <= x /\ x <= m - k + 1
      BY <1>2
    <2>2. k \in 1 .. m /\ i + k \in 1 .. n /\ x \in 1 .. n - (i + k) + 1
      <3>1. i \in Int /\ n \in Int /\ 0 <= i /\ end \in Int /\ end <= n BY <1>1
      <3> HIDE DEF n
      <3> QED BY <2>1, <3>1
    <2>3. Form(SubSeq(run, k, k + x - 1)) # {} <=> z = x
      <3> HIDE DEF m
      <3> QED BY <1>3, <2>2, SizeAt
    <2>4. Form(SubSeq(s, i + k, i + k + x - 1)) # {} <=> y = x
      <3> HIDE DEF n
      <3> QED BY <1>1, <2>2, SizeAt
    <2>5. SubSeq(run, k, k + x - 1) = SubSeq(s, i + k, i + k + x - 1)
      <3>1. k - 1 \in 0 .. end - i /\ k - 1 + x \in k - 1 + 1 .. end - i
        <4> HIDE DEF m
        <4>1. k - 1 \in 0 .. m /\ k - 1 + x \in k - 1 + 1 .. m BY <2>1
        <4> QED BY <4>1 DEF m
      <3>2. SubSeq(run, k - 1 + 1, k - 1 + x) = SubSeq(s, i + (k - 1) + 1, i + (k - 1 + x))
        BY <1>2, <3>1, PieceOfPiece
      <3>3. /\ k - 1 + 1 = k /\ k - 1 + x = k + x - 1
            /\ i + (k - 1) + 1 = i + k /\ i + (k - 1 + x) = i + k + x - 1
        BY <1>2, <2>1
      <3> QED BY <3>2, <3>3
    <2> QED BY <2>3, <2>4, <2>5
  <1>5. y # 0 => y \in 1 .. m - k + 1
    <2>1. i + k - 1 \in i .. end - 1 /\ i + k - 1 + 1 = i + k BY <1>1, <1>2
    <2>2. y # 0 => i + k - 1 + y \in i + k - 1 + 1 .. end
      <3> HIDE DEF n, m
      <3> QED BY <2>1, SequenceInRun
    <2>3. y \in 0 .. 4
      <3>1. i + k \in 1 .. n BY <1>1, <1>2
      <3> HIDE DEF n, m
      <3> QED BY <1>1, <3>1, SizeIs
    <2> HIDE DEF y
    <2> QED BY <1>1, <1>2, <2>2, <2>3
  <1>6. z # 0 => z \in 1 .. m - k + 1
    <2>1. k \in 1 .. m OBVIOUS
    <2> HIDE DEF n, m, y
    <2>2. /\ z \in 0 .. 4
          /\ z = 2 => k + 1 <= m
          /\ z = 3 => k + 2 <= m
          /\ z = 4 => k + 3 <= m
      BY <1>3, <2>1, SizeIs
    <2> HIDE DEF z
    <2> QED BY <1>2, <2>1, <2>2
  <1> HIDE DEF z, y, m, n
  <1>7. z = y BY <1>4, <1>5, <1>6
  <1> QED BY <1>7 DEF z, y

\* Two pieces that touch are one.
LEMMA Adjacent ==
  ASSUME NEW s, Bytes(s), NEW a \in 1 .. Len(s) + 1, NEW b \in a - 1 .. Len(s),
         NEW c \in b .. Len(s)
  PROVE  SubSeq(s, a, b) \o SubSeq(s, b + 1, c) = SubSeq(s, a, c)
  BY ConcatAdjacentSubSeq, Zenon DEF Bytes

\* The run has been read up to its k-th byte.
Along(s, i, f, k) == Read(s, k, f \o SubSeq(s, i + 1, k))

\* It is read one sequence further, or no further.
LEMMA RunStep ==
  ASSUME NEW s, Bytes(s), NEW i, NEW end, Run(s, i, end), NEW f, Bytes(f),
         NEW k \in i .. end - 1, Along(s, i, f, k), NEW z, z = sequence_size(s, k + 1)
  PROVE  /\ z = 0 => Nowhere(Items(s), Len(s), k)
         /\ z # 0 => k + z \in k + 1 .. end /\ Along(s, i, f, k + z)
  <1> DEFINE n == Len(s)
  <1>1. n \in Nat /\ i \in 0 .. n - 1 /\ end \in i + 1 .. n /\ \A j \in i + 1 .. end : s[j] # 92
    BY BytesText DEF Run
  <1>2. k \in 0 .. n - 1 /\ s[k + 1] # 92
    <2>1. k \in Int /\ k + 1 \in i + 1 .. end BY <1>1
    <2> QED BY <1>1, <2>1
  <1>3. z = 0 => Nowhere(Items(s), Len(s), k) BY <1>2, RawAt
  <1>4. ASSUME z # 0 PROVE k + z \in k + 1 .. end /\ Along(s, i, f, k + z)
    <2>1. k + z \in k + 1 .. end BY <1>4, SequenceInRun
    <2>2. PICK p : /\ Only(Items(s), Len(s), k, k + z, p)
                   /\ Form(SubSeq(s, k + 1, k + z)) = {p}
      BY <1>2, <1>4, RawAt
    <2> DEFINE e == k + z
               head == SubSeq(s, i + 1, k)
               g == SubSeq(s, k + 1, e)
    <2>3. /\ k \in Int /\ e \in Int /\ i \in Int /\ 0 <= i /\ i <= k /\ k < e /\ e <= n
      <3>1. e \in k + 1 .. end BY <2>1
      <3> HIDE DEF n, e
      <3> QED BY <1>1, <3>1
    <2>4. i \in 0 .. n /\ k \in i .. n /\ k \in 0 .. n /\ e \in k .. n
      <3> HIDE DEF n, e
      <3> QED BY <1>1, <2>3
    <2>5. Bytes(g) /\ Len(g) = e - k
      <3> HIDE DEF e
      <3> QED BY <2>4, PieceBytes
    <2>6. Bytes(head) BY <2>4, PieceBytes
    <2>7. Len(g) > 0
      <3> HIDE DEF e, g
      <3> QED BY <2>3, <2>5
    <2>8. Read(s, e, (f \o head) \o g)
      <3>1. Read(s, k, f \o head) BY DEF Along
      <3>2. Only(Items(s), Len(s), k, e, p) /\ Form(g) = {p} BY <2>2
      <3> HIDE DEF e, g, head
      <3> QED BY <2>5, <2>7, <3>1, <3>2, ReadStep, Zenon
    <2>9. (f \o head) \o g = f \o (head \o g)
      <3> HIDE DEF g, head
      <3> QED BY <2>5, <2>6, ConcatAssociative DEF Bytes
    <2>10. head \o g = SubSeq(s, i + 1, e)
      <3>1. i + 1 \in 1 .. n + 1 /\ k \in i + 1 - 1 .. n /\ k + 1 \in i + 1 .. n + 1 /\ k + 1 - 1 = k
        <4> HIDE DEF n, e
        <4> QED BY <1>1, <2>3
      <3> DEFINE b == i + 1
      <3>2. b \in 1 .. Len(s) + 1 /\ k \in b - 1 .. Len(s) /\ e \in k .. Len(s)
        BY <2>4, <3>1
      <3> HIDE DEF e, n, b
      <3>3. SubSeq(s, b, k) \o SubSeq(s, k + 1, e) = SubSeq(s, b, e)
        BY <3>2, Adjacent
      <3> QED BY <3>3 DEF b
    <2>11. Read(s, e, f \o SubSeq(s, i + 1, e)) BY <2>8, <2>9, <2>10, Zenon
    <2> QED BY <2>1, <2>11 DEF Along
  <1> QED BY <1>3, <1>4

\* Nothing can be read past i.
Halted(s, i) == i < Len(s) /\ (\E f : Read(s, i, f)) /\ Nowhere(Items(s), Len(s), i)

\* What the length v of the prefix of a run that is UTF-8 tells.
Told(s, i, end, f, v) ==
  /\ v = end - i => Read(s, end, f \o SubSeq(s, i + 1, end))
  /\ v # end - i => Halted(s, i + v)

\* It tells whether the run is read, or where it stops.
LEMMA RunRead ==
  ASSUME NEW s, Bytes(s), NEW i, NEW end, Run(s, i, end), NEW f, Bytes(f), Read(s, i, f)
  PROVE  Told(s, i, end, f, utf8_valid_prefix(SubSeq(s, i + 1, end)))
  <1>0. \A k \in 1 .. end - i : sequence_size(SubSeq(s, i + 1, end), k) = sequence_size(s, i + k)
    BY SizeInRun
  <1> DEFINE n == Len(s)
             run == SubSeq(s, i + 1, end)
             m == end - i
             D == 1 .. m + 1
             d == [k \in D |-> m + 1 - k]
  <1>1. n \in Nat /\ i \in 0 .. n - 1 /\ end \in i + 1 .. n BY BytesText DEF Run
  <1>2. i \in 0 .. n /\ end \in i .. n /\ i \in Nat /\ end \in Nat /\ m \in Nat /\ i + m = end
        /\ end <= n
    BY <1>1
  <1>3. Bytes(run) /\ Len(run) = m BY <1>2, PieceBytes
  <1>4. PICK g : Scanned(run, g) /\ utf8_valid_prefix(run) = g[1] BY <1>3, ScanSolve
  <1> DEFINE T == {k \in D : Along(s, i, f, i + k - 1) => Told(s, i, end, f, g[k])}
  <1>5. ASSUME NEW k \in D, \A e \in D : d[e] < d[k] => e \in T PROVE k \in T
    <2> SUFFICES ASSUME Along(s, i, f, i + k - 1) PROVE Told(s, i, end, f, g[k]) OBVIOUS
    <2>1. k \in Int /\ 1 <= k /\ k <= m + 1 /\ m \in Int /\ i \in Int BY <1>2
    <2>2. g[k] = IF k > m THEN m
                 ELSE LET z == sequence_size(run, k) IN IF z = 0 THEN k - 1 ELSE g[k + z]
      <3> HIDE DEF m, run
      <3> QED BY <1>3, <1>4 DEF Scanned
    <2>3. CASE k > m
      <3>1. g[k] = end - i BY <2>2, <2>3
      <3>2. i + k - 1 = end
        <4> HIDE DEF m
        <4> QED BY <1>2, <2>1, <2>3
      <3>3. Read(s, end, f \o SubSeq(s, i + 1, end)) BY <3>2 DEF Along
      <3> QED BY <3>1, <3>3 DEF Told
    <2>4. CASE k <= m
      <3> DEFINE z == sequence_size(run, k)
                 at == i + k - 1
      <3>1. at \in i .. end - 1 /\ at + 1 = i + k /\ at = i + (k - 1) /\ at < n
        <4> HIDE DEF m, n
        <4> QED BY <1>1, <1>2, <2>1, <2>4
      <3>2. z = sequence_size(s, at + 1)
        <4>1. k \in 1 .. end - i
          <5> HIDE DEF m
          <5>1. k \in 1 .. m BY <2>1, <2>4
          <5> QED BY <5>1 DEF m
        <4>2. sequence_size(run, k) = sequence_size(s, i + k) BY <1>0, <4>1
        <4> HIDE DEF at
        <4> QED BY <3>1, <4>2
      <3> HIDE DEF z, at
      <3>3. /\ z = 0 => Nowhere(Items(s), Len(s), at)
            /\ z # 0 => at + z \in at + 1 .. end /\ Along(s, i, f, at + z)
        <4>1. Along(s, i, f, at) BY DEF at
        <4> QED BY <3>1, <3>2, <4>1, RunStep
      <3>4. CASE z = 0
        <4>1. g[k] = k - 1
          <5> HIDE DEF m, run
          <5> QED BY <2>1, <2>2, <2>4, <3>4 DEF z
        <4>2. g[k] # end - i
          <5> HIDE DEF m
          <5>1. g[k] # m BY <2>1, <2>4, <4>1
          <5> QED BY <5>1 DEF m
        <4>3. Halted(s, at)
          <5>1. Read(s, at, f \o SubSeq(s, i + 1, at)) BY DEF Along, at
          <5> QED BY <3>1, <3>3, <3>4, <5>1 DEF Halted, n
        <4>4. Halted(s, i + g[k]) BY <3>1, <4>1, <4>3
        <4> QED BY <4>2, <4>4 DEF Told
      <3>5. CASE z # 0
        <4>1. g[k] = g[k + z]
          <5> HIDE DEF m, run
          <5> QED BY <2>1, <2>2, <2>4, <3>5 DEF z
        <4>2. k + z \in D /\ d[k + z] < d[k] /\ i + (k + z) - 1 = at + z
          <5>1. z \in Int /\ 1 <= z /\ z <= 4
            <6>1. at + 1 \in 1 .. n /\ Text(s, n)
              <7>1. Text(s, n) BY BytesText
              <7> HIDE DEF n, m
              <7> QED BY <1>1, <3>1, <7>1
            <6>2. z \in 0 .. 4 BY <3>2, <6>1, SizeIs
            <6> QED BY <3>5, <6>2
          <5>2. at + z <= end BY <3>3, <3>5
          <5> HIDE DEF m, n
          <5>3. at = i + (k - 1) /\ i + m = end BY <1>2, <3>1
          <5>4. k + z <= m + 1 BY <1>2, <2>1, <5>1, <5>2, <5>3
          <5>5. k + z \in D /\ k \in D BY <2>1, <5>1, <5>4
          <5>6. d[k + z] = m + 1 - (k + z) /\ d[k] = m + 1 - k BY <5>5
          <5> HIDE DEF d
          <5> QED BY <1>2, <2>1, <5>1, <5>3, <5>5, <5>6
        <4>3. k + z \in T BY <1>5, <4>2
        <4>4. Told(s, i, end, f, g[k + z]) BY <3>3, <3>5, <4>2, <4>3
        <4> QED BY <4>1, <4>4
      <3> QED BY <3>4, <3>5
    <2> QED BY <2>1, <2>3, <2>4
  <1>6. d \in [D -> Nat] BY <1>2
  <1>7. 1 \in T
    <2>1. 1 \in D
      <3> HIDE DEF m
      <3> QED BY <1>2
    <2> HIDE DEF D, d, T
    <2> QED BY <1>5, <1>6, <2>1, MeasureInduction
  <1>8. Along(s, i, f, i + 1 - 1)
    <2>1. i + 1 - 1 = i BY <1>2
    <2>2. SubSeq(s, i + 1, i) = <<>> BY <1>2, SubSeqEmpty
    <2>3. f \o <<>> = f BY ConcatEmptySeq, Zenon DEF Bytes
    <2> QED BY <2>1, <2>2, <2>3 DEF Along
  <1> QED BY <1>4, <1>7, <1>8

-----------------------------------------------------------------------------
(* The invariant of decode_string.                                          *)

\* No byte of s is zero.
Clean(s) == \A k \in 1 .. Len(s) : s[k] # 0

\* What CONTRACT_ASCII admits inside a literal.
Graphic(b) == b \in 32 .. 126 /\ b # 92

\* The first n bytes of s, all of them graphic, have been copied to f.
Copied(s, n, f) ==
  /\ f = SubSeq(s, 1, n) /\ Spells(f, f)
  /\ \A k \in 1 .. n : Graphic(s[k])

Refused == code \in {"SYNTAX", "UTF8"}

\* The output is the UTF-8 of the text of what has been consumed, and a refusal
\* stands where no character or escape begins.
Decoding ==
  /\ code = "none" => Read(bytes, input, out)
  /\ code = "OK" => Read(bytes, Len(bytes), out)
  /\ Refused => Halted(bytes, bad_offset)

\* The same in CONTRACT_ASCII, where a text is its own UTF-8.
Copying ==
  /\ Copied(bytes, input, out)
  /\ code = "OK" => input = Len(bytes)
  /\ Refused => bad_offset = input /\ input < Len(bytes) /\ ~Graphic(bytes[input + 1])

Means ==
  /\ Bytes(bytes) /\ Bytes(out) /\ input \in 0 .. Len(bytes)
  /\ code \in {"none", "OK", "SYNTAX", "UTF8"}
  /\ Clean(bytes) => Clean(out)
  /\ profile # "CONTRACT_ASCII" => Decoding
  /\ profile = "CONTRACT_ASCII" => Copying

\* A byte that stands for itself.
LEMMA ByteForm ==
  ASSUME NEW b \in Byte, b <= 127
  PROVE  Bytes(<<b>>) /\ Len(<<b>>) = 1 /\ Form(<<b>>) = {b} /\ (b # 0 => Clean(<<b>>))
  <1>1. Bytes(<<b>>) /\ Len(<<b>>) = 1 BY DEF Bytes
  <1>2. Form(<<b>>) = {b}
    <2>1. Len(<<b>>) = 1 /\ <<b>>[1] = b /\ b \in Int /\ 0 <= b BY DEF Byte
    <2> QED BY <2>1, FormOfOne DEF OneByte
  <1>3. b # 0 => Clean(<<b>>) BY <1>1 DEF Clean
  <1> QED BY <1>1, <1>2, <1>3

\* Two texts without zeros make one.
LEMMA CleanJoin ==
  ASSUME NEW f, NEW g, Bytes(f), Bytes(g), Clean(f), Clean(g)
  PROVE  Clean(f \o g)
  <1>1. Len(f) \in Nat /\ Len(g) \in Nat /\ f \in Seq(Byte) /\ g \in Seq(Byte)
    BY BytesText DEF Bytes
  <1>2. /\ Len(f \o g) = Len(f) + Len(g)
        /\ \A k \in 1 .. Len(f) + Len(g) :
             (f \o g)[k] = IF k <= Len(f) THEN f[k] ELSE g[k - Len(f)]
    BY <1>1, ConcatProperties, Zenon
  <1> DEFINE m == Len(f)
             n == Len(g)
             h == f \o g
  <1>3. \A k \in 1 .. m : f[k] # 0 BY DEF Clean
  <1>4. \A k \in 1 .. n : g[k] # 0 BY DEF Clean
  <1>5. m \in Nat /\ n \in Nat BY <1>1
  <1>6. Len(h) = m + n /\ \A k \in 1 .. m + n : h[k] = IF k <= m THEN f[k] ELSE g[k - m] BY <1>2
  <1> HIDE DEF m, n, h
  <1>7. ASSUME NEW k \in 1 .. Len(h) PROVE h[k] # 0
    <2>1. k \in 1 .. m + n BY <1>6
    <2>2. k \in 1 .. m \/ k - m \in 1 .. n BY <1>5, <2>1
    <2>3. k <= m => k \in 1 .. m BY <1>5, <2>1
    <2>4. ~(k <= m) => k - m \in 1 .. n BY <1>5, <2>1
    <2> QED BY <1>3, <1>4, <1>6, <2>1, <2>3, <2>4
  <1> QED BY <1>7 DEF Clean, h

\* A piece of a text without zeros has none.
LEMMA CleanPiece ==
  ASSUME NEW s, Bytes(s), Clean(s), NEW i \in 0 .. Len(s), NEW j \in i .. Len(s)
  PROVE  Clean(SubSeq(s, i + 1, j))
  <1> DEFINE n == Len(s)
             t == SubSeq(s, i + 1, j)
  <1>1. Text(s, n) /\ n \in Nat /\ \A k \in 1 .. n : s[k] # 0 BY BytesText DEF Clean
  <1>2. Text(t, j - i) /\ \A k \in 1 .. j - i : t[k] = s[i + k] BY <1>1, Slice
  <1>3. Len(t) = j - i BY <1>2 DEF Text
  <1> HIDE DEF n, t
  <1>4. ASSUME NEW k \in 1 .. Len(t) PROVE t[k] # 0
    <2>1. i \in Int /\ j \in Int /\ n \in Int /\ 0 <= i /\ j <= n BY <1>1 DEF n
    <2>2. k \in 1 .. j - i BY <1>3
    <2>3. i + k \in 1 .. n BY <2>1, <2>2
    <2> QED BY <1>1, <1>2, <2>2, <2>3
  <1> QED BY <1>4 DEF Clean, t

\* What a step that consumes and writes keeps, whatever the profile.
LEMMA Written ==
  ASSUME Means, NEW end \in 0 .. Len(bytes), NEW text, Bytes(text), Take(end, text),
         Clean(bytes) => Clean(text)
  PROVE  /\ Bytes(bytes') /\ Bytes(out') /\ input' \in 0 .. Len(bytes')
         /\ code' \in {"none", "OK", "SYNTAX", "UTF8"}
         /\ Clean(bytes') => Clean(out')
  <1>1. bytes' = bytes /\ input' = end /\ out' = out \o text /\ code' = code BY DEF Take
  <1>2. Bytes(out) /\ Bytes(bytes) /\ (Clean(bytes) => Clean(out)) BY DEF Means
  <1>3. Bytes(out \o text) BY <1>2, Join
  <1>4. Clean(bytes) => Clean(out \o text) BY <1>2, CleanJoin
  <1>5. code \in {"none", "OK", "SYNTAX", "UTF8"} BY DEF Means
  <1> QED BY <1>1, <1>2, <1>3, <1>4, <1>5

\* A step that reads on.
LEMMA TakeMeans ==
  ASSUME Means, profile # "CONTRACT_ASCII", code = "none",
         NEW end \in 0 .. Len(bytes), NEW text, Bytes(text), Take(end, text),
         Clean(bytes) => Clean(text), Read(bytes, end, out \o text)
  PROVE  Means'
  <1>1. bytes' = bytes /\ input' = end /\ out' = out \o text /\ code' = code /\ profile' = profile
    BY DEF Take
  <1>2. Decoding' BY <1>1 DEF Decoding, Refused
  <1>3. /\ Bytes(bytes') /\ Bytes(out') /\ input' \in 0 .. Len(bytes')
        /\ code' \in {"none", "OK", "SYNTAX", "UTF8"}
        /\ Clean(bytes') => Clean(out')
    BY Written
  <1> QED BY <1>1, <1>2, <1>3 DEF Means

\* A step that refuses.
LEMMA RefuseMeans ==
  ASSUME Means, profile # "CONTRACT_ASCII", NEW why \in {"SYNTAX", "UTF8"}, NEW at,
         Refuse(why, at), Halted(bytes, at)
  PROVE  Means'
  <1>1. /\ bytes' = bytes /\ input' = input /\ out' = out /\ profile' = profile
        /\ code' = why /\ bad_offset' = at
    BY DEF Refuse
  <1>2. Decoding' BY <1>1 DEF Decoding, Refused
  <1>3. /\ Bytes(bytes) /\ Bytes(out) /\ input \in 0 .. Len(bytes)
        /\ Clean(bytes) => Clean(out)
    BY DEF Means
  <1> QED BY <1>1, <1>2, <1>3 DEF Means

\* A graphic byte is copied, another one refused.
LEMMA AsciiMeans == Means /\ AsciiByte => Means'
  <1> SUFFICES ASSUME Means, AsciiByte PROVE Means' OBVIOUS
  <1>1. /\ code = "none" /\ input < Len(bytes) /\ profile = "CONTRACT_ASCII"
        /\ printable <=> Graphic(bytes[input + 1])
    BY DEF AsciiByte, Reading, size, printable, Graphic, byte, backslash
  <1>2. Copied(bytes, input, out) BY <1>1 DEF Means, Copying
  <1>3. /\ Bytes(bytes) /\ Bytes(out) /\ input \in 0 .. Len(bytes) /\ (Clean(bytes) => Clean(out))
        /\ Len(bytes) \in Nat
    BY BytesText DEF Means
  <1>4. CASE ~printable /\ Refuse("SYNTAX", input)
    <2>1. /\ bytes' = bytes /\ input' = input /\ out' = out /\ profile' = profile
          /\ code' = "SYNTAX" /\ bad_offset' = input
      BY <1>4 DEF Refuse
    <2>2. Copying' BY <1>1, <1>2, <1>4, <2>1 DEF Copying, Refused
    <2> QED BY <1>1, <1>3, <2>1, <2>2 DEF Means
  <1>5. CASE printable /\ Take(input + 1, <<byte>>)
    <2> DEFINE b == bytes[input + 1]
               end == input + 1
    <2>1. byte = b BY DEF byte
    <2>2. end \in 1 .. Len(bytes) /\ end \in 0 .. Len(bytes) BY <1>1, <1>3
    <2>3. b \in Byte /\ b <= 127
      <3>1. b \in Byte
        <4>1. Text(bytes, Len(bytes)) BY <1>3, BytesText
        <4> HIDE DEF end
        <4> QED BY <2>2, <4>1 DEF Text, end
      <3>2. Graphic(b) BY <1>1, <1>5
      <3> HIDE DEF b
      <3> QED BY <3>1, <3>2 DEF Graphic
    <2>4. Bytes(<<b>>) /\ Len(<<b>>) = 1 /\ Form(<<b>>) = {b} /\ (b # 0 => Clean(<<b>>))
      <3> HIDE DEF b
      <3> QED BY <2>3, ByteForm
    <2>5. Clean(bytes) => Clean(<<b>>)
      <3>1. Clean(bytes) => b # 0 BY <2>2 DEF Clean
      <3> QED BY <2>4, <3>1
    <2>6. bytes' = bytes /\ input' = end /\ out' = out \o <<b>> /\ code' = code
          /\ profile' = profile
      BY <1>5, <2>1 DEF Take
    <2>7. Take(end, <<b>>) BY <1>5, <2>1
    <2> HIDE DEF end, b
    <2>8. /\ Bytes(bytes') /\ Bytes(out') /\ input' \in 0 .. Len(bytes')
          /\ code' \in {"none", "OK", "SYNTAX", "UTF8"}
          /\ Clean(bytes') => Clean(out')
      BY <2>2, <2>4, <2>5, <2>7, Written
    <2>9. Spells(out \o <<b>>, out \o <<b>>)
      <3>1. Spells(out, out) /\ Len(<<b>>) > 0 BY <1>2, <2>4 DEF Copied
      <3> QED BY <2>4, <3>1, SpellsStep, Zenon
    <2>10. out \o <<b>> = SubSeq(bytes, 1, end)
      <3>1. out = SubSeq(bytes, 1, input) BY <1>2 DEF Copied
      <3>2. SubSeq(bytes, 1, end) = SubSeq(bytes, 1, end - 1) \o <<bytes[end]>>
        <4>1. 1 \in 1 .. Len(bytes) /\ end \in 1 .. Len(bytes) BY <2>2
        <4> QED BY <1>3, <4>1, SubSeqRecursiveSecond, Zenon DEF Bytes
      <3>3. end - 1 = input /\ bytes[end] = b BY <1>3 DEF end, b
      <3> QED BY <3>1, <3>2, <3>3
    <2>11. ASSUME NEW k \in 1 .. end PROVE Graphic(bytes[k])
      <3>1. k \in 1 .. input \/ k = input + 1 BY <1>3 DEF end
      <3> QED BY <1>1, <1>2, <1>5, <3>1 DEF Copied
    <2>12. Copied(bytes, end, out \o <<b>>) BY <2>9, <2>10, <2>11 DEF Copied
    <2>13. Copying' BY <1>1, <2>6, <2>12 DEF Copying, Refused
    <2> QED BY <1>1, <2>6, <2>8, <2>13 DEF Means
  <1> QED BY <1>4, <1>5 DEF AsciiByte

\* A run is copied, or refused where it stops being UTF-8.
LEMMA RunMeans == Means /\ RawRun => Means'
  <1> SUFFICES ASSUME Means, RawRun PROVE Means' OBVIOUS
  <1>1. code = "none" /\ profile # "CONTRACT_ASCII" /\ input < Len(bytes)
    BY DEF RawRun, Reading, size
  <1>2. /\ Bytes(bytes) /\ Bytes(out) /\ input \in 0 .. Len(bytes) /\ Len(bytes) \in Nat
        /\ Read(bytes, input, out)
    BY <1>1, BytesText DEF Means, Decoding
  <1>3. PICK end \in input + 1 .. size :
          /\ \A i \in input + 1 .. end : bytes[i] # backslash
          /\ end < size => bytes[end + 1] = backslash
          /\ LET run   == SubSeq(bytes, input + 1, end)
                 valid == utf8_valid_prefix(run)
             IN  \/ valid # end - input /\ Refuse("UTF8", invalid_at(valid))
                 \/ valid = end - input /\ Take(end, run)
    BY DEF RawRun
  <1>4. Run(bytes, input, end)
    <2>1. end \in input + 1 .. Len(bytes) /\ input \in 0 .. Len(bytes) - 1 BY <1>1, <1>2 DEF size
    <2> QED BY <1>3, <2>1 DEF Run, size, backslash
  <1> DEFINE run == SubSeq(bytes, input + 1, end)
             valid == utf8_valid_prefix(run)
  <1>5. Told(bytes, input, end, out, valid) BY <1>2, <1>4, RunRead
  <1>6. end \in 0 .. Len(bytes) /\ end \in input .. Len(bytes) BY <1>2 DEF size
  <1>7. Bytes(run) BY <1>2, <1>6, PieceBytes
  <1>8. Clean(bytes) => Clean(run) BY <1>2, <1>6, CleanPiece
  <1>9. CASE valid # end - input /\ Refuse("UTF8", invalid_at(valid))
    <2>1. Halted(bytes, input + valid) BY <1>5, <1>9 DEF Told
    <2>2. Refuse("UTF8", input + valid) BY <1>9 DEF invalid_at
    <2> HIDE DEF valid
    <2> QED BY <1>1, <2>1, <2>2, RefuseMeans
  <1>10. CASE valid = end - input /\ Take(end, run)
    <2>1. Read(bytes, end, out \o run) BY <1>5, <1>10 DEF Told
    <2> HIDE DEF valid, run
    <2> QED BY <1>1, <1>6, <1>7, <1>8, <1>10, <2>1, TakeMeans
  <1> QED BY <1>3, <1>9, <1>10

\* What is known before an escape.
LEMMA AtEscapeMeans ==
  ASSUME Means, AtEscape
  PROVE  /\ code = "none" /\ profile # "CONTRACT_ASCII" /\ Bytes(bytes) /\ Len(bytes) \in Nat
         /\ input \in 0 .. Len(bytes) - 1 /\ bytes[input + 1] = 92
         /\ Bytes(out) /\ Read(bytes, input, out)
  <1>1. /\ code = "none" /\ input < Len(bytes) /\ profile # "CONTRACT_ASCII"
        /\ bytes[input + 1] = 92
    BY DEF AtEscape, Reading, size, byte, backslash
  <1>2. /\ Bytes(bytes) /\ Bytes(out) /\ input \in 0 .. Len(bytes) /\ Len(bytes) \in Nat
        /\ Read(bytes, input, out)
    BY <1>1, BytesText DEF Means, Decoding
  <1> QED BY <1>1, <1>2

\* Where no escape begins there is nothing to read.
LEMMA StopMeans ==
  ASSUME Means, AtEscape, Refuse("SYNTAX", input), Nowhere(Items(bytes), Len(bytes), input)
  PROVE  Means'
  <1>1. /\ code = "none" /\ profile # "CONTRACT_ASCII" /\ input \in 0 .. Len(bytes) - 1
        /\ Len(bytes) \in Nat /\ Read(bytes, input, out)
    BY AtEscapeMeans
  <1>2. input < Len(bytes) BY <1>1
  <1>3. Halted(bytes, input) BY <1>1, <1>2 DEF Halted
  <1> QED BY <1>1, <1>3, RefuseMeans

\* An escape that is one item is written as its character.
LEMMA ItemMeans ==
  ASSUME Means, AtEscape, NEW end, NEW p, NEW g, Only(Items(bytes), Len(bytes), input, end, p),
         Bytes(g), Len(g) > 0, Form(g) = {p}, Clean(g), Take(end, g)
  PROVE  Means'
  <1>1. /\ code = "none" /\ profile # "CONTRACT_ASCII" /\ input \in 0 .. Len(bytes) - 1
        /\ Len(bytes) \in Nat /\ Read(bytes, input, out) /\ Bytes(bytes)
    BY AtEscapeMeans
  <1>2. Read(bytes, end, out \o g) BY <1>1, ReadStep, Zenon
  <1>3. end \in 0 .. Len(bytes)
    <2>1. end \in input + 1 .. Len(bytes) BY DEF Only
    <2> QED BY <1>1, <2>1
  <1> QED BY <1>1, <1>2, <1>3, TakeMeans

\* A backslash at the end is refused.
LEMMA LoneMeans == Means /\ LoneBackslash => Means'
  <1> SUFFICES ASSUME Means, LoneBackslash PROVE Means' OBVIOUS
  <1>1. AtEscape /\ input + 1 >= Len(bytes) /\ Refuse("SYNTAX", input)
    BY DEF LoneBackslash, size
  <1>2. Nowhere(Items(bytes), Len(bytes), input)
    <2>1. Bytes(bytes) /\ input \in 0 .. Len(bytes) - 1 /\ bytes[input + 1] = 92
      BY <1>1, AtEscapeMeans
    <2> QED BY <1>1, <2>1, LoneAt
  <1> QED BY <1>1, <1>2, StopMeans

\* An escape of a code point.
LEMMA UnicodeMeans == Means /\ UnicodeEscape => Means'
  <1> SUFFICES ASSUME Means, UnicodeEscape PROVE Means' OBVIOUS
  <1> DEFINE r == read_escape_point(bytes, input + 2)
  <1>1. /\ AtEscape /\ input + 1 < Len(bytes) /\ bytes[input + 2] = 117
        /\ \/ r.point = 0 /\ Refuse("SYNTAX", input)
           \/ r.point # 0 /\ Take(r.input, encode_utf8(r.point))
    BY DEF UnicodeEscape, size, letter_u
  <1>2. Bytes(bytes) /\ input \in 0 .. Len(bytes) - 1 /\ bytes[input + 1] = 92
    BY <1>1, AtEscapeMeans
  <1>3. /\ r.point = 0 => Nowhere(Items(bytes), Len(bytes), input)
        /\ r.point # 0 => /\ Only(Items(bytes), Len(bytes), input, r.input, r.point)
                          /\ r.point \in Nat /\ Scalar(r.point)
    BY <1>1, <1>2, PointAt
  <1> HIDE DEF r
  <1>4. CASE r.point = 0 BY <1>1, <1>3, <1>4, StopMeans
  <1>5. CASE r.point # 0
    <2> DEFINE g == encode_utf8(r.point)
    <2>1. /\ Bytes(g) /\ Len(g) > 0 /\ Form(g) = {r.point} /\ \A k \in 1 .. Len(g) : g[k] # 0
      BY <1>3, <1>5, EncodeSpells
    <2>2. Take(r.input, g) BY <1>1, <1>5
    <2> HIDE DEF g
    <2>3. Clean(g) BY <2>1 DEF Clean
    <2>4. Only(Items(bytes), Len(bytes), input, r.input, r.point) BY <1>3, <1>5
    <2>5. Bytes(g) /\ Len(g) > 0 /\ Form(g) = {r.point} BY <2>1
    <2>6. AtEscape BY <1>1
    <2> QED BY <2>2, <2>3, <2>4, <2>5, <2>6, ItemMeans, Zenon
  <1> QED BY <1>4, <1>5

\* An escape of one letter.
LEMMA SimpleMeans == Means /\ SimpleEscape => Means'
  <1> SUFFICES ASSUME Means, SimpleEscape PROVE Means' OBVIOUS
  <1> DEFINE known == {e \in simple_escape : e[1] = bytes[input + 2]}
  <1>1. /\ AtEscape /\ input + 1 < Len(bytes) /\ bytes[input + 2] # 117
        /\ \/ known = {} /\ Refuse("SYNTAX", input)
           \/ \E e \in known : Take(input + 2, <<e[2]>>)
    BY DEF SimpleEscape, size, letter_u
  <1>2. Bytes(bytes) /\ input \in 0 .. Len(bytes) - 1 /\ bytes[input + 1] = 92
    BY <1>1, AtEscapeMeans
  <1>3. /\ (\A e \in simple_escape : e[1] # bytes[input + 2])
             => Nowhere(Items(bytes), Len(bytes), input)
        /\ \A e \in simple_escape : e[1] = bytes[input + 2] =>
             Only(Items(bytes), Len(bytes), input, input + 2, e[2])
    BY <1>1, <1>2, LetterAt
  <1>4. CASE known = {} /\ Refuse("SYNTAX", input)
    <2>1. \A e \in simple_escape : e[1] # bytes[input + 2] BY <1>4
    <2>2. Nowhere(Items(bytes), Len(bytes), input) BY <1>3, <2>1
    <2> QED BY <1>1, <1>4, <2>2, StopMeans
  <1>5. CASE \E e \in known : Take(input + 2, <<e[2]>>)
    <2>1. PICK e \in simple_escape : e[1] = bytes[input + 2] /\ Take(input + 2, <<e[2]>>)
      BY <1>5
    <2>2. e[2] \in Byte /\ e[2] <= 127 /\ e[2] # 0 BY <2>1 DEF simple_escape, Byte
    <2>3. Bytes(<<e[2]>>) /\ Len(<<e[2]>>) > 0 /\ Form(<<e[2]>>) = {e[2]} /\ Clean(<<e[2]>>)
      <3>1. Len(<<e[2]>>) = 1 => Len(<<e[2]>>) > 0 OBVIOUS
      <3> QED BY <2>2, <3>1, ByteForm
    <2>4. Only(Items(bytes), Len(bytes), input, input + 2, e[2]) BY <1>3, <2>1
    <2> QED BY <1>1, <2>1, <2>3, <2>4, ItemMeans, Zenon
  <1> QED BY <1>1, <1>4, <1>5

\* The end of the input.
LEMMA FinishMeans == Means /\ Finish => Means'
  <1> SUFFICES ASSUME Means, Finish PROVE Means' OBVIOUS
  <1>1. /\ code = "none" /\ input >= Len(bytes) /\ code' = "OK" /\ bytes' = bytes
        /\ profile' = profile /\ input' = input /\ out' = out /\ bad_offset' = bad_offset
    BY DEF Finish, size
  <1>2. /\ Bytes(bytes) /\ Bytes(out) /\ input \in 0 .. Len(bytes) /\ Len(bytes) \in Nat
        /\ Clean(bytes) => Clean(out)
    BY BytesText DEF Means
  <1>3. input = Len(bytes) BY <1>1, <1>2
  <1>4. profile # "CONTRACT_ASCII" => Decoding'
    <2>1. profile # "CONTRACT_ASCII" => Read(bytes, input, out) BY <1>1 DEF Means, Decoding
    <2> QED BY <1>1, <1>3, <2>1 DEF Decoding, Refused
  <1>5. profile = "CONTRACT_ASCII" => Copying' BY <1>1, <1>3 DEF Means, Copying, Refused
  <1> QED BY <1>1, <1>2, <1>4, <1>5 DEF Means

\* Every turn of the loop keeps what the output means.
LEMMA StepMeans == Means /\ [decode_string]_vars => Means'
  <1>1. Means /\ UNCHANGED vars => Means' BY DEF Means, Decoding, Copying, Refused, vars
  <1> QED
    BY <1>1, AsciiMeans, RunMeans, LoneMeans, UnicodeMeans, SimpleMeans, FinishMeans
    DEF decode_string

\* Nothing has been read, and nothing written.
LEMMA InitMeans == Init => Means
  <1> SUFFICES ASSUME Init PROVE Means OBVIOUS
  <1>1. Bytes(bytes) /\ input = 0 /\ out = <<>> /\ code = "none"
    BY InputsAssumption DEF Init, Bytes
  <1>2. Len(bytes) \in Nat /\ Bytes(<<>>) /\ Len(<<>>) = 0
    BY <1>1, BytesText, EmptySeq DEF Bytes
  <1>3. Clean(<<>>) BY <1>2 DEF Clean
  <1>4. Decoding BY <1>1, ReadNothing DEF Decoding, Refused
  <1>5. SubSeq(bytes, 1, 0) = <<>> BY SubSeqEmpty
  <1>6. Copied(bytes, 0, <<>>)
    <2>1. \A k \in 1 .. 0 : FALSE OBVIOUS
    <2> QED BY <1>5, <2>1, SpellsNothing DEF Copied
  <1>7. Copying BY <1>1, <1>6 DEF Copying, Refused
  <1> QED BY <1>1, <1>2, <1>3, <1>4, <1>7 DEF Means

\* A prefix holds the first bytes.
LEMMA Prefix ==
  ASSUME NEW s, Bytes(s), NEW n \in 0 .. Len(s)
  PROVE  /\ DOMAIN SubSeq(s, 1, n) = 1 .. n
         /\ \A k \in 1 .. n : SubSeq(s, 1, n)[k] = s[k]
  <1>1. Text(s, Len(s)) /\ 0 \in 0 .. Len(s) /\ n \in 0 .. Len(s) /\ n \in Nat BY BytesText
  <1>2. /\ Bytes(SubSeq(s, 0 + 1, n)) /\ Len(SubSeq(s, 0 + 1, n)) = n - 0
        /\ \A k \in 1 .. n - 0 : SubSeq(s, 0 + 1, n)[k] = s[0 + k]
    BY <1>1, PieceBytes, Slice
  <1> DEFINE t == SubSeq(s, 1, n)
  <1>3. Bytes(t) /\ Len(t) = n /\ \A k \in 1 .. n : t[k] = s[0 + k] BY <1>1, <1>2
  <1> HIDE DEF t
  <1>4. DOMAIN t = 1 .. n BY <1>3, LenProperties DEF Bytes
  <1>5. \A k \in 1 .. n : t[k] = s[k] BY <1>1, <1>3
  <1> QED BY <1>4, <1>5 DEF t

\* A text in CONTRACT_ASCII.
LEMMA MeaningOfPrefix ==
  ASSUME NEW n \in 0 .. Len(bytes), Bytes(bytes), profile = "CONTRACT_ASCII"
  PROVE  Meaning(SubSeq(bytes, 1, n))
           = IF \A k \in 1 .. n : Graphic(bytes[k]) THEN {SubSeq(bytes, 1, n)} ELSE {}
  <1> DEFINE t == SubSeq(bytes, 1, n)
  <1>1. DOMAIN t = 1 .. n /\ \A k \in 1 .. n : t[k] = bytes[k] BY Prefix
  <1>2. Meaning(t) = IF \A k \in DOMAIN t : Graphic(t[k]) THEN {t} ELSE {}
    BY DEF Meaning, Graphic, backslash
  <1> HIDE DEF t
  <1>3. (\A k \in DOMAIN t : Graphic(t[k])) <=> \A k \in 1 .. n : Graphic(bytes[k]) BY <1>1
  <1> QED BY <1>2, <1>3 DEF t

\* The whole is a prefix.
LEMMA WholePrefix == ASSUME NEW s, Bytes(s) PROVE SubSeq(s, 1, Len(s)) = s
  BY SubSeqFull, Zenon DEF Bytes

\* For every input and profile: decode_string writes the UTF-8 of the one text the literal
\* denotes, without a zero byte the input did not have, and refuses only what denotes no text.
THEOREM DecodesText == Spec => []DecodesLiteral
  <1>1. Means => DecodesLiteral
    <2> SUFFICES ASSUME Means PROVE DecodesLiteral OBVIOUS
    <2>1. Bytes(bytes) /\ Bytes(out) /\ Len(bytes) \in Nat /\ (Clean(bytes) => Clean(out))
      BY BytesText DEF Means
    <2>2. SubSeq(bytes, 1, Len(bytes)) = bytes /\ Len(bytes) \in 0 .. Len(bytes)
      BY <2>1, WholePrefix
    <2>3. ASSUME code = "OK" PROVE Plain(out) = Meaning(bytes) /\ Meaning(bytes) # {}
      <3>1. CASE profile # "CONTRACT_ASCII"
        <4>1. Read(bytes, Len(bytes), out) BY <2>3, <3>1 DEF Means, Decoding
        <4>2. Plain(out) = Texts(bytes) /\ Texts(bytes) # {} BY <2>1, <4>1, ReadEnd
        <4> QED BY <3>1, <4>2 DEF Meaning
      <3>2. CASE profile = "CONTRACT_ASCII"
        <4>1. Copied(bytes, Len(bytes), out) BY <2>3, <3>2 DEF Means, Copying
        <4>2. out = bytes /\ Plain(out) = {out} BY <2>2, <4>1 DEF Copied, Spells
        <4>3. Meaning(bytes) = {bytes}
          <5>1. \A k \in 1 .. Len(bytes) : Graphic(bytes[k]) BY <4>1 DEF Copied
          <5>2. Meaning(SubSeq(bytes, 1, Len(bytes))) = {SubSeq(bytes, 1, Len(bytes))}
            BY <2>1, <2>2, <3>2, <5>1, MeaningOfPrefix
          <5> QED BY <2>2, <5>2
        <4> QED BY <4>2, <4>3
      <3> QED BY <3>1, <3>2
    <2>4. ASSUME \A i \in DOMAIN bytes : bytes[i] # 0, NEW i \in DOMAIN out PROVE out[i] # 0
      <3>1. DOMAIN bytes = 1 .. Len(bytes) /\ DOMAIN out = 1 .. Len(out)
        BY <2>1, LenProperties DEF Bytes
      <3> QED BY <2>1, <2>4, <3>1 DEF Clean
    <2>5. ASSUME Refused PROVE Meaning(bytes) = {}
      <3>1. CASE profile # "CONTRACT_ASCII"
        <4>1. Halted(bytes, bad_offset) BY <2>5, <3>1 DEF Means, Decoding
        <4>2. PICK f : Read(bytes, bad_offset, f) BY <4>1 DEF Halted
        <4>3. bad_offset \in 0 .. Len(bytes) BY <4>2 DEF Read, Reached
        <4>4. Len(bytes) \in bad_offset + 1 .. Len(bytes) BY <2>1, <4>1, <4>3 DEF Halted
        <4>5. Texts(SubSeq(bytes, 1, Len(bytes))) = {}
          BY <2>1, <4>1, <4>2, <4>4, ReadStop DEF Halted
        <4> QED BY <2>2, <3>1, <4>5 DEF Meaning
      <3>2. CASE profile = "CONTRACT_ASCII"
        <4>1. /\ input < Len(bytes) /\ ~Graphic(bytes[input + 1])
              /\ input \in 0 .. Len(bytes)
          BY <2>5, <3>2 DEF Means, Copying
        <4>2. input + 1 \in 1 .. Len(bytes) BY <2>1, <4>1
        <4>3. Meaning(SubSeq(bytes, 1, Len(bytes))) = {}
          BY <2>1, <2>2, <3>2, <4>1, <4>2, MeaningOfPrefix
        <4> QED BY <2>2, <4>3
      <3> QED BY <3>1, <3>2
    <2> QED BY <2>3, <2>4, <2>5 DEF DecodesLiteral, Refused
  <1> QED BY <1>1, InitMeans, StepMeans, PTL DEF Spec

\* For every input and profile: the offset decode_string reports with a refusal is that of
\* the first character or escape that cannot be read.
THEOREM RefusalIsPlaced == Spec => []BadOffsetIsFirst
  <1>1. Means => BadOffsetIsFirst
    <2> SUFFICES ASSUME Means, Refused
                 PROVE  /\ bad_offset < size
                        /\ Meaning(SubSeq(bytes, 1, bad_offset)) # {}
                        /\ \A n \in bad_offset + 1 .. size : Meaning(SubSeq(bytes, 1, n)) = {}
      BY DEF BadOffsetIsFirst, Refused
    <2>1. Bytes(bytes) /\ Len(bytes) \in Nat /\ input \in 0 .. Len(bytes) BY BytesText DEF Means
    <2>2. CASE profile # "CONTRACT_ASCII"
      <3>1. Halted(bytes, bad_offset) BY <2>2 DEF Means, Decoding
      <3>2. PICK f : Read(bytes, bad_offset, f) BY <3>1 DEF Halted
      <3>3. /\ Texts(SubSeq(bytes, 1, bad_offset)) # {}
            /\ \A n \in bad_offset + 1 .. Len(bytes) : Texts(SubSeq(bytes, 1, n)) = {}
        BY <2>1, <3>1, <3>2, ReadStop DEF Halted
      <3>4. bad_offset < Len(bytes) BY <3>1 DEF Halted
      <3> QED BY <2>2, <3>3, <3>4 DEF Meaning, size
    <2>3. CASE profile = "CONTRACT_ASCII"
      <3>1. /\ bad_offset = input /\ input < Len(bytes) /\ ~Graphic(bytes[input + 1])
            /\ \A k \in 1 .. input : Graphic(bytes[k])
        BY <2>3 DEF Means, Copying, Copied
      <3>2. Meaning(SubSeq(bytes, 1, input)) # {} BY <2>1, <2>3, <3>1, MeaningOfPrefix
      <3>3. ASSUME NEW n \in input + 1 .. Len(bytes)
            PROVE  Meaning(SubSeq(bytes, 1, n)) = {}
        <4>1. n \in 0 .. Len(bytes) /\ input + 1 \in 1 .. n BY <2>1
        <4> QED BY <2>1, <2>3, <3>1, <4>1, MeaningOfPrefix
      <3> QED BY <3>1, <3>2, <3>3 DEF size
    <2> QED BY <2>2, <2>3
  <1> QED BY <1>1, InitMeans, StepMeans, PTL DEF Spec
=============================================================================
