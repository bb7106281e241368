-------------------------- MODULE SerializerProofs --------------------------
(***************************************************************************)
(* The serializer for every tree, every combination of flags, every        *)
(* maximum_bytes and every allocation that may fail: what it writes fits   *)
(* its buffer, nothing leaks, and it stops short of the whole text only    *)
(* when the text is too long.                                              *)
(***************************************************************************)
EXTENDS Serializer, FiniteSetTheorems, SequenceTheorems, TLAPS

-----------------------------------------------------------------------------
(* Recursive functions.  A measure that goes down with every call makes the *)
(* defining equation have one solution.                                     *)

\* A nonempty set of numbers has a least one.
LEMMA LeastNumber ==
  ASSUME NEW S \in SUBSET Nat, S # {}
  PROVE  \E d \in S : \A e \in S : d <= e
  <1> PICK m \in S : TRUE OBVIOUS
  <1> DEFINE T == {0 .. d : d \in {x \in S : x <= m}}
             W == FiniteSubsetsOf(0 .. m)
             R == StrictSubsetOrdering(0 .. m)
  <1>1. T \subseteq W
    <2> SUFFICES ASSUME NEW d \in S, d <= m PROVE 0 .. d \in W OBVIOUS
    <2>1. IsFiniteSet(0 .. d) BY FS_Interval
    <2> QED BY <2>1 DEF FiniteSubsetsOf
  <1>2. T # {} OBVIOUS
  <1>3. IsWellFoundedOn(R, W) BY FS_StrictSubsetOrderingWellFounded
  <1> HIDE DEF W, R
  <1>4. PICK I \in T : \A J \in T : ~ (<<J, I>> \in R) BY <1>1, <1>2, <1>3, WFMin
  <1>5. PICK d \in S : d <= m /\ I = 0 .. d OBVIOUS
  <1>6. \A e \in S : d <= e
    <2> SUFFICES ASSUME NEW e \in S, e < d PROVE FALSE OBVIOUS
    <2>1. 0 .. e \in T BY <1>5
    <2>2. (0 .. e) \subseteq (0 .. d) /\ d \in 0 .. d /\ d \notin 0 .. e OBVIOUS
    <2>3. (0 .. d) \subseteq 0 .. m BY <1>5
    <2>4. <<0 .. e, 0 .. d>> \in R BY <2>2, <2>3 DEF R, StrictSubsetOrdering
    <2> QED BY <1>4, <1>5, <2>1, <2>4
  <1> QED BY <1>6

\* A set that contains what everything smaller being in it puts there is everything.
LEMMA MeasureInduction ==
  ASSUME NEW D, NEW m \in [D -> Nat], NEW T,
         \A d \in D : (\A e \in D : m[e] < m[d] => e \in T) => d \in T
  PROVE  \A d \in D : d \in T
  <1> SUFFICES ASSUME NEW c \in D, c \notin T PROVE FALSE OBVIOUS
  <1> DEFINE S == {m[d] : d \in {x \in D : x \notin T}}
  <1>1. S \in SUBSET Nat /\ S # {} OBVIOUS
  <1>2. PICK n \in S : \A k \in S : n <= k BY <1>1, LeastNumber
  <1>3. PICK d \in D : d \notin T /\ n = m[d] BY <1>2
  <1>4. \A e \in D : m[e] < m[d] => e \in T
    <2> SUFFICES ASSUME NEW e \in D, m[e] < m[d], e \notin T PROVE FALSE OBVIOUS
    <2>1. m[e] \in S OBVIOUS
    <2>2. n <= m[e] BY <1>2, <2>1
    <2>3. m[e] \in Nat /\ m[d] \in Nat OBVIOUS
    <2> QED BY <1>3, <2>2, <2>3
  <1> QED BY <1>3, <1>4

\* f and g agree where they agree on everything smaller.
Determined(D, m, f, g) ==
  /\ m \in [D -> Nat]
  /\ \A d \in D : (\A e \in D : m[e] < m[d] => f[e] = g[e]) => f[d] = g[d]

\* Two solutions of the same equation agree.
LEMMA RecursionUnique ==
  ASSUME NEW D, NEW m, NEW f, NEW g, Determined(D, m, f, g)
  PROVE  \A d \in D : f[d] = g[d]
  <1> DEFINE T == {d \in D : f[d] = g[d]}
  <1>1. \A d \in D : (\A e \in D : m[e] < m[d] => e \in T) => d \in T BY DEF Determined
  <1>2. m \in [D -> Nat] BY DEF Determined
  <1> HIDE DEF T
  <1>3. \A d \in D : d \in T BY <1>1, <1>2, MeasureInduction
  <1> QED BY <1>3 DEF T

\* G gives each value from smaller ones.
Recursion(D, V, m, G) ==
  /\ V # {} /\ m \in [D -> Nat] /\ G \in [[D -> V] -> [D -> V]]
  /\ \A g, h \in [D -> V] : \A d \in D :
       (\A e \in D : m[e] < m[d] => g[e] = h[e]) => G[g][d] = G[h][d]

\* Such an equation has a solution.
LEMMA RecursionExists ==
  ASSUME NEW D, NEW V, NEW m, NEW G, Recursion(D, V, m, G)
  PROVE  \E g \in [D -> V] : g = G[g]
  <1> USE DEF Recursion
  <1> DEFINE Upto(n, g) == \A d \in D : m[d] < n => g[d] = G[g][d]
             S == {n \in Nat : \A g \in [D -> V] : ~Upto(n, g)}
  <1>1. S = {}
    <2> SUFFICES ASSUME S # {} PROVE FALSE OBVIOUS
    <2>1. S \in SUBSET Nat OBVIOUS
    <2>2. PICK n \in S : \A k \in S : n <= k BY <2>1, LeastNumber
    <2>3. CASE n = 0
      <3>1. PICK v \in V : TRUE OBVIOUS
      <3>2. [d \in D |-> v] \in [D -> V] OBVIOUS
      <3>3. Upto(0, [d \in D |-> v]) OBVIOUS
      <3> QED BY <2>2, <2>3, <3>2, <3>3
    <2>4. CASE n # 0
      <3>1. n - 1 \in Nat /\ n - 1 \notin S BY <2>2, <2>4
      <3>2. PICK g \in [D -> V] : Upto(n - 1, g) BY <3>1
      <3>3. G[g] \in [D -> V] OBVIOUS
      <3>4. ASSUME NEW d \in D, m[d] < n PROVE G[g][d] = G[G[g]][d]
        <4>1. \A e \in D : m[e] < m[d] => g[e] = G[g][e]
          <5> SUFFICES ASSUME NEW e \in D, m[e] < m[d] PROVE g[e] = G[g][e] OBVIOUS
          <5>1. m[e] \in Nat /\ m[d] \in Nat /\ n \in Nat OBVIOUS
          <5>2. m[e] < n - 1 BY <3>4, <5>1
          <5> QED BY <3>2, <5>2
        <4> QED BY <3>3, <4>1
      <3>5. Upto(n, G[g]) BY <3>4
      <3> QED BY <3>3, <3>5
    <2> QED BY <2>3, <2>4
  <1>2. ASSUME NEW n \in Nat PROVE \E g \in [D -> V] : Upto(n, g)
    <2>1. n \notin S BY <1>1
    <2> HIDE DEF Upto
    <2> QED BY <2>1
  <1> DEFINE s == [n \in Nat |-> CHOOSE g \in [D -> V] : Upto(n, g)]
             r == [d \in D |-> s[m[d] + 1][d]]
  <1>3. ASSUME NEW n \in Nat PROVE s[n] \in [D -> V] /\ Upto(n, s[n])
    <2>1. s[n] = CHOOSE g \in [D -> V] : Upto(n, g) OBVIOUS
    <2>2. \E g \in [D -> V] : Upto(n, g) BY <1>2
    <2> HIDE DEF Upto, s
    <2> QED BY <2>1, <2>2
  <1> HIDE DEF S, s
  <1>4. r \in [D -> V] BY <1>3
  <1>5. ASSUME NEW n \in Nat, NEW k \in Nat
        PROVE  \A d \in D : m[d] < n /\ m[d] < k => s[n][d] = s[k][d]
    <2> DEFINE T == {d \in D : m[d] < n /\ m[d] < k => s[n][d] = s[k][d]}
    <2>1. ASSUME NEW d \in D, \A e \in D : m[e] < m[d] => e \in T PROVE d \in T
      <3> SUFFICES ASSUME m[d] < n, m[d] < k PROVE s[n][d] = s[k][d] OBVIOUS
      <3>1. \A e \in D : m[e] < m[d] => s[n][e] = s[k][e]
        <4> SUFFICES ASSUME NEW e \in D, m[e] < m[d] PROVE s[n][e] = s[k][e] OBVIOUS
        <4>1. m[e] \in Nat /\ m[d] \in Nat /\ e \in T BY <2>1
        <4>2. m[e] < n /\ m[e] < k BY <4>1
        <4> QED BY <4>1, <4>2
      <3>2. G[s[n]][d] = G[s[k]][d] BY <1>3, <3>1
      <3>3. s[n][d] = G[s[n]][d] /\ s[k][d] = G[s[k]][d] BY <1>3
      <3> QED BY <3>2, <3>3
    <2> HIDE DEF T
    <2>2. \A d \in D : d \in T BY <2>1, MeasureInduction
    <2> QED BY <2>2 DEF T
  <1>6. ASSUME NEW d \in D PROVE r[d] = G[r][d]
    <2> DEFINE n == m[d] + 1
    <2>1. n \in Nat /\ m[d] < n /\ m[d] \in Nat OBVIOUS
    <2>2. \A e \in D : m[e] < m[d] => s[n][e] = r[e]
      <3> SUFFICES ASSUME NEW e \in D, m[e] < m[d] PROVE s[n][e] = r[e] OBVIOUS
      <3>1. m[e] \in Nat /\ m[e] < n /\ m[e] < m[e] + 1 /\ m[e] + 1 \in Nat BY <2>1
      <3> HIDE DEF n
      <3>2. s[n][e] = s[m[e] + 1][e] BY <1>5, <2>1, <3>1
      <3> QED BY <3>2
    <2>3. r[d] = s[n][d] OBVIOUS
    <2> HIDE DEF n
    <2>4. s[n] \in [D -> V] /\ s[n][d] = G[s[n]][d] BY <1>3, <2>1
    <2> HIDE DEF r
    <2>5. G[s[n]][d] = G[r][d] BY <1>4, <2>2, <2>4
    <2> QED BY <2>3, <2>4, <2>5
  <1> HIDE DEF r
  <1>7. r = G[r] BY <1>4, <1>6
  <1> QED BY <1>4, <1>7

-----------------------------------------------------------------------------
(* Loops that join sequences.                                               *)

\* u[i] is what a loop has put together after i pieces.
Looped(n, p, u) == u = [i \in 0 .. n |-> IF i = 0 THEN <<>> ELSE u[i - 1] \o p[i]]

\* What the equation says of each round.
LEMMA LoopRounds ==
  ASSUME NEW n \in Nat, NEW p, NEW u, Looped(n, p, u)
  PROVE  u[0] = <<>> /\ \A i \in 1 .. n : u[i] = u[i - 1] \o p[i]
  BY DEF Looped

\* The pieces are sequences over C.
Sequences(n, C, p) == p \in [1 .. n -> Seq(C)]

\* Such a loop has a result.
LEMMA LoopExists ==
  ASSUME NEW n \in Nat, NEW C, NEW p, Sequences(n, C, p)
  PROVE  \E u : u \in [0 .. n -> Seq(C)] /\ Looped(n, p, u)
  <1> DEFINE D == 0 .. n
             V == Seq(C)
             m == [i \in D |-> i]
             G == [g \in [D -> V] |-> [i \in D |-> IF i = 0 THEN <<>> ELSE g[i - 1] \o p[i]]]
  <1>1. m \in [D -> Nat] /\ V # {}
    <2>1. <<>> \in V OBVIOUS
    <2> HIDE DEF V
    <2>2. V # {} BY <2>1
    <2> QED BY <2>2
  <1>2. ASSUME NEW g \in [D -> V], NEW i \in D
        PROVE  (IF i = 0 THEN <<>> ELSE g[i - 1] \o p[i]) \in V
    <2>1. CASE i = 0 BY <2>1
    <2>2. CASE i # 0
      <3>1. i - 1 \in D /\ i \in 1 .. n BY <2>2
      <3>2. g[i - 1] \in Seq(C) /\ p[i] \in Seq(C) BY <3>1 DEF Sequences
      <3> QED BY <2>2, <3>2
    <2> QED BY <2>1, <2>2
  <1>3. G \in [[D -> V] -> [D -> V]] BY <1>2
  <1>4. ASSUME NEW g \in [D -> V], NEW h \in [D -> V], NEW d \in D,
               \A e \in D : m[e] < m[d] => g[e] = h[e]
        PROVE  G[g][d] = G[h][d]
    <2>1. d # 0 => d - 1 \in D /\ m[d - 1] < m[d] OBVIOUS
    <2>2. d # 0 => g[d - 1] = h[d - 1] BY <1>4, <2>1
    <2> QED BY <2>2
  <1>5. \E g \in [D -> V] : g = G[g]
    <2> HIDE DEF G, D, V, m
    <2>1. Recursion(D, V, m, G) BY <1>1, <1>3, <1>4 DEF Recursion
    <2> QED BY <2>1, RecursionExists
  <1>6. PICK g \in [D -> V] : g = G[g] BY <1>5
  <1>7. Looped(n, p, g) BY <1>6 DEF Looped
  <1> QED BY <1>7

\* And only one.
LEMMA LoopPrefix ==
  ASSUME NEW n \in Nat, NEW k \in Nat, k <= n, NEW p, NEW q, NEW u, NEW w,
         Looped(n, p, u), Looped(k, q, w), \A i \in 1 .. k : p[i] = q[i]
  PROVE  \A i \in 0 .. k : u[i] = w[i]
  <1> DEFINE D == 0 .. k
             m == [i \in D |-> i]
  <1>1. u[0] = <<>> /\ \A i \in 1 .. n : u[i] = u[i - 1] \o p[i] BY LoopRounds
  <1>2. w[0] = <<>> /\ \A i \in 1 .. k : w[i] = w[i - 1] \o q[i] BY LoopRounds
  <1>3. ASSUME NEW d \in D, \A e \in D : m[e] < m[d] => u[e] = w[e] PROVE u[d] = w[d]
    <2>1. CASE d = 0 BY <1>1, <1>2, <2>1
    <2>2. CASE d # 0
      <3>1. d - 1 \in D /\ m[d - 1] < m[d] /\ d \in 1 .. k /\ d \in 1 .. n BY <2>2
      <3>2. u[d - 1] = w[d - 1] BY <1>3, <3>1
      <3> QED BY <1>1, <1>2, <3>1, <3>2
    <2> QED BY <2>1, <2>2
  <1>4. m \in [D -> Nat] OBVIOUS
  <1> HIDE DEF m, D
  <1>5. Determined(D, m, u, w) BY <1>3, <1>4 DEF Determined
  <1>6. \A d \in D : u[d] = w[d] BY <1>5, RecursionUnique
  <1> QED BY <1>6 DEF D

\* Its type is that of its pieces.
LEMMA LoopTyped ==
  ASSUME NEW n \in Nat, NEW C, NEW p, Sequences(n, C, p), NEW u, Looped(n, p, u)
  PROVE  \A i \in 0 .. n : u[i] \in Seq(C)
  <1>1. PICK w : w \in [0 .. n -> Seq(C)] /\ Looped(n, p, w) BY LoopExists
  <1>2. \A i \in 0 .. n : u[i] = w[i]
    <2>1. n <= n /\ Looped(n, p, w) /\ \A i \in 1 .. n : p[i] = p[i] BY <1>1
    <2> QED BY <2>1, LoopPrefix
  <1> QED BY <1>1, <1>2

\* A sequence of sequences over C.
Pieces(C, p) == p \in Seq(Seq(C))

\* Joined is such a loop.
LEMMA JoinedIsLoop ==
  ASSUME NEW C, NEW p, Pieces(C, p)
  PROVE  /\ Sequences(Len(p), C, p) /\ Len(p) \in Nat
         /\ \E u : Looped(Len(p), p, u) /\ Joined(p) = u[Len(p)]
  <1>1. Sequences(Len(p), C, p) /\ Len(p) \in Nat BY DEF Sequences, Pieces
  <1>2. \E u : Looped(Len(p), p, u) BY <1>1, LoopExists
  <1> QED BY <1>1, <1>2 DEF Joined, Looped

\* The elements are those of the pieces.
LEMMA JoinedTyped ==
  ASSUME NEW C, NEW p, Pieces(C, p)
  PROVE  Joined(p) \in Seq(C)
  <1>1. PICK u : Looped(Len(p), p, u) /\ Joined(p) = u[Len(p)] BY JoinedIsLoop
  <1>2. Sequences(Len(p), C, p) /\ Len(p) \in Nat BY JoinedIsLoop
  <1>3. \A i \in 0 .. Len(p) : u[i] \in Seq(C) BY <1>1, <1>2, LoopTyped
  <1> QED BY <1>1, <1>2, <1>3

\* Going on where another loop has ended.
LEMMA LoopSuffix ==
  ASSUME NEW C, NEW n \in Nat, NEW k \in Nat, NEW s, s \in Seq(C), NEW r, NEW q, NEW x, NEW w,
         Sequences(k, C, q), Looped(n + k, r, x), Looped(k, q, w),
         x[n] = s, \A i \in 1 .. k : r[n + i] = q[i]
  PROVE  x[n + k] = s \o w[k]
  <1> DEFINE D == 0 .. k
             m == [i \in D |-> i]
             f == [i \in D |-> x[n + i]]
             g == [i \in D |-> s \o w[i]]
  <1>1. \A i \in 1 .. n + k : x[i] = x[i - 1] \o r[i]
    <2>1. n + k \in Nat OBVIOUS
    <2> QED BY <2>1, LoopRounds
  <1>2. w[0] = <<>> /\ \A i \in 1 .. k : w[i] = w[i - 1] \o q[i] BY LoopRounds
  <1>3. \A i \in 0 .. k : w[i] \in Seq(C) BY LoopTyped
  <1>4. ASSUME NEW d \in D, \A e \in D : m[e] < m[d] => f[e] = g[e] PROVE f[d] = g[d]
    <2>1. CASE d = 0
      <3>1. s \o <<>> = s BY ConcatEmptySeq
      <3>2. n + 0 = n OBVIOUS
      <3>3. f[0] = x[n + 0] /\ g[0] = s \o w[0] OBVIOUS
      <3> QED BY <1>2, <2>1, <3>1, <3>2, <3>3
    <2>2. CASE d # 0
      <3>1. /\ d - 1 \in D /\ m[d - 1] < m[d] /\ d \in 1 .. k /\ n + d \in 1 .. n + k
            /\ (n + d) - 1 = n + (d - 1)
        BY <2>2
      <3>2. f[d - 1] = g[d - 1] BY <1>4, <3>1
      <3>3. x[n + (d - 1)] = s \o w[d - 1] BY <3>1, <3>2
      <3>4. x[n + d] = (s \o w[d - 1]) \o q[d]
        <4>1. x[n + d] = x[(n + d) - 1] \o r[n + d] BY <1>1, <3>1
        <4>2. r[n + d] = q[d] BY <3>1
        <4> QED BY <3>1, <3>3, <4>1, <4>2
      <3>5. w[d - 1] \in Seq(C) /\ q[d] \in Seq(C) BY <1>3, <3>1 DEF Sequences
      <3>6. (s \o w[d - 1]) \o q[d] = s \o (w[d - 1] \o q[d])
        <4> DEFINE a == w[d - 1]
                   b == q[d]
        <4>1. a \in Seq(C) /\ b \in Seq(C) BY <3>5
        <4> HIDE DEF a, b
        <4>2. (s \o a) \o b = s \o (a \o b) BY <4>1, ConcatAssociative
        <4> QED BY <4>2 DEF a, b
      <3>7. w[d] = w[d - 1] \o q[d] BY <1>2, <3>1
      <3>8. f[d] = x[n + d] /\ g[d] = s \o w[d] OBVIOUS
      <3> QED BY <3>4, <3>6, <3>7, <3>8
    <2> QED BY <2>1, <2>2
  <1>5. m \in [D -> Nat] OBVIOUS
  <1>6. \A d \in D : f[d] = g[d]
    <2> HIDE DEF m, D, f, g
    <2>1. Determined(D, m, f, g) BY <1>4, <1>5 DEF Determined
    <2> QED BY <2>1, RecursionUnique
  <1>7. k \in D OBVIOUS
  <1> QED BY <1>6, <1>7

\* Joining pieces, then more pieces.
LEMMA JoinedConcat ==
  ASSUME NEW C, NEW p, NEW q, Pieces(C, p), Pieces(C, q)
  PROVE  Joined(p \o q) = Joined(p) \o Joined(q)
  <1> DEFINE r == p \o q
             n == Len(p)
             k == Len(q)
  <1>1. Pieces(C, r) /\ Len(r) = n + k /\ n \in Nat /\ k \in Nat BY DEF Pieces
  <1>2. \A i \in 1 .. n : r[i] = p[i] BY DEF Pieces
  <1>3. \A i \in 1 .. k : r[n + i] = q[i] BY DEF Pieces
  <1>4. PICK u : Looped(n, p, u) /\ Joined(p) = u[n] BY JoinedIsLoop
  <1>5. PICK w : Looped(k, q, w) /\ Joined(q) = w[k] BY JoinedIsLoop
  <1> HIDE DEF r
  <1>6. PICK x : Looped(n + k, r, x) /\ Joined(r) = x[n + k] BY <1>1, JoinedIsLoop
  <1>7. Joined(p) \in Seq(C) /\ Sequences(k, C, q) BY JoinedTyped, JoinedIsLoop
  <1> HIDE DEF n, k
  <1>8. x[n] = u[n]
    <2>1. n + k \in Nat /\ n <= n + k /\ n \in 0 .. n BY <1>1
    <2> QED BY <1>1, <1>2, <1>4, <1>6, <2>1, LoopPrefix
  <1>9. x[n + k] = Joined(p) \o w[k]
    <2> DEFINE s == Joined(p)
    <2>1. x[n] = s /\ s \in Seq(C) BY <1>4, <1>7, <1>8
    <2> HIDE DEF s
    <2>2. Sequences(k, C, q) /\ Looped(n + k, r, x) /\ Looped(k, q, w) BY <1>5, <1>6, <1>7
    <2>3. x[n + k] = s \o w[k] BY <1>1, <1>3, <2>1, <2>2, LoopSuffix
    <2> QED BY <2>3 DEF s
  <1> QED BY <1>5, <1>6, <1>9 DEF r

\* A loop of one round.
LEMMA LoopOnce ==
  ASSUME NEW p, NEW u, Looped(1, p, u)
  PROVE  u[1] = <<>> \o p[1]
  <1> DEFINE n == 1
  <1>1. n \in Nat /\ Looped(n, p, u) /\ n \in 1 .. n /\ n - 1 = 0 OBVIOUS
  <1> HIDE DEF n
  <1>2. u[0] = <<>> /\ \A i \in 1 .. n : u[i] = u[i - 1] \o p[i] BY <1>1, LoopRounds
  <1>3. u[n] = u[n - 1] \o p[n] BY <1>1, <1>2
  <1>4. u[n] = <<>> \o p[n] BY <1>1, <1>2, <1>3
  <1> QED BY <1>4 DEF n

\* One piece, and none.
LEMMA JoinedOne ==
  ASSUME NEW C, NEW s, s \in Seq(C)
  PROVE  Pieces(C, <<s>>) /\ Pieces(C, <<>>) /\ Joined(<<s>>) = s /\ Joined(<<>>) = <<>>
  <1> DEFINE p == <<s>>
  <1>1. Pieces(C, p) /\ Len(p) = 1 /\ p[1] = s BY DEF Pieces
  <1> HIDE DEF p
  <1>2. PICK u : Looped(1, p, u) /\ Joined(p) = u[1] BY <1>1, JoinedIsLoop
  <1>3. u[1] = <<>> \o p[1] BY <1>2, LoopOnce
  <1>4. Joined(p) = s BY <1>1, <1>2, <1>3
  <1> DEFINE e == <<>>
  <1>5. Pieces(C, e) /\ Len(e) = 0 BY DEF Pieces
  <1> HIDE DEF e
  <1>6. PICK w : Looped(0, e, w) /\ Joined(e) = w[0] BY <1>5, JoinedIsLoop
  <1>7. w[0] = <<>> BY <1>6, LoopRounds
  <1> QED BY <1>1, <1>4, <1>5, <1>6, <1>7 DEF p, e

-----------------------------------------------------------------------------
(* Text.                                                                    *)

\* Positions at which the characters of valid text begin, and its end.
Boundaries(s, B) ==
  /\ 1 \in B
  /\ \A i \in B : /\ i \in 1 .. Len(s) + 1
                  /\ i <= Len(s) => /\ sequence_size(s, i) # 0
                                    /\ i + sequence_size(s, i) \in B

\* The elements of a text are bytes.
LEMMA TextByte ==
  ASSUME NEW s \in Seq(Byte), NEW i \in 1 .. Len(s)
  PROVE  s[i] \in Byte /\ s[i] \in Nat /\ s[i] <= 255
  <1>1. s[i] \in Byte BY ElementOfSeq
  <1>2. \A b \in Byte : b \in Nat /\ b <= 255 BY DEF Byte
  <1> QED BY <1>1, <1>2, Zenon

\* A sequence of UTF-8 has one to four bytes, all of them inside the text.
LEMMA SequenceSize ==
  ASSUME NEW s \in Seq(Byte), NEW i \in 1 .. Len(s)
  PROVE  sequence_size(s, i) \in 0 .. 4 /\ i + sequence_size(s, i) \in 1 .. Len(s) + 1
  <1> DEFINE a == s[i]
             rest(n) == i + n <= Len(s) /\ \A k \in 1 .. n : continuation(s[i + k])
             two == a \in 194 .. 223 /\ rest(1)
             three == /\ a \in 224 .. 239 /\ rest(2) /\ ~(a = 224 /\ s[i + 1] < 160)
                      /\ ~(a = 237 /\ s[i + 1] >= 160)
             four == /\ a \in 240 .. 244 /\ rest(3) /\ ~(a = 240 /\ s[i + 1] < 144)
                     /\ ~(a = 244 /\ s[i + 1] >= 144)
  <1>2. (two => i + 1 <= Len(s)) /\ (three => i + 2 <= Len(s)) /\ (four => i + 3 <= Len(s))
    OBVIOUS
  <1>3. sequence_size(s, i) = CASE a <= 127 -> 1 [] two -> 2 [] three -> 3 [] four -> 4
                                [] OTHER -> 0
    BY DEF sequence_size
  <1>4. (two => a \in 194 .. 223) /\ (three => a \in 224 .. 239) /\ (four => a \in 240 .. 244)
    BY Zenon
  <1>4a. a \in Nat BY TextByte, Zenon
  <1> HIDE DEF two, three, four, a
  <1>5. \/ sequence_size(s, i) \in {0, 1}
        \/ (two /\ sequence_size(s, i) = 2)
        \/ (three /\ sequence_size(s, i) = 3)
        \/ (four /\ sequence_size(s, i) = 4)
    BY <1>3, <1>4, <1>4a
  <1>6. i \in Nat /\ Len(s) \in Nat /\ i >= 1 /\ i <= Len(s) OBVIOUS
  <1>7. CASE sequence_size(s, i) \in {0, 1} BY <1>6, <1>7
  <1>8. CASE two /\ sequence_size(s, i) = 2 BY <1>2, <1>6, <1>8
  <1>9. CASE three /\ sequence_size(s, i) = 3 BY <1>2, <1>6, <1>9
  <1>10. CASE four /\ sequence_size(s, i) = 4 BY <1>2, <1>6, <1>10
  <1> QED BY <1>5, <1>7, <1>8, <1>9, <1>10

\* Valid text is made of characters.
LEMMA TextHasBoundaries ==
  ASSUME NEW s, IsText(s)
  PROVE  \E B : Boundaries(s, B)
  <1> DEFINE n == Len(s)
             D == 1 .. n + 1
             V == 0 .. n
             m == [i \in D |-> n + 1 - i]
             z == [i \in D |-> sequence_size(s, i)]
             G == [g \in [D -> V] |-> [i \in D |->
                     IF i > n THEN n ELSE IF z[i] = 0 THEN i - 1 ELSE g[i + z[i]]]]
  <1>1. n \in Nat /\ n \in V
    <2>1. n \in Nat BY LenProperties DEF IsText
    <2> HIDE DEF n
    <2> QED BY <2>1
  <1>2. ASSUME NEW i \in 1 .. n PROVE z[i] \in 0 .. 4 /\ i + z[i] \in D
    <2>1. sequence_size(s, i) \in 0 .. 4 /\ i + sequence_size(s, i) \in 1 .. Len(s) + 1
      BY SequenceSize DEF IsText
    <2>2. i \in D BY <1>1
    <2> QED BY <2>1, <2>2
  <1> HIDE DEF n, z
  <1>3. m \in [D -> Nat] /\ V # {} BY <1>1
  <1>4. G \in [[D -> V] -> [D -> V]]
    <2> SUFFICES ASSUME NEW g \in [D -> V], NEW i \in D
                 PROVE  (IF i > n THEN n ELSE IF z[i] = 0 THEN i - 1 ELSE g[i + z[i]]) \in V
      OBVIOUS
    <2>1. CASE i > n BY <1>1, <2>1
    <2>2. CASE ~(i > n)
      <3>1. i \in 1 .. n BY <1>1, <2>2
      <3>2. i + z[i] \in D BY <1>2, <3>1
      <3>3. g[i + z[i]] \in V BY <3>2
      <3>4. i - 1 \in V BY <1>1, <3>1
      <3> HIDE DEF V, D
      <3> QED BY <2>2, <3>3, <3>4
    <2> QED BY <2>1, <2>2
  <1>5. ASSUME NEW g \in [D -> V], NEW h \in [D -> V], NEW d \in D,
               \A e \in D : m[e] < m[d] => g[e] = h[e]
        PROVE  G[g][d] = G[h][d]
    <2>1. CASE d > n \/ z[d] = 0 BY <2>1
    <2>2. CASE ~(d > n \/ z[d] = 0)
      <3>1. d \in 1 .. n /\ z[d] \in 0 .. 4 /\ d + z[d] \in D BY <1>1, <1>2, <2>2
      <3>2. m[d + z[d]] < m[d]
        <4>1. m[d + z[d]] = n + 1 - (d + z[d]) /\ m[d] = n + 1 - d BY <3>1
        <4>2. z[d] \in Nat /\ z[d] > 0 /\ d \in Nat BY <2>2, <3>1
        <4> HIDE DEF m, D, V, G
        <4> QED BY <1>1, <4>1, <4>2
      <3>3. g[d + z[d]] = h[d + z[d]] BY <1>5, <3>1, <3>2
      <3>4. ASSUME NEW f \in [D -> V] PROVE G[f][d] = f[d + z[d]]
        <4> HIDE DEF D, V
        <4> QED BY <2>2
      <3> HIDE DEF G
      <3> QED BY <3>3, <3>4
    <2> QED BY <2>1, <2>2
  <1>6. \E g \in [D -> V] : g = G[g]
    <2> HIDE DEF G, D, V, m
    <2>1. Recursion(D, V, m, G) BY <1>3, <1>4, <1>5 DEF Recursion
    <2> QED BY <2>1, RecursionExists
  <1> DEFINE E(f) == f = [i \in 1 .. Len(s) + 1 |->
                            IF i > Len(s) THEN Len(s)
                            ELSE LET k == sequence_size(s, i)
                                 IN  IF k = 0 THEN i - 1 ELSE f[i + k]]
             F == CHOOSE f : E(f)
  <1>7. E(F)
    <2>1. PICK g \in [D -> V] : g = G[g] BY <1>6
    <2>2. g = [i \in D |-> IF i > n THEN n ELSE IF z[i] = 0 THEN i - 1 ELSE g[i + z[i]]]
      BY <2>1
    <2>3. E(g) BY <2>2 DEF n, z
    <2> HIDE DEF E
    <2> QED BY <2>3
  <1>8. F[1] = Len(s) BY DEF IsText, utf8_valid_prefix
  <1>9. \A i \in D : F[i] = IF i > n THEN n ELSE IF z[i] = 0 THEN i - 1 ELSE F[i + z[i]]
    BY <1>7 DEF n, z
  <1> HIDE DEF F, E
  <1> DEFINE B == {i \in D : F[i] = n}
  <1>10. 1 \in B BY <1>1, <1>8 DEF n
  <1>11. ASSUME NEW i \in B, i <= n PROVE z[i] # 0 /\ i + z[i] \in B
    <2>1. i \in 1 .. n /\ ~(i > n) BY <1>1, <1>11
    <2>2. F[i] = n BY <1>11
    <2>3. z[i] # 0 BY <1>1, <1>9, <2>1, <2>2
    <2> QED BY <1>2, <1>9, <2>1, <2>2, <2>3
  <1>12. Boundaries(s, B)
    <2>1. \A i \in B : i \in 1 .. Len(s) + 1 BY DEF n
    <2>2. \A i \in B : i <= Len(s) => sequence_size(s, i) # 0 /\ i + sequence_size(s, i) \in B
      BY <1>11 DEF n, z
    <2> HIDE DEF B
    <2> QED BY <1>10, <2>1, <2>2 DEF Boundaries
  <1> QED BY <1>12

\* A loop that takes step[i] at i and goes on at next[i].
Hopped(n, step, next, g) ==
  g = [i \in 1 .. n + 4 |-> IF i > n THEN <<>> ELSE step[i] \o g[next[i]]]

Hops(n, next) == \A i \in 1 .. n : next[i] \in i + 1 .. n + 4

\* Such a loop has a result.
LEMMA HopsExist ==
  ASSUME NEW n \in Nat, NEW C, NEW step, NEW next, Sequences(n, C, step), Hops(n, next)
  PROVE  \E g : Hopped(n, step, next, g)
  <1> DEFINE D == 1 .. n + 4
             V == Seq(C)
             m == [i \in D |-> n + 4 - i]
             G == [g \in [D -> V] |-> [i \in D |-> IF i > n THEN <<>> ELSE step[i] \o g[next[i]]]]
  <1>1. m \in [D -> Nat] /\ V # {}
    <2>1. <<>> \in V OBVIOUS
    <2> HIDE DEF V
    <2>2. V # {} BY <2>1
    <2> QED BY <2>2
  <1>2. ASSUME NEW i \in D, ~(i > n)
        PROVE  i \in 1 .. n /\ next[i] \in D /\ next[i] > i /\ step[i] \in V
    <2>1. i \in 1 .. n BY <1>2
    <2>2. next[i] \in i + 1 .. n + 4 BY <2>1 DEF Hops
    <2>3. step[i] \in V BY <2>1 DEF Sequences
    <2> HIDE DEF V
    <2> QED BY <2>1, <2>2, <2>3
  <1>3. ASSUME NEW g \in [D -> V], NEW i \in D
        PROVE  (IF i > n THEN <<>> ELSE step[i] \o g[next[i]]) \in V
    <2>1. CASE i > n BY <2>1
    <2>2. CASE ~(i > n)
      <3>1. next[i] \in D /\ step[i] \in V BY <1>2, <2>2
      <3>2. g[next[i]] \in V
        <4> HIDE DEF V, D
        <4> QED BY <3>1
      <3> QED BY <2>2, <3>1, <3>2
    <2> QED BY <2>1, <2>2
  <1>4. G \in [[D -> V] -> [D -> V]] BY <1>3
  <1>5. ASSUME NEW g \in [D -> V], NEW h \in [D -> V], NEW d \in D,
               \A e \in D : m[e] < m[d] => g[e] = h[e]
        PROVE  G[g][d] = G[h][d]
    <2> HIDE DEF V
    <2>1. CASE d > n BY <2>1
    <2>2. CASE ~(d > n)
      <3>1. next[d] \in D /\ next[d] > d BY <1>2, <2>2
      <3>2. m[next[d]] < m[d] BY <3>1
      <3>3. g[next[d]] = h[next[d]] BY <1>5, <3>1, <3>2
      <3> QED BY <2>2, <3>3
    <2> QED BY <2>1, <2>2
  <1>6. \E g \in [D -> V] : g = G[g]
    <2> HIDE DEF G, D, V, m
    <2>1. Recursion(D, V, m, G) BY <1>1, <1>4, <1>5 DEF Recursion
    <2> QED BY <2>1, RecursionExists
  <1>7. PICK g \in [D -> V] : g = G[g] BY <1>6
  <1>8. Hopped(n, step, next, g) BY <1>7 DEF Hopped
  <1> QED BY <1>8

\* From a position of B the steps are made of C and lead to B.
Closed(n, step, next, B, C) ==
  \A i \in B : i \in 1 .. n + 4 /\ (i <= n => step[i] \in Seq(C) /\ next[i] \in B)

\* Then the result is made of C.
LEMMA HopsTyped ==
  ASSUME NEW n \in Nat, NEW step, NEW next, NEW g, Hopped(n, step, next, g), Hops(n, next),
         NEW B, NEW C, Closed(n, step, next, B, C)
  PROVE  \A i \in B : g[i] \in Seq(C)
  <1> DEFINE D == 1 .. n + 4
             m == [i \in D |-> n + 4 - i]
             T == {d \in D : d \in B => g[d] \in Seq(C)}
  <1>1. m \in [D -> Nat] OBVIOUS
  <1>2. \A i \in D : g[i] = IF i > n THEN <<>> ELSE step[i] \o g[next[i]] BY DEF Hopped
  <1>3. ASSUME NEW d \in D, \A e \in D : m[e] < m[d] => e \in T PROVE d \in T
    <2> SUFFICES ASSUME d \in B PROVE g[d] \in Seq(C) OBVIOUS
    <2>1. CASE d > n
      <3>1. g[d] = <<>> BY <1>2, <2>1
      <3> QED BY <3>1, EmptySeq
    <2>2. CASE ~(d > n)
      <3>1. step[d] \in Seq(C) /\ next[d] \in B BY <2>2 DEF Closed
      <3>2. next[d] \in d + 1 .. n + 4 BY <2>2 DEF Hops
      <3>3. next[d] \in D /\ m[next[d]] < m[d] BY <3>2
      <3>4. next[d] \in T BY <1>3, <3>3
      <3>5. g[next[d]] \in Seq(C) BY <3>1, <3>4
      <3>6. g[d] = step[d] \o g[next[d]] BY <1>2, <2>2
      <3> QED BY <3>1, <3>5, <3>6
    <2> QED BY <2>1, <2>2
  <1> HIDE DEF T, m, D
  <1>4. \A d \in D : d \in T BY <1>1, <1>3, MeasureInduction
  <1> QED BY <1>4 DEF T, D, Closed

-----------------------------------------------------------------------------
(* What is appended.                                                        *)

Appends == [do : {"append"}, bytes : Seq(Nat), node : {NONE}, level : {0}]

\* An append of numbers.
LEMMA ChunkTyped ==
  ASSUME NEW s, s \in Seq(Nat)
  PROVE  chunk(s) \in Appends /\ <<chunk(s)>> \in Seq(Appends)
  <1>1. chunk(s) \in Appends BY DEF chunk, Appends
  <1> HIDE DEF Appends
  <1> QED BY <1>1

\* What a lead byte says of its sequence, whatever follows it.
Decoded(s, i, d) ==
  LET a == s[i]
      low(k) == s[i + k] % 64
  IN  \/ a <= 127 /\ d = [point |-> a, size |-> 1]
      \/ a \in 128 .. 223 /\ d = [point |-> (a % 32) * 64 + low(1), size |-> 2]
      \/ a \in 224 .. 239
           /\ d = [point |-> (a % 16) * 4096 + low(1) * 64 + low(2), size |-> 3]
      \/ ~(a <= 127) /\ a \notin 128 .. 223 /\ a \notin 224 .. 239
           /\ d = [point |-> (a % 8) * 262144 + low(1) * 4096 + low(2) * 64 + low(3),
                   size |-> 4]

\* The cases of utf8_decode.
LEMMA DecodeCases ==
  ASSUME NEW s, NEW i
  PROVE  Decoded(s, i, utf8_decode(s, i))
  <1> DEFINE a == s[i]
             low(k) == s[i + k] % 64
             d == utf8_decode(s, i)
             r1 == [point |-> a, size |-> 1]
             r2 == [point |-> (a % 32) * 64 + low(1), size |-> 2]
             r3 == [point |-> (a % 16) * 4096 + low(1) * 64 + low(2), size |-> 3]
             r4 == [point |-> (a % 8) * 262144 + low(1) * 4096 + low(2) * 64 + low(3),
                    size |-> 4]
  <1>1. ASSUME a <= 127 PROVE d = r1 BY <1>1 DEF utf8_decode
  <1>2. ASSUME a \in 128 .. 223 PROVE d = r2 BY <1>2 DEF utf8_decode
  <1>3. ASSUME a \in 224 .. 239 PROVE d = r3 BY <1>3 DEF utf8_decode
  <1>4. ASSUME ~(a <= 127), a \notin 128 .. 223, a \notin 224 .. 239 PROVE d = r4
    BY <1>4 DEF utf8_decode
  <1> HIDE DEF d, r1, r2, r3, r4, a
  <1>5. \/ a <= 127 /\ d = r1
        \/ a \in 128 .. 223 /\ d = r2
        \/ a \in 224 .. 239 /\ d = r3
        \/ ~(a <= 127) /\ a \notin 128 .. 223 /\ a \notin 224 .. 239 /\ d = r4
    BY <1>1, <1>2, <1>3, <1>4
  <1> QED BY <1>5 DEF d, r1, r2, r3, r4, a, Decoded

\* Whatever the bytes are, decoding moves on.
LEMMA DecodeSize ==
  ASSUME NEW s, NEW i
  PROVE  utf8_decode(s, i).size \in 1 .. 4
  <1> DEFINE d == utf8_decode(s, i)
  <1>1. Decoded(s, i, d) BY DecodeCases
  <1> HIDE DEF d
  <1>2. d.size \in 1 .. 4 BY <1>1 DEF Decoded
  <1> QED BY <1>2 DEF d

\* The four kinds of sequence.
LEMMA SizeCases ==
  ASSUME NEW s \in Seq(Byte), NEW i \in 1 .. Len(s), sequence_size(s, i) # 0
  PROVE  \/ (s[i] <= 127 /\ sequence_size(s, i) = 1)
         \/ (s[i] \in 194 .. 223 /\ i + 1 <= Len(s) /\ sequence_size(s, i) = 2)
         \/ (s[i] \in 224 .. 239 /\ i + 2 <= Len(s) /\ sequence_size(s, i) = 3)
         \/ (s[i] \in 240 .. 244 /\ i + 3 <= Len(s) /\ sequence_size(s, i) = 4)
  <1> DEFINE a == s[i]
             rest(n) == i + n <= Len(s) /\ \A k \in 1 .. n : continuation(s[i + k])
             two == a \in 194 .. 223 /\ rest(1)
             three == /\ a \in 224 .. 239 /\ rest(2) /\ ~(a = 224 /\ s[i + 1] < 160)
                      /\ ~(a = 237 /\ s[i + 1] >= 160)
             four == /\ a \in 240 .. 244 /\ rest(3) /\ ~(a = 240 /\ s[i + 1] < 144)
                     /\ ~(a = 244 /\ s[i + 1] >= 144)
             z == sequence_size(s, i)
  <1>1. z = CASE a <= 127 -> 1 [] two -> 2 [] three -> 3 [] four -> 4 [] OTHER -> 0
    BY DEF sequence_size
  <1>2. (two => i + 1 <= Len(s)) /\ (three => i + 2 <= Len(s)) /\ (four => i + 3 <= Len(s))
    OBVIOUS
  <1>3. (two => a \in 194 .. 223) /\ (three => a \in 224 .. 239) /\ (four => a \in 240 .. 244)
    BY Zenon
  <1>4. a \in Nat BY TextByte, Zenon
  <1>5. z # 0 OBVIOUS
  <1> HIDE DEF two, three, four, a, z
  <1>6. \/ (a <= 127 /\ z = 1)
        \/ (two /\ z = 2)
        \/ (three /\ z = 3)
        \/ (four /\ z = 4)
    BY <1>1, <1>3, <1>4, <1>5
  <1>7. \/ (a <= 127 /\ z = 1)
        \/ (a \in 194 .. 223 /\ i + 1 <= Len(s) /\ z = 2)
        \/ (a \in 224 .. 239 /\ i + 2 <= Len(s) /\ z = 3)
        \/ (a \in 240 .. 244 /\ i + 3 <= Len(s) /\ z = 4)
    BY <1>2, <1>3, <1>6
  <1> QED BY <1>7, Zenon DEF a, z

\* A sequence inside the text gives a number.
LEMMA DecodeInside ==
  ASSUME NEW s, NEW i, NEW d, Decoded(s, i, d), NEW z, NEW n \in Nat, i \in 1 .. n,
         \A k \in 1 .. n : s[k] \in Nat,
         \/ (s[i] <= 127 /\ z = 1)
         \/ (s[i] \in 194 .. 223 /\ i + 1 <= n /\ z = 2)
         \/ (s[i] \in 224 .. 239 /\ i + 2 <= n /\ z = 3)
         \/ (s[i] \in 240 .. 244 /\ i + 3 <= n /\ z = 4)
  PROVE  d.size = z /\ d.point \in Nat /\ (s[i] < 128 => z = 1)
  <1> DEFINE a == s[i]
             l1 == s[i + 1] % 64
             l2 == s[i + 2] % 64
             l3 == s[i + 3] % 64
             p2 == (a % 32) * 64 + l1
             p3 == (a % 16) * 4096 + l1 * 64 + l2
             p4 == (a % 8) * 262144 + l1 * 4096 + l2 * 64 + l3
  <1>1. \/ (a <= 127 /\ d = [point |-> a, size |-> 1])
        \/ (a \in 128 .. 223 /\ d = [point |-> p2, size |-> 2])
        \/ (a \in 224 .. 239 /\ d = [point |-> p3, size |-> 3])
        \/ (~(a <= 127) /\ a \notin 128 .. 223 /\ a \notin 224 .. 239
              /\ d = [point |-> p4, size |-> 4])
    BY DEF Decoded
  <1>2. a \in Nat OBVIOUS
  <1>3. i + 1 <= n => l1 \in Nat OBVIOUS
  <1>4. i + 2 <= n => i + 1 <= n /\ l2 \in Nat OBVIOUS
  <1>5. i + 3 <= n => i + 2 <= n /\ l3 \in Nat OBVIOUS
  <1> HIDE DEF l1, l2, l3, a
  <1>6. /\ l1 \in Nat => p2 \in Nat
        /\ l1 \in Nat /\ l2 \in Nat => p3 \in Nat
        /\ l1 \in Nat /\ l2 \in Nat /\ l3 \in Nat => p4 \in Nat
    BY <1>2
  <1> HIDE DEF p2, p3, p4
  <1>7. CASE a <= 127 /\ z = 1 BY <1>1, <1>2, <1>7 DEF a
  <1>8. CASE a \in 194 .. 223 /\ i + 1 <= n /\ z = 2 BY <1>1, <1>3, <1>6, <1>8 DEF a
  <1>9. CASE a \in 224 .. 239 /\ i + 2 <= n /\ z = 3 BY <1>1, <1>3, <1>4, <1>6, <1>9 DEF a
  <1>10. CASE a \in 240 .. 244 /\ i + 3 <= n /\ z = 4
    BY <1>1, <1>3, <1>4, <1>5, <1>6, <1>10 DEF a
  <1> QED BY <1>7, <1>8, <1>9, <1>10 DEF a

\* The character at a boundary is decoded from its own bytes.
LEMMA DecodeTyped ==
  ASSUME NEW s \in Seq(Byte), NEW i \in 1 .. Len(s), sequence_size(s, i) # 0
  PROVE  /\ utf8_decode(s, i).size = sequence_size(s, i)
         /\ utf8_decode(s, i).point \in Nat
         /\ s[i] < 128 => sequence_size(s, i) = 1
  <1> DEFINE z == sequence_size(s, i)
             d == utf8_decode(s, i)
             n == Len(s)
  <1>1. \/ (s[i] <= 127 /\ z = 1)
        \/ (s[i] \in 194 .. 223 /\ i + 1 <= n /\ z = 2)
        \/ (s[i] \in 224 .. 239 /\ i + 2 <= n /\ z = 3)
        \/ (s[i] \in 240 .. 244 /\ i + 3 <= n /\ z = 4)
    BY SizeCases, Zenon
  <1>2. n \in Nat /\ i \in 1 .. n /\ \A k \in 1 .. n : s[k] \in Nat
    <2>1. \A k \in 1 .. Len(s) : s[k] \in Nat BY TextByte, Zenon
    <2>2. Len(s) \in Nat BY LenProperties
    <2> QED BY <2>1, <2>2, Zenon
  <1>3. Decoded(s, i, d) BY DecodeCases, Zenon
  <1> HIDE DEF d, z, n
  <1>4. d.size = z /\ d.point \in Nat /\ (s[i] < 128 => z = 1)
    BY <1>1, <1>2, <1>3, DecodeInside, Zenon
  <1> QED BY <1>4, Zenon DEF z, d

\* An escape spells its unit in numbers.
LEMMA EscapeTyped ==
  ASSUME NEW u \in Nat
  PROVE  u16_escape(u) \in Seq(Nat)
  <1>1. \A n \in Nat : hex_digit(n) \in Nat BY DEF hex_digit
  <1>2. u \div 4096 \in Nat /\ (u \div 256) % 16 \in Nat /\ (u \div 16) % 16 \in Nat /\ u % 16 \in Nat
    OBVIOUS
  <1>3. backslash \in Nat /\ letter_u \in Nat BY DEF backslash, letter_u
  <1> HIDE DEF hex_digit, backslash, letter_u
  <1> QED BY <1>1, <1>2, <1>3 DEF u16_escape

\* The spelling of a byte.
LEMMA CanonicalTyped ==
  ASSUME NEW b \in Nat
  PROVE  canonical_escape(b) \in Seq(Nat)
  <1> DEFINE short == {8, 9, 10, 12, 13, 34, 92}
             named == CHOOSE letter \in 0 .. 255 : <<letter, b>> \in simple_escape
             spelled == u16_escape(b)
  <1>1. CASE b \in short
    <2>1. \E letter \in 0 .. 255 : <<letter, b>> \in simple_escape
      BY <1>1 DEF simple_escape
    <2>2. named \in 0 .. 255 BY <2>1, Zenon
    <2>3. canonical_escape(b) = <<backslash, named>> BY <1>1 DEF canonical_escape
    <2> HIDE DEF named
    <2> QED BY <2>2, <2>3 DEF backslash
  <1>2. CASE b \notin short /\ b >= 32
    <2>1. canonical_escape(b) = <<b>> BY <1>2 DEF canonical_escape
    <2> QED BY <2>1
  <1>3. CASE b \notin short /\ ~(b >= 32)
    <2>1. canonical_escape(b) = spelled BY <1>3 DEF canonical_escape
    <2> QED BY <2>1, EscapeTyped
  <1> QED BY <1>1, <1>2, <1>3

\* The escapes of a code point.
LEMMA UnitsTyped ==
  ASSUME NEW p \in Nat
  PROVE  unit_escapes(p) \in Seq(Appends)
  <1> DEFINE units == point_units(p)
             esc(k) == chunk(u16_escape(units[k]))
             n == Len(units)
  <1>1. units \in Seq(Nat) BY DEF point_units
  <1>2. n \in Nat /\ DOMAIN units = 1 .. n BY <1>1, LenProperties
  <1>3. \A k \in 1 .. n : units[k] \in Nat BY <1>1, ElementOfSeq
  <1> HIDE DEF units, n
  <1>4. ASSUME NEW k \in 1 .. n PROVE esc(k) \in Appends
    <2>1. u16_escape(units[k]) \in Seq(Nat) BY <1>3, EscapeTyped
    <2> QED BY <2>1, ChunkTyped
  <1> HIDE DEF esc
  <1>5. [k \in 1 .. n |-> esc(k)] \in Seq(Appends) BY <1>2, <1>4, IsASeq
  <1> QED BY <1>2, <1>5 DEF unit_escapes, esc, units

\* Line breaks and indentation.
LEMMA BreakTyped ==
  ASSUME NEW fl \in [indent : BOOLEAN, ascii : BOOLEAN, newline : BOOLEAN], NEW level \in Nat
  PROVE  append_break(fl, level) \in Seq(Appends)
  <1> DEFINE n == 2 * level
             feed == chunk(<<10>>)
             space == chunk(<<32>>)
             run == [i \in 1 .. n |-> space]
  <1>1. <<10>> \in Seq(Nat) /\ <<32>> \in Seq(Nat) /\ n \in Nat OBVIOUS
  <1>2. feed \in Appends /\ space \in Appends BY <1>1, ChunkTyped
  <1> HIDE DEF feed, space, n
  <1>3. run \in Seq(Appends) /\ <<feed>> \in Seq(Appends) BY <1>1, <1>2
  <1> HIDE DEF run
  <1>4. <<>> \in Seq(Appends) /\ <<feed>> \o run \in Seq(Appends) BY <1>3
  <1> QED BY <1>4 DEF append_break, feed, space, run, n

\* A quote as an append of its own.
Quoted == <<chunk(<<quote>>)>>

\* A string is appended as its quote, its characters and its quote.
LEMMA StringTyped ==
  ASSUME NEW fl \in [indent : BOOLEAN, ascii : BOOLEAN, newline : BOOLEAN], NEW s, IsText(s)
  PROVE  \E c \in Seq(Appends) : append_string(fl, s) = Quoted \o c \o Quoted
  <1> DEFINE n == Len(s)
             ascii == fl.ascii
             d == [i \in 1 .. n |-> utf8_decode(s, i)]
             wide(i) == s[i] >= 128 /\ ascii
             step == [i \in 1 .. n |-> IF wide(i) THEN unit_escapes(d[i].point)
                                       ELSE <<chunk(canonical_escape(s[i]))>>]
             next == [i \in 1 .. n |-> IF wide(i) THEN i + d[i].size ELSE i + 1]
             J == {step[i][1] : i \in 1 .. n} \cup {step[i][2] : i \in 1 .. n}
  <1>1. n \in Nat BY LenProperties DEF IsText
  <1>2. ASSUME NEW i \in 1 .. n PROVE s[i] \in Nat BY TextByte DEF IsText
  <1>3. ASSUME NEW i \in 1 .. n PROVE d[i].size \in 1 .. 4
    <2>1. d[i] = utf8_decode(s, i) OBVIOUS
    <2> HIDE DEF d
    <2> QED BY <2>1, DecodeSize
  <1>4. ASSUME NEW i \in 1 .. n, sequence_size(s, i) # 0
        PROVE  /\ d[i].size = sequence_size(s, i) /\ d[i].point \in Nat
               /\ s[i] < 128 => sequence_size(s, i) = 1
    <2>1. d[i] = utf8_decode(s, i) OBVIOUS
    <2>2. s \in Seq(Byte) BY DEF IsText
    <2> HIDE DEF d
    <2> QED BY <1>4, <2>1, <2>2, DecodeTyped
  <1>5. ascii \in BOOLEAN OBVIOUS
  <1>6. PICK B : Boundaries(s, B) BY TextHasBoundaries
  <1> HIDE DEF n, d, ascii
  <1>7. Hops(n, next)
    <2> SUFFICES ASSUME NEW i \in 1 .. n PROVE next[i] \in i + 1 .. n + 4 BY DEF Hops
    <2> QED BY <1>1, <1>3
  <1>8. Sequences(n, J, step)
    <2> SUFFICES ASSUME NEW i \in 1 .. n PROVE step[i] \in Seq(J) BY DEF Sequences
    <2>1. step[i][1] \in J /\ step[i][2] \in J BY Zenon
    <2> HIDE DEF J
    <2>2. CASE wide(i)
      <3> DEFINE units == point_units(d[i].point)
                 esc == [k \in DOMAIN units |-> chunk(u16_escape(units[k]))]
      <3>1. step[i] = esc BY <2>2 DEF unit_escapes
      <3>2. DOMAIN units = 1 .. 1 \/ DOMAIN units = 1 .. 2 BY DEF point_units
      <3>3. DOMAIN esc = DOMAIN units OBVIOUS
      <3>4. esc = [k \in DOMAIN units |-> esc[k]] OBVIOUS
      <3> HIDE DEF units, step, esc
      <3>5. esc[1] \in J /\ esc[2] \in J BY <2>1, <3>1
      <3>6. CASE DOMAIN units = 1 .. 1
        <4>1. esc = [k \in 1 .. 1 |-> esc[k]] BY <3>4, <3>6
        <4>2. [k \in 1 .. 1 |-> esc[k]] \in Seq(J) BY <3>5
        <4> QED BY <3>1, <4>1, <4>2
      <3>7. CASE DOMAIN units = 1 .. 2
        <4>1. esc = [k \in 1 .. 2 |-> esc[k]] BY <3>4, <3>7
        <4>2. [k \in 1 .. 2 |-> esc[k]] \in Seq(J) BY <3>5
        <4> QED BY <3>1, <4>1, <4>2
      <3> QED BY <3>2, <3>6, <3>7
    <2>3. CASE ~wide(i)
      <3> DEFINE c == chunk(canonical_escape(s[i]))
      <3>1. step[i] = <<c>> BY <2>3
      <3> HIDE DEF c, step
      <3>2. c \in J BY <2>1, <3>1
      <3> QED BY <3>1, <3>2
    <2> QED BY <2>2, <2>3
  <1> DEFINE E(f) == f = [i \in 1 .. Len(s) + 4 |->
                       IF i > Len(s) THEN <<>>
                       ELSE IF s[i] >= 128 /\ fl.ascii
                       THEN LET e == utf8_decode(s, i) IN unit_escapes(e.point) \o f[i + e.size]
                       ELSE <<chunk(canonical_escape(s[i]))>> \o f[i + 1]]
             F == CHOOSE f : E(f)
  <1>9. ASSUME NEW f PROVE Hopped(n, step, next, f) <=> E(f)
    <2> DEFINE h(i) == IF i > n THEN <<>> ELSE step[i] \o f[next[i]]
               k(i) == IF i > n THEN <<>>
                       ELSE IF wide(i)
                       THEN LET e == d[i] IN unit_escapes(e.point) \o f[i + e.size]
                       ELSE <<chunk(canonical_escape(s[i]))>> \o f[i + 1]
    <2>1. ASSUME NEW i \in 1 .. n + 4 PROVE h(i) = k(i)
      <3>1. CASE i > n BY <3>1
      <3>2. CASE ~(i > n) /\ wide(i)
        <4>1. i \in 1 .. n BY <1>1, <3>2
        <4>2. step[i] = unit_escapes(d[i].point) /\ next[i] = i + d[i].size BY <3>2, <4>1
        <4> HIDE DEF step, next, wide
        <4> QED BY <3>2, <4>2
      <3>3. CASE ~(i > n) /\ ~wide(i)
        <4>1. i \in 1 .. n BY <1>1, <3>3
        <4>2. step[i] = <<chunk(canonical_escape(s[i]))>> /\ next[i] = i + 1 BY <3>3, <4>1
        <4> HIDE DEF step, next, wide
        <4> QED BY <3>3, <4>2
      <3> QED BY <3>1, <3>2, <3>3
    <2>2. E(f) <=> f = [i \in 1 .. n + 4 |-> k(i)]
      <3>1. ASSUME NEW i \in 1 .. n + 4
            PROVE  k(i) = IF i > Len(s) THEN <<>>
                          ELSE IF s[i] >= 128 /\ fl.ascii
                          THEN LET e == utf8_decode(s, i)
                               IN  unit_escapes(e.point) \o f[i + e.size]
                          ELSE <<chunk(canonical_escape(s[i]))>> \o f[i + 1]
        <4>1. CASE i > n BY <4>1 DEF n
        <4>2. CASE ~(i > n)
          <5>1. i \in 1 .. n BY <1>1, <4>2
          <5>2. d[i] = utf8_decode(s, i) BY <5>1 DEF d
          <5> QED BY <4>2, <5>2 DEF n, ascii
        <4> QED BY <4>1, <4>2
      <3> HIDE DEF k
      <3> QED BY <3>1 DEF n
    <2>3. Hopped(n, step, next, f) <=> f = [i \in 1 .. n + 4 |-> h(i)] BY DEF Hopped
    <2> HIDE DEF h, k, E
    <2> QED BY <2>1, <2>2, <2>3
  <1>10. Hopped(n, step, next, F)
    <2> HIDE DEF step, next, J
    <2>1. \E f : Hopped(n, step, next, f) BY <1>1, <1>7, <1>8, HopsExist
    <2> HIDE DEF E
    <2>2. E(F) BY <1>9, <2>1
    <2> QED BY <1>9, <2>2
  <1>11. append_string(fl, s) = Quoted \o F[1] \o Quoted BY DEF append_string, Quoted
  <1> HIDE DEF F, E
  <1> DEFINE K == IF ascii THEN B ELSE 1 .. n + 1
  <1>12. 1 \in K /\ Closed(n, step, next, K, Appends)
    <2>1. 1 \in K BY <1>1, <1>6 DEF Boundaries
    <2>2. ASSUME NEW i \in K PROVE i \in 1 .. n + 1 BY <1>1, <1>6 DEF Boundaries, n
    <2>3. ASSUME NEW i \in 1 .. n PROVE <<chunk(canonical_escape(s[i]))>> \in Seq(Appends)
      BY <1>2, CanonicalTyped, ChunkTyped
    <2>4. ASSUME NEW i \in K, i <= n PROVE step[i] \in Seq(Appends) /\ next[i] \in K
      <3>1. i \in 1 .. n BY <1>1, <2>2, <2>4
      <3>2. CASE ascii
        <4> DEFINE z == sequence_size(s, i)
        <4>1. z # 0 /\ i + z \in B BY <1>6, <2>4, <3>2 DEF Boundaries, n
        <4>2. d[i].size = z /\ d[i].point \in Nat /\ (s[i] < 128 => z = 1) BY <1>4, <3>1, <4>1
        <4> HIDE DEF z
        <4>3. CASE s[i] >= 128
          <5>1. step[i] = unit_escapes(d[i].point) /\ next[i] = i + z BY <3>1, <3>2, <4>2, <4>3
          <5>2. unit_escapes(d[i].point) \in Seq(Appends) BY <4>2, UnitsTyped
          <5> HIDE DEF step, next
          <5> QED BY <3>2, <4>1, <5>1, <5>2
        <4>4. CASE ~(s[i] >= 128)
          <5>1. step[i] = <<chunk(canonical_escape(s[i]))>> /\ next[i] = i + 1 BY <3>1, <4>4
          <5>2. z = 1 BY <1>2, <3>1, <4>2, <4>4
          <5> HIDE DEF step, next
          <5> QED BY <2>3, <3>1, <3>2, <4>1, <5>1, <5>2
        <4> QED BY <4>3, <4>4
      <3>3. CASE ~ascii
        <4>1. step[i] = <<chunk(canonical_escape(s[i]))>> /\ next[i] = i + 1 BY <3>1, <3>3
        <4>2. i + 1 \in K BY <1>1, <3>1, <3>3
        <4> HIDE DEF step, next, K
        <4> QED BY <2>3, <3>1, <4>1, <4>2
      <3> QED BY <1>5, <3>2, <3>3
    <2>5. ASSUME NEW i \in K PROVE i \in 1 .. n + 4 BY <1>1, <2>2
    <2> HIDE DEF K, step, next
    <2> QED BY <2>1, <2>4, <2>5 DEF Closed
  <1> HIDE DEF K, step, next
  <1>13. F[1] \in Seq(Appends) BY <1>1, <1>7, <1>10, <1>12, HopsTyped
  <1> QED BY <1>11, <1>13

\* The digits of a number, at least one.
LEMMA DigitsTyped ==
  ASSUME NEW n \in Nat
  PROVE  digits[n] \in Seq(Nat) /\ digits[n] # <<>>
  <1> DEFINE V == {s \in Seq(Nat) : s # <<>>}
             m == [k \in Nat |-> k]
             D == Nat
             G == [g \in [D -> V] |-> [k \in D |->
                     IF k < 10 THEN <<48 + k>> ELSE g[k \div 10] \o <<48 + (k % 10)>>]]
  <1>1. m \in [D -> Nat] /\ V # {}
    <2>1. <<0>> \in V OBVIOUS
    <2> HIDE DEF V
    <2>2. V # {} BY <2>1
    <2> QED BY <2>2
  <1>2. ASSUME NEW g \in [D -> V], NEW k \in D
        PROVE  (IF k < 10 THEN <<48 + k>> ELSE g[k \div 10] \o <<48 + (k % 10)>>) \in V
    <2>1. g[k \div 10] \in V
      <3>1. k \div 10 \in D OBVIOUS
      <3> HIDE DEF V
      <3> QED BY <3>1
    <2>2. 48 + (k % 10) \in Nat /\ 48 + k \in Nat OBVIOUS
    <2> DEFINE a == g[k \div 10]
               b == 48 + (k % 10)
    <2>3. a \in Seq(Nat) /\ a # <<>> /\ b \in Nat BY <2>1, <2>2
    <2> HIDE DEF a, b
    <2>4. a \o <<b>> \in Seq(Nat) /\ a \o <<b>> # <<>> BY <2>3
    <2>5. a \o <<b>> \in V BY <2>4
    <2>6. <<48 + k>> \in V BY <2>2
    <2> HIDE DEF V
    <2> QED BY <2>5, <2>6 DEF a, b
  <1>3. G \in [[D -> V] -> [D -> V]]
    <2> HIDE DEF V
    <2> QED BY <1>2
  <1>4. ASSUME NEW g \in [D -> V], NEW h \in [D -> V], NEW d \in D,
               \A e \in D : m[e] < m[d] => g[e] = h[e]
        PROVE  G[g][d] = G[h][d]
    <2> HIDE DEF V
    <2>1. CASE d < 10 BY <2>1
    <2>2. CASE ~(d < 10)
      <3>1. d \div 10 \in D /\ d \div 10 < d BY <2>2
      <3>2. g[d \div 10] = h[d \div 10] BY <1>4, <3>1
      <3> QED BY <2>2, <3>2
    <2> QED BY <2>1, <2>2
  <1>5. \E g \in [D -> V] : g = G[g]
    <2> HIDE DEF G, D, V, m
    <2>1. Recursion(D, V, m, G) BY <1>1, <1>3, <1>4 DEF Recursion
    <2> QED BY <2>1, RecursionExists
  <1>6. PICK g \in [D -> V] : g = G[g] BY <1>5
  <1> DEFINE E(f) == f = [k \in Nat |-> IF k < 10 THEN <<48 + k>>
                                        ELSE f[k \div 10] \o <<48 + (k % 10)>>]
  <1>7. E(g)
    <2> HIDE DEF V
    <2> QED BY <1>6
  <1>8. E(digits)
    <2>1. digits = CHOOSE f : E(f) BY DEF digits
    <2> HIDE DEF E
    <2> QED BY <1>7, <2>1
  <1>9. ASSUME NEW d \in D, \A e \in D : m[e] < m[d] => digits[e] = g[e]
        PROVE  digits[d] = g[d]
    <2>1. digits[d] = IF d < 10 THEN <<48 + d>> ELSE digits[d \div 10] \o <<48 + (d % 10)>>
      BY <1>8
    <2>2. g[d] = IF d < 10 THEN <<48 + d>> ELSE g[d \div 10] \o <<48 + (d % 10)>> BY <1>7
    <2> HIDE DEF V, E
    <2>3. CASE d < 10 BY <2>1, <2>2, <2>3
    <2>4. CASE ~(d < 10)
      <3>1. d \div 10 \in D /\ d \div 10 < d BY <2>4
      <3>2. digits[d \div 10] = g[d \div 10] BY <1>9, <3>1
      <3> QED BY <2>1, <2>2, <2>4, <3>2
    <2> QED BY <2>3, <2>4
  <1>10. \A d \in D : digits[d] = g[d]
    <2> HIDE DEF D, m, V, E
    <2>1. Determined(D, m, digits, g) BY <1>1, <1>9 DEF Determined
    <2> QED BY <2>1, RecursionUnique
  <1>11. g[n] \in V
    <2> HIDE DEF V
    <2> QED OBVIOUS
  <1> QED BY <1>10, <1>11

\* The decimal form of an integer.
LEMMA DecimalTyped ==
  ASSUME NEW n \in Int
  PROVE  decimal(n) \in Seq(Nat) /\ decimal(n) # <<>>
  <1>1. CASE n < 0
    <2> DEFINE s == digits[-n]
    <2>1. s \in Seq(Nat) BY <1>1, DigitsTyped
    <2>2. decimal(n) = <<45>> \o s BY <1>1 DEF decimal
    <2> HIDE DEF s
    <2> QED BY <2>1, <2>2
  <1>2. CASE ~(n < 0) BY <1>2, DigitsTyped DEF decimal
  <1> QED BY <1>1, <1>2

-----------------------------------------------------------------------------
(* The children of a node, in the order of their links and of their keys.   *)

\* The least of a set of numbers is one of them.
LEMMA LeastTyped ==
  ASSUME NEW S \in SUBSET Nat
  PROVE  Least(S) \in S \cup {NONE}
  <1>1. CASE S = {} BY <1>1 DEF Least
  <1>2. CASE S # {}
    <2>1. \E d \in S : \A e \in S : d <= e BY <1>2, LeastNumber
    <2> QED BY <1>2, <2>1 DEF Least
  <1> QED BY <1>1, <1>2

\* A node array whose links describe a tree.
Linked(t) == t # <<>> /\ t \in Seq({t[i] : i \in DOMAIN t}) /\ WellLinked(t)

\* Links lead from a node to its children and from child to child, and both lead onwards.
LEMMA LinkFacts ==
  ASSUME NEW t, Linked(t), NEW i \in DOMAIN t
  PROVE  LET S == ChildrenOf(t, i)
         IN  /\ Len(t) \in Nat /\ DOMAIN t = 1 .. Len(t)
             /\ \A j \in S : j \in DOMAIN t /\ j > i /\ j # NONE
             /\ t[i].links.first_child \in S \cup {NONE}
             /\ \A j \in S : t[j].links.next_sibling \in S \cup {NONE}
  <1> DEFINE S == ChildrenOf(t, i)
  <1>1. Len(t) \in Nat /\ DOMAIN t = 1 .. Len(t) BY DEF Linked
  <1>2. S \in SUBSET Nat /\ \A j \in S : j \in DOMAIN t /\ t[j].links.parent = i
    BY <1>1 DEF ChildrenOf
  <1>3. i \in Nat /\ i # NONE BY <1>1, NoneAssumption
  <1>4. ASSUME NEW j \in S PROVE j > i /\ j # NONE
    <2>1. t[j].links.parent \in 1 .. j - 1 BY <1>2, <1>3 DEF Linked, WellLinked
    <2> QED BY <1>2, <1>3, <2>1, NoneAssumption
  <1>5. t[i].links.first_child \in S \cup {NONE}
    <2>1. t[i].links.first_child = Least(S) BY DEF Linked, WellLinked
    <2> QED BY <1>2, <2>1, LeastTyped
  <1>6. ASSUME NEW j \in S PROVE t[j].links.next_sibling \in S \cup {NONE}
    <2> DEFINE later == {k \in ChildrenOf(t, t[j].links.parent) : k > j}
    <2>1. t[j].links.next_sibling = Least(later)
      BY <1>2, <1>3 DEF Linked, WellLinked
    <2>2. later \subseteq S BY <1>2
    <2> HIDE DEF later
    <2>3. Least(later) \in later \cup {NONE} BY <1>2, <2>2, LeastTyped
    <2> QED BY <2>1, <2>2, <2>3
  <1> QED BY <1>1, <1>2, <1>4, <1>5, <1>6

\* The loop over the siblings visits children.
LEMMA ChainTyped ==
  ASSUME NEW t, Linked(t), NEW i \in DOMAIN t
  PROVE  chain(t, i) \in Seq(ChildrenOf(t, i))
  <1> DEFINE n == Len(t)
             S == ChildrenOf(t, i)
             D == 1 .. n
             V == S \cup {NONE}
             m == [k \in D |-> k]
             first == t[i].links.first_child
             next(j) == t[j].links.next_sibling
             step(g, k) == IF k = 1 THEN first ELSE IF g[k - 1] = NONE THEN NONE ELSE next(g[k - 1])
             G == [g \in [D -> V] |-> [k \in D |-> step(g, k)]]
  <1>1. n \in Nat BY LinkFacts
  <1>2. first \in V /\ NONE \notin S /\ \A j \in S : next(j) \in V BY LinkFacts
  <1> HIDE DEF n, S, first, next
  <1>3. m \in [D -> Nat] /\ V # {} BY <1>1
  <1>4. ASSUME NEW g \in [D -> V], NEW k \in D PROVE step(g, k) \in V
    <2>1. CASE k = 1 BY <1>2, <2>1
    <2>2. CASE k # 1
      <3>1. k - 1 \in D BY <1>1, <2>2
      <3>2. g[k - 1] \in V BY <3>1
      <3> QED BY <1>2, <2>2, <3>2
    <2> QED BY <2>1, <2>2
  <1>5. G \in [[D -> V] -> [D -> V]]
    <2> HIDE DEF V, step
    <2> QED BY <1>4
  <1>6. ASSUME NEW g \in [D -> V], NEW h \in [D -> V], NEW d \in D,
               \A e \in D : m[e] < m[d] => g[e] = h[e]
        PROVE  G[g][d] = G[h][d]
    <2> HIDE DEF V
    <2>1. CASE d = 1 BY <2>1
    <2>2. CASE d # 1
      <3>1. d - 1 \in D /\ d - 1 < d BY <1>1, <2>2
      <3>2. g[d - 1] = h[d - 1] BY <1>6, <3>1
      <3> QED BY <2>2, <3>2
    <2> QED BY <2>1, <2>2
  <1>7. \E g \in [D -> V] : g = G[g]
    <2> HIDE DEF G, D, V, m
    <2>1. Recursion(D, V, m, G) BY <1>3, <1>5, <1>6 DEF Recursion
    <2> QED BY <2>1, RecursionExists
  <1>8. PICK g \in [D -> V] : g = G[g] BY <1>7
  <1> DEFINE E(f) == f = [k \in 1 .. Len(t) |->
                            IF k = 1 THEN t[i].links.first_child
                            ELSE IF f[k - 1] = NONE THEN NONE
                            ELSE t[f[k - 1]].links.next_sibling]
             W == CHOOSE f : E(f)
             last(k) == /\ \A j \in 1 .. k : W[j] # NONE
                        /\ k < Len(t) => W[k + 1] = NONE
             length == CHOOSE k \in 0 .. Len(t) : last(k)
  <1>9. E(W)
    <2>1. E(g)
      <3> HIDE DEF V
      <3> QED BY <1>8 DEF n, first, next
    <2> HIDE DEF E
    <2> QED BY <2>1
  <1>9a. \A k \in D : W[k] = step(W, k)
    <2>1. ASSUME NEW f, E(f) PROVE \A k \in D : f[k] = step(f, k)
      BY <2>1 DEF n, first, next
    <2> HIDE DEF E, D, step, W
    <2> QED BY <1>9, <2>1
  <1>10. \A k \in D : W[k] \in V
    <2> HIDE DEF W
    <2> DEFINE T == {k \in D : W[k] \in V}
    <2>1. ASSUME NEW d \in D, \A e \in D : m[e] < m[d] => e \in T PROVE d \in T
      <3>1. W[d] = IF d = 1 THEN first ELSE IF W[d - 1] = NONE THEN NONE ELSE next(W[d - 1])
        BY <1>9a
      <3>2. CASE d = 1 BY <1>2, <3>1, <3>2
      <3>3. CASE d # 1
        <4>1. d - 1 \in D /\ d - 1 < d BY <1>1, <3>3
        <4>2. d - 1 \in T BY <2>1, <4>1
        <4> QED BY <1>2, <3>1, <3>3, <4>2
      <3> QED BY <3>2, <3>3
    <2> HIDE DEF D, T, m
    <2>2. \A d \in D : d \in T BY <1>3, <2>1, MeasureInduction
    <2> QED BY <2>2 DEF T
  <1>11. \E k \in 0 .. Len(t) : last(k)
    <2> HIDE DEF W
    <2> DEFINE U == {k \in D : W[k] = NONE}
    <2>1. CASE U = {}
      <3>1. last(n) BY <1>1, <2>1 DEF n
      <3> HIDE DEF last
      <3> QED BY <1>1, <3>1 DEF n
    <2>2. CASE U # {}
      <3>1. U \in SUBSET Nat BY <1>1
      <3>2. PICK u \in U : \A e \in U : u <= e BY <2>2, <3>1, LeastNumber
      <3>3. u - 1 \in 0 .. Len(t) BY <1>1 DEF n
      <3>4. last(u - 1)
        <4>1. ASSUME NEW j \in 1 .. u - 1 PROVE W[j] # NONE
          <5>1. j \in D /\ j < u BY <1>1
          <5>2. j \notin U BY <1>1, <3>2, <5>1
          <5> QED BY <5>1, <5>2
        <4>2. W[(u - 1) + 1] = NONE BY <1>1
        <4> QED BY <4>1, <4>2
      <3> HIDE DEF last
      <3> QED BY <3>3, <3>4
    <2> QED BY <2>1, <2>2
  <1>12. length \in 0 .. Len(t) /\ last(length)
    <2> HIDE DEF last
    <2> QED BY <1>11
  <1>13. chain(t, i) = [k \in 1 .. length |-> W[k]] BY DEF chain
  <1>14. \A k \in 1 .. length : W[k] \in S
    <2> HIDE DEF length, W
    <2>1. length \in 0 .. n /\ \A j \in 1 .. length : W[j] # NONE BY <1>12 DEF n
    <2> QED BY <1>1, <1>10, <2>1
  <1> HIDE DEF length, W, last, E
  <1>15. length \in Nat BY <1>1, <1>12 DEF n
  <1>16. [k \in 1 .. length |-> W[k]] \in Seq(S) BY <1>14, <1>15
  <1> QED BY <1>13, <1>16 DEF S

\* Two runs of children.
Runs(C, a, b) == a \in Seq(C) /\ b \in Seq(C)

\* Merging keeps the elements.
LEMMA MergeTyped ==
  ASSUME NEW t, NEW C, NEW a, NEW b, Runs(C, a, b)
  PROVE  merge_keys(t, a, b) \in Seq(C)
  <1> DEFINE L == Len(a)
             R == Len(b)
             D == (0 .. L) \X (0 .. R)
             V == Seq(C)
             m == [at \in D |-> (L - at[1]) + (R - at[2])]
             left(l, r) == \/ r = R
                           \/ l < L /\ key_compare(t, a[l + 1], b[r + 1]) <= 0
             step(g, l, r) == IF l = L /\ r = R THEN <<>>
                              ELSE IF left(l, r) THEN <<a[l + 1]>> \o g[<<l + 1, r>>]
                              ELSE <<b[r + 1]>> \o g[<<l, r + 1>>]
             G == [g \in [D -> V] |-> [at \in D |-> step(g, at[1], at[2])]]
  <1>1. L \in Nat /\ R \in Nat BY DEF Runs
  <1>2. /\ \A l \in 0 .. L : l # L => <<a[l + 1]>> \in V
        /\ \A r \in 0 .. R : r # R => <<b[r + 1]>> \in V
    BY DEF Runs
  <1>3. V # {}
    <2>1. <<>> \in V OBVIOUS
    <2> HIDE DEF V
    <2> QED BY <2>1
  <1>4. ASSUME NEW x \in V, NEW y \in V PROVE x \o y \in V OBVIOUS
  <1>5. <<>> \in V OBVIOUS
  <1>6. ASSUME NEW l \in 0 .. L, NEW r \in 0 .. R, ~(l = L /\ r = R), left(l, r)
        PROVE  l # L /\ <<l + 1, r>> \in D
    <2> HIDE DEF V
    <2> QED BY <1>1, <1>6
  <1>7. ASSUME NEW l \in 0 .. L, NEW r \in 0 .. R, ~left(l, r)
        PROVE  r # R /\ <<l, r + 1>> \in D
    <2> HIDE DEF V
    <2> QED BY <1>1, <1>7
  <1> HIDE DEF V, L, R, left
  <1>8. m \in [D -> Nat] BY <1>1
  <1>9. ASSUME NEW g \in [D -> V], NEW l \in 0 .. L, NEW r \in 0 .. R PROVE step(g, l, r) \in V
    <2>1. CASE l = L /\ r = R BY <1>5, <2>1
    <2>2. CASE ~(l = L /\ r = R) /\ left(l, r)
      <3>1. <<a[l + 1]>> \in V /\ g[<<l + 1, r>>] \in V BY <1>2, <1>6, <2>2
      <3>2. step(g, l, r) = <<a[l + 1]>> \o g[<<l + 1, r>>] BY <2>2
      <3> HIDE DEF step
      <3> QED BY <1>4, <3>1, <3>2
    <2>3. CASE ~(l = L /\ r = R) /\ ~left(l, r)
      <3>1. <<b[r + 1]>> \in V /\ g[<<l, r + 1>>] \in V BY <1>2, <1>7, <2>3
      <3>2. step(g, l, r) = <<b[r + 1]>> \o g[<<l, r + 1>>] BY <2>3
      <3> HIDE DEF step
      <3> QED BY <1>4, <3>1, <3>2
    <2> QED BY <2>1, <2>2, <2>3
  <1>10. G \in [[D -> V] -> [D -> V]]
    <2> HIDE DEF step
    <2>1. \A g \in [D -> V] : \A at \in D : step(g, at[1], at[2]) \in V BY <1>9
    <2> HIDE DEF D
    <2> QED BY <2>1
  <1>11. ASSUME NEW g \in [D -> V], NEW h \in [D -> V], NEW l \in 0 .. L, NEW r \in 0 .. R,
                \A e \in D : m[e] < m[<<l, r>>] => g[e] = h[e]
         PROVE  step(g, l, r) = step(h, l, r)
    <2>1. CASE l = L /\ r = R BY <2>1
    <2>2. CASE ~(l = L /\ r = R) /\ left(l, r)
      <3>1. <<l + 1, r>> \in D /\ <<l, r>> \in D BY <1>6, <2>2
      <3>2. m[<<l + 1, r>>] < m[<<l, r>>] BY <1>1, <3>1
      <3>3. g[<<l + 1, r>>] = h[<<l + 1, r>>] BY <1>11, <3>1, <3>2
      <3> QED BY <2>2, <3>3
    <2>3. CASE ~(l = L /\ r = R) /\ ~left(l, r)
      <3>1. <<l, r + 1>> \in D /\ <<l, r>> \in D BY <1>7, <2>3
      <3>2. m[<<l, r + 1>>] < m[<<l, r>>] BY <1>1, <3>1
      <3>3. g[<<l, r + 1>>] = h[<<l, r + 1>>] BY <1>11, <3>1, <3>2
      <3> QED BY <2>3, <3>3
    <2> QED BY <2>1, <2>2, <2>3
  <1>12. ASSUME NEW g \in [D -> V], NEW h \in [D -> V], NEW d \in D,
                \A e \in D : m[e] < m[d] => g[e] = h[e]
         PROVE  G[g][d] = G[h][d]
    <2>1. d[1] \in 0 .. L /\ d[2] \in 0 .. R /\ d = <<d[1], d[2]>> OBVIOUS
    <2>2. \A e \in D : m[e] < m[<<d[1], d[2]>>] => g[e] = h[e] BY <1>12, <2>1
    <2> HIDE DEF step, D, m
    <2>3. step(g, d[1], d[2]) = step(h, d[1], d[2]) BY <1>11, <2>1, <2>2
    <2> QED BY <2>3
  <1>13. \E g \in [D -> V] : g = G[g]
    <2> HIDE DEF G, D, m
    <2>1. Recursion(D, V, m, G) BY <1>3, <1>8, <1>10, <1>12 DEF Recursion
    <2> QED BY <2>1, RecursionExists
  <1>14. PICK g \in [D -> V] : g = G[g] BY <1>13
  <1> DEFINE E(f) == f = [at \in (0 .. Len(a)) \X (0 .. Len(b)) |->
                       LET l == at[1]
                           r == at[2]
                       IN  IF l = Len(a) /\ r = Len(b) THEN <<>>
                           ELSE IF \/ r = Len(b)
                                   \/ l < Len(a) /\ key_compare(t, a[l + 1], b[r + 1]) <= 0
                           THEN <<a[l + 1]>> \o f[<<l + 1, r>>]
                           ELSE <<b[r + 1]>> \o f[<<l, r + 1>>]]
             F == CHOOSE f : E(f)
  <1>15. ASSUME NEW f PROVE E(f) <=> f = [at \in D |-> step(f, at[1], at[2])]
    BY DEF L, R, left
  <1>16. F = [at \in D |-> step(F, at[1], at[2])]
    <2>1. g = [at \in D |-> step(g, at[1], at[2])]
      <3> HIDE DEF D, step
      <3> QED BY <1>14
    <2> HIDE DEF E, D, step
    <2>2. E(g) BY <1>15, <2>1
    <2>3. E(F) BY <2>2
    <2> QED BY <1>15, <2>3
  <1>17. merge_keys(t, a, b) = F[<<0, 0>>] BY DEF merge_keys
  <1> HIDE DEF F, E
  <1>18. ASSUME NEW d \in D, \A e \in D : m[e] < m[d] => F[e] = g[e] PROVE F[d] = g[d]
    <2> DEFINE l == d[1]
               r == d[2]
    <2>1. l \in 0 .. L /\ r \in 0 .. R /\ d = <<l, r>> OBVIOUS
    <2>2. F[d] = step(F, l, r) /\ g[d] = step(g, l, r)
      <3> HIDE DEF step, D
      <3> QED BY <1>14, <1>16
    <2> HIDE DEF l, r
    <2>3. CASE l = L /\ r = R BY <2>2, <2>3
    <2>4. CASE ~(l = L /\ r = R) /\ left(l, r)
      <3>1. <<l + 1, r>> \in D /\ <<l, r>> \in D BY <1>6, <2>1, <2>4
      <3>2. m[<<l + 1, r>>] < m[<<l, r>>] BY <1>1, <2>1, <3>1
      <3>3. F[<<l + 1, r>>] = g[<<l + 1, r>>] BY <1>18, <2>1, <3>1, <3>2
      <3> QED BY <2>2, <2>4, <3>3
    <2>5. CASE ~(l = L /\ r = R) /\ ~left(l, r)
      <3>1. <<l, r + 1>> \in D /\ <<l, r>> \in D BY <1>7, <2>1, <2>5
      <3>2. m[<<l, r + 1>>] < m[<<l, r>>] BY <1>1, <2>1, <3>1
      <3>3. F[<<l, r + 1>>] = g[<<l, r + 1>>] BY <1>18, <2>1, <3>1, <3>2
      <3> QED BY <2>2, <2>5, <3>3
    <2> QED BY <2>3, <2>4, <2>5
  <1>19. \A d \in D : F[d] = g[d]
    <2> HIDE DEF D, m, step
    <2>1. Determined(D, m, F, g) BY <1>8, <1>18 DEF Determined
    <2> QED BY <2>1, RecursionUnique
  <1>20. <<0, 0>> \in D BY <1>1
  <1>21. F[<<0, 0>>] \in V BY <1>19, <1>20
  <1> QED BY <1>17, <1>21 DEF V

\* Sorting keeps the elements.
LEMMA SortTyped ==
  ASSUME NEW t, NEW C, C \subseteq DOMAIN t, NEW v, v \in Seq(C)
  PROVE  sort_keys(t, v) \in Seq(C)
  <1> DEFINE N == Len(v)
             D == (0 .. N) \X (0 .. N)
             V == Seq(C)
             X == Seq(DOMAIN t)
             m == [run \in D |-> IF run[2] > run[1] THEN run[2] - run[1] ELSE 0]
             M == [halves \in X \X X |-> merge_keys(t, halves[1], halves[2])]
             mid(b, e) == b + (e - b) \div 2
             step(g, b, e) == IF e - b < 2 THEN SubSeq(v, b + 1, e)
                              ELSE M[<<g[<<b, mid(b, e)>>], g[<<mid(b, e), e>>]>>]
             G == [g \in [D -> V] |-> [run \in D |-> step(g, run[1], run[2])]]
  <1>1. N \in Nat OBVIOUS
  <1>2. ASSUME NEW b \in 0 .. N, NEW e \in 0 .. N, e - b < 2 PROVE SubSeq(v, b + 1, e) \in V
    <2>1. \A i \in b + 1 .. e : v[i] \in C
      <3> SUFFICES ASSUME NEW i \in b + 1 .. e PROVE v[i] \in C OBVIOUS
      <3>1. i \in 1 .. N BY <1>1
      <3> QED BY <3>1, ElementOfSeq
    <2>2. b + 1 \in Int /\ e \in Int OBVIOUS
    <2> QED BY <2>1, <2>2, SubSeqProperties
  <1>3. V # {}
    <2>1. <<>> \in V OBVIOUS
    <2> HIDE DEF V
    <2> QED BY <2>1
  <1>4. ASSUME NEW x \in V, NEW y \in V PROVE M[<<x, y>>] \in V
    <2>1. x \in X /\ y \in X BY SeqMonotonic
    <2>2. Runs(C, x, y) BY DEF Runs
    <2>3. merge_keys(t, x, y) \in V BY <2>2, MergeTyped
    <2> HIDE DEF V, X
    <2> QED BY <2>1, <2>3
  <1>5. ASSUME NEW b \in 0 .. N, NEW e \in 0 .. N, ~(e - b < 2)
        PROVE  /\ <<b, mid(b, e)>> \in D /\ <<mid(b, e), e>> \in D
               /\ m[<<b, mid(b, e)>>] < m[<<b, e>>] /\ m[<<mid(b, e), e>>] < m[<<b, e>>]
    <2> DEFINE h == (e - b) \div 2
    <2>1. b \in Nat /\ e \in Nat /\ e - b >= 2 /\ e - b \in Nat BY <1>1, <1>5
    <2>2. h \in Nat /\ h >= 1 /\ h < e - b BY <2>1
    <2> HIDE DEF h
    <2>3. b + h \in 0 .. N /\ b + h > b /\ b + h < e BY <1>1, <2>1, <2>2
    <2>4. ASSUME NEW k \in 0 .. N, k > b, k < e
          PROVE  /\ <<b, k>> \in D /\ <<k, e>> \in D
                 /\ m[<<b, k>>] < m[<<b, e>>] /\ m[<<k, e>>] < m[<<b, e>>]
      <3>1. <<b, k>> \in D /\ <<k, e>> \in D /\ <<b, e>> \in D OBVIOUS
      <3>2. m[<<b, k>>] = k - b /\ m[<<k, e>>] = e - k /\ m[<<b, e>>] = e - b
        BY <1>1, <2>1, <2>4, <3>1
      <3> HIDE DEF m
      <3> QED BY <1>1, <2>1, <2>4, <3>1, <3>2
    <2> HIDE DEF m, D
    <2>5. mid(b, e) = b + h BY DEF h
    <2> HIDE DEF mid
    <2> QED BY <2>3, <2>4, <2>5
  <1> HIDE DEF V, X, M, N, mid
  <1>6. m \in [D -> Nat]
    <2> SUFFICES ASSUME NEW run \in D
                 PROVE  (IF run[2] > run[1] THEN run[2] - run[1] ELSE 0) \in Nat
      OBVIOUS
    <2>1. run[1] \in Nat /\ run[2] \in Nat BY <1>1
    <2> QED BY <2>1
  <1>7. ASSUME NEW g \in [D -> V], NEW b \in 0 .. N, NEW e \in 0 .. N PROVE step(g, b, e) \in V
    <2>1. CASE e - b < 2 BY <1>2, <2>1
    <2>2. CASE ~(e - b < 2)
      <3> DEFINE x == g[<<b, mid(b, e)>>]
                 y == g[<<mid(b, e), e>>]
      <3>1. <<b, mid(b, e)>> \in D /\ <<mid(b, e), e>> \in D BY <1>5, <2>2
      <3>2. x \in V /\ y \in V
        <4> HIDE DEF D
        <4> QED BY <3>1
      <3>3. step(g, b, e) = M[<<x, y>>] BY <2>2
      <3> HIDE DEF x, y, step
      <3> QED BY <1>4, <3>2, <3>3
    <2> QED BY <2>1, <2>2
  <1>8. G \in [[D -> V] -> [D -> V]]
    <2> HIDE DEF step
    <2>1. \A g \in [D -> V] : \A run \in D : step(g, run[1], run[2]) \in V BY <1>7
    <2> HIDE DEF D
    <2> QED BY <2>1
  <1>9. ASSUME NEW g, NEW h, NEW b \in 0 .. N, NEW e \in 0 .. N,
               \A d \in D : m[d] < m[<<b, e>>] => g[d] = h[d]
        PROVE  step(g, b, e) = step(h, b, e)
    <2>1. CASE e - b < 2 BY <2>1
    <2>2. CASE ~(e - b < 2)
      <3>1. g[<<b, mid(b, e)>>] = h[<<b, mid(b, e)>>] /\ g[<<mid(b, e), e>>] = h[<<mid(b, e), e>>]
        <4> HIDE DEF D, m
        <4> QED BY <1>5, <1>9, <2>2
      <3> QED BY <2>2, <3>1
    <2> QED BY <2>1, <2>2
  <1>10. ASSUME NEW g \in [D -> V], NEW h \in [D -> V], NEW d \in D,
                \A e \in D : m[e] < m[d] => g[e] = h[e]
         PROVE  G[g][d] = G[h][d]
    <2>1. d[1] \in 0 .. N /\ d[2] \in 0 .. N /\ d = <<d[1], d[2]>> OBVIOUS
    <2>2. \A e \in D : m[e] < m[<<d[1], d[2]>>] => g[e] = h[e] BY <1>10, <2>1
    <2> HIDE DEF step, D, m
    <2>3. step(g, d[1], d[2]) = step(h, d[1], d[2]) BY <1>9, <2>1, <2>2
    <2> QED BY <2>3
  <1>11. \E g \in [D -> V] : g = G[g]
    <2> HIDE DEF G, D, m
    <2>1. Recursion(D, V, m, G) BY <1>3, <1>6, <1>8, <1>10 DEF Recursion
    <2> QED BY <2>1, RecursionExists
  <1>12. PICK g \in [D -> V] : g = G[g] BY <1>11
  <1> DEFINE E(f) == f = [run \in (0 .. Len(v)) \X (0 .. Len(v)) |->
                       LET b == run[1]
                           e == run[2]
                           middle == b + (e - b) \div 2
                       IN  IF e - b < 2 THEN SubSeq(v, b + 1, e)
                           ELSE M[<<f[<<b, middle>>], f[<<middle, e>>]>>]]
             F == CHOOSE f : E(f)
  <1>13. ASSUME NEW f PROVE E(f) <=> f = [run \in D |-> step(f, run[1], run[2])]
    BY DEF N, mid
  <1>14. F = [run \in D |-> step(F, run[1], run[2])]
    <2>1. g = [run \in D |-> step(g, run[1], run[2])]
      <3> HIDE DEF D, step
      <3> QED BY <1>12
    <2> HIDE DEF E, D, step
    <2>2. E(g) BY <1>13, <2>1
    <2>3. E(F) BY <2>2
    <2> QED BY <1>13, <2>3
  <1>15. sort_keys(t, v) = F[<<0, N>>] BY DEF sort_keys, M, X, N
  <1> HIDE DEF F, E
  <1>16. ASSUME NEW d \in D, \A e \in D : m[e] < m[d] => F[e] = g[e] PROVE F[d] = g[d]
    <2>1. d[1] \in 0 .. N /\ d[2] \in 0 .. N /\ d = <<d[1], d[2]>> OBVIOUS
    <2>2. \A e \in D : m[e] < m[<<d[1], d[2]>>] => F[e] = g[e] BY <1>16, <2>1
    <2> HIDE DEF step, D, m
    <2>3. step(F, d[1], d[2]) = step(g, d[1], d[2]) BY <1>9, <2>1, <2>2
    <2>4. F[d] = step(F, d[1], d[2]) /\ g[d] = step(g, d[1], d[2]) BY <1>12, <1>14
    <2> QED BY <2>3, <2>4
  <1>17. \A d \in D : F[d] = g[d]
    <2> HIDE DEF D, m, step
    <2>1. Determined(D, m, F, g) BY <1>6, <1>16 DEF Determined
    <2> QED BY <2>1, RecursionUnique
  <1>18. <<0, N>> \in D BY <1>1
  <1>19. F[<<0, N>>] \in V BY <1>17, <1>18
  <1> QED BY <1>15, <1>19 DEF V

-----------------------------------------------------------------------------
(* The calls serialize_node makes.                                          *)

FlagRecords == [indent : BOOLEAN, ascii : BOOLEAN, newline : BOOLEAN]

\* Calls that descend into a later node.
Visits(t, i) == [do : {"node"}, bytes : {<<>>}, node : {j \in DOMAIN t : j > i}, level : Nat]

Steps(t, i) == Appends \cup Visits(t, i)

\* Node i is an object that sorts its members.
Sorts(t, i) == t[i].type = "object" /\ t[i].links.child_count # 0
Releases(t, i) == IF Sorts(t, i) THEN <<release_arrays>> ELSE <<>>

\* A byte or more, then appends and later nodes, then the release of the arrays.
Shaped(t, i, c) ==
  \E b \in {s \in Seq(Nat) : s # <<>>} : \E r \in Seq(Steps(t, i)) :
    c = (<<chunk(b)>> \o r) \o Releases(t, i)

\* A descent into a child.
LEMMA VisitTyped ==
  ASSUME NEW t, Linked(t), NEW i \in DOMAIN t, NEW v \in ChildrenOf(t, i), NEW level \in Nat
  PROVE  visit(v, level) \in Steps(t, i)
  <1>1. v \in DOMAIN t /\ v > i BY LinkFacts
  <1>2. visit(v, level) \in Visits(t, i) BY <1>1 DEF visit, Visits
  <1> QED BY <1>2 DEF Steps

\* Commas are appends.
LEMMA CommaTyped ==
  ASSUME NEW k
  PROVE  comma(k) \in Seq(Appends)
  <1>1. <<44>> \in Seq(Nat) OBVIOUS
  <1>2. <<chunk(<<44>>)>> \in Seq(Appends) BY <1>1, ChunkTyped
  <1> QED BY <1>2 DEF comma

\* What is written before a key or an item and around a key.
LEMMA ItemTyped ==
  ASSUME NEW t, IsTree(t), NEW fl \in FlagRecords, NEW i \in DOMAIN t,
         NEW v \in ChildrenOf(t, i), NEW k, NEW level \in Nat
  PROVE  comma(k) \o append_break(fl, level + 1) \o <<visit(v, level + 1)>> \in Seq(Steps(t, i))
  <1> DEFINE S == Steps(t, i)
             a == comma(k)
             b == append_break(fl, level + 1)
             c == visit(v, level + 1)
  <1>1. level + 1 \in Nat OBVIOUS
  <1>2. Linked(t) BY DEF IsTree, Linked
  <1>3. a \in Seq(Appends) /\ b \in Seq(Appends) BY <1>1, CommaTyped, BreakTyped DEF FlagRecords
  <1>4. c \in S BY <1>1, <1>2, VisitTyped
  <1>5. Appends \subseteq S BY DEF Steps
  <1> HIDE DEF S, a, b, c
  <1>6. a \in Seq(S) /\ b \in Seq(S) BY <1>3, <1>5, SeqMonotonic
  <1>7. a \o b \o <<c>> \in Seq(S) BY <1>4, <1>6
  <1> QED BY <1>7 DEF S, a, b, c

\* What is written for a member.
LEMMA MemberTyped ==
  ASSUME NEW t, IsTree(t), NEW fl \in FlagRecords, NEW i \in DOMAIN t, t[i].type = "object",
         NEW v \in ChildrenOf(t, i), NEW k, NEW level \in Nat
  PROVE  comma(k) \o append_break(fl, level + 1) \o append_string(fl, t[v].key)
           \o <<chunk(IF fl.indent THEN <<58, 32>> ELSE <<58>>), visit(v, level + 1)>>
           \in Seq(Steps(t, i))
  <1> DEFINE S == Steps(t, i)
             a == comma(k)
             b == append_break(fl, level + 1)
             q == append_string(fl, t[v].key)
             colon == IF fl.indent THEN <<58, 32>> ELSE <<58>>
             d == chunk(colon)
             c == visit(v, level + 1)
  <1>1. level + 1 \in Nat OBVIOUS
  <1>2. Linked(t) BY DEF IsTree, Linked
  <1>3. a \in Seq(Appends) /\ b \in Seq(Appends) BY <1>1, CommaTyped, BreakTyped DEF FlagRecords
  <1>4. c \in S BY <1>1, <1>2, VisitTyped
  <1>5. Appends \subseteq S BY DEF Steps
  <1>6. IsText(t[v].key)
    <2>1. v \in DOMAIN t /\ t[v].links.parent = i BY DEF ChildrenOf
    <2>2. i # NONE BY <1>2, LinkFacts, NoneAssumption
    <2> QED BY <2>1, <2>2 DEF IsTree
  <1>7. q \in Seq(Appends)
    <2>1. PICK e \in Seq(Appends) : q = Quoted \o e \o Quoted
      BY <1>6, StringTyped DEF FlagRecords
    <2>2. <<quote>> \in Seq(Nat) BY DEF quote
    <2>3. Quoted \in Seq(Appends) BY <2>2, ChunkTyped DEF Quoted
    <2> HIDE DEF q
    <2> QED BY <2>1, <2>3
  <1>8. d \in Appends
    <2>1. colon \in Seq(Nat) OBVIOUS
    <2> HIDE DEF colon
    <2> QED BY <2>1, ChunkTyped
  <1> HIDE DEF S, a, b, c, d, q
  <1>9. a \in Seq(S) /\ b \in Seq(S) /\ q \in Seq(S) /\ d \in S
    BY <1>3, <1>5, <1>7, <1>8, SeqMonotonic
  <1>10. a \o b \o q \o <<d, c>> \in Seq(S) BY <1>4, <1>9
  <1> QED BY <1>10 DEF S, a, b, c, d, q

\* Members in any order.
LEMMA MembersTyped ==
  ASSUME NEW t, IsTree(t), NEW fl \in FlagRecords, NEW i \in DOMAIN t, t[i].type = "object",
         NEW values, values \in Seq(ChildrenOf(t, i)), NEW level \in Nat
  PROVE  LET member(k, value) ==
               comma(k) \o append_break(fl, level + 1) \o append_string(fl, t[value].key)
                 \o <<chunk(IF fl.indent THEN <<58, 32>> ELSE <<58>>), visit(value, level + 1)>>
             upto[k \in 0 .. Len(values)] ==
               IF k = 0 THEN <<>> ELSE upto[k - 1] \o member(k, values[k])
         IN  upto[Len(values)] \in Seq(Steps(t, i))
  <1> DEFINE member(k, value) ==
               comma(k) \o append_break(fl, level + 1) \o append_string(fl, t[value].key)
                 \o <<chunk(IF fl.indent THEN <<58, 32>> ELSE <<58>>), visit(value, level + 1)>>
             n == Len(values)
             S == Steps(t, i)
             p == [k \in 1 .. n |-> member(k, values[k])]
             E(u) == u = [k \in 0 .. Len(values) |->
                            IF k = 0 THEN <<>> ELSE u[k - 1] \o member(k, values[k])]
             U == CHOOSE u : E(u)
  <1>1. n \in Nat BY LenProperties
  <1>2. ASSUME NEW k \in 1 .. n PROVE member(k, values[k]) \in Seq(S)
    <2>1. values[k] \in ChildrenOf(t, i) BY ElementOfSeq
    <2> QED BY <2>1, MemberTyped
  <1> HIDE DEF member, S, n
  <1>3. Sequences(n, S, p) BY <1>2 DEF Sequences
  <1>4. ASSUME NEW u PROVE E(u) <=> Looped(n, p, u)
    <2>1. \A k \in 0 .. n : k # 0 => p[k] = member(k, values[k]) BY <1>1
    <2> HIDE DEF p
    <2> QED BY <1>1, <2>1 DEF Looped, n
  <1>5. Looped(n, p, U)
    <2> HIDE DEF p, E
    <2>1. \E u : Looped(n, p, u) BY <1>1, <1>3, LoopExists
    <2>2. E(U) BY <1>4, <2>1
    <2> QED BY <1>4, <2>2
  <1>6. U[n] \in Seq(S)
    <2>1. n \in 0 .. n BY <1>1
    <2> HIDE DEF p, U
    <2> QED BY <1>1, <1>3, <1>5, <2>1, LoopTyped
  <1> QED BY <1>6, Zenon DEF n, S, member

\* Items in any order.
LEMMA ItemsTyped ==
  ASSUME NEW t, IsTree(t), NEW fl \in FlagRecords, NEW i \in DOMAIN t,
         NEW values, values \in Seq(ChildrenOf(t, i)), NEW level \in Nat
  PROVE  LET item(k, value) ==
               comma(k) \o append_break(fl, level + 1) \o <<visit(value, level + 1)>>
             upto[k \in 0 .. Len(values)] ==
               IF k = 0 THEN <<>> ELSE upto[k - 1] \o item(k, values[k])
         IN  upto[Len(values)] \in Seq(Steps(t, i))
  <1> DEFINE item(k, value) ==
               comma(k) \o append_break(fl, level + 1) \o <<visit(value, level + 1)>>
             n == Len(values)
             S == Steps(t, i)
             p == [k \in 1 .. n |-> item(k, values[k])]
             E(u) == u = [k \in 0 .. Len(values) |->
                            IF k = 0 THEN <<>> ELSE u[k - 1] \o item(k, values[k])]
             U == CHOOSE u : E(u)
  <1>1. n \in Nat BY LenProperties
  <1>2. ASSUME NEW k \in 1 .. n PROVE item(k, values[k]) \in Seq(S)
    <2>1. values[k] \in ChildrenOf(t, i) BY ElementOfSeq
    <2> QED BY <2>1, ItemTyped
  <1> HIDE DEF item, S, n
  <1>3. Sequences(n, S, p) BY <1>2 DEF Sequences
  <1>4. ASSUME NEW u PROVE E(u) <=> Looped(n, p, u)
    <2>1. \A k \in 0 .. n : k # 0 => p[k] = item(k, values[k]) BY <1>1
    <2> HIDE DEF p
    <2> QED BY <1>1, <2>1 DEF Looped, n
  <1>5. Looped(n, p, U)
    <2> HIDE DEF p, E
    <2>1. \E u : Looped(n, p, u) BY <1>1, <1>3, LoopExists
    <2>2. E(U) BY <1>4, <2>1
    <2> QED BY <1>4, <2>2
  <1>6. U[n] \in Seq(S)
    <2>1. n \in 0 .. n BY <1>1
    <2> HIDE DEF p, U
    <2> QED BY <1>1, <1>3, <1>5, <2>1, LoopTyped
  <1> QED BY <1>6 DEF n, S, item

\* A sequence over S.
Over(S, s) == s \in Seq(S)

\* Concatenation, for sequences known in this way.
LEMMA OverFacts ==
  ASSUME NEW S, NEW a, NEW b, NEW c, Over(S, a), Over(S, b), Over(S, c)
  PROVE  /\ (a \o b) \o c = a \o (b \o c) /\ Over(S, a \o b)
         /\ a \o <<>> = a /\ <<>> \o a = a
         /\ \A T : S \subseteq T => Over(T, a)
  <1> USE DEF Over
  <1>1. (a \o b) \o c = a \o (b \o c) BY ConcatAssociative
  <1>2. a \o b \in Seq(S) BY ConcatProperties
  <1>3. a \o <<>> = a /\ <<>> \o a = a BY ConcatEmptySeq
  <1>4. \A T : S \subseteq T => a \in Seq(T) BY SeqMonotonic
  <1> QED BY <1>1, <1>2, <1>3, <1>4

\* The brackets and the release around what is inside a container.
LEMMA Bracketed ==
  ASSUME NEW S, NEW a, NEW m, NEW b, NEW x, Over(S, a), Over(S, m), Over(S, b), x \in S
  PROVE  /\ a \o m \o b \o <<x>> = (a \o ((m \o b) \o <<x>>)) \o <<>>
         /\ \A y : a \o m \o b \o <<x, y>> = (a \o ((m \o b) \o <<x>>)) \o <<y>>
         /\ Over(S, (m \o b) \o <<x>>)
  <1> DEFINE c == m \o b
             e == <<x>>
  <1>1. (a \o m) \o b = a \o c /\ Over(S, c) BY OverFacts
  <1>2. Over(S, e) BY DEF Over
  <1> HIDE DEF c, e
  <1>3. (a \o c) \o e = a \o (c \o e) /\ Over(S, c \o e) /\ Over(S, a \o c)
    BY <1>1, <1>2, OverFacts
  <1>4. (a \o (c \o e)) \o <<>> = a \o (c \o e)
    <2> DEFINE r == c \o e
    <2>1. Over(S, r) BY <1>3
    <2> HIDE DEF r
    <2>2. Over(S, a \o r) BY <2>1, OverFacts
    <2>3. (a \o r) \o <<>> = a \o r BY <2>2, OverFacts
    <2> QED BY <2>3 DEF r
  <1>5. ASSUME NEW y PROVE (a \o c) \o <<x, y>> = (a \o (c \o e)) \o <<y>>
    <2> DEFINE T == S \cup {y}
               r == a \o c
               f == <<y>>
    <2>1. Over(S, r) /\ S \subseteq T BY <1>3
    <2>2. Over(T, f) BY DEF Over
    <2>3. <<x, y>> = e \o f BY DEF e
    <2> HIDE DEF T, r, f
    <2>4. Over(T, r) /\ Over(T, e) BY <1>2, <2>1, OverFacts
    <2>5. (r \o e) \o f = r \o (e \o f) BY <2>2, <2>4, OverFacts
    <2>6. r \o e = a \o (c \o e) BY <1>3 DEF r
    <2> QED BY <2>3, <2>5, <2>6 DEF r, f
  <1> QED BY <1>1, <1>3, <1>4, <1>5 DEF c, e

\* What is written for an object.
LEMMA ObjectShape ==
  ASSUME NEW t, IsTree(t), NEW fl \in FlagRecords, NEW i \in DOMAIN t, t[i].type = "object",
         NEW level \in Nat
  PROVE  Shaped(t, i, serialize_object(t, fl, i, level))
  <1>1. CASE t[i].links.child_count = 0
    <2> DEFINE b == <<123, 125>>
               a == <<chunk(b)>>
    <2>1. b \in {s \in Seq(Nat) : s # <<>>} OBVIOUS
    <2>2. a \in Seq(Appends) BY <2>1, ChunkTyped
    <2>3. serialize_object(t, fl, i, level) = a BY <1>1 DEF serialize_object
    <2>4. Releases(t, i) = <<>> BY <1>1 DEF Releases, Sorts
    <2>5. <<>> \in Seq(Steps(t, i)) BY EmptySeq
    <2> HIDE DEF a
    <2>6. a = (a \o <<>>) \o <<>> BY <2>2, ConcatEmptySeq
    <2> HIDE DEF b
    <2> QED BY <2>1, <2>3, <2>4, <2>5, <2>6 DEF Shaped, a
  <1>2. CASE t[i].links.child_count # 0
    <2> DEFINE b == <<123>>
               a == <<chunk(b)>>
               values == sort_keys(t, chain(t, i))
               member(k, value) ==
                 comma(k) \o append_break(fl, level + 1) \o append_string(fl, t[value].key)
                   \o <<chunk(IF fl.indent THEN <<58, 32>> ELSE <<58>>), visit(value, level + 1)>>
               m == LET upto[k \in 0 .. Len(values)] ==
                          IF k = 0 THEN <<>> ELSE upto[k - 1] \o member(k, values[k])
                    IN  upto[Len(values)]
               e == append_break(fl, level)
               x == chunk(<<125>>)
               S == Steps(t, i)
               C == ChildrenOf(t, i)
    <2>1. b \in {s \in Seq(Nat) : s # <<>>} OBVIOUS
    <2>2. Linked(t) BY DEF IsTree, Linked
    <2>3. values \in Seq(C)
      <3>1. chain(t, i) \in Seq(C) BY <2>2, ChainTyped
      <3>2. C \subseteq DOMAIN t BY DEF ChildrenOf
      <3> HIDE DEF C
      <3> QED BY <3>1, <3>2, SortTyped
    <2>4. values \in Seq(DOMAIN t)
      <3>1. C \subseteq DOMAIN t BY DEF ChildrenOf
      <3> HIDE DEF values, C
      <3> QED BY <2>3, <3>1, SeqMonotonic
    <2> HIDE DEF values
    <2>5. m \in Seq(S) BY <2>3, MembersTyped, Zenon
    <2>6. serialize_object(t, fl, i, level) = a \o m \o e \o <<x, release_arrays>>
      BY <1>2, <2>4, Zenon DEF serialize_object, values
    <2> HIDE DEF m, member
    <2>7. Appends \subseteq S BY DEF Steps
    <2>8. a \in Seq(Appends) BY <2>1, ChunkTyped
    <2>9. e \in Seq(Appends) BY BreakTyped DEF FlagRecords
    <2>10. x \in Appends
      <3>1. <<125>> \in Seq(Nat) OBVIOUS
      <3> QED BY <3>1, ChunkTyped
    <2> HIDE DEF a, e, x, S
    <2>11. a \in Seq(S) /\ e \in Seq(S) /\ x \in S BY <2>7, <2>8, <2>9, <2>10, SeqMonotonic
    <2>12. /\ a \o m \o e \o <<x, release_arrays>> = (a \o ((m \o e) \o <<x>>)) \o <<release_arrays>>
           /\ (m \o e) \o <<x>> \in Seq(S)
      <3>1. Over(S, a) /\ Over(S, m) /\ Over(S, e) BY <2>5, <2>11 DEF Over
      <3>2. Over(S, (m \o e) \o <<x>>) => (m \o e) \o <<x>> \in Seq(S) BY DEF Over
      <3>3. x \in S BY <2>11
      <3> DEFINE r == release_arrays
      <3> HIDE DEF m, r
      <3>4. ASSUME NEW y PROVE a \o m \o e \o <<x, y>> = (a \o ((m \o e) \o <<x>>)) \o <<y>>
        BY <3>1, <3>3, Bracketed
      <3>5. a \o m \o e \o <<x, r>> = (a \o ((m \o e) \o <<x>>)) \o <<r>> BY <3>4
      <3>6. Over(S, (m \o e) \o <<x>>) BY <3>1, <3>3, Bracketed
      <3> QED BY <3>2, <3>5, <3>6 DEF r
    <2>13. Releases(t, i) = <<release_arrays>> BY <1>2 DEF Releases, Sorts
    <2> HIDE DEF b
    <2> QED BY <2>1, <2>6, <2>12, <2>13 DEF Shaped, a, S
  <1> QED BY <1>1, <1>2

\* What is written for an array.
LEMMA ArrayShape ==
  ASSUME NEW t, IsTree(t), NEW fl \in FlagRecords, NEW i \in DOMAIN t, t[i].type = "array",
         NEW level \in Nat
  PROVE  Shaped(t, i, serialize_array(t, fl, i, level))
  <1>0. Releases(t, i) = <<>> BY DEF Releases, Sorts
  <1>1. CASE t[i].links.child_count = 0
    <2> DEFINE b == <<91, 93>>
               a == <<chunk(b)>>
    <2>1. b \in {s \in Seq(Nat) : s # <<>>} OBVIOUS
    <2>2. a \in Seq(Appends) BY <2>1, ChunkTyped
    <2>3. serialize_array(t, fl, i, level) = a BY <1>1 DEF serialize_array
    <2>5. <<>> \in Seq(Steps(t, i)) BY EmptySeq
    <2> HIDE DEF a
    <2>6. a = (a \o <<>>) \o <<>> BY <2>2, ConcatEmptySeq
    <2> HIDE DEF b
    <2> QED BY <1>0, <2>1, <2>3, <2>5, <2>6 DEF Shaped, a
  <1>2. CASE t[i].links.child_count # 0
    <2> DEFINE b == <<91>>
               a == <<chunk(b)>>
               values == chain(t, i)
               item(k, value) ==
                 comma(k) \o append_break(fl, level + 1) \o <<visit(value, level + 1)>>
               m == LET upto[k \in 0 .. Len(values)] ==
                          IF k = 0 THEN <<>> ELSE upto[k - 1] \o item(k, values[k])
                    IN  upto[Len(values)]
               e == append_break(fl, level)
               x == chunk(<<93>>)
               S == Steps(t, i)
               C == ChildrenOf(t, i)
    <2>1. b \in {s \in Seq(Nat) : s # <<>>} OBVIOUS
    <2>2. Linked(t) BY DEF IsTree, Linked
    <2>3. values \in Seq(C) BY <2>2, ChainTyped
    <2>4. values \in Seq(DOMAIN t)
      <3>1. C \subseteq DOMAIN t BY DEF ChildrenOf
      <3> HIDE DEF values, C
      <3> QED BY <2>3, <3>1, SeqMonotonic
    <2> HIDE DEF values
    <2>5. m \in Seq(S) BY <2>3, ItemsTyped, Zenon
    <2>6. serialize_array(t, fl, i, level) = a \o m \o e \o <<x>>
      BY <1>2, <2>4, Zenon DEF serialize_array, values
    <2> HIDE DEF m, item
    <2>7. Appends \subseteq S BY DEF Steps
    <2>8. a \in Seq(Appends) BY <2>1, ChunkTyped
    <2>9. e \in Seq(Appends) BY BreakTyped DEF FlagRecords
    <2>10. x \in Appends
      <3>1. <<93>> \in Seq(Nat) OBVIOUS
      <3> QED BY <3>1, ChunkTyped
    <2> HIDE DEF a, e, x, S
    <2>11. a \in Seq(S) /\ e \in Seq(S) /\ x \in S BY <2>7, <2>8, <2>9, <2>10, SeqMonotonic
    <2>12. /\ a \o m \o e \o <<x>> = (a \o ((m \o e) \o <<x>>)) \o <<>>
           /\ (m \o e) \o <<x>> \in Seq(S)
      <3>1. Over(S, a) /\ Over(S, m) /\ Over(S, e) BY <2>5, <2>11 DEF Over
      <3>2. Over(S, (m \o e) \o <<x>>) => (m \o e) \o <<x>> \in Seq(S) BY DEF Over
      <3> QED BY <2>11, <3>1, <3>2, Bracketed
    <2> HIDE DEF b
    <2> QED BY <1>0, <2>1, <2>6, <2>12 DEF Shaped, a, S
  <1> QED BY <1>1, <1>2

\* What is written for a node.
LEMMA NodeShape ==
  ASSUME NEW t, IsTree(t), NEW fl \in FlagRecords, NEW i \in DOMAIN t, NEW level \in Nat
  PROVE  Shaped(t, i, serialize_node(t, fl, i, level))
  <1> DEFINE type == t[i].type
             c == serialize_node(t, fl, i, level)
             object == serialize_object(t, fl, i, level)
             array == serialize_array(t, fl, i, level)
             string == append_string(fl, t[i].text)
             number == append_number(t[i])
             boolean == <<chunk(IF t[i].value THEN text_true ELSE text_false)>>
             null == <<chunk(text_null)>>
  <1>1. type \in {"object", "array", "string", "number", "boolean", "null"} BY DEF IsTree
  <1>2. c = CASE type = "object" -> object [] type = "array" -> array
              [] type = "string" -> string [] type = "number" -> number
              [] type = "boolean" -> boolean [] type = "null" -> null
    BY DEF serialize_node
  <1> HIDE DEF c, object, array, string, number, boolean, null
  <1>3. ASSUME NEW b \in {s \in Seq(Nat) : s # <<>>}, type # "object", c = <<chunk(b)>>
        PROVE  Shaped(t, i, c)
    <2>1. Releases(t, i) = <<>> BY <1>3 DEF Releases, Sorts
    <2> DEFINE a == <<chunk(b)>>
    <2>2. a \in Seq(Appends) BY ChunkTyped
    <2>3. <<>> \in Seq(Steps(t, i)) BY EmptySeq
    <2>4. c = a BY <1>3
    <2> HIDE DEF a
    <2>5. c = (a \o <<>>) \o <<>> BY <2>2, <2>4, ConcatEmptySeq
    <2> QED BY <2>1, <2>3, <2>5 DEF Shaped, a
  <1>4. CASE type = "object"
    <2>1. c = object BY <1>2, <1>4
    <2> QED BY <1>4, <2>1, ObjectShape DEF object, c
  <1>5. CASE type = "array"
    <2>1. c = array BY <1>2, <1>5
    <2> QED BY <1>5, <2>1, ArrayShape DEF array, c
  <1>6. CASE type = "string"
    <2>1. c = string BY <1>2, <1>6
    <2>2. IsText(t[i].text) BY <1>6 DEF IsTree
    <2>3. PICK e \in Seq(Appends) : string = Quoted \o e \o Quoted
      BY <2>2, StringTyped DEF FlagRecords, string
    <2> DEFINE b == <<quote>>
               S == Steps(t, i)
    <2>4. b \in {s \in Seq(Nat) : s # <<>>} BY DEF quote
    <2>5. Quoted \in Seq(Appends) /\ Quoted = <<chunk(b)>> BY <2>4, ChunkTyped DEF Quoted
    <2>6. Appends \subseteq S BY DEF Steps
    <2> HIDE DEF b, S
    <2>7. Over(Appends, e) /\ Over(Appends, Quoted) BY <2>3, <2>5 DEF Over
    <2>8. Over(S, e) /\ Over(S, Quoted) BY <2>6, <2>7, OverFacts
    <2> DEFINE r == e \o Quoted
    <2>9. (Quoted \o e) \o Quoted = Quoted \o r /\ Over(S, r) BY <2>8, OverFacts
    <2> HIDE DEF r
    <2>10. (Quoted \o r) \o <<>> = Quoted \o r /\ r \in Seq(S)
      <3>1. Over(S, Quoted \o r) BY <2>8, <2>9, OverFacts
      <3>2. (Quoted \o r) \o <<>> = Quoted \o r BY <3>1, OverFacts
      <3> QED BY <2>9, <3>2 DEF Over
    <2>11. Releases(t, i) = <<>> BY <1>6 DEF Releases, Sorts
    <2>12. c = (<<chunk(b)>> \o r) \o Releases(t, i) BY <2>1, <2>3, <2>5, <2>9, <2>10, <2>11
    <2> QED BY <2>4, <2>10, <2>12 DEF Shaped, S, c
  <1>7. CASE type = "number"
    <2> DEFINE b == IF t[i].text # NONE THEN t[i].text ELSE decimal(t[i].value)
    <2>1. c = <<chunk(b)>> BY <1>2, <1>7 DEF number, append_number
    <2>2. b \in Seq(Nat) /\ b # <<>>
      <3>1. CASE t[i].text = NONE
        <4>1. t[i].value \in Int BY <1>7, <3>1 DEF IsTree
        <4> QED BY <3>1, <4>1, DecimalTyped
      <3>2. CASE t[i].text # NONE
        <4>1. t[i].text \in Seq(Byte) /\ t[i].text # <<>> BY <1>7, <3>2 DEF IsTree
        <4>2. Byte \subseteq Nat BY DEF Byte
        <4>3. t[i].text \in Seq(Nat) BY <4>1, <4>2, SeqMonotonic
        <4> QED BY <3>2, <4>1, <4>3
      <3> QED BY <3>1, <3>2
    <2> HIDE DEF b
    <2> QED BY <1>3, <1>7, <2>1, <2>2 DEF c
  <1>8. CASE type = "boolean"
    <2> DEFINE b == IF t[i].value THEN text_true ELSE text_false
    <2>1. c = <<chunk(b)>> BY <1>2, <1>8 DEF boolean
    <2>2. b \in Seq(Nat) /\ b # <<>> BY DEF text_true, text_false
    <2> HIDE DEF b
    <2> QED BY <1>3, <1>8, <2>1, <2>2 DEF c
  <1>9. CASE type = "null"
    <2>1. c = <<chunk(text_null)>> BY <1>2, <1>9 DEF null
    <2>2. text_null \in Seq(Nat) /\ text_null # <<>> BY DEF text_null
    <2> QED BY <1>3, <1>9, <2>1, <2>2 DEF c
  <1> QED BY <1>1, <1>4, <1>5, <1>6, <1>7, <1>8, <1>9 DEF c

-----------------------------------------------------------------------------
(* Counting the releases among some calls.                                  *)

Frees(c)  == {k \in DOMAIN c : c[k].do = "free"}
Count(c)  == Cardinality(Frees(c))

\* A sequence of calls has a number of releases.
LEMMA CountTyped ==
  ASSUME NEW S, NEW c, Over(S, c)
  PROVE  IsFiniteSet(Frees(c)) /\ Count(c) \in Nat /\ Frees(c) \subseteq 1 .. Len(c)
  <1>1. DOMAIN c = 1 .. Len(c) /\ Len(c) \in Nat BY LenProperties DEF Over
  <1>2. IsFiniteSet(1 .. Len(c)) BY <1>1, FS_Interval
  <1>3. Frees(c) \subseteq 1 .. Len(c) BY <1>1 DEF Frees
  <1>4. IsFiniteSet(Frees(c)) BY <1>2, <1>3, FS_Subset
  <1> QED BY <1>3, <1>4, FS_CardinalityType DEF Count

\* Calls one after another.
LEMMA CountConcat ==
  ASSUME NEW S, NEW a, NEW b, Over(S, a), Over(S, b)
  PROVE  Count(a \o b) = Count(a) + Count(b)
  <1> DEFINE n == Len(a)
             A == Frees(a)
             B == Frees(b)
             C == {n + k : k \in B}
             f == [k \in B |-> n + k]
  <1>1. n \in Nat /\ A \subseteq 1 .. n /\ B \subseteq 1 .. Len(b) /\ Len(b) \in Nat
    BY CountTyped, LenProperties DEF Over
  <1>2. IsFiniteSet(A) /\ IsFiniteSet(B) BY CountTyped
  <1>3. Frees(a \o b) = A \cup C
    <2> DEFINE c == a \o b
    <2>1. /\ DOMAIN c = 1 .. n + Len(b) /\ DOMAIN a = 1 .. n /\ DOMAIN b = 1 .. Len(b)
          /\ \A k \in 1 .. n : c[k] = a[k]
          /\ \A k \in 1 .. Len(b) : c[n + k] = b[k]
      BY DEF Over
    <2> HIDE DEF c, n
    <2>2. ASSUME NEW k \in Frees(c) PROVE k \in A \cup C
      <3>1. k \in 1 .. n + Len(b) /\ c[k].do = "free" BY <2>1 DEF Frees
      <3>2. CASE k <= n
        <4>1. k \in 1 .. n BY <1>1, <3>1, <3>2
        <4> QED BY <2>1, <3>1, <4>1 DEF Frees
      <3>3. CASE ~(k <= n)
        <4>1. k - n \in 1 .. Len(b) /\ k = n + (k - n) BY <1>1, <3>1, <3>3
        <4>2. k - n \in B BY <2>1, <3>1, <4>1 DEF Frees
        <4> QED BY <4>1, <4>2
      <3> QED BY <3>2, <3>3
    <2>3. ASSUME NEW k \in A PROVE k \in Frees(c)
      <3>1. k \in 1 .. n /\ a[k].do = "free" BY <2>1 DEF Frees
      <3>2. k \in 1 .. n + Len(b) BY <1>1, <3>1
      <3> QED BY <2>1, <3>1, <3>2 DEF Frees
    <2>4. ASSUME NEW k \in B PROVE n + k \in Frees(c)
      <3>1. k \in 1 .. Len(b) /\ b[k].do = "free" BY <2>1 DEF Frees
      <3>2. n + k \in 1 .. n + Len(b) BY <1>1, <3>1
      <3> QED BY <2>1, <3>1, <3>2 DEF Frees
    <2> QED BY <2>2, <2>3, <2>4 DEF c
  <1> HIDE DEF A, B, n
  <1>4. IsFiniteSet(C) /\ Cardinality(C) = Cardinality(B)
    <2>1. f \in [B -> C] OBVIOUS
    <2>2. \A x, y \in B : f[x] = f[y] => x = y BY <1>1
    <2>3. \A y \in C : \E x \in B : f[x] = y OBVIOUS
    <2>4. f \in Bijection(B, C)
      <3> HIDE DEF f, C
      <3> QED BY <2>1, <2>2, <2>3 DEF Bijection, Injection, Surjection, IsInjective
    <2>5. ExistsBijection(B, C) BY <2>4 DEF ExistsBijection
    <2> QED BY <1>2, <2>5, FS_Bijection
  <1>5. A \cap C = {} BY <1>1
  <1> HIDE DEF C
  <1>6. Cardinality(A \cup C) = Cardinality(A) + Cardinality(C) - Cardinality(A \cap C)
    BY <1>2, <1>4, FS_Union
  <1>7. Cardinality(A \cap C) = 0 BY <1>5, FS_EmptySet
  <1>8. Cardinality(A) \in Nat /\ Cardinality(C) \in Nat BY <1>2, <1>4, FS_CardinalityType
  <1> QED BY <1>3, <1>4, <1>6, <1>7, <1>8 DEF Count, A, B

\* Calls without a release.
LEMMA CountNone ==
  ASSUME NEW c, \A k \in DOMAIN c : c[k].do # "free"
  PROVE  Count(c) = 0
  BY FS_EmptySet DEF Count, Frees

\* Calls that are all releases.
LEMMA CountAll ==
  ASSUME NEW n \in Nat
  PROVE  Count([i \in 1 .. n |-> release_arrays]) = n
  <1> DEFINE c == [i \in 1 .. n |-> release_arrays]
  <1>1. Frees(c) = 1 .. n BY DEF Frees, release_arrays
  <1>2. Cardinality(1 .. n) = n BY FS_Interval
  <1> HIDE DEF c
  <1>3. Count(c) = n BY <1>1, <1>2 DEF Count
  <1> QED BY <1>3 DEF c

\* What is left after a failure are the releases.
LEMMA UnwindFacts ==
  ASSUME NEW S, NEW c, Over(S, c)
  PROVE  unwind(c) \in Seq({release_arrays}) /\ Count(unwind(c)) = Count(c)
  <1> DEFINE n == Count(c)
  <1>1. n \in Nat BY CountTyped
  <1>2. unwind(c) = [i \in 1 .. n |-> release_arrays] BY DEF unwind, Count, Frees
  <1> HIDE DEF n
  <1>3. Count(unwind(c)) = n BY <1>1, <1>2, CountAll
  <1>4. [i \in 1 .. n |-> release_arrays] \in Seq({release_arrays}) BY <1>1
  <1> QED BY <1>2, <1>3, <1>4 DEF n

-----------------------------------------------------------------------------
(* The text some calls write in the end.                                    *)

Nodes(t) == [do : {"node"}, bytes : {<<>>}, node : DOMAIN t, level : Nat]
Calls(t) == Appends \cup Nodes(t) \cup {release_arrays}

\* The bytes of a call, where g has the text of each node at each level.
Bytes(g, x) == IF x.do = "node" THEN g[<<x.node, x.level>>] ELSE x.bytes
Spoken(g, c) == [k \in DOMAIN c |-> Bytes(g, c[k])]
Said(g, c) == Joined(Spoken(g, c))

\* g gives a text for every node at every level.
Texts(t, g) == g \in [(DOMAIN t) \X Nat -> Seq(Nat)]

\* What the kinds of calls say.
LEMMA BytesTyped ==
  ASSUME NEW t, NEW g, Texts(t, g), NEW x \in Calls(t)
  PROVE  /\ Bytes(g, x) \in Seq(Nat)
         /\ x.do \in {"append", "node", "free"}
         /\ x.do = "append" => x \in Appends /\ Bytes(g, x) = x.bytes
         /\ x.do = "node" => /\ x.node \in DOMAIN t /\ x.level \in Nat
                             /\ Bytes(g, x) = g[<<x.node, x.level>>]
         /\ x.do = "free" => x = release_arrays /\ Bytes(g, x) = <<>>
  <1>1. CASE x \in Appends
    <2>1. x.do = "append" /\ x.bytes \in Seq(Nat) BY <1>1 DEF Appends
    <2> QED BY <1>1, <2>1 DEF Bytes
  <1>2. CASE x \in Nodes(t)
    <2>1. x.do = "node" /\ x.node \in DOMAIN t /\ x.level \in Nat BY <1>2 DEF Nodes
    <2>2. g[<<x.node, x.level>>] \in Seq(Nat) BY <2>1 DEF Texts
    <2> QED BY <2>1, <2>2 DEF Bytes
  <1>3. CASE x = release_arrays
    <2>1. x.do = "free" /\ x.bytes = <<>> BY <1>3 DEF release_arrays
    <2>2. <<>> \in Seq(Nat) OBVIOUS
    <2> QED BY <1>3, <2>1, <2>2 DEF Bytes
  <1> QED BY <1>1, <1>2, <1>3 DEF Calls

\* Each call says a piece.
LEMMA SpokenPieces ==
  ASSUME NEW t, NEW g, Texts(t, g), NEW c, Over(Calls(t), c)
  PROVE  Pieces(Nat, Spoken(g, c)) /\ Over(Nat, Said(g, c))
  <1> DEFINE n == Len(c)
  <1>1. n \in Nat /\ DOMAIN c = 1 .. n BY LenProperties DEF Over
  <1>2. ASSUME NEW k \in 1 .. n PROVE Bytes(g, c[k]) \in Seq(Nat)
    <2>1. c[k] \in Calls(t) BY ElementOfSeq DEF Over
    <2> QED BY <2>1, BytesTyped
  <1> HIDE DEF n
  <1>3. [k \in 1 .. n |-> Bytes(g, c[k])] \in Seq(Seq(Nat)) BY <1>1, <1>2
  <1>4. Pieces(Nat, Spoken(g, c)) BY <1>1, <1>3 DEF Pieces, Spoken
  <1> QED BY <1>4, JoinedTyped DEF Said, Over

\* Calls one after another say their texts one after another.
LEMMA SaidConcat ==
  ASSUME NEW t, NEW g, Texts(t, g), NEW a, NEW b, Over(Calls(t), a), Over(Calls(t), b)
  PROVE  Said(g, a \o b) = Said(g, a) \o Said(g, b)
  <1>1. Pieces(Nat, Spoken(g, a)) /\ Pieces(Nat, Spoken(g, b)) BY SpokenPieces
  <1>2. Spoken(g, a \o b) = Spoken(g, a) \o Spoken(g, b)
    <2> DEFINE c == a \o b
               n == Len(a)
               k == Len(b)
               p == Spoken(g, a)
               q == Spoken(g, b)
    <2>1. /\ n \in Nat /\ k \in Nat /\ DOMAIN a = 1 .. n /\ DOMAIN b = 1 .. k
          /\ DOMAIN c = 1 .. n + k
          /\ \A i \in 1 .. n : c[i] = a[i]
          /\ \A i \in 1 .. k : c[n + i] = b[i]
      BY DEF Over
    <2> HIDE DEF c, n, k
    <2>2. /\ p = [i \in 1 .. n |-> Bytes(g, a[i])] /\ q = [i \in 1 .. k |-> Bytes(g, b[i])]
          /\ Spoken(g, c) = [i \in 1 .. n + k |-> Bytes(g, c[i])]
      BY <2>1 DEF Spoken
    <2>3. Len(p) = n /\ Len(q) = k /\ DOMAIN p = 1 .. n /\ DOMAIN q = 1 .. k BY <2>1, <2>2
    <2>4. p \o q = [i \in 1 .. n + k |-> IF i <= n THEN p[i] ELSE q[i - n]]
      <3> DEFINE X == Seq(Nat)
      <3>1. p \in Seq(X) /\ q \in Seq(X) BY <1>1 DEF Pieces
      <3> HIDE DEF X, p, q
      <3>2. \A i \in 1 .. Len(p) + Len(q) :
              (p \o q)[i] = IF i <= Len(p) THEN p[i] ELSE q[i - Len(p)]
        BY <3>1, ConcatProperties
      <3>3. p \o q \in Seq(X) /\ Len(p \o q) = Len(p) + Len(q) BY <3>1, ConcatProperties
      <3>4. p \o q = [i \in 1 .. Len(p \o q) |-> (p \o q)[i]]
        <4> DEFINE u == p \o q
        <4>1. u \in Seq(X) BY <3>3
        <4> HIDE DEF u
        <4>2. u = [i \in 1 .. Len(u) |-> u[i]] BY <4>1, LenProperties
        <4> QED BY <4>2 DEF u
      <3> DEFINE u == p \o q
      <3> HIDE DEF u
      <3>5. u = [i \in 1 .. n + k |-> u[i]] BY <2>3, <3>3, <3>4 DEF u
      <3>6. \A i \in 1 .. n + k : u[i] = IF i <= n THEN p[i] ELSE q[i - n] BY <2>3, <3>2 DEF u
      <3>7. u = [i \in 1 .. n + k |-> IF i <= n THEN p[i] ELSE q[i - n]] BY <3>5, <3>6
      <3> QED BY <3>7 DEF u
    <2>5. ASSUME NEW i \in 1 .. n + k
          PROVE  Bytes(g, c[i]) = IF i <= n THEN p[i] ELSE q[i - n]
      <3>1. CASE i <= n
        <4>1. i \in 1 .. n BY <2>1, <3>1
        <4> QED BY <2>1, <2>2, <3>1, <4>1
      <3>2. CASE ~(i <= n)
        <4>1. i - n \in 1 .. k /\ n + (i - n) = i BY <2>1, <3>2
        <4>2. c[i] = b[i - n] BY <2>1, <4>1
        <4>3. q[i - n] = Bytes(g, b[i - n]) BY <2>2, <4>1
        <4> QED BY <3>2, <4>2, <4>3
      <3> QED BY <3>1, <3>2
    <2> HIDE DEF p, q
    <2>6. Spoken(g, c) = p \o q BY <2>2, <2>4, <2>5
    <2> QED BY <2>6 DEF c, p, q
  <1> DEFINE p == Spoken(g, a)
             q == Spoken(g, b)
  <1>3. Pieces(Nat, p) /\ Pieces(Nat, q) BY <1>1
  <1> HIDE DEF p, q
  <1>4. Joined(p \o q) = Joined(p) \o Joined(q) BY <1>3, JoinedConcat
  <1> QED BY <1>2, <1>4 DEF Said, p, q

\* One call, and none.
LEMMA SaidOne ==
  ASSUME NEW t, NEW g, Texts(t, g), NEW x \in Calls(t)
  PROVE  Said(g, <<x>>) = Bytes(g, x) /\ Said(g, <<>>) = <<>> /\ Over(Calls(t), <<x>>)
  <1> DEFINE b == Bytes(g, x)
  <1>1. b \in Seq(Nat) BY BytesTyped
  <1>2. Spoken(g, <<x>>) = <<b>> BY DEF Spoken
  <1>3. Spoken(g, <<>>) = <<>> BY DEF Spoken
  <1> HIDE DEF b
  <1>4. Joined(<<b>>) = b /\ Joined(<<>>) = <<>> BY <1>1, JoinedOne
  <1>5. Over(Calls(t), <<x>>) BY DEF Over
  <1> QED BY <1>2, <1>3, <1>4, <1>5 DEF Said, b

\* The calls for a node are calls, their nodes come later, and their releases are one for
\* an object with members.
LEMMA NodeCalls ==
  ASSUME NEW t, IsTree(t), NEW fl \in FlagRecords, NEW i \in DOMAIN t, NEW level \in Nat
  PROVE  LET c == serialize_node(t, fl, i, level)
         IN  /\ Over(Calls(t), c)
             /\ \A k \in DOMAIN c : c[k].do = "node" => c[k].node > i
             /\ Count(c) = IF Sorts(t, i) THEN 1 ELSE 0
             /\ c # <<>> /\ Head(c).do = "append" /\ Head(c).bytes # <<>>
  <1> DEFINE c == serialize_node(t, fl, i, level)
  <1>1. PICK b \in {s \in Seq(Nat) : s # <<>>} : \E r \in Seq(Steps(t, i)) :
               c = (<<chunk(b)>> \o r) \o Releases(t, i)
    BY NodeShape DEF Shaped
  <1>2. PICK r \in Seq(Steps(t, i)) : c = (<<chunk(b)>> \o r) \o Releases(t, i) BY <1>1
  <1> HIDE DEF c
  <1> DEFINE S == Steps(t, i)
             x == chunk(b)
             a == <<x>>
             z == Releases(t, i)
             d == a \o r
  <1>3. x \in Appends /\ x.do = "append" /\ x.bytes = b BY ChunkTyped DEF chunk
  <1>4. Appends \subseteq S /\ S \subseteq Calls(t) /\ \A y \in S : y.do = "node" => y.node > i
    BY DEF Steps, Calls, Visits, Nodes, Appends
  <1>5. \A y \in S : y.do # "free" BY DEF Steps, Visits, Appends
  <1>6. x \in S BY <1>3, <1>4
  <1> HIDE DEF S, x
  <1>7. Over(S, a) /\ Over(S, r) BY <1>2, <1>6 DEF Over, S
  <1>8. Over(S, d) BY <1>7, OverFacts
  <1>9. Over({release_arrays}, z)
    <2>1. <<release_arrays>> \in Seq({release_arrays}) /\ <<>> \in Seq({release_arrays})
      OBVIOUS
    <2> QED BY <2>1 DEF Releases, Over
  <1>10. Over(Calls(t), d) /\ Over(Calls(t), z)
    <2>1. {release_arrays} \subseteq Calls(t) BY DEF Calls
    <2> HIDE DEF d, z
    <2> QED BY <1>4, <1>8, <1>9, <2>1, OverFacts
  <1>11. c = d \o z BY <1>2 DEF x
  <1>12. d # <<>> /\ d[1] = x
    <2>1. d \in Seq(S) /\ r \in Seq(S) BY <1>7, <1>8 DEF Over
    <2> QED BY <2>1
  <1> HIDE DEF d, z
  <1>13. Over(Calls(t), c) BY <1>10, <1>11, OverFacts
  <1>14. Count(d) = 0
    <2>1. \A k \in DOMAIN d : d[k] \in S BY <1>8, LenProperties, ElementOfSeq DEF Over
    <2> QED BY <1>5, <2>1, CountNone
  <1>15. Count(z) = IF Sorts(t, i) THEN 1 ELSE 0
    <2>1. CASE Sorts(t, i)
      <3> DEFINE n == 1
      <3>1. z = [k \in 1 .. n |-> release_arrays] BY <2>1 DEF z, Releases
      <3>2. n \in Nat OBVIOUS
      <3> HIDE DEF n
      <3>3. Count(z) = n BY <3>1, <3>2, CountAll
      <3> QED BY <2>1, <3>3 DEF n
    <2>2. CASE ~Sorts(t, i)
      <3>1. z = <<>> BY <2>2 DEF z, Releases
      <3>2. \A k \in DOMAIN z : z[k].do # "free" BY <3>1
      <3> QED BY <2>2, <3>2, CountNone
    <2> QED BY <2>1, <2>2
  <1>16. Count(c) = Count(d) + Count(z) BY <1>10, <1>11, CountConcat
  <1>17. c # <<>> /\ Head(c) = x
    <2>1. d \in Seq(Calls(t)) /\ z \in Seq(Calls(t)) BY <1>10 DEF Over
    <2> HIDE DEF a
    <2> QED BY <1>11, <1>12, <2>1
  <1>18. \A k \in DOMAIN c : c[k].do = "node" => c[k].node > i
    <2> SUFFICES ASSUME NEW k \in DOMAIN c, c[k].do = "node" PROVE c[k].node > i OBVIOUS
    <2>1. d \in Seq(S) /\ z \in Seq({release_arrays}) BY <1>8, <1>9 DEF Over, z
    <2>2. c[k] \in S \cup {release_arrays} BY <1>11, <2>1
    <2>3. release_arrays.do # "node" BY DEF release_arrays
    <2>4. c[k] \in S BY <2>2, <2>3
    <2> QED BY <1>4, <2>4
  <1>19. b # <<>> OBVIOUS
  <1> HIDE DEF a
  <1>20. Count(c) = IF Sorts(t, i) THEN 1 ELSE 0 BY <1>14, <1>15, <1>16
  <1> QED BY <1>3, <1>13, <1>17, <1>18, <1>19, <1>20 DEF c

\* g has the text of every node, and with it the whole text.
Spells(t, fl, g) ==
  /\ Texts(t, g)
  /\ \A i \in DOMAIN t : \A l \in Nat : g[<<i, l>>] = Said(g, serialize_node(t, fl, i, l))
  /\ Written(t, fl) = g[<<1, 0>>] \o (IF fl.newline THEN <<10>> ELSE <<>>)

\* Every node has a text: the nodes a node descends into come later.
LEMMA TextExists ==
  ASSUME NEW t, IsTree(t), NEW fl \in FlagRecords
  PROVE  \E g : Spells(t, fl, g)
  <1> DEFINE D == (DOMAIN t) \X Nat
             V == Seq(Nat)
             n == Len(t)
             m == [at \in D |-> n - at[1]]
             calls(i, l) == serialize_node(t, fl, i, l)
             step(g, i, l) == Said(g, calls(i, l))
             G == [g \in [D -> V] |-> [at \in D |-> step(g, at[1], at[2])]]
  <1>1. n \in Nat /\ DOMAIN t = 1 .. n
    BY LenProperties DEF IsTree
  <1>2. V # {}
    <2>1. <<>> \in V OBVIOUS
    <2> HIDE DEF V
    <2> QED BY <2>1
  <1>3. ASSUME NEW i \in DOMAIN t, NEW l \in Nat
        PROVE  /\ Over(Calls(t), calls(i, l))
               /\ \A k \in DOMAIN calls(i, l) : calls(i, l)[k].do = "node" => calls(i, l)[k].node > i
    BY NodeCalls
  <1>4. ASSUME NEW g \in [D -> V] PROVE Texts(t, g) BY DEF Texts
  <1>5. ASSUME NEW g, Texts(t, g), NEW i \in DOMAIN t, NEW l \in Nat PROVE step(g, i, l) \in V
    <2>1. Over(Calls(t), calls(i, l)) BY <1>3
    <2> HIDE DEF calls
    <2>2. Over(Nat, Said(g, calls(i, l))) BY <1>5, <2>1, SpokenPieces
    <2> QED BY <2>2 DEF Over
  <1> HIDE DEF calls, V, n
  <1>6. m \in [D -> Nat] BY <1>1
  <1>7. G \in [[D -> V] -> [D -> V]]
    <2> HIDE DEF step
    <2>1. \A g \in [D -> V] : \A at \in D : step(g, at[1], at[2]) \in V BY <1>4, <1>5
    <2> HIDE DEF D
    <2> QED BY <2>1
  <1>8. ASSUME NEW g, NEW h, NEW i \in DOMAIN t, NEW l \in Nat,
               \A e \in D : m[e] < m[<<i, l>>] => g[e] = h[e]
        PROVE  step(g, i, l) = step(h, i, l)
    <2> DEFINE c == calls(i, l)
    <2>1. Over(Calls(t), c) /\ \A k \in DOMAIN c : c[k].do = "node" => c[k].node > i BY <1>3
    <2> HIDE DEF c
    <2>2. ASSUME NEW k \in DOMAIN c PROVE Bytes(g, c[k]) = Bytes(h, c[k])
      <3>1. CASE c[k].do = "node"
        <4> DEFINE e == <<c[k].node, c[k].level>>
        <4>1. c[k] \in Calls(t) BY <2>1, LenProperties, ElementOfSeq DEF Over
        <4>2. c[k].node \in DOMAIN t /\ c[k].level \in Nat
          BY <3>1, <4>1 DEF Calls, Nodes, Appends, release_arrays
        <4>3. e \in D /\ <<i, l>> \in D BY <4>2
        <4>4. m[e] = n - c[k].node /\ m[<<i, l>>] = n - i BY <4>3
        <4>5. c[k].node > i BY <2>1, <3>1
        <4>6. c[k].node \in Nat /\ i \in Nat BY <1>1, <4>2
        <4> HIDE DEF m
        <4>7. m[e] < m[<<i, l>>] BY <1>1, <4>4, <4>5, <4>6
        <4>8. g[e] = h[e] BY <1>8, <4>3, <4>7
        <4> QED BY <3>1, <4>8 DEF Bytes
      <3>2. CASE c[k].do # "node" BY <3>2 DEF Bytes
      <3> QED BY <3>1, <3>2
    <2>3. Spoken(g, c) = Spoken(h, c) BY <2>2 DEF Spoken
    <2> QED BY <2>3 DEF Said, c
  <1>9. ASSUME NEW g \in [D -> V], NEW h \in [D -> V], NEW d \in D,
               \A e \in D : m[e] < m[d] => g[e] = h[e]
        PROVE  G[g][d] = G[h][d]
    <2>1. d[1] \in DOMAIN t /\ d[2] \in Nat /\ d = <<d[1], d[2]>> OBVIOUS
    <2>2. \A e \in D : m[e] < m[<<d[1], d[2]>>] => g[e] = h[e] BY <1>9, <2>1
    <2> HIDE DEF step, D, m
    <2>3. step(g, d[1], d[2]) = step(h, d[1], d[2]) BY <1>8, <2>1, <2>2
    <2> QED BY <2>3
  <1>10. \E g \in [D -> V] : g = G[g]
    <2> HIDE DEF G, D, m
    <2>1. Recursion(D, V, m, G) BY <1>2, <1>6, <1>7, <1>9 DEF Recursion
    <2> QED BY <2>1, RecursionExists
  <1>11. PICK g \in [D -> V] : g = G[g] BY <1>10
  <1> DEFINE E(f) == f = [at \in (DOMAIN t) \X Nat |->
                       LET c == serialize_node(t, fl, at[1], at[2])
                       IN  Joined([k \in DOMAIN c |->
                             IF c[k].do = "node" THEN f[<<c[k].node, c[k].level>>]
                             ELSE c[k].bytes])]
             F == CHOOSE f : E(f)
  <1>12. ASSUME NEW f PROVE E(f) <=> f = [at \in D |-> step(f, at[1], at[2])]
    BY Zenon DEF calls, Said, Spoken, Bytes
  <1>13. F = [at \in D |-> step(F, at[1], at[2])]
    <2>1. g = [at \in D |-> step(g, at[1], at[2])]
      <3> HIDE DEF D, step
      <3> QED BY <1>11
    <2> HIDE DEF E, D, step
    <2>2. E(g) BY <1>12, <2>1
    <2>3. E(F) BY <2>2
    <2> QED BY <1>12, <2>3
  <1>14. Written(t, fl) = F[<<1, 0>>] \o (IF fl.newline THEN <<10>> ELSE <<>>)
    BY Zenon DEF Written
  <1> HIDE DEF F, E
  <1>15. ASSUME NEW d \in D, \A e \in D : m[e] < m[d] => F[e] = g[e] PROVE F[d] = g[d]
    <2>1. d[1] \in DOMAIN t /\ d[2] \in Nat /\ d = <<d[1], d[2]>> OBVIOUS
    <2>2. \A e \in D : m[e] < m[<<d[1], d[2]>>] => F[e] = g[e] BY <1>15, <2>1
    <2> HIDE DEF step, D, m
    <2>3. step(F, d[1], d[2]) = step(g, d[1], d[2]) BY <1>8, <2>1, <2>2
    <2>4. F[d] = step(F, d[1], d[2]) /\ g[d] = step(g, d[1], d[2]) BY <1>11, <1>13
    <2> QED BY <2>3, <2>4
  <1>16. \A d \in D : F[d] = g[d]
    <2> HIDE DEF D, m, step
    <2>1. Determined(D, m, F, g) BY <1>6, <1>15 DEF Determined
    <2> QED BY <2>1, RecursionUnique
  <1>17. F \in [D -> V]
    <2> HIDE DEF D, step
    <2> QED BY <1>13, <1>16
  <1>18. Texts(t, F) BY <1>4, <1>17
  <1>19. ASSUME NEW i \in DOMAIN t, NEW l \in Nat PROVE F[<<i, l>>] = Said(F, calls(i, l))
    <2>1. <<i, l>> \in D OBVIOUS
    <2> QED BY <1>13, <2>1
  <1>20. Spells(t, fl, F) BY <1>14, <1>18, <1>19 DEF Spells, calls
  <1> QED BY <1>20

\* The texts of the nodes of t.
TextOf(t, fl) == CHOOSE g : Spells(t, fl, g)

\* They are what the nodes say.
LEMMA TextSpells ==
  ASSUME NEW t, IsTree(t), NEW fl \in FlagRecords
  PROVE  Spells(t, fl, TextOf(t, fl)) /\ Texts(t, TextOf(t, fl))
  <1>1. Spells(t, fl, TextOf(t, fl)) BY TextExists DEF TextOf
  <1> QED BY <1>1 DEF Spells

-----------------------------------------------------------------------------
(* The inductive invariant.                                                 *)

Typed ==
  /\ nodes \in Trees /\ flags \in Flags /\ maximum \in Maxima
  /\ Over(Calls(nodes), todo)
  /\ bytes = NONE \/ Over(Nat, bytes)
  /\ capacity \in Nat /\ wanted \in Nat
  /\ result \in {"OK", "LIMIT", "MEMORY"} /\ returned \in BOOLEAN

\* A capacity is only looked for on behalf of an append within the maximum.
Fits ==
  /\ size <= capacity /\ size <= maximum
  /\ capacity <= InitialCapacity \/ capacity <= maximum
  /\ wanted # 0 => /\ Calling("append") /\ needed <= maximum
                   /\ wanted <= InitialCapacity \/ wanted <= maximum

\* Something is still to be written to a buffer that is not there.
Started ==
  result = "OK" /\ bytes = NONE =>
    /\ todo # <<>>
    /\ Head(todo).do = "node" \/ (Head(todo).do = "append" /\ Head(todo).bytes # <<>>)

Ended == returned => todo = <<>> /\ (result # "OK" => bytes = NONE)

\* Two arrays for every release to come, and nothing but releases after a failure.
Counted == arrays = 2 * Count(todo)
Unwound == result # "OK" => Over({release_arrays}, todo)

\* What is written and what is still to be written make the whole text.
Told ==
  /\ result = "OK" => content \o Said(TextOf(nodes, flags), todo) = Written(nodes, flags)
  /\ result = "LIMIT" => Len(Written(nodes, flags)) > maximum

SerializerInv == Typed /\ Fits /\ Started /\ Ended /\ Counted /\ Unwound /\ Told

\* What the assumptions say of the writer.
LEMMA WriterFacts ==
  ASSUME Typed
  PROVE  /\ IsTree(nodes) /\ flags \in FlagRecords /\ maximum \in Nat /\ maximum > 0
         /\ InitialCapacity \in Nat /\ InitialCapacity > 0
         /\ Spells(nodes, flags, TextOf(nodes, flags)) /\ Texts(nodes, TextOf(nodes, flags))
  <1>1. /\ IsTree(nodes) /\ flags \in FlagRecords /\ maximum \in Nat /\ maximum > 0
        /\ InitialCapacity \in Nat /\ InitialCapacity > 0
    BY SerializerAssumption DEF Typed, FlagRecords
  <1> QED BY <1>1, TextSpells

\* The buffer holds a sequence of numbers.
LEMMA ContentFacts ==
  ASSUME Typed
  PROVE  Over(Nat, content) /\ size = Len(content) /\ size \in Nat
  <1>1. CASE bytes = NONE
    <2>1. Over(Nat, <<>>) /\ Len(<<>>) = 0 BY DEF Over
    <2> QED BY <1>1, <2>1 DEF content, size
  <1>2. CASE bytes # NONE
    <2>1. Over(Nat, bytes) BY <1>2 DEF Typed
    <2>2. Len(bytes) \in Nat BY <2>1 DEF Over
    <2> QED BY <1>2, <2>1, <2>2 DEF content, size
  <1> QED BY <1>1, <1>2

\* The first call and the others.
LEMMA NextCall ==
  ASSUME NEW t, NEW g, Texts(t, g), NEW c, Over(Calls(t), c), c # <<>>
  PROVE  /\ Head(c) \in Calls(t) /\ Over(Calls(t), Tail(c))
         /\ Said(g, c) = Bytes(g, Head(c)) \o Said(g, Tail(c))
         /\ Over(Nat, Bytes(g, Head(c))) /\ Over(Nat, Said(g, Tail(c)))
         /\ Count(c) = (IF Head(c).do = "free" THEN 1 ELSE 0) + Count(Tail(c))
  <1> DEFINE x == Head(c)
             r == Tail(c)
             a == <<x>>
  <1>1. x \in Calls(t) /\ r \in Seq(Calls(t)) /\ c = a \o r
    <2>1. c \in Seq(Calls(t)) BY DEF Over
    <2> QED BY <2>1, HeadTailProperties
  <1>2. Over(Calls(t), r) BY <1>1 DEF Over
  <1> HIDE DEF x, r
  <1>3. Said(g, a) = Bytes(g, x) /\ Over(Calls(t), a) BY <1>1, SaidOne
  <1>4. Count(a) = IF x.do = "free" THEN 1 ELSE 0
    <2>1. DOMAIN a = {1} /\ a[1] = x OBVIOUS
    <2> HIDE DEF a
    <2>2. CASE x.do = "free"
      <3>1. Frees(a) = {1} BY <2>1, <2>2 DEF Frees
      <3> QED BY <2>2, <3>1, FS_Singleton DEF Count
    <2>3. CASE x.do # "free"
      <3>1. Frees(a) = {} BY <2>1, <2>3 DEF Frees
      <3> QED BY <2>3, <3>1, FS_EmptySet DEF Count
    <2> QED BY <2>2, <2>3
  <1> HIDE DEF a
  <1>3a. c = a \o r BY <1>1
  <1>5. Said(g, a \o r) = Said(g, a) \o Said(g, r)
    <2>1. ASSUME NEW p, NEW q, Over(Calls(t), p), Over(Calls(t), q)
          PROVE  Said(g, p \o q) = Said(g, p) \o Said(g, q)
      BY <2>1, SaidConcat
    <2>2. Over(Calls(t), a) /\ Over(Calls(t), r) BY <1>2, <1>3
    <2> QED BY <2>1, <2>2
  <1>6. Count(a \o r) = Count(a) + Count(r) BY <1>2, <1>3, CountConcat
  <1>7. Over(Nat, Bytes(g, x)) BY <1>1, BytesTyped DEF Over
  <1>8. Over(Nat, Said(g, r)) BY <1>2, SpokenPieces
  <1> QED BY <1>1, <1>2, <1>3, <1>3a, <1>4, <1>5, <1>6, <1>7, <1>8 DEF x, r

\* An append that is being made.
LEMMA AppendFacts ==
  ASSUME SerializerInv, Calling("append")
  PROVE  LET b == Head(todo).bytes
             rest == Said(TextOf(nodes, flags), Tail(todo))
         IN  /\ Over(Nat, b) /\ Len(b) \in Nat /\ needed = size + Len(b) /\ needed \in Nat
             /\ (over_limit <=> needed > maximum) /\ result = "OK"
             /\ Over(Calls(nodes), Tail(todo)) /\ Count(todo) = Count(Tail(todo))
             /\ Over(Nat, content \o b) /\ Len(content \o b) = needed
             /\ Over(Nat, rest) /\ (content \o b) \o rest = Written(nodes, flags)
             /\ bytes = NONE => b # <<>>
  <1> USE DEF SerializerInv
  <1> DEFINE b == Head(todo).bytes
             g == TextOf(nodes, flags)
             x == Head(todo)
             rest == Said(g, Tail(todo))
  <1>1. todo # <<>> /\ x.do = "append" /\ ~returned BY DEF Calling
  <1>2. Texts(nodes, g) /\ Over(Calls(nodes), todo) BY WriterFacts DEF Typed
  <1>3. maximum \in Nat BY WriterFacts
  <1> HIDE DEF g
  <1>4. /\ x \in Calls(nodes) /\ Over(Calls(nodes), Tail(todo))
        /\ Said(g, todo) = Bytes(g, x) \o rest /\ Over(Nat, rest)
        /\ Over(Nat, Bytes(g, x))
        /\ Count(todo) = (IF x.do = "free" THEN 1 ELSE 0) + Count(Tail(todo))
    BY <1>1, <1>2, NextCall
  <1>5. Bytes(g, x) = b BY <1>1, <1>2, <1>4, BytesTyped
  <1>6. Over(Nat, content) /\ size = Len(content) /\ size \in Nat BY ContentFacts
  <1>7. result = "OK"
    <2> SUFFICES ASSUME result # "OK" PROVE FALSE OBVIOUS
    <2>1. todo \in Seq({release_arrays}) BY DEF Unwound, Over
    <2>2. x = release_arrays BY <1>1, <2>1
    <2> QED BY <1>1, <2>2 DEF release_arrays
  <1>8. Over(Nat, b) /\ Len(b) \in Nat BY <1>4, <1>5 DEF Over
  <1>9. needed = size + Len(b) /\ needed \in Nat BY <1>6, <1>8 DEF needed
  <1>10. over_limit <=> needed > maximum BY <1>3, <1>6, <1>8, <1>9 DEF over_limit
  <1>11. bytes = NONE => b # <<>> BY <1>1, <1>7 DEF Started
  <1>12. Count(todo) = Count(Tail(todo))
    <2>1. Count(Tail(todo)) \in Nat BY <1>4, CountTyped
    <2> QED BY <1>1, <1>4, <2>1
  <1>13. content \o Said(g, todo) = Written(nodes, flags) BY <1>7 DEF Told, g
  <1> HIDE DEF b, rest
  <1>14. (content \o b) \o rest = content \o (b \o rest) /\ Over(Nat, content \o b)
    BY <1>4, <1>6, <1>8, OverFacts
  <1>15. Len(content \o b) = Len(content) + Len(b)
    <2>1. content \in Seq(Nat) /\ b \in Seq(Nat) BY <1>6, <1>8 DEF Over
    <2> HIDE DEF content
    <2> QED BY <2>1, ConcatProperties
  <1> HIDE DEF x
  <1> QED BY <1>4, <1>5, <1>6, <1>7, <1>8, <1>9, <1>10, <1>11, <1>12, <1>13, <1>14, <1>15
       DEF b, g, rest

\* After the copy the buffer has the bytes of the append.
LEMMA CopyFacts ==
  ASSUME SerializerInv, Calling("append"), Copy
  PROVE  /\ content' = content \o Head(todo).bytes /\ size' = needed
         /\ bytes' # NONE /\ Over(Nat, bytes')
  <1> DEFINE b == Head(todo).bytes
  <1>1. /\ Over(Nat, content \o b) /\ Len(content \o b) = needed
        /\ bytes = NONE => b # <<>>
    BY AppendFacts
  <1>2. bytes' = IF b = <<>> THEN bytes ELSE content \o b BY DEF Copy
  <1>3. Over(Nat, content) BY ContentFacts DEF SerializerInv
  <1>4. ~Over(Nat, NONE) BY SerializerAssumption DEF Over
  <1> HIDE DEF b
  <1>5. bytes' = content \o b
    <2>1. CASE b = <<>>
      <3>1. bytes # NONE BY <1>1, <2>1
      <3>2. content = bytes BY <3>1 DEF content
      <3>3. content \o <<>> = content BY <1>3, OverFacts
      <3> QED BY <1>2, <2>1, <3>2, <3>3
    <2>2. CASE b # <<>> BY <1>2, <2>2
    <2> QED BY <2>1, <2>2
  <1>6. bytes' # NONE /\ Over(Nat, bytes') BY <1>1, <1>4, <1>5
  <1>7. content' = bytes' /\ size' = Len(bytes') BY <1>6 DEF content, size
  <1> QED BY <1>1, <1>5, <1>6, <1>7 DEF b

\* What a copy into a large enough buffer leaves.
LEMMA CopyStep ==
  ASSUME SerializerInv, Calling("append"), Copy, needed <= maximum,
         UNCHANGED <<writer_vars, arrays, result, returned>>,
         capacity' \in Nat, needed <= capacity',
         capacity' <= InitialCapacity \/ capacity' <= maximum
  PROVE  SerializerInv'
  <1> DEFINE b == Head(todo).bytes
             g == TextOf(nodes, flags)
             rest == Said(g, Tail(todo))
  <1>1. /\ Over(Calls(nodes), Tail(todo)) /\ Count(todo) = Count(Tail(todo))
        /\ (content \o b) \o rest = Written(nodes, flags) /\ result = "OK"
    BY AppendFacts
  <1>2. /\ content' = content \o b /\ size' = needed
        /\ bytes' # NONE /\ Over(Nat, bytes')
    BY CopyFacts
  <1>3. /\ nodes' = nodes /\ flags' = flags /\ maximum' = maximum /\ arrays' = arrays
        /\ result' = result /\ returned' = returned /\ todo' = Tail(todo) /\ wanted' = 0
    BY DEF Copy, writer_vars
  <1>4. ~returned BY DEF Calling
  <1> HIDE DEF b
  <1>5. Typed'
    <2>1. Over(Calls(nodes), todo') BY <1>1, <1>3
    <2> QED BY <1>2, <1>3, <2>1 DEF Typed, SerializerInv
  <1>6. Fits' BY <1>2, <1>3 DEF Fits
  <1>7. Started' BY <1>2 DEF Started
  <1>8. Ended' BY <1>3, <1>4 DEF Ended
  <1>9. Counted' BY <1>1, <1>3 DEF Counted, SerializerInv
  <1>10. Unwound' BY <1>1, <1>3 DEF Unwound
  <1>11. Told' BY <1>1, <1>2, <1>3 DEF Told
  <1> QED BY <1>5, <1>6, <1>7, <1>8, <1>9, <1>10, <1>11 DEF SerializerInv

\* What a failure leaves: the releases.
LEMMA FailStep ==
  ASSUME SerializerInv, NEW code, code \in {"LIMIT", "MEMORY"}, Fail(code),
         todo # <<>>, Head(todo).do # "free", ~returned,
         code = "LIMIT" => Len(Written(nodes, flags)) > maximum,
         UNCHANGED <<writer_vars, bytes, capacity, arrays, returned>>
  PROVE  SerializerInv'
  <1> USE DEF SerializerInv
  <1> DEFINE R == {release_arrays}
             u == unwind(Tail(todo))
  <1>1. /\ nodes' = nodes /\ flags' = flags /\ maximum' = maximum /\ arrays' = arrays
        /\ bytes' = bytes /\ capacity' = capacity /\ returned' = returned
        /\ result' = code /\ todo' = u /\ wanted' = 0
    BY DEF Fail, writer_vars
  <1>2. Texts(nodes, TextOf(nodes, flags)) /\ Over(Calls(nodes), todo) BY WriterFacts DEF Typed
  <1>3. /\ Over(Calls(nodes), Tail(todo))
        /\ Count(todo) = (IF Head(todo).do = "free" THEN 1 ELSE 0) + Count(Tail(todo))
    BY <1>2, NextCall
  <1>4. Over(R, u) /\ Count(u) = Count(Tail(todo)) BY <1>3, UnwindFacts DEF Over
  <1>5. Count(Tail(todo)) \in Nat BY <1>3, CountTyped
  <1>6. Over(Calls(nodes), u)
    <2>1. R \subseteq Calls(nodes) BY DEF Calls
    <2> HIDE DEF R, u
    <2> QED BY <1>4, <2>1, OverFacts
  <1> HIDE DEF u
  <1>7. Typed' BY <1>1, <1>6 DEF Typed
  <1>8. Fits' BY <1>1 DEF Fits, size
  <1>9. Started' BY <1>1 DEF Started
  <1>10. Ended' BY <1>1 DEF Ended
  <1>11. Counted' BY <1>1, <1>3, <1>4, <1>5 DEF Counted
  <1>12. Unwound' BY <1>1, <1>4 DEF Unwound
  <1>13. Told' BY <1>1 DEF Told
  <1> QED BY <1>7, <1>8, <1>9, <1>10, <1>11, <1>12, <1>13

\* Looking for a capacity leaves everything else alone.
LEMMA GrowStep ==
  ASSUME SerializerInv, Calling("append"), needed <= maximum, wanted' \in Nat,
         wanted' <= InitialCapacity \/ wanted' <= maximum,
         UNCHANGED <<writer_vars, todo, bytes, capacity, arrays, result, returned>>
  PROVE  SerializerInv'
  <1> USE DEF SerializerInv
  <1>1. /\ nodes' = nodes /\ flags' = flags /\ maximum' = maximum /\ arrays' = arrays
        /\ bytes' = bytes /\ capacity' = capacity /\ returned' = returned
        /\ result' = result /\ todo' = todo
    BY DEF writer_vars
  <1>2. size' = size /\ content' = content /\ needed' = needed BY <1>1 DEF size, content, needed
  <1>3. Typed' BY <1>1 DEF Typed
  <1>4. Fits' BY <1>1, <1>2 DEF Fits, Calling
  <1>5. Started' BY <1>1 DEF Started
  <1>6. Ended' BY <1>1 DEF Ended
  <1>7. Counted' BY <1>1 DEF Counted
  <1>8. Unwound' BY <1>1 DEF Unwound
  <1>9. Told' BY <1>1, <1>2 DEF Told
  <1> QED BY <1>3, <1>4, <1>5, <1>6, <1>7, <1>8, <1>9

\* The first state.
LEMMA SerializerInit == Init => SerializerInv
  <1> SUFFICES ASSUME Init PROVE SerializerInv OBVIOUS
  <1> DEFINE x == visit(1, 0)
             line == chunk(<<10>>)
             end == IF flags.newline THEN <<line>> ELSE <<>>
             g == TextOf(nodes, flags)
             C == Calls(nodes)
  <1>1. IsTree(nodes) /\ flags \in FlagRecords /\ flags.newline \in BOOLEAN
    BY SerializerAssumption DEF Init, FlagRecords
  <1>2. Spells(nodes, flags, g) /\ Texts(nodes, g) BY <1>1, TextSpells
  <1>3. 1 \in DOMAIN nodes
    <2>1. nodes \in Seq({nodes[i] : i \in DOMAIN nodes}) /\ nodes # <<>> BY <1>1 DEF IsTree
    <2> QED BY <2>1
  <1>4. x \in C /\ x.do = "node" /\ x.node = 1 /\ x.level = 0 BY <1>3 DEF visit, Calls, Nodes
  <1>5. line \in C /\ line.do = "append" /\ line.bytes = <<10>>
    <2>1. <<10>> \in Seq(Nat) OBVIOUS
    <2>2. line \in Appends BY <2>1, ChunkTyped
    <2> QED BY <2>2 DEF Calls, chunk
  <1> HIDE DEF x, line, g, C
  <1>6. /\ Over(C, <<x>>) /\ Said(g, <<x>>) = Bytes(g, x) /\ Said(g, <<>>) = <<>>
        /\ Over(C, <<line>>) /\ Said(g, <<line>>) = Bytes(g, line)
    BY <1>2, <1>4, <1>5, SaidOne DEF C
  <1>7. Bytes(g, x) = g[<<1, 0>>] /\ Bytes(g, line) = <<10>> BY <1>4, <1>5 DEF Bytes
  <1>8. Over(C, end) /\ Said(g, end) = IF flags.newline THEN <<10>> ELSE <<>>
    <2>1. Over(C, <<>>) BY DEF Over
    <2> QED BY <1>6, <1>7, <2>1
  <1> DEFINE a == <<x>>
  <1>9. todo = a \o end BY DEF Init, x, line
  <1>10. Over(C, a) /\ a \in Seq(C) /\ end \in Seq(C) BY <1>6, <1>8 DEF Over
  <1>11. todo # <<>> /\ Head(todo) = x
    <2> HIDE DEF end
    <2> QED BY <1>9, <1>10
  <1>12. Count(a) = 0 /\ Count(end) = 0
    <2>1. \A k \in DOMAIN a : a[k].do # "free" BY <1>4
    <2>2. \A k \in DOMAIN end : end[k].do # "free" BY <1>5
    <2> HIDE DEF a, end
    <2> QED BY <2>1, <2>2, CountNone
  <1> HIDE DEF a, end
  <1>13. Over(C, todo) /\ Count(todo) = 0
    <2>1. Over(C, a \o end) BY <1>8, <1>10, OverFacts
    <2>2. Count(a \o end) = Count(a) + Count(end) BY <1>8, <1>10, CountConcat
    <2> QED BY <1>9, <1>12, <2>1, <2>2
  <1>14. Said(g, todo) = Written(nodes, flags) /\ Over(Nat, Said(g, todo))
    <2>1. ASSUME NEW p, NEW q, Over(Calls(nodes), p), Over(Calls(nodes), q)
          PROVE  Said(g, p \o q) = Said(g, p) \o Said(g, q)
      BY <1>2, <2>1, SaidConcat
    <2>2. Said(g, a \o end) = Said(g, a) \o Said(g, end) BY <1>8, <1>10, <2>1 DEF C
    <2>3. Written(nodes, flags) = g[<<1, 0>>] \o (IF flags.newline THEN <<10>> ELSE <<>>)
      BY <1>2 DEF Spells
    <2>4. Said(g, a) = g[<<1, 0>>] BY <1>6, <1>7 DEF a
    <2>5. Over(Nat, Said(g, todo)) BY <1>2, <1>13, SpokenPieces DEF C
    <2> QED BY <1>8, <1>9, <2>2, <2>3, <2>4, <2>5
  <1>15. /\ nodes \in Trees /\ flags \in Flags /\ maximum \in Maxima /\ bytes = NONE
         /\ capacity = 0 /\ wanted = 0 /\ arrays = 0 /\ result = "OK" /\ returned = FALSE
    BY DEF Init
  <1>16. size = 0 /\ content = <<>> /\ maximum \in Nat BY <1>15, SerializerAssumption DEF size, content
  <1>17. Typed BY <1>13, <1>15 DEF Typed, C
  <1>18. Fits BY <1>15, <1>16, SerializerAssumption DEF Fits
  <1>19. Started BY <1>4, <1>11 DEF Started
  <1>20. Ended /\ Unwound BY <1>15 DEF Ended, Unwound
  <1>21. Counted BY <1>13, <1>15 DEF Counted
  <1>22. Told
    <2>1. <<>> \o Said(g, todo) = Said(g, todo) BY <1>14, OverFacts
    <2> QED BY <1>14, <1>15, <1>16, <2>1 DEF Told, g
  <1> QED BY <1>17, <1>18, <1>19, <1>20, <1>21, <1>22 DEF SerializerInv

\* Descending into a node.
LEMMA DescendStep == SerializerInv /\ Descend => SerializerInv'
  <1> SUFFICES ASSUME SerializerInv, Descend PROVE SerializerInv' OBVIOUS
  <1> USE DEF SerializerInv
  <1> DEFINE x == Head(todo)
             r == Tail(todo)
             c == serialize_node(nodes, flags, x.node, x.level)
             g == TextOf(nodes, flags)
             C == Calls(nodes)
  <1>1. /\ todo # <<>> /\ x.do = "node" /\ ~returned /\ todo' = c \o r
        /\ arrays' = IF sorts THEN arrays + 2 ELSE arrays
        /\ nodes' = nodes /\ flags' = flags /\ maximum' = maximum /\ bytes' = bytes
        /\ capacity' = capacity /\ wanted' = wanted /\ result' = result /\ returned' = returned
    BY DEF Descend, Calling, writer_vars, buffer_vars
  <1>2. /\ IsTree(nodes) /\ flags \in FlagRecords /\ Spells(nodes, flags, g)
        /\ Texts(nodes, g) /\ Over(C, todo)
    BY WriterFacts DEF Typed
  <1> HIDE DEF g
  <1>3. /\ x \in C /\ Over(C, r) /\ Said(g, todo) = Bytes(g, x) \o Said(g, r)
        /\ Count(todo) = (IF x.do = "free" THEN 1 ELSE 0) + Count(r)
        /\ Over(Nat, Said(g, r))
    BY <1>1, <1>2, NextCall
  <1>4. x.node \in DOMAIN nodes /\ x.level \in Nat /\ Bytes(g, x) = g[<<x.node, x.level>>]
    BY <1>1, <1>2, <1>3, BytesTyped
  <1>5. /\ Over(C, c) /\ Count(c) = IF Sorts(nodes, x.node) THEN 1 ELSE 0
        /\ c # <<>> /\ Head(c).do = "append" /\ Head(c).bytes # <<>>
    BY <1>2, <1>4, NodeCalls
  <1>6. g[<<x.node, x.level>>] = Said(g, c) BY <1>2, <1>4 DEF Spells
  <1>7. sorts <=> Sorts(nodes, x.node) BY DEF sorts, Sorts
  <1> HIDE DEF c, r, C
  <1>8. Over(C, c \o r) BY <1>3, <1>5, OverFacts
  <1>9. Said(g, c \o r) = Said(g, c) \o Said(g, r)
    <2>1. ASSUME NEW p, NEW q, Over(Calls(nodes), p), Over(Calls(nodes), q)
          PROVE  Said(g, p \o q) = Said(g, p) \o Said(g, q)
      BY <1>2, <2>1, SaidConcat
    <2> QED BY <1>3, <1>5, <2>1 DEF C
  <1>10. Count(c \o r) = Count(c) + Count(r) BY <1>3, <1>5, CountConcat
  <1>11. Count(r) \in Nat BY <1>3, CountTyped
  <1>12. todo' # <<>> /\ Head(todo') = Head(c)
    <2>1. c \in Seq(C) /\ r \in Seq(C) BY <1>3, <1>5 DEF Over
    <2> QED BY <1>1, <1>5, <2>1
  <1>13. result = "OK"
    <2> SUFFICES ASSUME result # "OK" PROVE FALSE OBVIOUS
    <2>1. todo \in Seq({release_arrays}) BY DEF Unwound, Over
    <2>2. x = release_arrays BY <1>1, <2>1
    <2> QED BY <1>1, <2>2 DEF release_arrays
  <1> HIDE DEF x
  <1>14. Typed' BY <1>1, <1>8 DEF Typed, C
  <1>15. Fits'
    <2>1. wanted = 0 BY <1>1 DEF Fits, Calling, x
    <2> QED BY <1>1, <2>1 DEF Fits, size
  <1>16. Started' BY <1>5, <1>12 DEF Started
  <1>17. Ended' BY <1>1 DEF Ended
  <1>18. Counted'
    <2>1. CASE sorts BY <1>1, <1>3, <1>5, <1>7, <1>10, <1>11, <2>1 DEF Counted
    <2>2. CASE ~sorts BY <1>1, <1>3, <1>5, <1>7, <1>10, <1>11, <2>2 DEF Counted
    <2> QED BY <2>1, <2>2
  <1>19. Unwound' BY <1>1, <1>13 DEF Unwound
  <1>20. Told'
    <2>1. Said(g, todo') = Said(g, todo) BY <1>1, <1>3, <1>4, <1>6, <1>9
    <2>2. content' = content BY <1>1 DEF content
    <2>3. content \o Said(g, todo) = Written(nodes, flags) BY <1>13 DEF Told, g
    <2> QED BY <1>1, <1>13, <2>1, <2>2, <2>3 DEF Told, g
  <1> QED BY <1>14, <1>15, <1>16, <1>17, <1>18, <1>19, <1>20

\* Releasing the arrays of an object.
LEMMA FreeStep == SerializerInv /\ FreeArrays => SerializerInv'
  <1> SUFFICES ASSUME SerializerInv, FreeArrays PROVE SerializerInv' OBVIOUS
  <1> USE DEF SerializerInv
  <1> DEFINE x == Head(todo)
             r == Tail(todo)
             g == TextOf(nodes, flags)
             C == Calls(nodes)
  <1>1. /\ todo # <<>> /\ x.do = "free" /\ ~returned /\ todo' = r /\ arrays' = arrays - 2
        /\ nodes' = nodes /\ flags' = flags /\ maximum' = maximum /\ bytes' = bytes
        /\ capacity' = capacity /\ wanted' = wanted /\ result' = result /\ returned' = returned
    BY DEF FreeArrays, Calling, writer_vars, buffer_vars
  <1>2. Texts(nodes, g) /\ Over(C, todo) BY WriterFacts DEF Typed
  <1> HIDE DEF g
  <1>3. /\ x \in C /\ Over(C, r) /\ Said(g, todo) = Bytes(g, x) \o Said(g, r)
        /\ Count(todo) = (IF x.do = "free" THEN 1 ELSE 0) + Count(r)
        /\ Over(Nat, Said(g, r))
    BY <1>1, <1>2, NextCall
  <1>4. Bytes(g, x) = <<>> BY <1>1, <1>2, <1>3, BytesTyped
  <1>5. Count(r) \in Nat BY <1>3, CountTyped
  <1>6. Said(g, r) = Said(g, todo) BY <1>3, <1>4, OverFacts
  <1>7. bytes = NONE => result # "OK" BY <1>1 DEF Started
  <1>8. wanted = 0 BY <1>1 DEF Fits, Calling
  <1>9. result # "OK" => Over({release_arrays}, r)
    <2> SUFFICES ASSUME result # "OK" PROVE r \in Seq({release_arrays}) BY DEF Over
    <2>1. todo \in Seq({release_arrays}) BY DEF Unwound, Over
    <2> QED BY <1>1, <2>1, HeadTailProperties
  <1> HIDE DEF r, x, C
  <1>10. Typed' BY <1>1, <1>3 DEF Typed, C
  <1>11. Fits' BY <1>1, <1>8 DEF Fits, size
  <1>12. Started' BY <1>1, <1>7 DEF Started
  <1>13. Ended' BY <1>1 DEF Ended
  <1>14. Counted' BY <1>1, <1>3, <1>5 DEF Counted
  <1>15. Unwound' BY <1>1, <1>9 DEF Unwound
  <1>16. Told'
    <2>1. content' = content BY <1>1 DEF content
    <2> QED BY <1>1, <1>6, <2>1 DEF Told, g
  <1> QED BY <1>10, <1>11, <1>12, <1>13, <1>14, <1>15, <1>16

\* Handing the buffer over or freeing it.
LEMMA ReturnStep == SerializerInv /\ Return => SerializerInv'
  <1> SUFFICES ASSUME SerializerInv, Return PROVE SerializerInv' OBVIOUS
  <1> USE DEF SerializerInv
  <1>1. /\ todo = <<>> /\ returned' = TRUE /\ bytes' = (IF result = "OK" THEN bytes ELSE NONE)
        /\ nodes' = nodes /\ flags' = flags /\ maximum' = maximum /\ todo' = todo
        /\ capacity' = capacity /\ wanted' = wanted /\ arrays' = arrays /\ result' = result
    BY DEF Return, writer_vars
  <1>2. maximum \in Nat /\ size \in Nat BY WriterFacts, ContentFacts
  <1>3. wanted = 0 BY <1>1 DEF Fits, Calling
  <1>4. size' = (IF result = "OK" THEN size ELSE 0) /\ (result = "OK" => content' = content)
    BY <1>1 DEF size, content
  <1>5. Typed' BY <1>1 DEF Typed
  <1>6. Fits'
    <2>1. capacity \in Nat BY DEF Typed
    <2> QED BY <1>1, <1>2, <1>3, <1>4, <2>1 DEF Fits
  <1>7. Started' BY <1>1 DEF Started
  <1>8. Ended' BY <1>1 DEF Ended
  <1>9. Counted' BY <1>1 DEF Counted
  <1>10. Unwound' BY <1>1 DEF Unwound
  <1>11. Told' BY <1>1, <1>4 DEF Told
  <1> QED BY <1>5, <1>6, <1>7, <1>8, <1>9, <1>10, <1>11

\* Every step keeps the invariant.
LEMMA SerializerStep == SerializerInv /\ [Next]_vars => SerializerInv'
  <1> SUFFICES ASSUME SerializerInv, [Next]_vars PROVE SerializerInv' OBVIOUS
  <1>1. /\ maximum \in Nat /\ InitialCapacity \in Nat /\ size \in Nat
        /\ capacity \in Nat /\ wanted \in Nat
    BY WriterFacts, ContentFacts DEF SerializerInv, Typed
  <1>2. Fits BY DEF SerializerInv
  <1>3. ASSUME Calling("append")
        PROVE  /\ needed \in Nat /\ (over_limit <=> needed > maximum) /\ ~returned
               /\ todo # <<>> /\ Head(todo).do = "append"
    BY <1>3, AppendFacts DEF Calling
  <1>4. CASE Append_fits
    <2>1. /\ Calling("append") /\ Copy /\ ~over_limit /\ needed <= capacity
          /\ capacity' = capacity /\ UNCHANGED <<writer_vars, arrays, result, returned>>
      BY <1>4 DEF Append_fits
    <2>2. needed <= maximum BY <1>1, <1>3, <2>1
    <2>3. /\ capacity' \in Nat /\ needed <= capacity'
          /\ capacity' <= InitialCapacity \/ capacity' <= maximum
      BY <1>1, <1>2, <2>1 DEF Fits
    <2> QED BY <2>1, <2>2, <2>3, CopyStep
  <1>5. CASE Append_limit
    <2>1. /\ Calling("append") /\ over_limit /\ Fail("LIMIT")
          /\ UNCHANGED <<writer_vars, bytes, capacity, arrays, returned>>
      BY <1>5 DEF Append_limit
    <2>2. Len(Written(nodes, flags)) > maximum
      <3> DEFINE w == content \o Head(todo).bytes
                 rest == Said(TextOf(nodes, flags), Tail(todo))
      <3>1. /\ Over(Nat, w) /\ Len(w) = needed /\ Over(Nat, rest)
            /\ w \o rest = Written(nodes, flags)
        BY <2>1, AppendFacts
      <3>2. needed > maximum /\ needed \in Nat BY <1>3, <2>1
      <3> HIDE DEF w, rest
      <3>3. Len(w \o rest) = Len(w) + Len(rest) /\ Len(rest) \in Nat
        <4>1. w \in Seq(Nat) /\ rest \in Seq(Nat) BY <3>1 DEF Over
        <4> QED BY <4>1, ConcatProperties
      <3>4. Len(Written(nodes, flags)) = needed + Len(rest) BY <3>1, <3>3
      <3> QED BY <1>1, <3>2, <3>3, <3>4
    <2>3. todo # <<>> /\ Head(todo).do # "free" /\ ~returned BY <1>3, <2>1
    <2> QED BY <2>1, <2>2, <2>3, FailStep
  <1>6. CASE StartGrowing
    <2>1. /\ Calling("append") /\ ~over_limit
          /\ wanted' = IF capacity # 0 THEN capacity ELSE InitialCapacity
          /\ UNCHANGED <<writer_vars, todo, bytes, capacity, arrays, result, returned>>
      BY <1>6 DEF StartGrowing
    <2>2. needed <= maximum BY <1>1, <1>3, <2>1
    <2>3. wanted' \in Nat /\ (wanted' <= InitialCapacity \/ wanted' <= maximum)
      BY <1>1, <1>2, <2>1 DEF Fits
    <2> QED BY <2>1, <2>2, <2>3, GrowStep
  <1>7. CASE Double
    <2>1. /\ Calling("append") /\ wanted # 0 /\ wanted' = doubled
          /\ UNCHANGED <<writer_vars, todo, bytes, capacity, arrays, result, returned>>
      BY <1>7 DEF Double
    <2>2. needed <= maximum BY <1>2, <2>1 DEF Fits
    <2>3. wanted' \in Nat /\ (wanted' <= InitialCapacity \/ wanted' <= maximum)
      BY <1>1, <2>1 DEF doubled
    <2> QED BY <2>1, <2>2, <2>3, GrowStep
  <1>8. CASE Reallocate
    <2>1. /\ Calling("append") /\ wanted # 0 /\ wanted >= needed /\ Copy
          /\ capacity' = wanted /\ UNCHANGED <<writer_vars, arrays, result, returned>>
      BY <1>8 DEF Reallocate
    <2>2. needed <= maximum /\ (wanted <= InitialCapacity \/ wanted <= maximum)
      BY <1>2, <2>1 DEF Fits
    <2>3. /\ capacity' \in Nat /\ needed <= capacity'
          /\ capacity' <= InitialCapacity \/ capacity' <= maximum
      BY <1>1, <1>3, <2>1, <2>2
    <2> QED BY <2>1, <2>2, <2>3, CopyStep
  <1>9. CASE ReallocateFails
    <2>1. /\ Calling("append") /\ Fail("MEMORY")
          /\ UNCHANGED <<writer_vars, bytes, capacity, arrays, returned>>
      BY <1>9 DEF ReallocateFails
    <2>2. todo # <<>> /\ Head(todo).do # "free" /\ ~returned BY <1>3, <2>1
    <2> QED BY <2>1, <2>2, FailStep
  <1>10. CASE Descend BY <1>10, DescendStep
  <1>11. CASE ArraysFail
    <2>1. /\ todo # <<>> /\ Head(todo).do # "free" /\ ~returned /\ Fail("MEMORY")
          /\ UNCHANGED <<writer_vars, bytes, capacity, arrays, returned>>
      BY <1>11 DEF ArraysFail, Calling
    <2> QED BY <2>1, FailStep
  <1>12. CASE FreeArrays BY <1>12, FreeStep
  <1>13. CASE Return BY <1>13, ReturnStep
  <1>14. CASE UNCHANGED vars
    <2>1. /\ nodes' = nodes /\ flags' = flags /\ maximum' = maximum /\ todo' = todo
          /\ bytes' = bytes /\ capacity' = capacity /\ wanted' = wanted
          /\ arrays' = arrays /\ result' = result /\ returned' = returned
      BY <1>14 DEF vars, writer_vars, buffer_vars
    <2>2. size' = size /\ content' = content /\ needed' = needed
      BY <2>1 DEF size, content, needed
    <2>3. Typed' /\ Started' /\ Ended' BY <2>1 DEF SerializerInv, Typed, Started, Ended
    <2>4. Fits' BY <2>1, <2>2 DEF SerializerInv, Fits, Calling
    <2>5. Counted' /\ Unwound' BY <2>1 DEF SerializerInv, Counted, Unwound
    <2>6. Told' BY <2>1, <2>2 DEF SerializerInv, Told
    <2> QED BY <2>3, <2>4, <2>5, <2>6 DEF SerializerInv
  <1> QED
    BY <1>4, <1>5, <1>6, <1>7, <1>8, <1>9, <1>10, <1>11, <1>12, <1>13, <1>14 DEF Next

\* What the invariant says once every call is made.
LEMMA SerializerSafe == SerializerInv => BufferFits /\ NothingLeaks /\ LimitIsExact
  <1> SUFFICES ASSUME SerializerInv PROVE BufferFits /\ NothingLeaks /\ LimitIsExact OBVIOUS
  <1> USE DEF SerializerInv
  <1>1. returned => todo = <<>> /\ (result # "OK" => bytes = NONE) BY DEF Ended
  <1>2. returned /\ result = "OK" => bytes # NONE BY <1>1 DEF Started
  <1>3. BufferFits BY <1>2 DEF BufferFits, Fits
  <1>4. NothingLeaks
    <2>1. Count(<<>>) = 0
      <3>1. DOMAIN <<>> = {} OBVIOUS
      <3>2. \A k \in DOMAIN <<>> : <<>>[k].do # "free" BY <3>1
      <3> QED BY <3>2, CountNone
    <2>2. returned => arrays = 0 BY <1>1, <2>1 DEF Counted
    <2> QED BY <1>1, <2>2 DEF NothingLeaks
  <1>5. ASSUME returned, result = "OK" PROVE bytes = Written(nodes, flags)
    <2> DEFINE g == TextOf(nodes, flags)
    <2>1. Texts(nodes, g) BY WriterFacts
    <2> HIDE DEF g
    <2>2. Said(g, <<>>) = <<>>
      <3>1. release_arrays \in Calls(nodes) BY DEF Calls
      <3> QED BY <2>1, <3>1, SaidOne
    <2>3. content = bytes BY <1>2, <1>5 DEF content
    <2>4. Over(Nat, content) BY ContentFacts
    <2>5. content \o <<>> = content BY <2>4, OverFacts
    <2>6. content \o Said(g, <<>>) = Written(nodes, flags) BY <1>1, <1>5 DEF Told, g
    <2> QED BY <2>2, <2>3, <2>5, <2>6
  <1>6. LimitIsExact BY <1>5 DEF LimitIsExact, Told
  <1> QED BY <1>3, <1>4, <1>6

\* The inductive invariant holds in every reachable state: what is in the buffer and
\* what the calls still to come say are together the whole text of the tree.
THEOREM SerializerInvariant == Spec => []SerializerInv
  <1> QED BY SerializerInit, SerializerStep, PTL DEF Spec

\* Whatever the tree, the flags, the maximum and the first capacity, and whichever
\* allocation fails, append() never writes outside the buffer reserve() made.
THEOREM BufferAlwaysFits == Spec => []BufferFits
  <1> QED BY SerializerInvariant, SerializerSafe, PTL

\* Whichever call of serialize_node fails, the arrays of every open object and the
\* buffer are released before maelys_json_serialize returns.
THEOREM NeverLeaks == Spec => []NothingLeaks
  <1> QED BY SerializerInvariant, SerializerSafe, PTL

\* A successful maelys_json_serialize hands over the whole text of the tree, and one
\* that fails with LIMIT had a text longer than maximum_bytes to write.
THEOREM LimitExact == Spec => []LimitIsExact
  <1> QED BY SerializerInvariant, SerializerSafe, PTL
=============================================================================
