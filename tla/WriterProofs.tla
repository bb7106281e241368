---------------------------- MODULE WriterProofs ----------------------------
(***************************************************************************)
(* What holds of the writer for every set of texts, every document copied  *)
(* from, every limit and every order of calls and of failing allocations.  *)
(***************************************************************************)
EXTENDS WriterHistory, SequenceTheorems, FiniteSetTheorems, TLAPS

-----------------------------------------------------------------------------
(* The ends of a set of positions.                                          *)

\* A non-empty set of naturals has a least element, and Least is that element.
LEMMA LeastOf ==
  ASSUME NEW S \in SUBSET Nat, S # {}
  PROVE  Least(S) \in S /\ \A e \in S : Least(S) <= e
  <1> PICK m \in S : TRUE OBVIOUS
  <1> DEFINE T == {0 .. d : d \in {x \in S : x <= m}}
             W == FiniteSubsetsOf(0 .. m)
             R == StrictSubsetOrdering(0 .. m)
  <1>1. T \subseteq W
    <2> SUFFICES ASSUME NEW d \in S, d <= m PROVE 0 .. d \in W OBVIOUS
    <2>1. IsFiniteSet(0 .. d) BY FS_Interval
    <2> QED BY <2>1 DEF FiniteSubsetsOf
  <1>2. T # {} OBVIOUS
  <1>3. IsWellFoundedOn(R, W) BY FS_StrictSubsetOrderingWellFounded
  <1> HIDE DEF W, R
  <1>4. PICK I \in T : \A J \in T : ~ (<<J, I>> \in R) BY <1>1, <1>2, <1>3, WFMin
  <1>5. PICK d \in S : d <= m /\ I = 0 .. d OBVIOUS
  <1>6. \A e \in S : d <= e
    <2> SUFFICES ASSUME NEW e \in S, e < d PROVE FALSE OBVIOUS
    <2>1. 0 .. e \in T BY <1>5
    <2>2. (0 .. e) \subseteq (0 .. d) /\ d \in 0 .. d /\ d \notin 0 .. e OBVIOUS
    <2>3. (0 .. d) \subseteq 0 .. m BY <1>5
    <2>4. <<0 .. e, 0 .. d>> \in R BY <2>2, <2>3 DEF R, StrictSubsetOrdering
    <2> QED BY <1>4, <1>5, <2>1, <2>4
  <1> QED BY <1>6 DEF Least

\* A non-empty set of positions has a greatest element, and Greatest is that element.
LEMMA GreatestOf ==
  ASSUME NEW n \in Nat, NEW S \in SUBSET (1 .. n), S # {}
  PROVE  Greatest(S) \in S /\ \A e \in S : e <= Greatest(S)
  <1> DEFINE T == {n - i : i \in S}
  <1>1. T \in SUBSET Nat /\ T # {}
    OBVIOUS
  <1>2. Least(T) \in T /\ \A e \in T : Least(T) <= e
    BY <1>1, LeastOf
  <1>3. PICK d \in S : Least(T) = n - d
    BY <1>2
  <1>4. \A e \in S : e <= d
    <2> SUFFICES ASSUME NEW e \in S PROVE e <= d OBVIOUS
    <2>1. n - d <= n - e BY <1>2, <1>3
    <2> QED BY <2>1
  <1> QED BY <1>4 DEF Greatest

\* An element no other is below is the least.
LEMMA LeastIs ==
  ASSUME NEW S \in SUBSET Nat, NEW d \in S, \A e \in S : d <= e
  PROVE  Least(S) = d
  <1>1. PICK l \in S : l = Least(S) /\ l <= d
    BY LeastOf
  <1>2. l \in Nat /\ d \in Nat /\ d <= l
    OBVIOUS
  <1> QED BY <1>1, <1>2

\* An element no other is above is the greatest.
LEMMA GreatestIs ==
  ASSUME NEW n \in Nat, NEW S \in SUBSET (1 .. n), NEW d \in S, \A e \in S : e <= d
  PROVE  Greatest(S) = d
  <1>1. PICK g \in S : g = Greatest(S) /\ d <= g
    BY GreatestOf
  <1>2. g \in Nat /\ d \in Nat /\ g <= d
    OBVIOUS
  <1> QED BY <1>1, <1>2

\* Positions are not NONE, so that the ends of a set are NONE exactly when it is empty.
LEMMA EndsNone ==
  ASSUME NEW n \in Nat, NEW S \in SUBSET (1 .. n)
  PROVE  (Least(S) = NONE <=> S = {}) /\ (Greatest(S) = NONE <=> S = {})
  <1>1. CASE S = {}
    BY <1>1 DEF Least, Greatest
  <1>2. CASE S # {}
    <2>1. S \in SUBSET Nat OBVIOUS
    <2>2. Least(S) \in S BY <1>2, <2>1, LeastOf
    <2>3. Greatest(S) \in S BY <1>2, GreatestOf
    <2> QED BY <1>2, <2>1, <2>2, <2>3, NoneAssumption
  <1> QED BY <1>1, <1>2

-----------------------------------------------------------------------------
(* attach, on the nodes of a writer.                                        *)

\* A function on 1..n is a sequence of length n.
LEMMA FunctionIsSeq ==
  ASSUME NEW S, NEW n \in Nat, NEW f \in [1 .. n -> S]
  PROVE  f \in Seq(S) /\ Len(f) = n
  <1>1. f \in Seq(S)
    BY SeqDef
  <1> QED BY <1>1, LenProperties

\* Append as a function.
LEMMA AppendIs ==
  ASSUME NEW S, NEW f \in Seq(S), NEW e
  PROVE  Append(f, e) = [d \in 1 .. Len(f) + 1 |-> IF d = Len(f) + 1 THEN e ELSE f[d]]
  <1> DEFINE U == S \cup {e}
             g == Append(f, e)
             n == Len(f) + 1
  <1>1. f \in Seq(U) /\ e \in U
    OBVIOUS
  <1> HIDE DEF U
  <1>2. /\ g \in Seq(U) /\ Len(g) = n /\ g[n] = e
        /\ \A i \in 1 .. Len(f) : g[i] = f[i]
    BY <1>1, AppendProperties
  <1>3. /\ n \in Nat /\ Len(f) \in Nat /\ n = Len(f) + 1
        /\ g = [d \in 1 .. n |-> g[d]]
    <2>1. n \in Nat /\ Len(f) \in Nat /\ n = Len(f) + 1
      OBVIOUS
    <2> HIDE DEF g, n
    <2>2. g = [d \in 1 .. n |-> g[d]]
      BY <1>2
    <2> QED BY <2>1, <2>2
  <1>4. \A d \in 1 .. n : d = n \/ d \in 1 .. Len(f)
    BY <1>3
  <1> HIDE DEF g, n
  <1>5. \A d \in 1 .. n : g[d] = IF d = n THEN e ELSE f[d]
    BY <1>2, <1>4
  <1>6. g = [d \in 1 .. n |-> IF d = n THEN e ELSE f[d]]
    BY <1>3, <1>5
  <1> QED BY <1>6 DEF g, n

\* What attach leaves of an older node: all but its links.
SameNode(old, new) ==
  /\ new.type = old.type /\ new.key = old.key
  /\ new.value = old.value /\ new.owned = old.owned

\* Node x has joined the array s: the older ones keep their content and their parent.
Joined(s, x, g) ==
  /\ g \in Seq(Node) /\ Len(g) = Len(s) + 1 /\ g[Len(s) + 1] = x
  /\ \A i \in DOMAIN s : SameNode(s[i], g[i]) /\ g[i].links.parent = s[i].links.parent

\* links_append written out, node by node.
LEMMA AttachChild ==
  ASSUME NEW s \in Seq(Node), NEW x \in Node, NEW p \in DOMAIN s, x.links = links_init(p),
         s[p].links.last_child # Len(s) + 1
  PROVE  /\ Joined(s, x, attach(s, x))
         /\ \A i \in DOMAIN s : attach(s, x)[i].links =
              links_after(s[i].links, i, p, s[p].links.last_child, Len(s) + 1)
  <1> DEFINE n == Len(s) + 1
             grown == Append(s, x)
             last == s[p].links.last_child
             g == attach(s, x)
  <1>1. grown \in Seq(Node) /\ Len(grown) = n /\ p \in 1 .. Len(s) /\ n \in Nat
    OBVIOUS
  <1>2. g = links_append(grown, p, n)
    BY <1>1, NoneAssumption DEF attach, links_init
  <1>3. grown[p].links.last_child = last
    BY <1>1
  <1>4. DOMAIN grown = 1 .. n
    BY <1>1
  <1>5. \A i \in DOMAIN s : i \in 1 .. n /\ grown[i] = s[i]
    OBVIOUS
  <1>6. n \in 1 .. n /\ grown[n] = x /\ n # p /\ n # last
    BY <1>1
  <1>7. g = [i \in 1 .. n |-> [grown[i] EXCEPT
               !.links = links_after(grown[i].links, i, p, last, n)]]
    BY <1>2, <1>3, <1>4 DEF links_append
  <1>8. \A i \in 1 .. n : grown[i] \in Node
    BY <1>1, <1>4
  <1> HIDE DEF g, grown, last, n
  <1>9. ASSUME NEW i \in 1 .. n
        PROVE  /\ g[i] \in Node
               /\ SameNode(grown[i], g[i])
               /\ g[i].links = links_after(grown[i].links, i, p, last, n)
    <2>1. g[i] = [grown[i] EXCEPT !.links = links_after(grown[i].links, i, p, last, n)]
      BY <1>7
    <2> DEFINE links == grown[i].links
               after == links_after(links, i, p, last, n)
    <2>2. grown[i] \in Node
      BY <1>8
    <2>3. links \in LinksOf(Nat)
      BY <2>2 DEF Node
    <2>4. after \in LinksOf(Nat)
      BY <1>1, <2>3 DEF links_after, LinksOf
    <2>5. g[i].links = after /\ SameNode(grown[i], g[i])
      BY <2>1, <2>2 DEF Node, SameNode
    <2>6. g[i] \in Node
      BY <2>1, <2>2, <2>4 DEF Node
    <2> QED BY <2>5, <2>6
  <1>10. g \in Seq(Node) /\ Len(g) = n
    <2>1. g \in [1 .. n -> Node]
      BY <1>7, <1>9
    <2> QED BY <1>1, <2>1, FunctionIsSeq
  <1>11. g[n] = x
    <2>1. links_after(x.links, n, p, last, n) = x.links
      BY <1>6 DEF links_after, links_init
    <2>2. g[n] = [x EXCEPT !.links = x.links]
      BY <1>6, <1>7, <2>1
    <2> QED BY <2>2 DEF Node
  <1>12. \A i \in DOMAIN s :
           /\ SameNode(s[i], g[i])
           /\ g[i].links = links_after(s[i].links, i, p, last, n)
    BY <1>5, <1>9
  <1>13. \A i \in DOMAIN s : g[i].links.parent = s[i].links.parent
    <2>1. \A links, i, parent, older, index :
            links_after(links, i, parent, older, index).parent = links.parent
      BY DEF links_after
    <2> QED BY <1>12, <2>1
  <1> QED
    BY <1>10, <1>11, <1>12, <1>13 DEF g, n, last, Joined

\* A node without a parent is appended and nothing else changes.
LEMMA AttachRoot ==
  ASSUME NEW s \in Seq(Node), NEW x \in Node, x.links.parent = NONE
  PROVE  attach(s, x) = Append(s, x) /\ Joined(s, x, attach(s, x))
BY DEF attach, Joined, SameNode

\* One node's share of WellLinked.
LinkedAt(s, i) ==
  /\ s[i].links.parent # NONE => s[i].links.parent \in 1 .. i - 1
  /\ s[i].links.first_child = Least(ChildrenOf(s, i))
  /\ s[i].links.last_child = Greatest(ChildrenOf(s, i))
  /\ s[i].links.child_count = Cardinality(ChildrenOf(s, i))
  /\ s[i].links.next_sibling =
       IF s[i].links.parent = NONE THEN NONE
       ELSE Least({j \in ChildrenOf(s, s[i].links.parent) : j > i})

\* A tree is well linked when each of its nodes is.
LEMMA WellLinkedAt ==
  ASSUME NEW s
  PROVE  WellLinked(s) <=> \A i \in DOMAIN s : LinkedAt(s, i)
BY DEF WellLinked, LinkedAt

\* The children of a node are positions of the array.
LEMMA ChildrenType ==
  ASSUME NEW s \in Seq(Node), NEW i
  PROVE  ChildrenOf(s, i) \in SUBSET (1 .. Len(s)) /\ IsFiniteSet(ChildrenOf(s, i))
  <1>1. ChildrenOf(s, i) \in SUBSET (1 .. Len(s))
    BY DEF ChildrenOf
  <1>2. IsFiniteSet(1 .. Len(s))
    BY FS_Interval
  <1> QED BY <1>1, <1>2, FS_Subset

\* attach keeps the links of one ordered forest: the heart of TreeWellLinked.
LEMMA AttachLinked ==
  ASSUME NEW s \in Seq(Node), NEW x \in Node, WellLinked(s),
         NEW p \in DOMAIN s, x.links = links_init(p)
  PROVE  Joined(s, x, attach(s, x)) /\ WellLinked(attach(s, x))
  <1> DEFINE n == Len(s) + 1
             g == attach(s, x)
             last == s[p].links.last_child
  <1>1. /\ n \in Nat /\ n \notin DOMAIN s /\ n # NONE /\ p \in 1 .. n - 1 /\ p # n /\ p # NONE
        /\ \A i \in DOMAIN s : i \in Nat /\ i < n
    BY NoneAssumption
  <1>2. \A i \in DOMAIN s : LinkedAt(s, i)
    BY WellLinkedAt
  <1>3. \A q : ChildrenOf(s, q) \in SUBSET (1 .. Len(s))
    BY ChildrenType
  <1>4. last = Greatest(ChildrenOf(s, p))
    BY <1>2 DEF LinkedAt
  <1>5. /\ ChildrenOf(s, p) = {} => last = NONE
        /\ ChildrenOf(s, p) # {} =>
             last \in ChildrenOf(s, p) /\ \A e \in ChildrenOf(s, p) : e <= last
    <2>1. ChildrenOf(s, p) # {} =>
            /\ Greatest(ChildrenOf(s, p)) \in ChildrenOf(s, p)
            /\ \A e \in ChildrenOf(s, p) : e <= Greatest(ChildrenOf(s, p))
      BY <1>3, GreatestOf, LenProperties
    <2> QED BY <1>4, <2>1 DEF Greatest
  <1>6. last # n
    BY <1>1, <1>5 DEF ChildrenOf
  <1>7. /\ Joined(s, x, g)
        /\ \A i \in DOMAIN s : g[i].links = links_after(s[i].links, i, p, last, n)
    BY <1>6, AttachChild
  <1>8. DOMAIN g = DOMAIN s \cup {n} /\ g[n] = x
    BY <1>7 DEF Joined
  <1>9. /\ x.links.parent = p /\ x.links.first_child = NONE /\ x.links.last_child = NONE
        /\ x.links.next_sibling = NONE /\ x.links.child_count = 0
    BY DEF links_init
  <1>10. \A i \in DOMAIN s : g[i].links.parent = s[i].links.parent
    BY <1>7 DEF Joined
  <1> HIDE DEF g, n, last
  <1>11. \A q : ChildrenOf(g, q) = IF q = p THEN ChildrenOf(s, q) \cup {n} ELSE ChildrenOf(s, q)
    BY <1>8, <1>9, <1>10 DEF ChildrenOf
  <1>12. ChildrenOf(s, n) = {}
    <2>1. \A i \in DOMAIN s : s[i].links.parent # n
      <3> SUFFICES ASSUME NEW i \in DOMAIN s, s[i].links.parent = n PROVE FALSE
        OBVIOUS
      <3>1. n \in 1 .. i - 1
        BY <1>1, <1>2 DEF LinkedAt
      <3> QED BY <1>1, <3>1
    <2> QED BY <2>1 DEF ChildrenOf
  <1>13. LinkedAt(g, n)
    <2>1. ChildrenOf(g, n) = {}
      BY <1>1, <1>11, <1>12
    <2>2. {j \in ChildrenOf(g, p) : j > n} = {}
      <3>1. ASSUME NEW j \in ChildrenOf(g, p) PROVE ~ (j > n)
        <4>1. j \in DOMAIN s \/ j = n
          BY <1>8 DEF ChildrenOf
        <4> QED BY <1>1, <4>1
      <3> QED BY <3>1
    <2> QED BY <1>1, <1>8, <1>9, <2>1, <2>2, FS_EmptySet DEF LinkedAt, Least, Greatest
  <1>14. ASSUME NEW i \in DOMAIN s
         PROVE  LinkedAt(g, i)
    <2>1. LinkedAt(s, i)
      BY <1>2
    <2>2. /\ g[i].links.first_child = IF i = p /\ last = NONE THEN n ELSE s[i].links.first_child
          /\ g[i].links.last_child = IF i = p THEN n ELSE s[i].links.last_child
          /\ g[i].links.next_sibling = IF i = last THEN n ELSE s[i].links.next_sibling
          /\ g[i].links.child_count =
               IF i = p THEN s[i].links.child_count + 1 ELSE s[i].links.child_count
      <3>1. g[i].links = links_after(s[i].links, i, p, last, n)
        BY <1>7
      <3> QED BY <3>1 DEF links_after
    <2>3. g[i].links.parent = s[i].links.parent
      BY <1>10
    <2>4. /\ g[i].links.first_child = Least(ChildrenOf(g, i))
          /\ g[i].links.last_child = Greatest(ChildrenOf(g, i))
          /\ g[i].links.child_count = Cardinality(ChildrenOf(g, i))
      <3>1. CASE i # p
        BY <1>11, <2>1, <2>2, <3>1 DEF LinkedAt
      <3>2. CASE i = p
        <4> DEFINE C == ChildrenOf(s, p)
                   D == C \cup {n}
        <4>1. ChildrenOf(g, i) = D
          BY <1>11, <3>2
        <4>2. C \in SUBSET (1 .. Len(s)) /\ IsFiniteSet(C)
          BY ChildrenType
        <4>3. /\ s[p].links.first_child = Least(C) /\ s[p].links.child_count = Cardinality(C)
          BY <2>1, <3>2 DEF LinkedAt
        <4>4. Len(s) \in Nat /\ n = Len(s) + 1
          BY DEF n
        <4>5. n \notin C /\ D \in SUBSET (1 .. n) /\ D \in SUBSET Nat
          BY <4>2, <4>4
        <4> HIDE DEF C
        <4>6. Cardinality(D) = Cardinality(C) + 1
          BY <4>2, <4>5, FS_AddElement
        <4>7. Greatest(D) = n
          <5>1. \A e \in D : e <= n
            BY <4>5, <4>4
          <5> QED BY <1>1, <4>5, <5>1, GreatestIs
        <4>8. Least(D) = IF last = NONE THEN n ELSE Least(C)
          <5>1. CASE C = {}
            <6>1. last = NONE
              BY <1>5, <5>1 DEF C
            <6>2. Least(D) = n
              <7>1. \A e \in D : n <= e
                BY <1>1, <5>1
              <7> QED BY <4>5, <7>1, LeastIs
            <6> QED BY <6>1, <6>2
          <5>2. CASE C # {}
            <6>1. last \in C
              BY <1>5, <5>2 DEF C
            <6>2. last # NONE
              BY <4>2, <6>1, NoneAssumption
            <6>3. C \in SUBSET Nat
              BY <4>2
            <6>4. Least(C) \in C /\ \A e \in C : Least(C) <= e
              BY <5>2, <6>3, LeastOf
            <6>5. Least(C) <= n
              <7>1. \A e \in C : e <= n
                BY <4>2, <4>4
              <7> QED BY <6>4, <7>1
            <6>6. \A e \in D : Least(C) <= e
              BY <6>4, <6>5
            <6>7. Least(D) = Least(C)
              BY <4>5, <6>4, <6>6, LeastIs
            <6> QED BY <6>2, <6>7
          <5> QED BY <5>1, <5>2
        <4> QED BY <2>2, <3>2, <4>1, <4>3, <4>6, <4>7, <4>8
      <3> QED BY <3>1, <3>2
    <2>5. g[i].links.next_sibling =
            IF g[i].links.parent = NONE THEN NONE
            ELSE Least({j \in ChildrenOf(g, g[i].links.parent) : j > i})
      <3>1. i = last => s[i].links.parent = p
        <4>1. ChildrenOf(s, p) = {} => i # last
          BY <1>1, <1>5, NoneAssumption
        <4> QED BY <1>5, <4>1 DEF ChildrenOf
      <3>2. CASE s[i].links.parent # p
        <4>1. i # last
          BY <3>1, <3>2
        <4>2. ChildrenOf(g, g[i].links.parent) = ChildrenOf(s, s[i].links.parent)
          BY <1>11, <2>3, <3>2
        <4> QED BY <2>1, <2>2, <2>3, <4>1, <4>2 DEF LinkedAt
      <3>3. CASE s[i].links.parent = p
        <4> DEFINE F == {j \in ChildrenOf(s, p) : j > i}
                   G == F \cup {n}
        <4>1. {j \in ChildrenOf(g, g[i].links.parent) : j > i} = G
          BY <1>1, <1>11, <2>3, <3>3
        <4>2. s[i].links.next_sibling = Least(F)
          BY <1>1, <2>1, <3>3 DEF LinkedAt
        <4>3. Len(s) \in Nat /\ n = Len(s) + 1
          BY DEF n
        <4>4. F \in SUBSET (1 .. Len(s)) /\ F \in SUBSET Nat
          BY <1>3
        <4>5. n \in Nat /\ G \in SUBSET Nat
          BY <4>3, <4>4
        <4>6. i \in ChildrenOf(s, p)
          BY <3>3 DEF ChildrenOf
        <4>7. i = last <=> F = {}
          <5>1. last \in ChildrenOf(s, p) /\ \A e \in ChildrenOf(s, p) : e <= last
            BY <1>5, <4>6
          <5>2. last \in Nat /\ i \in Nat /\ i <= last /\ \A e \in ChildrenOf(s, p) : e \in Nat
            BY <1>3, <4>6, <5>1
          <5>3. i = last => F = {}
            <6>1. \A e \in ChildrenOf(s, p) : ~ (e > last)
              BY <5>1, <5>2
            <6> QED BY <6>1
          <5>4. i # last => last \in F
            BY <5>1, <5>2
          <5> QED BY <5>3, <5>4
        <4>8. Least(G) = IF F = {} THEN n ELSE Least(F)
          <5> HIDE DEF F
          <5>1. CASE F = {}
            <6>1. \A e \in G : n <= e
              BY <4>5, <5>1
            <6> QED BY <4>5, <5>1, <6>1, LeastIs
          <5>2. CASE F # {}
            <6>1. Least(F) \in F /\ \A e \in F : Least(F) <= e
              BY <4>4, <5>2, LeastOf
            <6>2. Least(F) <= n
              <7>1. \A e \in F : e <= n
                BY <4>3, <4>4
              <7> QED BY <6>1, <7>1
            <6>3. \A e \in G : Least(F) <= e
              BY <6>1, <6>2
            <6> QED BY <4>5, <5>2, <6>1, <6>3, LeastIs
          <5> QED BY <5>1, <5>2
        <4> HIDE DEF F, G
        <4> QED BY <1>1, <2>2, <2>3, <3>3, <4>1, <4>2, <4>7, <4>8
      <3> QED BY <3>2, <3>3
    <2> QED BY <2>1, <2>3, <2>4, <2>5 DEF LinkedAt
  <1>15. WellLinked(g)
    BY <1>8, <1>13, <1>14, WellLinkedAt
  <1> QED BY <1>7, <1>15 DEF g

\* The first node of an empty array is a tree of its own.
LEMMA RootLinked ==
  ASSUME NEW x \in Node, x.links = links_init(NONE)
  PROVE  WellLinked(attach(<<>>, x))
  <1> DEFINE g == <<x>>
  <1>1. attach(<<>>, x) = g
    BY DEF attach, links_init
  <1>2. /\ x.links.parent = NONE /\ x.links.first_child = NONE /\ x.links.last_child = NONE
        /\ x.links.next_sibling = NONE /\ x.links.child_count = 0
    BY DEF links_init
  <1>3. DOMAIN g = {1} /\ g[1] = x
    OBVIOUS
  <1>4. ChildrenOf(g, 1) = {}
    BY <1>2, <1>3, NoneAssumption DEF ChildrenOf
  <1>5. LinkedAt(g, 1)
    BY <1>2, <1>3, <1>4, FS_EmptySet DEF LinkedAt, Least, Greatest
  <1> QED BY <1>1, <1>3, <1>5, WellLinkedAt

-----------------------------------------------------------------------------
(* What one more node does to the counts, the keys and the contract's view. *)

KeyCount(s) == Cardinality({i \in DOMAIN s : s[i].key # NONE})
OwnCount(s) == Cardinality({i \in DOMAIN s : s[i].owned})

\* A set of positions that has or has not gained the new one.
LEMMA OneMore ==
  ASSUME NEW n \in Nat, NEW S \in SUBSET (1 .. n), NEW b \in BOOLEAN
  PROVE  /\ Cardinality(S) \in Nat
         /\ Cardinality(IF b THEN S \cup {n + 1} ELSE S)
              = Cardinality(S) + (IF b THEN 1 ELSE 0)
  <1>1. IsFiniteSet(1 .. n)
    BY FS_Interval
  <1>2. IsFiniteSet(S)
    BY <1>1, FS_Subset
  <1>3. n + 1 \notin S
    OBVIOUS
  <1>4. Cardinality(S) \in Nat
    BY <1>2, FS_CardinalityType
  <1>5. Cardinality(S \cup {n + 1}) = Cardinality(S) + 1
    BY <1>2, <1>3, FS_AddElement
  <1> QED BY <1>4, <1>5

\* The counts release goes by grow by what the new node holds.
LEMMA CountJoined ==
  ASSUME NEW s \in Seq(Node), NEW x \in Node, NEW g, Joined(s, x, g)
  PROVE  /\ KeyCount(s) \in Nat /\ OwnCount(s) \in Nat
         /\ KeyCount(g) = KeyCount(s) + (IF x.key # NONE THEN 1 ELSE 0)
         /\ OwnCount(g) = OwnCount(s) + (IF x.owned THEN 1 ELSE 0)
  <1> DEFINE n == Len(s)
             K == {i \in DOMAIN s : s[i].key # NONE}
             O == {i \in DOMAIN s : s[i].owned}
  <1>1. n \in Nat /\ DOMAIN s = 1 .. n /\ DOMAIN g = 1 .. n + 1 /\ g[n + 1] = x
    BY DEF Joined
  <1>2. \A i \in 1 .. n : g[i].key = s[i].key /\ g[i].owned = s[i].owned
    BY <1>1 DEF Joined, SameNode
  <1>3. x.owned \in BOOLEAN
    BY DEF Node
  <1> HIDE DEF n
  <1>4. K \in SUBSET (1 .. n) /\ O \in SUBSET (1 .. n)
    BY <1>1
  <1>5. \A i : i \in 1 .. n + 1 <=> i \in 1 .. n \/ i = n + 1
    BY <1>1
  <1>6. {i \in DOMAIN g : g[i].key # NONE} = IF x.key # NONE THEN K \cup {n + 1} ELSE K
    BY <1>1, <1>2, <1>5
  <1>7. {i \in DOMAIN g : g[i].owned} = IF x.owned THEN O \cup {n + 1} ELSE O
    BY <1>1, <1>2, <1>5
  <1>8. Cardinality(IF x.key # NONE THEN K \cup {n + 1} ELSE K)
          = Cardinality(K) + (IF x.key # NONE THEN 1 ELSE 0) /\ Cardinality(K) \in Nat
    <2> HIDE DEF K, O
    <2>1. PICK b \in BOOLEAN : b = (x.key # NONE)
      OBVIOUS
    <2> QED BY <1>1, <1>4, <2>1, OneMore
  <1>9. Cardinality(IF x.owned THEN O \cup {n + 1} ELSE O)
          = Cardinality(O) + (IF x.owned THEN 1 ELSE 0) /\ Cardinality(O) \in Nat
    <2> HIDE DEF K, O
    <2> QED BY <1>1, <1>3, <1>4, OneMore
  <1> QED BY <1>6, <1>7, <1>8, <1>9 DEF KeyCount, OwnCount

\* No two children of a node have the same key.
DistinctKeys(s) ==
  \A i, j \in DOMAIN s :
    i # j /\ s[i].key # NONE /\ s[i].links.parent = s[j].links.parent => s[i].key # s[j].key

\* A node whose key none of its siblings has may join.
LEMMA DistinctJoined ==
  ASSUME NEW s \in Seq(Node), NEW x \in Node, NEW g, Joined(s, x, g), DistinctKeys(s),
         \A i \in DOMAIN s : s[i].links.parent = x.links.parent /\ x.key # NONE
                               => s[i].key # x.key
  PROVE  DistinctKeys(g)
  <1>1. /\ DOMAIN g = DOMAIN s \cup {Len(s) + 1} /\ g[Len(s) + 1] = x
    BY DEF Joined
  <1>2. \A i \in DOMAIN s : g[i].key = s[i].key /\ g[i].links.parent = s[i].links.parent
    BY DEF Joined, SameNode
  <1> SUFFICES ASSUME NEW i \in DOMAIN g, NEW j \in DOMAIN g, i # j, g[i].key # NONE,
                      g[i].links.parent = g[j].links.parent
               PROVE  g[i].key # g[j].key
    BY DEF DistinctKeys
  <1>3. CASE i \in DOMAIN s /\ j \in DOMAIN s
    BY <1>2, <1>3 DEF DistinctKeys
  <1>4. CASE i \in DOMAIN s /\ j = Len(s) + 1
    BY <1>1, <1>2, <1>4
  <1>5. CASE i = Len(s) + 1 /\ j \in DOMAIN s
    BY <1>1, <1>2, <1>5
  <1> QED BY <1>1, <1>3, <1>4, <1>5

\* What the contract sees of an open container c.
Seen(s, K, c) ==
  [type |-> s[c].type, keys |-> {s[i].key : i \in {j \in K : s[j].links.parent = c}}]

\* The views of the older nodes once x is in the key set.
Entered(s, x, g, K) ==
  \A c \in DOMAIN s : Seen(g, K \cup {Len(s) + 1}, c) =
    [type |-> s[c].type,
     keys |-> IF x.links.parent = c THEN Seen(s, K, c).keys \cup {x.key}
              ELSE Seen(s, K, c).keys]

\* A node entered in the key set changes the view of its own container only.
LEMMA SeenEntered ==
  ASSUME NEW s \in Seq(Node), NEW x \in Node, NEW g, Joined(s, x, g),
         NEW K \in SUBSET DOMAIN s
  PROVE  Entered(s, x, g, K)
  <1> SUFFICES ASSUME NEW c \in DOMAIN s
               PROVE  Seen(g, K \cup {Len(s) + 1}, c) =
                        [type |-> s[c].type,
                         keys |-> IF x.links.parent = c THEN Seen(s, K, c).keys \cup {x.key}
                                  ELSE Seen(s, K, c).keys]
    BY DEF Entered
  <1> DEFINE n == Len(s) + 1
             J == {j \in K : s[j].links.parent = c}
  <1>1. g[n] = x
    BY DEF Joined
  <1>2. \A i \in DOMAIN s : /\ g[i].key = s[i].key /\ g[i].links.parent = s[i].links.parent
                            /\ g[i].type = s[i].type
    BY DEF Joined, SameNode
  <1> HIDE DEF n
  <1>3. {j \in K \cup {n} : g[j].links.parent = c} = IF x.links.parent = c THEN J \cup {n} ELSE J
    BY <1>1, <1>2
  <1>4. {g[i].key : i \in J} = {s[i].key : i \in J}
    BY <1>2
  <1>5. {g[i].key : i \in J \cup {n}} = {s[i].key : i \in J} \cup {x.key}
    BY <1>1, <1>2
  <1>6. CASE x.links.parent = c
    BY <1>2, <1>3, <1>5, <1>6 DEF Seen, n
  <1>7. CASE x.links.parent # c
    BY <1>2, <1>3, <1>4, <1>7 DEF Seen, n
  <1> QED BY <1>6, <1>7

\* The new node itself has no members yet.
LEMMA SeenNew ==
  ASSUME NEW s \in Seq(Node), NEW x \in Node, NEW g, Joined(s, x, g), WellLinked(s),
         NEW K \in SUBSET (DOMAIN s \cup {Len(s) + 1}), x.links.parent \in DOMAIN s \cup {NONE}
  PROVE  Seen(g, K, Len(s) + 1) = [type |-> x.type, keys |-> {}]
  <1> DEFINE n == Len(s) + 1
  <1>1. g[n] = x /\ n \in Nat /\ n \notin DOMAIN s /\ n # NONE
    BY NoneAssumption DEF Joined
  <1>2. \A i \in DOMAIN s : g[i].links.parent # n
    <2> SUFFICES ASSUME NEW i \in DOMAIN s, s[i].links.parent = n PROVE FALSE
      BY DEF Joined
    <2>1. n \in 1 .. i - 1
      BY <1>1, WellLinkedAt DEF LinkedAt
    <2> QED BY <2>1
  <1> HIDE DEF n
  <1>3. {j \in K : g[j].links.parent = n} = {}
    BY <1>1, <1>2 DEF n
  <1> QED BY <1>1, <1>3 DEF Seen, n

\* A node that is not entered changes no view.
LEMMA SeenKept ==
  ASSUME NEW s \in Seq(Node), NEW x \in Node, NEW g, Joined(s, x, g),
         NEW K \in SUBSET DOMAIN s
  PROVE  \A c \in DOMAIN s : Seen(g, K, c) = Seen(s, K, c)
  <1> SUFFICES ASSUME NEW c \in DOMAIN s PROVE Seen(g, K, c) = Seen(s, K, c)
    OBVIOUS
  <1>1. \A i \in DOMAIN s : /\ g[i].key = s[i].key /\ g[i].links.parent = s[i].links.parent
                            /\ g[i].type = s[i].type
    BY DEF Joined, SameNode
  <1>2. {j \in K : g[j].links.parent = c} = {j \in K : s[j].links.parent = c}
    BY <1>1
  <1>3. \A J \in SUBSET DOMAIN s : {g[i].key : i \in J} = {s[i].key : i \in J}
    BY <1>1
  <1> QED BY <1>1, <1>2, <1>3 DEF Seen

-----------------------------------------------------------------------------
(* The inductive invariant: the tree.                                       *)

Failures == Codes \ {"ARGUMENT", "IO"}

Shape ==
  /\ nodes \in Seq(Node) /\ node_capacity \in Nat
  /\ keys \subseteq DOMAIN nodes /\ key_slots \in Nat
  /\ stack \in Seq(DOMAIN nodes)
  /\ pending \in Texts \cup {NONE} /\ texts \in Nat
  /\ finished \in BOOLEAN /\ failure \in Failures

\* Open containers were attached in the order in which they were opened, so no two
\* entries of the stack are the same node.
Rising == \A d, e \in DOMAIN stack : d < e => stack[d] < stack[e]

\* Until a call fails every node with a key is in the key set, so that a key the set
\* does not know is in no node either.
KeysHeld == failure = "OK" => keys = {i \in DOMAIN nodes : nodes[i].key # NONE}

TreeInv ==
  /\ Shape /\ ArraysFit /\ Rising /\ TreeWellLinked /\ KeysHeld /\ UniqueKeys /\ NoTextLost

\* A call that leaves the tree alone and does not forget a failure.
LEMMA SameTree ==
  ASSUME TreeInv, UNCHANGED tree_vars, failure' \in Failures, finished' \in BOOLEAN,
         failure' = "OK" => failure = "OK"
  PROVE  TreeInv' /\ open_containers' = open_containers
  <1>1. /\ nodes' = nodes /\ node_capacity' = node_capacity /\ keys' = keys
        /\ key_slots' = key_slots /\ stack' = stack /\ pending' = pending /\ texts' = texts
    BY DEF tree_vars
  <1>2. Shape'
    BY <1>1 DEF TreeInv, Shape
  <1>3. ArraysFit' /\ Rising'
    BY <1>1 DEF TreeInv, ArraysFit, Rising
  <1>4. TreeWellLinked' /\ KeysHeld'
    BY <1>1 DEF TreeInv, TreeWellLinked, KeysHeld
  <1>5. UniqueKeys'
    BY <1>1 DEF TreeInv, UniqueKeys, keyset_contains, container
  <1>6. NoTextLost'
    BY <1>1 DEF TreeInv, NoTextLost, reachable
  <1>7. open_containers' = open_containers
    BY <1>1 DEF open_containers
  <1> QED BY <1>2, <1>3, <1>4, <1>5, <1>6, <1>7 DEF TreeInv

\* The innermost open container is a node.
LEMMA ContainerType ==
  ASSUME Shape
  PROVE  /\ stack = <<>> => container = NONE
         /\ stack # <<>> => container \in DOMAIN nodes /\ container = stack[Len(stack)]
         /\ container \in DOMAIN nodes \cup {NONE}
         /\ container = NONE => stack = <<>>
         /\ Len(nodes) \in Nat /\ Len(stack) \in Nat
  <1>1. \A i \in DOMAIN nodes : i # NONE
    BY NoneAssumption DEF Shape
  <1>2. stack # <<>> => stack[Len(stack)] \in DOMAIN nodes
    BY DEF Shape
  <1> QED BY <1>1, <1>2 DEF container, Shape

\* The node attach_node takes.
LEMMA NodeType ==
  ASSUME TreeInv, has_room, NEW type \in Types, NEW value \in Texts \cup {NONE},
         NEW owned \in BOOLEAN
  PROVE  /\ node(type, value, owned) \in Node
         /\ node(type, value, owned).links = links_init(container)
         /\ node(type, value, owned).links.parent = container
         /\ node(type, value, owned).type = type
         /\ node(type, value, owned).owned = owned
         /\ node(type, value, owned).key = pending
         /\ in_object <=> pending # NONE
  <1>1. container \in Nat \cup {NONE}
    BY ContainerType DEF TreeInv, Shape
  <1>2. links_init(container) \in LinksOf(Nat)
    BY <1>1 DEF links_init, LinksOf
  <1>3. in_object <=> pending # NONE
    BY DEF has_room, misplaced, in_object
  <1>4. pending \in Texts \cup {NONE}
    BY DEF TreeInv, Shape
  <1>5. (IF in_object THEN pending ELSE NONE) = pending
    BY <1>3
  <1>6. node(type, value, owned) = [links |-> links_init(container), type |-> type,
                                    value |-> value, owned |-> owned, key |-> pending]
    BY <1>5 DEF node
  <1>7. links_init(container).parent = container
    BY DEF links_init
  <1> HIDE DEF in_object
  <1> QED BY <1>2, <1>3, <1>4, <1>6, <1>7 DEF Node

\* grow_nodes makes room for one more node and stays within maximum_tokens.
LEMMA GrowNodes ==
  ASSUME TreeInv, has_room
  PROVE  grow_nodes \in Nat /\ Len(nodes) + 1 <= grow_nodes /\ grow_nodes <= MaxTokens
  <1>1. /\ Len(nodes) \in Nat /\ node_capacity \in Nat /\ MaxTokens \in Nat
        /\ InitialNodes \in Nat \ {0}
    BY ContainerType, WriterAssumption DEF TreeInv, Shape
  <1>2. Len(nodes) < MaxTokens /\ Len(nodes) <= node_capacity /\ node_capacity <= MaxTokens
    BY DEF TreeInv, ArraysFit, has_room
  <1> QED BY <1>1, <1>2 DEF grow_nodes

\* One more node, linked or not: what does not depend on its links.
LEMMA JoinedInv ==
  ASSUME TreeInv, writer_ready, has_room, NEW x \in Node, x.links.parent = container,
         x.key = pending, Joined(nodes, x, nodes'), node_capacity' = grow_nodes,
         pending' = NONE, texts' = texts + (IF x.owned THEN 1 ELSE 0)
  PROVE  /\ nodes' \in Seq(Node) /\ Len(nodes') = Len(nodes) + 1
         /\ DOMAIN nodes' = DOMAIN nodes \cup {Len(nodes) + 1}
         /\ node_capacity' \in Nat /\ texts' \in Nat
         /\ Len(nodes') <= node_capacity' /\ node_capacity' <= MaxTokens
         /\ UniqueKeys' /\ NoTextLost'
  <1>1. nodes' \in Seq(Node) /\ Len(nodes') = Len(nodes) + 1 /\ nodes \in Seq(Node)
    BY DEF Joined, TreeInv, Shape
  <1>2. DOMAIN nodes' = DOMAIN nodes \cup {Len(nodes) + 1}
    BY <1>1
  <1>3. node_capacity' \in Nat /\ Len(nodes') <= node_capacity' /\ node_capacity' <= MaxTokens
    BY <1>1, GrowNodes
  <1>4. texts' \in Nat
    BY DEF TreeInv, Shape
  <1>5. UniqueKeys'
    <2>1. DistinctKeys(nodes) /\ (pending # NONE => ~keyset_contains(pending))
      BY DEF TreeInv, UniqueKeys, DistinctKeys
    <2>2. keys = {i \in DOMAIN nodes : nodes[i].key # NONE}
      BY DEF TreeInv, KeysHeld, writer_ready
    <2>3. \A i \in DOMAIN nodes : nodes[i].links.parent = x.links.parent /\ x.key # NONE
                               => nodes[i].key # x.key
      BY <2>1, <2>2 DEF keyset_contains
    <2>4. DistinctKeys(nodes')
      BY <1>1, <2>1, <2>3, DistinctJoined
    <2> QED BY <2>4 DEF UniqueKeys, DistinctKeys
  <1>6. NoTextLost'
    <2>1. texts = KeyCount(nodes) + OwnCount(nodes) + (IF pending = NONE THEN 0 ELSE 1)
      BY DEF TreeInv, NoTextLost, reachable, KeyCount, OwnCount
    <2>2. /\ KeyCount(nodes) \in Nat /\ OwnCount(nodes) \in Nat
          /\ KeyCount(nodes') = KeyCount(nodes) + (IF x.key # NONE THEN 1 ELSE 0)
          /\ OwnCount(nodes') = OwnCount(nodes) + (IF x.owned THEN 1 ELSE 0)
      BY <1>1, CountJoined
    <2>3. texts' = KeyCount(nodes') + OwnCount(nodes') + 0
      BY <2>1, <2>2
    <2> QED BY <2>3 DEF NoTextLost, reachable, KeyCount, OwnCount
  <1> QED BY <1>1, <1>2, <1>3, <1>4, <1>5, <1>6

\* The key of a node that is only counted is freed by release like the others.
LEMMA KeyLostTree ==
  ASSUME TreeInv, writer_ready, NEW op, NEW type \in Types, KeyLost(op, type)
  PROVE  TreeInv' /\ open_containers' = open_containers /\ failure' = "MEMORY"
  <1> DEFINE x == node(type, NONE, FALSE)
  <1>1. /\ has_room /\ nodes' = Append(nodes, x) /\ node_capacity' = grow_nodes
        /\ pending' = NONE /\ keys' = keys /\ key_slots' = key_slots /\ stack' = stack
        /\ texts' = texts /\ finished' = finished
    BY DEF KeyLost
  <1>2. failure' = "MEMORY"
    BY DEF KeyLost, writer_fail, writer_ready
  <1>3. x \in Node /\ x.links.parent = container /\ x.key = pending /\ ~x.owned
    BY <1>1, NodeType
  <1> HIDE DEF x
  <1>4. Joined(nodes, x, nodes')
    BY <1>1, <1>3 DEF Joined, SameNode, TreeInv, Shape
  <1>5. texts' = texts + (IF x.owned THEN 1 ELSE 0)
    BY <1>1, <1>3 DEF TreeInv, Shape
  <1>6. /\ nodes' \in Seq(Node) /\ Len(nodes') = Len(nodes) + 1
        /\ DOMAIN nodes' = DOMAIN nodes \cup {Len(nodes) + 1}
        /\ node_capacity' \in Nat /\ texts' \in Nat
        /\ Len(nodes') <= node_capacity' /\ node_capacity' <= MaxTokens
        /\ UniqueKeys' /\ NoTextLost'
    BY <1>1, <1>3, <1>4, <1>5, JoinedInv
  <1>7. stack \in Seq(DOMAIN nodes')
    BY <1>6 DEF TreeInv, Shape
  <1>8. Shape'
    BY <1>1, <1>2, <1>6, <1>7 DEF TreeInv, Shape, Failures, Codes
  <1>9. ArraysFit' /\ Rising'
    BY <1>1, <1>6 DEF TreeInv, ArraysFit, Rising
  <1>10. TreeWellLinked' /\ KeysHeld'
    BY <1>2 DEF TreeWellLinked, KeysHeld
  <1>11. open_containers' = open_containers
    <2>1. nodes \in Seq(Node) /\ keys \in SUBSET DOMAIN nodes
          /\ \A d \in DOMAIN stack : stack[d] \in DOMAIN nodes
      BY DEF TreeInv, Shape
    <2>4. \A c \in DOMAIN nodes : Seen(nodes', keys, c) = Seen(nodes, keys, c)
      BY <1>3, <1>4, <2>1, SeenKept
    <2>2. open_containers = [d \in DOMAIN stack |-> Seen(nodes, keys, stack[d])]
      BY DEF open_containers, Seen
    <2>3. open_containers' = [d \in DOMAIN stack |-> Seen(nodes', keys, stack[d])]
      <3>1. open_containers' = [d \in DOMAIN stack' |-> Seen(nodes', keys', stack'[d])]
        BY DEF open_containers, Seen
      <3> QED BY <1>1, <3>1
    <2> QED BY <2>1, <2>2, <2>3, <2>4
  <1> QED BY <1>2, <1>6, <1>8, <1>9, <1>10, <1>11 DEF TreeInv

\* The node of a call that succeeds: linked, entered, and the tree still one.
LEMMA AttachedNode ==
  ASSUME TreeInv, writer_ready, NEW op, NEW arg, NEW type \in Types,
         NEW value \in Texts \cup {NONE}, NEW owned \in BOOLEAN,
         Attached(op, arg, type, value, owned)
  PROVE  /\ Joined(nodes, node(type, value, owned), nodes') /\ WellLinked(nodes')
         /\ WellLinked(nodes) /\ node(type, value, owned).links.parent = container
         /\ node(type, value, owned) \in Node /\ node(type, value, owned).key = pending
         /\ node(type, value, owned).owned = owned /\ node(type, value, owned).type = type
         /\ in_object <=> pending # NONE
  <1> DEFINE x == node(type, value, owned)
  <1>1. has_room /\ nodes' = attach(nodes, x)
    BY DEF Attached
  <1>2. /\ x \in Node /\ x.links = links_init(container) /\ x.key = pending
        /\ x.links.parent = container /\ x.owned = owned /\ x.type = type
        /\ in_object <=> pending # NONE
    BY <1>1, NodeType
  <1>3. nodes \in Seq(Node) /\ WellLinked(nodes)
    BY DEF TreeInv, Shape, TreeWellLinked, writer_ready
  <1> HIDE DEF x
  <1>4. CASE container = NONE
    <2>1. nodes = <<>>
      BY <1>1, <1>4 DEF has_room, misplaced
    <2>2. Joined(nodes, x, nodes')
      BY <1>1, <1>2, <1>3, <1>4, AttachRoot
    <2>3. WellLinked(nodes')
      BY <1>1, <1>2, <1>4, <2>1, RootLinked
    <2> QED BY <1>2, <1>3, <2>2, <2>3 DEF x
  <1>5. CASE container # NONE
    <2>1. container \in DOMAIN nodes
      BY <1>5, ContainerType DEF TreeInv
    <2>2. Joined(nodes, x, nodes') /\ WellLinked(nodes')
      BY <1>1, <1>2, <1>3, <2>1, AttachLinked
    <2> QED BY <1>2, <1>3, <2>2 DEF x
  <1> QED BY <1>4, <1>5

\* The stack after a call that attached a node.
Stacked == \/ stack' = stack
           \/ stack' = Append(stack, Len(nodes')) /\ ~depth_reached

\* A call that attaches a node keeps the invariant of the tree.
LEMMA AttachedTree ==
  ASSUME TreeInv, writer_ready, NEW op, NEW arg, NEW type \in Types,
         NEW value \in Texts \cup {NONE}, NEW owned \in BOOLEAN,
         Attached(op, arg, type, value, owned),
         texts' = texts + (IF owned THEN 1 ELSE 0), Stacked
  PROVE  TreeInv'
  <1> DEFINE x == node(type, value, owned)
             n == Len(nodes) + 1
  <1>1. /\ has_room /\ node_capacity' = grow_nodes /\ pending' = NONE
        /\ keys' = (IF in_object THEN keys \cup {Len(nodes')} ELSE keys)
        /\ key_slots' \in {key_slots, 2 * key_slots}
        /\ finished' = finished /\ failure' = failure
    BY DEF Attached
  <1>2. /\ x \in Node /\ x.links.parent = container /\ x.key = pending /\ x.owned = owned
        /\ Joined(nodes, x, nodes') /\ WellLinked(nodes')
        /\ in_object <=> pending # NONE
    BY AttachedNode
  <1> HIDE DEF x
  <1>3. /\ nodes' \in Seq(Node) /\ Len(nodes') = n
        /\ DOMAIN nodes' = DOMAIN nodes \cup {n}
        /\ node_capacity' \in Nat /\ texts' \in Nat
        /\ Len(nodes') <= node_capacity' /\ node_capacity' <= MaxTokens
        /\ UniqueKeys' /\ NoTextLost'
    BY <1>1, <1>2, JoinedInv
  <1>4. /\ nodes \in Seq(Node) /\ n \in Nat /\ stack \in Seq(DOMAIN nodes)
        /\ key_slots \in Nat /\ keys \subseteq DOMAIN nodes
        /\ \A i \in DOMAIN nodes : i \in Nat /\ i < n
        /\ failure = "OK" /\ Len(stack) <= MaxDepth /\ MaxDepth \in Nat
    BY WriterAssumption DEF TreeInv, Shape, ArraysFit, writer_ready
  <1> HIDE DEF n
  <1>5. keys' \subseteq DOMAIN nodes' /\ key_slots' \in Nat
    BY <1>1, <1>3, <1>4
  <1>6. KeysHeld'
    <2>1. keys = {i \in DOMAIN nodes : nodes[i].key # NONE}
      BY <1>4 DEF TreeInv, KeysHeld
    <2>2. nodes'[n].key = pending /\ \A i \in DOMAIN nodes : nodes'[i].key = nodes[i].key
      BY <1>2 DEF Joined, SameNode, n
    <2>3. keys' = {i \in DOMAIN nodes' : nodes'[i].key # NONE}
      BY <1>1, <1>2, <1>3, <2>1, <2>2
    <2> QED BY <2>3 DEF KeysHeld
  <1>7. TreeWellLinked' /\ finished' \in BOOLEAN /\ failure' \in Failures
        /\ pending' \in Texts \cup {NONE}
    BY <1>1, <1>2 DEF TreeInv, Shape, TreeWellLinked
  <1>8. CASE stack' = stack
    <2>1. stack' \in Seq(DOMAIN nodes')
      BY <1>3, <1>4, <1>8
    <2>2. Rising' /\ Len(stack') <= MaxDepth
      BY <1>4, <1>8 DEF TreeInv, Rising
    <2> QED
      BY <1>3, <1>5, <1>6, <1>7, <2>1, <2>2 DEF TreeInv, Shape, ArraysFit
  <1>9. CASE stack' = Append(stack, n) /\ ~depth_reached
    <2>1. stack' \in Seq(DOMAIN nodes')
      BY <1>3, <1>4, <1>9
    <2>2. Len(stack') <= MaxDepth
      BY <1>4, <1>9 DEF depth_reached
    <2>3. Rising'
      <3> SUFFICES ASSUME NEW d \in DOMAIN stack', NEW e \in DOMAIN stack', d < e
                   PROVE  stack'[d] < stack'[e]
        BY DEF Rising
      <3>1. d \in DOMAIN stack /\ stack'[d] = stack[d] /\ stack[d] \in DOMAIN nodes
        BY <1>4, <1>9
      <3>2. CASE e \in DOMAIN stack
        BY <1>4, <1>9, <3>1, <3>2 DEF TreeInv, Rising
      <3>3. CASE e = Len(stack) + 1
        BY <1>4, <1>9, <3>1, <3>3
      <3> QED BY <1>4, <1>9, <3>2, <3>3
    <2> QED
      BY <1>3, <1>5, <1>6, <1>7, <2>1, <2>2, <2>3 DEF TreeInv, Shape, ArraysFit
  <1> QED BY <1>3, <1>8, <1>9 DEF Stacked

-----------------------------------------------------------------------------
(* The steps of the contract.                                               *)

\* The contract's view of the stack, container by container.
LEMMA OpenFacts ==
  ASSUME TreeInv
  PROVE  /\ open_containers = [d \in DOMAIN stack |-> Seen(nodes, keys, stack[d])]
         /\ open_containers \in Seq({Seen(nodes, keys, c) : c \in DOMAIN nodes})
         /\ Len(open_containers) = Len(stack)
         /\ DOMAIN open_containers = DOMAIN stack
         /\ open_containers = <<>> <=> stack = <<>>
         /\ Contract!InObject <=> in_object
  <1> DEFINE S == {Seen(nodes, keys, c) : c \in DOMAIN nodes}
  <1>1. stack \in Seq(DOMAIN nodes) /\ Len(stack) \in Nat /\ DOMAIN stack = 1 .. Len(stack)
    BY DEF TreeInv, Shape
  <1>2. open_containers = [d \in DOMAIN stack |-> Seen(nodes, keys, stack[d])]
    BY DEF open_containers, Seen
  <1>3. open_containers \in [1 .. Len(stack) -> S]
    BY <1>1, <1>2
  <1> HIDE DEF S
  <1>4. open_containers \in Seq(S) /\ Len(open_containers) = Len(stack)
    BY <1>1, <1>3, FunctionIsSeq
  <1>5. open_containers = <<>> <=> stack = <<>>
    BY <1>1, <1>4
  <1>6. Contract!InObject <=> in_object
    <2>1. CASE stack = <<>>
      BY <1>5, <2>1 DEF Contract!InObject, in_object, container
    <2>2. CASE stack # <<>>
      <3>1. Len(stack) \in DOMAIN stack /\ stack[Len(stack)] \in DOMAIN nodes
        BY <1>1, <2>2
      <3>2. container = stack[Len(stack)] /\ container # NONE
        BY <2>2, ContainerType, <3>1, NoneAssumption DEF TreeInv, Shape
      <3>3. open_containers[Len(open_containers)].type = nodes[container].type
        BY <1>2, <1>4, <3>1, <3>2 DEF Seen
      <3> QED BY <1>5, <2>2, <3>2, <3>3 DEF Contract!InObject, in_object
    <2> QED BY <2>1, <2>2
  <1> QED BY <1>1, <1>2, <1>3, <1>4, <1>5, <1>6 DEF S

\* The pending key joins the innermost object and nothing else changes.
LEMMA TakenView ==
  ASSUME TreeInv, writer_ready, NEW op, NEW arg, NEW type \in Types,
         NEW value \in Texts \cup {NONE}, NEW owned \in BOOLEAN,
         Attached(op, arg, type, value, owned)
  PROVE  /\ Contract!Taken = [d \in DOMAIN stack |-> Seen(nodes', keys', stack[d])]
         /\ Seen(nodes', keys', Len(nodes) + 1) = [type |-> type, keys |-> {}]
         /\ Len(nodes') = Len(nodes) + 1
  <1> DEFINE x == node(type, value, owned)
             n == Len(nodes) + 1
             seen == [d \in DOMAIN stack |-> Seen(nodes', keys', stack[d])]
             open == open_containers
  <1>1. keys' = IF in_object THEN keys \cup {Len(nodes')} ELSE keys
    BY DEF Attached
  <1>2. /\ x \in Node /\ x.links.parent = container /\ x.key = pending /\ x.type = type
        /\ Joined(nodes, x, nodes') /\ WellLinked(nodes)
        /\ in_object <=> pending # NONE
    BY AttachedNode
  <1> HIDE DEF x
  <1>3. /\ nodes \in Seq(Node) /\ keys \in SUBSET DOMAIN nodes /\ Len(nodes') = n
        /\ stack \in Seq(DOMAIN nodes) /\ container \in DOMAIN nodes \cup {NONE}
    BY <1>2, ContainerType DEF TreeInv, Shape, Joined
  <1>4. Seen(nodes', keys', n) = [type |-> type, keys |-> {}]
    <2>1. keys' \in SUBSET (DOMAIN nodes \cup {n})
      BY <1>1, <1>3
    <2> QED BY <1>2, <1>3, <2>1, SeenNew
  <1>5. /\ open = [d \in DOMAIN stack |-> Seen(nodes, keys, stack[d])]
        /\ Len(open) = Len(stack) /\ (Contract!InObject <=> in_object)
    BY OpenFacts
  <1>6. CASE ~in_object
    <2>1. \A c \in DOMAIN nodes : Seen(nodes', keys, c) = Seen(nodes, keys, c)
      BY <1>2, <1>3, SeenKept
    <2>2. open = seen
      BY <1>1, <1>3, <1>5, <1>6, <2>1
    <2>3. Contract!Taken = open
      BY <1>5, <1>6 DEF Contract!Taken
    <2> QED BY <1>3, <1>4, <2>2, <2>3
  <1>7. CASE in_object
    <2> DEFINE m == Len(stack)
    <2>1. \A c \in DOMAIN nodes : Seen(nodes', keys', c) =
            [type |-> nodes[c].type,
             keys |-> IF container = c THEN Seen(nodes, keys, c).keys \cup {pending}
                      ELSE Seen(nodes, keys, c).keys]
      <3>1. Entered(nodes, x, nodes', keys)
        BY <1>2, <1>3, SeenEntered
      <3>2. keys' = keys \cup {Len(nodes) + 1}
        BY <1>1, <1>3, <1>7
      <3> QED BY <1>2, <3>1, <3>2 DEF Entered
    <2>2. m \in DOMAIN stack /\ container = stack[m]
      <3>1. stack # <<>>
        BY <1>7 DEF in_object, container
      <3> QED BY <1>3, <3>1 DEF container
    <2>3. \A d \in DOMAIN stack : stack[d] \in DOMAIN nodes /\ (stack[d] = container <=> d = m)
      <3> SUFFICES ASSUME NEW d \in DOMAIN stack, d # m
                   PROVE  stack[d] # container
        BY <1>3, <2>2
      <3>1. d < m
        BY <1>3
      <3>2. stack[d] < stack[m] /\ stack[d] \in Nat /\ stack[m] \in Nat
        BY <1>3, <2>2, <3>1 DEF TreeInv, Rising
      <3> QED BY <2>2, <3>2
    <2>4. Contract!Taken = [open EXCEPT ![Len(open)].keys = @ \cup {pending}]
      BY <1>5, <1>7 DEF Contract!Taken
    <2> HIDE DEF m
    <2>5. Contract!Taken = [d \in DOMAIN stack |->
            IF d = m THEN [open[d] EXCEPT !.keys = @ \cup {pending}] ELSE open[d]]
      BY <1>5, <2>2, <2>4 DEF m
    <2>6. ASSUME NEW d \in DOMAIN stack
          PROVE  (IF d = m THEN [open[d] EXCEPT !.keys = @ \cup {pending}] ELSE open[d]) = seen[d]
      <3>1. open[d] = Seen(nodes, keys, stack[d]) /\ seen[d] = Seen(nodes', keys', stack[d])
        BY <1>5
      <3>2. Seen(nodes, keys, stack[d])
              = [type |-> nodes[stack[d]].type, keys |-> Seen(nodes, keys, stack[d]).keys]
        BY DEF Seen
      <3>3. CASE d = m
        <4>1. seen[d] = [type |-> nodes[stack[d]].type,
                         keys |-> Seen(nodes, keys, stack[d]).keys \cup {pending}]
          BY <2>1, <2>3, <3>1, <3>3
        <4>2. [Seen(nodes, keys, stack[d]) EXCEPT !.keys = @ \cup {pending}]
                = [type |-> nodes[stack[d]].type,
                   keys |-> Seen(nodes, keys, stack[d]).keys \cup {pending}]
          <5>1. \A t, k : [[type |-> t, keys |-> k] EXCEPT !.keys = @ \cup {pending}]
                            = [type |-> t, keys |-> k \cup {pending}]
            OBVIOUS
          <5> QED BY <3>2, <5>1
        <4> QED BY <3>1, <3>3, <4>1, <4>2
      <3>4. CASE d # m
        BY <2>1, <2>3, <3>1, <3>2, <3>4
      <3> QED BY <3>3, <3>4
    <2>7. Contract!Taken = seen
      BY <2>5, <2>6
    <2> QED BY <1>3, <1>4, <2>7
  <1> QED BY <1>6, <1>7

ContractStep == [Contract!Next]_(Contract!vars)

\* What a call answers: OK leaves the failure alone, and an error of a writer that
\* was ready leaves it failed, unless the call refused its arguments.
Answered ==
  /\ returned'.code \in Codes \ {"IO"} /\ returned'.op # "copy"
  /\ profile' = profile /\ finished' = finished
  /\ returned'.code = "OK" => failure' = failure
  /\ writer_ready /\ returned'.code \notin {"OK", "ARGUMENT", "RANGE"} => failure' # "OK"

\* A call that keeps the invariant, that the contract allows and that answers as it should.
Sound == TreeInv' /\ ContractStep /\ Answered

\* A refused call changes nothing.
LEMMA RefuseTree ==
  ASSUME TreeInv, NEW op, NEW code, Refuse(op, code)
  PROVE  /\ TreeInv' /\ ContractStep /\ profile' = profile /\ finished' = finished
         /\ failure' = failure /\ returned'.code = code /\ returned'.op = op
  <1>1. /\ UNCHANGED tree_vars /\ profile' = profile /\ finished' = finished
        /\ failure' = failure /\ returned'.code = code /\ returned'.op = op
    BY DEF Refuse, writer_vars, answer
  <1>2. TreeInv' /\ open_containers' = open_containers
    BY <1>1, SameTree DEF TreeInv, Shape
  <1>3. nodes' = nodes /\ pending' = pending
    BY <1>1 DEF tree_vars
  <1>4. ContractStep
    BY <1>1, <1>2, <1>3 DEF ContractStep, Contract!vars
  <1> QED BY <1>1, <1>2, <1>4

\* Arguments the call does not take, and a number it cannot.
LEMMA RefuseStep ==
  ASSUME TreeInv, NEW op, op # "copy", NEW code \in {"ARGUMENT", "RANGE"}, Refuse(op, code)
  PROVE  Sound
BY RefuseTree DEF Sound, Answered, Codes

\* A call on a writer that has failed or is finished.
LEMMA NotReadyStep ==
  ASSUME TreeInv, NEW op, op # "copy", NotReady(op)
  PROVE  Sound
BY RefuseTree DEF NotReady, Sound, Answered, Codes

\* The steps of the contract that fail.
LEMMA ContractFails ==
  ASSUME writer_ready, profile # NONE, profile' = profile, finished' = finished,
         open_containers' = open_containers, (nodes' # <<>>) = (nodes # <<>>),
         \/ failure' \in {"STATE", "LIMIT", "MEMORY", "RANGE"} /\ pending' = pending
         \/ /\ Contract!InObject /\ pending = NONE
            /\ open_containers[Len(open_containers)].keys # {}
            /\ failure' = "DUPLICATE_KEY" /\ pending' = pending
         \/ Contract!InObject /\ pending # NONE /\ failure' = "MEMORY" /\ pending' = NONE
  PROVE  ContractStep
  <1>1. Contract!Usable
    BY DEF Contract!Usable, writer_ready
  <1>2. Contract!Fail
    BY <1>1 DEF Contract!Fail
  <1> QED BY <1>2 DEF ContractStep, Contract!Next

\* A call that fails before it builds anything.
LEMMA FailStep ==
  ASSUME TreeInv, writer_ready, profile # NONE, NEW op, op # "copy",
         NEW code \in {"STATE", "LIMIT", "MEMORY", "RANGE"}, Fail(op, code)
  PROVE  Sound
  <1>1. /\ UNCHANGED tree_vars /\ profile' = profile /\ finished' = finished
        /\ failure' = code /\ returned'.code = code /\ returned'.op = op
    BY DEF Fail, writer_fail, writer_ready, answer
  <1>2. code \in Failures /\ code # "OK"
    BY DEF Failures, Codes
  <1>3. TreeInv' /\ open_containers' = open_containers
    BY <1>1, <1>2, SameTree DEF TreeInv, Shape
  <1>4. nodes' = nodes /\ pending' = pending
    BY <1>1 DEF tree_vars
  <1>5. ContractStep
    BY <1>1, <1>3, <1>4, ContractFails
  <1>6. Answered
    BY <1>1, <1>2 DEF Answered, Failures
  <1> QED BY <1>3, <1>5, <1>6 DEF Sound

\* A key is a duplicate only if the contract knows it.
LEMMA DuplicateStep ==
  ASSUME TreeInv, writer_ready, profile # NONE, in_object, pending = NONE,
         NEW key, keyset_contains(key), Fail("key", "DUPLICATE_KEY")
  PROVE  Sound
  <1>1. /\ UNCHANGED tree_vars /\ profile' = profile /\ finished' = finished
        /\ failure' = "DUPLICATE_KEY" /\ returned'.code = "DUPLICATE_KEY"
        /\ returned'.op = "key"
    BY DEF Fail, writer_fail, writer_ready, answer
  <1>2. TreeInv' /\ open_containers' = open_containers
    BY <1>1, SameTree DEF TreeInv, Shape, Failures, Codes
  <1>3. nodes' = nodes /\ pending' = pending
    BY <1>1 DEF tree_vars
  <1>4. open_containers[Len(open_containers)].keys # {}
    <2>1. PICK i \in keys : nodes[i].links.parent = container
      BY DEF keyset_contains
    <2>2. stack # <<>>
      BY DEF in_object, container
    <2>3. Len(stack) \in DOMAIN stack /\ container = stack[Len(stack)]
      BY <2>2 DEF container, TreeInv, Shape
    <2>4. open_containers[Len(open_containers)] = Seen(nodes, keys, container)
      BY <2>3, OpenFacts
    <2>5. nodes[i].key \in Seen(nodes, keys, container).keys
      BY <2>1 DEF Seen
    <2> QED BY <2>4, <2>5
  <1>5. ContractStep
    BY <1>1, <1>2, <1>3, <1>4, OpenFacts, ContractFails
  <1>6. Answered
    BY <1>1 DEF Answered, Codes
  <1> QED BY <1>2, <1>5, <1>6 DEF Sound

\* The key set could not grow.
LEMMA KeyLostStep ==
  ASSUME TreeInv, writer_ready, profile # NONE, NEW op, op # "copy", NEW type \in Types,
         KeyLost(op, type)
  PROVE  Sound
  <1>1. TreeInv' /\ open_containers' = open_containers /\ failure' = "MEMORY"
    BY KeyLostTree
  <1>2. /\ profile' = profile /\ finished' = finished /\ pending' = NONE /\ in_object
        /\ nodes' = Append(nodes, node(type, NONE, FALSE))
        /\ returned'.code = "MEMORY" /\ returned'.op = op /\ pending # NONE
    BY DEF KeyLost, answer, has_room, misplaced
  <1>3. nodes # <<>> /\ nodes' # <<>>
    <2>1. container \in DOMAIN nodes
      BY <1>2, ContainerType DEF TreeInv, in_object
    <2>2. nodes \in Seq(Node)
      BY DEF TreeInv, Shape
    <2>3. nodes # <<>>
      BY <2>1, <2>2
    <2>4. \A s \in Seq(Node) : \A x : Append(s, x) # <<>>
      OBVIOUS
    <2> QED BY <1>2, <2>2, <2>3, <2>4
  <1>4. ContractStep
    BY <1>1, <1>2, <1>3, OpenFacts, ContractFails
  <1>5. Answered
    BY <1>1, <1>2 DEF Answered, Codes
  <1> QED BY <1>1, <1>4, <1>5 DEF Sound

\* What attach_node refuses, in any call.
LEMMA AttachFailsStep ==
  ASSUME TreeInv, writer_ready, profile # NONE, NEW op, op # "copy", NEW type \in Types,
         AttachFails(op, type)
  PROVE  Sound
BY FailStep, KeyLostStep DEF AttachFails

\* A value is attached where the contract expects one.
LEMMA AttachExpected ==
  ASSUME TreeInv, writer_ready, profile # NONE, has_room
  PROVE  Contract!Expected
  <1>1. in_object <=> pending # NONE
    BY DEF has_room, misplaced, in_object
  <1>2. open_containers = <<>> => nodes = <<>>
    <2>1. stack = <<>> => container = NONE
      BY DEF container
    <2> QED BY <2>1, OpenFacts DEF has_room, misplaced
  <1>3. Contract!InObject <=> pending # NONE
    BY <1>1, OpenFacts
  <1>4. Contract!Usable
    BY DEF Contract!Usable, writer_ready
  <1> QED BY <1>2, <1>3, <1>4 DEF Contract!Expected

\* A scalar, a string or a lexeme.
LEMMA ScalarStep ==
  ASSUME TreeInv, writer_ready, profile # NONE, NEW op, op # "copy", NEW arg,
         NEW type \in Types, NEW value \in Texts \cup {NONE}, NEW owned \in BOOLEAN,
         Attached(op, arg, type, value, owned),
         texts' = texts + (IF owned THEN 1 ELSE 0), stack' = stack
  PROVE  Sound
  <1>1. TreeInv'
    BY AttachedTree DEF Stacked
  <1>2. /\ has_room /\ pending' = NONE /\ profile' = profile /\ finished' = finished
        /\ failure' = failure /\ returned'.code = "OK" /\ returned'.op = op
    BY DEF Attached, answer
  <1>3. /\ Contract!Taken = [d \in DOMAIN stack |-> Seen(nodes', keys', stack[d])]
        /\ Len(nodes') = Len(nodes) + 1
    BY TakenView
  <1>4. open_containers' = [d \in DOMAIN stack' |-> Seen(nodes', keys', stack'[d])]
    BY DEF open_containers, Seen
  <1>5. open_containers' = Contract!Taken
    BY <1>3, <1>4
  <1>6. nodes' # <<>>
    BY <1>1, <1>3 DEF TreeInv, Shape
  <1>7. Contract!Scalar
    BY <1>2, <1>5, <1>6, AttachExpected DEF Contract!Scalar
  <1>8. ContractStep
    BY <1>7 DEF ContractStep, Contract!Next
  <1>9. Answered
    BY <1>2 DEF Answered, Codes
  <1> QED BY <1>1, <1>8, <1>9 DEF Sound

\* A container is attached and opened.
LEMMA BeginStep ==
  ASSUME TreeInv, writer_ready, profile # NONE, NEW type \in {"object", "array"},
         ~depth_reached, Attached("begin", type, type, NONE, FALSE),
         stack' = Append(stack, Len(nodes')), texts' = texts
  PROVE  Sound
  <1>1. TreeInv'
    <2>1. texts' = texts + (IF FALSE THEN 1 ELSE 0)
      BY DEF TreeInv, Shape
    <2>2. type \in Types
      BY DEF Types
    <2> QED BY <2>1, <2>2, AttachedTree DEF Stacked
  <1>2. /\ has_room /\ pending' = NONE /\ profile' = profile /\ finished' = finished
        /\ failure' = failure /\ returned'.code = "OK" /\ returned'.op = "begin"
    BY DEF Attached, answer
  <1>3. /\ Contract!Taken = [d \in DOMAIN stack |-> Seen(nodes', keys', stack[d])]
        /\ Seen(nodes', keys', Len(nodes) + 1) = [type |-> type, keys |-> {}]
        /\ Len(nodes') = Len(nodes) + 1
    BY TakenView DEF Types
  <1>4. open_containers' = [d \in DOMAIN stack' |-> Seen(nodes', keys', stack'[d])]
    BY DEF open_containers, Seen
  <1>5. open_containers' = Append(Contract!Taken, [type |-> type, keys |-> {}])
    <2> DEFINE f == [d \in DOMAIN stack |-> Seen(nodes', keys', stack[d])]
               m == Len(stack)
    <2>1. stack \in Seq(Nat) /\ m \in Nat /\ DOMAIN stack = 1 .. m
      BY DEF TreeInv, Shape
    <2>2. stack' = Append(stack, Len(nodes) + 1) /\ Len(nodes) + 1 \in Nat
      BY <1>3 DEF TreeInv, Shape
    <2>3. /\ DOMAIN stack' = 1 .. m + 1 /\ stack'[m + 1] = Len(nodes) + 1
          /\ \A d \in 1 .. m : stack'[d] = stack[d]
      BY <2>1, <2>2
    <2> DEFINE S == {Seen(nodes', keys', c) : c \in Nat}
    <2> HIDE DEF m
    <2>4. f \in [1 .. m -> S]
      BY <2>1
    <2>5. f \in Seq(S) /\ Len(f) = m
      <3> HIDE DEF f, S
      <3> QED BY <2>1, <2>4, FunctionIsSeq
    <2>6. Append(f, [type |-> type, keys |-> {}])
            = [d \in 1 .. m + 1 |-> IF d = m + 1 THEN [type |-> type, keys |-> {}] ELSE f[d]]
      <3> DEFINE e == [type |-> type, keys |-> {}]
      <3> HIDE DEF f, S, e
      <3>1. Append(f, e) = [d \in 1 .. m + 1 |-> IF d = m + 1 THEN e ELSE f[d]]
        <4>1. Append(f, e) = [d \in 1 .. Len(f) + 1 |-> IF d = Len(f) + 1 THEN e ELSE f[d]]
          BY <2>5, AppendIs
        <4> QED BY <2>5, <4>1
      <3> QED BY <3>1 DEF e
    <2>7. open_containers'
            = [d \in 1 .. m + 1 |-> IF d = m + 1 THEN [type |-> type, keys |-> {}] ELSE f[d]]
      <3>1. \A d \in 1 .. m + 1 : d = m + 1 \/ d \in 1 .. m
        BY <2>1
      <3>2. \A d \in 1 .. m : Seen(nodes', keys', stack'[d]) = f[d]
        BY <2>1, <2>3
      <3>3. Seen(nodes', keys', stack'[m + 1]) = [type |-> type, keys |-> {}]
        BY <1>3, <2>3
      <3> HIDE DEF f
      <3> QED BY <1>4, <2>3, <3>1, <3>2, <3>3
    <2> QED BY <1>3, <2>6, <2>7
  <1>6. nodes' # <<>>
    BY <1>1, <1>3 DEF TreeInv, Shape
  <1>7. Contract!Begin(type)
    BY <1>2, <1>5, <1>6, AttachExpected DEF Contract!Begin
  <1>8. ContractStep
    BY <1>7 DEF ContractStep, Contract!Next
  <1>9. Answered
    BY <1>2 DEF Answered, Codes
  <1> QED BY <1>1, <1>8, <1>9 DEF Sound

\* maelys_json_writer_object_begin and array_begin.
LEMMA ContainerBegin ==
  ASSUME TreeInv, profile # NONE, NEW type \in {"object", "array"}, container_begin(type)
  PROVE  Sound
  <1>1. CASE NotReady("begin")
    BY <1>1, NotReadyStep
  <1>2. CASE writer_ready /\ Fail("begin", "LIMIT")
    BY <1>2, FailStep
  <1>3. CASE writer_ready /\ AttachFails("begin", type)
    BY <1>3, AttachFailsStep DEF Types
  <1>4. CASE /\ writer_ready /\ ~depth_reached
             /\ Attached("begin", type, type, NONE, FALSE)
             /\ stack' = Append(stack, Len(nodes')) /\ UNCHANGED texts
    BY <1>4, BeginStep
  <1> QED BY <1>1, <1>2, <1>3, <1>4 DEF container_begin

\* A text is copied and attached.
LEMMA OwnTextStep ==
  ASSUME TreeInv, profile # NONE, writer_ready, NEW op, op # "copy", NEW text \in Texts,
         NEW type \in Types, OwnText(op, text, type)
  PROVE  Sound
  <1>1. CASE Fail(op, "MEMORY")
    BY <1>1, FailStep
  <1>2. CASE AttachFails(op, type)
    BY <1>2, AttachFailsStep
  <1>3. CASE Attached(op, text.name, type, text, TRUE) /\ texts' = texts + 1 /\ UNCHANGED stack
    <2>1. texts' = texts + (IF TRUE THEN 1 ELSE 0) /\ stack' = stack
          /\ text \in Texts \cup {NONE} /\ TRUE \in BOOLEAN
      BY <1>3
    <2> QED BY <1>3, <2>1, ScalarStep
  <1> QED BY <1>1, <1>2, <1>3 DEF OwnText

\* maelys_json_writer_string.
LEMMA WriterString ==
  ASSUME TreeInv, profile # NONE, NEW text \in Texts, writer_string(text)
  PROVE  Sound
  <1>1. CASE Refuse("string", "ARGUMENT")
    BY <1>1, RefuseStep
  <1>2. CASE NotReady("string")
    BY <1>2, NotReadyStep
  <1>3. CASE writer_ready /\ Fail("string", "LIMIT")
    BY <1>3, FailStep
  <1>4. CASE writer_ready /\ OwnText("string", text, "string")
    <2>1. "string" \in Types /\ "string" # "copy"
      BY DEF Types
    <2> QED BY <1>4, <2>1, OwnTextStep
  <1> QED BY <1>1, <1>2, <1>3, <1>4 DEF writer_string

\* Lexemes, from the client or from a copy.
LEMMA WriteLexeme ==
  ASSUME TreeInv, profile # NONE, NEW text \in Texts, NEW maximum,
         write_number_lexeme(text, maximum)
  PROVE  Sound
  <1>1. CASE Refuse("lexeme", "ARGUMENT")
    BY <1>1, RefuseStep
  <1>2. CASE NotReady("lexeme")
    BY <1>2, NotReadyStep
  <1>3. CASE writer_ready /\ Fail("lexeme", "LIMIT")
    BY <1>3, FailStep
  <1>4. CASE writer_ready /\ OwnText("lexeme", text, "number")
    <2>1. "number" \in Types /\ "lexeme" # "copy"
      BY DEF Types
    <2> QED BY <1>4, <2>1, OwnTextStep
  <1> QED BY <1>1, <1>2, <1>3, <1>4 DEF write_number_lexeme

\* u64, i64, boolean and null.
LEMMA AttachScalar ==
  ASSUME TreeInv, profile # NONE, NEW type \in Types, attach_scalar(type)
  PROVE  Sound
  <1>1. CASE NotReady("scalar")
    BY <1>1, NotReadyStep
  <1>2. CASE writer_ready /\ AttachFails("scalar", type)
    BY <1>2, AttachFailsStep
  <1>3. CASE writer_ready /\ Attached("scalar", type, type, NONE, FALSE)
             /\ UNCHANGED <<stack, texts>>
    <2>1. texts' = texts + (IF FALSE THEN 1 ELSE 0) /\ stack' = stack
      BY <1>3 DEF TreeInv, Shape
    <2> QED BY <1>3, <2>1, ScalarStep
  <1> QED BY <1>1, <1>2, <1>3 DEF attach_scalar

\* Dropping the last entry of a stack.
LEMMA PopIs ==
  ASSUME NEW S, NEW f \in Seq(S), f # <<>>
  PROVE  /\ SubSeq(f, 1, Len(f) - 1) = [d \in 1 .. Len(f) - 1 |-> f[d]]
         /\ SubSeq(f, 1, Len(f) - 1) \in Seq(S)
         /\ Len(SubSeq(f, 1, Len(f) - 1)) = Len(f) - 1
  <1> DEFINE m == Len(f) - 1
             g == SubSeq(f, 1, m)
  <1>1. m \in Nat /\ 1 \in Int /\ m \in Int /\ (\A i \in 1 .. m : i \in DOMAIN f)
    OBVIOUS
  <1>2. \A i \in 1 .. m : f[i] \in S
    BY <1>1
  <1> HIDE DEF m
  <1>3. /\ g \in Seq(S)
        /\ Len(g) = IF 1 <= m THEN m - 1 + 1 ELSE 0
        /\ \A i \in 1 .. m - 1 + 1 : g[i] = f[1 + i - 1]
    BY <1>1, <1>2, SubSeqProperties
  <1> HIDE DEF g
  <1>4. Len(g) = m
    BY <1>1, <1>3
  <1>5. \A i \in 1 .. m : g[i] = f[i]
    BY <1>1, <1>3
  <1>6. g = [d \in 1 .. m |-> g[d]]
    BY <1>3, <1>4
  <1>7. g = [d \in 1 .. m |-> f[d]]
    BY <1>5, <1>6
  <1> QED BY <1>3, <1>4, <1>7 DEF g, m

\* The innermost container is complete.
LEMMA EndStep ==
  ASSUME TreeInv, writer_ready, profile # NONE, NEW type, may_end(type),
         stack' = SubSeq(stack, 1, Len(stack) - 1), returned' = answer("end", type, "OK"),
         UNCHANGED <<profile, nodes, node_capacity, keys, key_slots, pending, texts,
                     finished, failure>>
  PROVE  Sound
  <1>1. stack # <<>> /\ pending = NONE
    BY DEF may_end, container
  <1>2. stack \in Seq(DOMAIN nodes) /\ stack \in Seq(Nat)
    BY DEF TreeInv, Shape
  <1>3. /\ stack' = [d \in 1 .. Len(stack) - 1 |-> stack[d]]
        /\ stack' \in Seq(DOMAIN nodes) /\ Len(stack') = Len(stack) - 1
    BY <1>1, <1>2, PopIs
  <1>4. Len(stack) \in Nat /\ Len(stack) # 0 /\ DOMAIN stack = 1 .. Len(stack)
    BY <1>1, <1>2
  <1>5. DOMAIN stack' \subseteq DOMAIN stack /\ \A d \in DOMAIN stack' : stack'[d] = stack[d]
    BY <1>3, <1>4
  <1>6. Shape'
    BY <1>3 DEF TreeInv, Shape
  <1>7. ArraysFit' /\ Rising'
    <2>1. Len(stack') <= MaxDepth
      BY <1>3, <1>4, WriterAssumption DEF TreeInv, ArraysFit
    <2> QED BY <1>5, <2>1 DEF TreeInv, ArraysFit, Rising
  <1>8. TreeWellLinked' /\ KeysHeld'
    BY DEF TreeInv, TreeWellLinked, KeysHeld
  <1>9. UniqueKeys' /\ NoTextLost'
    BY <1>1 DEF TreeInv, UniqueKeys, NoTextLost, reachable
  <1>10. open_containers' = SubSeq(open_containers, 1, Len(open_containers) - 1)
    <2> DEFINE S == {Seen(nodes, keys, c) : c \in DOMAIN nodes}
               f == open_containers
    <2>1. /\ f = [d \in DOMAIN stack |-> Seen(nodes, keys, stack[d])] /\ f \in Seq(S)
          /\ Len(f) = Len(stack) /\ f # <<>>
      BY <1>1, OpenFacts
    <2> HIDE DEF f, S
    <2>2. SubSeq(f, 1, Len(f) - 1) = [d \in 1 .. Len(f) - 1 |-> f[d]]
      BY <2>1, PopIs
    <2>3. open_containers' = [d \in DOMAIN stack' |-> Seen(nodes', keys', stack'[d])]
      BY DEF open_containers, Seen
    <2>4. open_containers' = [d \in 1 .. Len(stack) - 1 |-> Seen(nodes, keys, stack[d])]
      BY <1>3, <2>3
    <2>5. \A d \in 1 .. Len(stack) - 1 : f[d] = Seen(nodes, keys, stack[d])
      BY <1>4, <2>1
    <2> QED BY <2>1, <2>2, <2>4, <2>5 DEF f
  <1>11. Contract!End
    <2>1. open_containers # <<>>
      BY <1>1, OpenFacts
    <2> QED BY <1>1, <1>10, <2>1 DEF Contract!End, Contract!Usable, writer_ready
  <1>12. ContractStep
    BY <1>11 DEF ContractStep, Contract!Next
  <1>13. Answered
    BY DEF Answered, answer, Codes
  <1> QED BY <1>6, <1>7, <1>8, <1>9, <1>12, <1>13 DEF Sound, TreeInv

\* maelys_json_writer_object_end and array_end.
LEMMA ContainerEnd ==
  ASSUME TreeInv, profile # NONE, NEW type, container_end(type)
  PROVE  Sound
  <1>1. CASE NotReady("end")
    BY <1>1, NotReadyStep
  <1>2. CASE writer_ready /\ Fail("end", "STATE")
    BY <1>2, FailStep
  <1>3. CASE writer_ready /\ may_end(type)
             /\ stack' = SubSeq(stack, 1, Len(stack) - 1)
             /\ returned' = answer("end", type, "OK")
             /\ UNCHANGED <<profile, nodes, node_capacity, keys, key_slots, pending, texts,
                            finished, failure>>
    BY <1>3, EndStep
  <1> QED BY <1>1, <1>2, <1>3 DEF container_end

\* The key of the next member is taken.
LEMMA KeyStep ==
  ASSUME TreeInv, writer_ready, profile # NONE, NEW key \in Texts,
         "OK" \in key_outcomes(key), pending' = key, texts' = texts + 1,
         returned' = answer("key", key.name, "OK"),
         UNCHANGED <<profile, nodes, node_capacity, keys, key_slots, stack, finished, failure>>
  PROVE  Sound
  <1>1. in_object /\ pending = NONE /\ ~keyset_contains(key)
    BY DEF key_outcomes
  <1>2. key # NONE
    BY TextsAssumption
  <1>3. Shape'
    BY DEF TreeInv, Shape
  <1>4. ArraysFit' /\ Rising' /\ TreeWellLinked' /\ KeysHeld'
    BY DEF TreeInv, ArraysFit, Rising, TreeWellLinked, KeysHeld
  <1>5. UniqueKeys'
    <2>1. keyset_contains(key)' <=> keyset_contains(key)
      BY DEF keyset_contains, container
    <2>2. ~keyset_contains(pending)'
      BY <1>1, <2>1 DEF keyset_contains
    <2> QED BY <2>2 DEF TreeInv, UniqueKeys
  <1>6. NoTextLost'
    <2>1. texts = KeyCount(nodes) + OwnCount(nodes) + 0
      BY <1>1 DEF TreeInv, NoTextLost, reachable, KeyCount, OwnCount
    <2>2. KeyCount(nodes) \in Nat /\ OwnCount(nodes) \in Nat
      <3>1. IsFiniteSet(DOMAIN nodes)
        <4>1. DOMAIN nodes = 1 .. Len(nodes)
          BY DEF TreeInv, Shape
        <4> QED BY <4>1, FS_Interval
      <3> QED BY <3>1, FS_Subset, FS_CardinalityType DEF KeyCount, OwnCount
    <2>3. texts' = KeyCount(nodes) + OwnCount(nodes) + 1
      BY <2>1, <2>2
    <2>4. reachable' = KeyCount(nodes) + OwnCount(nodes) + 1
      BY <1>2 DEF reachable, KeyCount, OwnCount
    <2> QED BY <2>3, <2>4 DEF NoTextLost
  <1>7. open_containers' = open_containers
    BY DEF open_containers
  <1>8. key \notin open_containers[Len(open_containers)].keys
    <2>1. stack # <<>>
      BY <1>1 DEF in_object, container
    <2>2. Len(stack) \in DOMAIN stack /\ container = stack[Len(stack)]
      BY <2>1 DEF container, TreeInv, Shape
    <2>3. open_containers[Len(open_containers)] = Seen(nodes, keys, container)
      BY <2>2, OpenFacts
    <2>4. key \notin Seen(nodes, keys, container).keys
      BY <1>1 DEF Seen, keyset_contains
    <2> QED BY <2>3, <2>4
  <1>9. Contract!Key(key)
    <2>1. Contract!InObject
      BY <1>1, OpenFacts
    <2> QED BY <1>1, <1>7, <1>8, <2>1 DEF Contract!Key, Contract!Usable, writer_ready
  <1>10. ContractStep
    BY <1>9 DEF ContractStep, Contract!Next
  <1>11. Answered
    BY DEF Answered, answer, Codes
  <1> QED BY <1>3, <1>4, <1>5, <1>6, <1>10, <1>11 DEF Sound, TreeInv

\* maelys_json_writer_key.
LEMMA WriterKey ==
  ASSUME TreeInv, profile # NONE, NEW key \in Texts, writer_key(key)
  PROVE  Sound
  <1>1. CASE Refuse("key", "ARGUMENT")
    BY <1>1, RefuseStep
  <1>2. CASE NotReady("key")
    BY <1>2, NotReadyStep
  <1>3. ASSUME writer_ready, NEW code \in key_outcomes(key) \ {"OK"}, Fail("key", code)
        PROVE  Sound
    <2>1. CASE code = "DUPLICATE_KEY"
      <3>1. in_object /\ pending = NONE /\ keyset_contains(key)
        BY <2>1 DEF key_outcomes
      <3> QED BY <1>3, <2>1, <3>1, DuplicateStep
    <2>2. CASE code # "DUPLICATE_KEY"
      <3>1. code \in {"STATE", "LIMIT", "MEMORY"}
        BY <2>2 DEF key_outcomes
      <3> QED BY <1>3, <3>1, FailStep
    <2> QED BY <2>1, <2>2
  <1>4. CASE /\ writer_ready /\ "OK" \in key_outcomes(key) /\ pending' = key
             /\ texts' = texts + 1 /\ returned' = answer("key", key.name, "OK")
             /\ UNCHANGED <<profile, nodes, node_capacity, keys, key_slots, stack,
                            finished, failure>>
    BY <1>4, KeyStep
  <1> QED BY <1>1, <1>2, <1>3, <1>4 DEF writer_key

-----------------------------------------------------------------------------
(* The inductive invariant: the copy under way.                             *)

Frame == [value : DOMAIN Document, next : Nat \ {0}]
Job   == [kind : {"none", "value", "except", "failed"}, todo : DOMAIN Document \cup {NONE},
          frames : Seq(Frame), excluded : Exclusions \cup {{}}]

\* A copy works on a live writer that has not failed; once one of its calls has
\* failed, the writer has failed too, unless the call only refused its argument.
JobInv ==
  /\ job \in Job /\ returned.code \in Codes
  /\ ~Idle => profile # NONE /\ ~finished
  /\ Copying => failure = "OK"
  /\ job.kind = "failed" =>
       /\ returned.code \in Codes \ {"OK", "IO"}
       /\ failure = "OK" => returned.code \in {"ARGUMENT", "RANGE"}
  /\ FailedCopyIsSticky

Inv == TreeInv /\ JobInv

\* A step that keeps the invariant and that the contract allows.
Good == Inv' /\ ContractStep

\* A call of the client.
LEMMA ClientCall ==
  ASSUME Inv, Idle, Sound, job' = job
  PROVE  Good
  <1>1. returned'.code \in Codes /\ returned'.op # "copy"
    BY DEF Sound, Answered
  <1>2. JobInv'
    BY <1>1 DEF Inv, JobInv, Idle, Copying, FailedCopyIsSticky
  <1> QED BY <1>2 DEF Good, Inv, Sound

\* A call made on behalf of a copy.
LEMMA CopyCall ==
  ASSUME Inv, Copying, Sound, NEW frames \in Seq(Frame), NEW todo \in DOMAIN Document \cup {NONE},
         Then(frames, todo)
  PROVE  Good
  <1>1. /\ returned'.code \in Codes \ {"IO"} /\ returned'.op # "copy"
        /\ profile' = profile /\ finished' = finished
        /\ returned'.code = "OK" => failure' = failure
        /\ writer_ready /\ returned'.code \notin {"OK", "ARGUMENT", "RANGE"} => failure' # "OK"
    BY DEF Sound, Answered
  <1>2. job \in Job /\ ~Idle
    BY DEF Inv, JobInv, Copying, Idle
  <1>3. profile # NONE /\ ~finished /\ failure = "OK" /\ writer_ready
    BY <1>2 DEF Inv, JobInv, writer_ready
  <1>4. FailedCopyIsSticky'
    BY <1>1 DEF FailedCopyIsSticky
  <1>5. CASE returned'.code = "OK"
    <2>1. job' = [job EXCEPT !.frames = frames, !.todo = todo]
      BY <1>5 DEF Then
    <2>2. job' \in Job /\ job'.kind = job.kind
      BY <1>2, <2>1 DEF Job
    <2>3. job'.kind # "failed"
      BY <2>2 DEF Copying
    <2>4. JobInv'
      BY <1>1, <1>3, <1>4, <1>5, <2>2, <2>3 DEF JobInv
    <2> QED BY <2>4 DEF Good, Inv, Sound
  <1>6. CASE returned'.code # "OK"
    <2>1. job' = [job EXCEPT !.kind = "failed"]
      BY <1>6 DEF Then
    <2>2. job' \in Job /\ job'.kind = "failed"
      BY <1>2, <2>1 DEF Job
    <2>3. ~Copying'
      BY <2>2 DEF Copying
    <2>4. JobInv'
      BY <1>1, <1>3, <1>4, <1>6, <2>2, <2>3 DEF JobInv
    <2> QED BY <2>4 DEF Good, Inv, Sound
  <1> QED BY <1>5, <1>6

\* Nothing of the writer changes, nor what it last answered.
LEMMA JobOnly ==
  ASSUME Inv, UNCHANGED <<writer_vars, returned>>, job' \in Job, writer_ready,
         profile # NONE, job'.kind # "failed"
  PROVE  Good
  <1>1. /\ UNCHANGED tree_vars /\ profile' = profile /\ finished' = finished
        /\ failure' = failure /\ returned' = returned
    BY DEF writer_vars
  <1>2. TreeInv' /\ open_containers' = open_containers
    BY <1>1, SameTree DEF Inv, TreeInv, Shape
  <1>3. nodes' = nodes /\ pending' = pending
    BY <1>1 DEF tree_vars
  <1>4. ContractStep
    BY <1>1, <1>2, <1>3 DEF ContractStep, Contract!vars
  <1>5. JobInv'
    BY <1>1 DEF Inv, JobInv, FailedCopyIsSticky, writer_ready
  <1> QED BY <1>2, <1>4, <1>5 DEF Good, Inv

\* The frame of the innermost container being copied and its next member.
LEMMA FrameFacts ==
  ASSUME Inv, InFrame
  PROVE  /\ top \in Frame /\ visited \in Seq(Frame)
         /\ SubSeq(job.frames, 1, Len(job.frames) - 1) \in Seq(Frame)
         /\ HasNext => /\ next_kid.value \in DOMAIN Document
                       /\ value_type(top.value) = "object" => next_kid.key \in Texts
  <1>1. job.frames \in Seq(Frame) /\ job.frames # <<>>
    BY DEF Inv, JobInv, Job, InFrame
  <1>2. Len(job.frames) \in DOMAIN job.frames /\ top \in Frame
    BY <1>1 DEF top
  <1>3. visited \in Seq(Frame)
    <2> DEFINE m == Len(job.frames)
    <2>1. visited = [job.frames EXCEPT ![m] = [top EXCEPT !.next = @ + 1]]
      BY DEF visited, top
    <2>2. [top EXCEPT !.next = @ + 1] \in Frame
      BY <1>2 DEF Frame
    <2> QED BY <1>1, <1>2, <2>1, <2>2
  <1>4. SubSeq(job.frames, 1, Len(job.frames) - 1) \in Seq(Frame)
    BY <1>1, PopIs
  <1>5. ASSUME HasNext
        PROVE  /\ next_kid.value \in DOMAIN Document
               /\ value_type(top.value) = "object" => next_kid.key \in Texts
    <2> DEFINE v == top.value
               K == kids(v)
    <2>1. v \in DOMAIN Document /\ top.next \in Nat \ {0}
      BY <1>2 DEF Frame
    <2>2. /\ K \in Seq([key : Texts \cup {NONE}, value : {w \in DOMAIN Document : w > v}])
          /\ Document[v].type = "object" => \A i \in DOMAIN K : K[i].key # NONE
      BY <2>1, DocumentAssumption DEF kids
    <2>3. top.next \in DOMAIN K
      BY <1>5, <2>1, <2>2 DEF HasNext
    <2>4. next_kid = K[top.next]
      BY DEF next_kid
    <2> HIDE DEF K, v
    <2>5. next_kid \in [key : Texts \cup {NONE}, value : {w \in DOMAIN Document : w > v}]
      <3> DEFINE R == [key : Texts \cup {NONE}, value : {w \in DOMAIN Document : w > v}]
      <3>1. K \in Seq(R)
        BY <2>2
      <3> HIDE DEF R
      <3>2. next_kid \in R
        BY <2>3, <2>4, <3>1
      <3> QED BY <3>2 DEF R
    <2>6. value_type(v) = Document[v].type
      BY <2>1 DEF value_type
    <2> QED BY <2>2, <2>3, <2>4, <2>5, <2>6 DEF v
  <1> QED BY <1>2, <1>3, <1>4, <1>5

\* copy_value: the one call that writes, or opens, a value.
LEMMA CopyValue ==
  ASSUME Inv, copy_value
  PROVE  Good
  <1> DEFINE v == job.todo
             type == value_type(v)
  <1>1. Copying /\ v # NONE
    BY DEF copy_value
  <1>2. /\ v \in DOMAIN Document /\ job.frames \in Seq(Frame) /\ profile # NONE
        /\ NONE \in DOMAIN Document \cup {NONE}
    BY <1>1 DEF Inv, JobInv, Job, Copying, Idle
  <1>3. /\ type = Document[v].type /\ type \in Types
        /\ type \in {"string", "number"} => Document[v].text \in Texts
    BY <1>2, DocumentAssumption DEF value_type
  <1>4. TreeInv
    BY DEF Inv
  <1> HIDE DEF v, type
  <1>5. CASE type = "string" /\ writer_string(Document[v].text) /\ Then(job.frames, NONE)
    <2>1. Sound
      BY <1>2, <1>3, <1>4, <1>5, WriterString
    <2> QED BY <1>1, <1>2, <1>5, <2>1, CopyCall
  <1>6. CASE type = "number" /\ copy_number(v) /\ Then(job.frames, NONE)
    <2>1. CASE attach_scalar("number")
      <3>1. "number" \in Types
        BY DEF Types
      <3>2. Sound
        BY <1>2, <1>4, <2>1, <3>1, AttachScalar
      <3> QED BY <1>1, <1>2, <1>6, <3>2, CopyCall
    <2>2. CASE Refuse("integer", "RANGE")
      <3>1. Sound
        BY <1>4, <2>2, RefuseStep
      <3> QED BY <1>1, <1>2, <1>6, <3>1, CopyCall
    <2>3. CASE write_number_lexeme(Document[v].text, MaxBytes)
      <3>1. Sound
        BY <1>2, <1>3, <1>4, <1>6, <2>3, WriteLexeme
      <3> QED BY <1>1, <1>2, <1>6, <3>1, CopyCall
    <2> QED BY <1>6, <2>1, <2>2, <2>3 DEF copy_number
  <1>7. CASE type \in {"boolean", "null"} /\ attach_scalar(type) /\ Then(job.frames, NONE)
    <2>1. Sound
      BY <1>2, <1>3, <1>4, <1>7, AttachScalar
    <2> QED BY <1>1, <1>2, <1>7, <2>1, CopyCall
  <1>8. CASE /\ type \in {"object", "array"} /\ container_begin(type)
             /\ Then(Append(job.frames, [value |-> v, next |-> 1]), NONE)
    <2>1. Sound
      BY <1>2, <1>4, <1>8, ContainerBegin
    <2>2. Append(job.frames, [value |-> v, next |-> 1]) \in Seq(Frame)
      <3>1. [value |-> v, next |-> 1] \in Frame
        BY <1>2 DEF Frame
      <3> QED BY <1>2, <3>1
    <2> QED BY <1>1, <1>2, <1>8, <2>1, <2>2, CopyCall
  <1> QED BY <1>5, <1>6, <1>7, <1>8 DEF copy_value, v, type

\* copy_object on its next member.
LEMMA CopyMember ==
  ASSUME Inv, copy_member
  PROVE  Good
  <1>1. InFrame /\ HasNext /\ value_type(top.value) = "object" /\ Copying
    BY DEF copy_member, InFrame
  <1>2. /\ visited \in Seq(Frame) /\ next_kid.value \in DOMAIN Document
        /\ next_kid.key \in Texts
    BY <1>1, FrameFacts
  <1>3. /\ TreeInv /\ profile # NONE /\ writer_ready /\ job \in Job /\ job.kind # "failed"
    BY <1>1 DEF Inv, JobInv, Copying, Idle, writer_ready
  <1>4. CASE job' = [job EXCEPT !.frames = visited] /\ UNCHANGED <<writer_vars, returned>>
    <2>1. job' \in Job /\ job'.kind = job.kind
      BY <1>2, <1>3, <1>4 DEF Job
    <2> QED BY <1>3, <1>4, <2>1, JobOnly
  <1>5. CASE writer_key(next_kid.key) /\ Then(visited, next_kid.value)
    <2>1. Sound
      BY <1>2, <1>3, <1>5, WriterKey
    <2> QED BY <1>1, <1>2, <1>5, <2>1, CopyCall
  <1> QED BY <1>4, <1>5 DEF copy_member

\* copy_array on its next element.
LEMMA CopyElement ==
  ASSUME Inv, copy_element
  PROVE  Good
  <1>1. InFrame /\ HasNext /\ Copying
    BY DEF copy_element, InFrame
  <1>2. visited \in Seq(Frame) /\ next_kid.value \in DOMAIN Document
    BY <1>1, FrameFacts
  <1>3. profile # NONE /\ writer_ready /\ job \in Job /\ job.kind # "failed"
    BY <1>1 DEF Inv, JobInv, Copying, Idle, writer_ready
  <1>4. /\ job' = [job EXCEPT !.frames = visited, !.todo = next_kid.value]
        /\ UNCHANGED <<writer_vars, returned>>
    BY DEF copy_element
  <1>5. job' \in Job /\ job'.kind = job.kind
    BY <1>2, <1>3, <1>4 DEF Job
  <1> QED BY <1>3, <1>4, <1>5, JobOnly

\* copy_object and copy_array close what they opened.
LEMMA CopyEnd ==
  ASSUME Inv, copy_end
  PROVE  Good
  <1>1. InFrame /\ Copying /\ container_end(value_type(top.value))
        /\ Then(SubSeq(job.frames, 1, Len(job.frames) - 1), NONE)
    BY DEF copy_end, InFrame
  <1>2. TreeInv /\ profile # NONE
    BY <1>1 DEF Inv, JobInv, Copying, Idle
  <1>3. Sound
    BY <1>1, <1>2, ContainerEnd
  <1>4. SubSeq(job.frames, 1, Len(job.frames) - 1) \in Seq(Frame)
    BY <1>1, FrameFacts
  <1> QED BY <1>1, <1>3, <1>4, CopyCall

\* A step that leaves the writer alone and ends the copy, or never began one.
LEMMA JobEnds ==
  ASSUME Inv, UNCHANGED writer_vars, job' = no_job, NEW op, op # "copy", NEW code \in Codes,
         NEW arg, returned' = answer(op, arg, code)
  PROVE  Good
  <1>1. /\ UNCHANGED tree_vars /\ profile' = profile /\ finished' = finished
        /\ failure' = failure /\ returned'.code = code /\ returned'.op = op
    BY DEF writer_vars, answer
  <1>2. TreeInv' /\ open_containers' = open_containers
    BY <1>1, SameTree DEF Inv, TreeInv, Shape
  <1>3. nodes' = nodes /\ pending' = pending
    BY <1>1 DEF tree_vars
  <1>4. ContractStep
    BY <1>1, <1>2, <1>3 DEF ContractStep, Contract!vars
  <1>5. job' \in Job /\ job'.kind = "none"
    BY DEF no_job, Job
  <1>6. JobInv'
    BY <1>1, <1>5 DEF JobInv, FailedCopyIsSticky, Idle, Copying
  <1> QED BY <1>2, <1>4, <1>6 DEF Good, Inv

\* The return of a copy that has visited everything is a good step.
LEMMA CopyReturnsStep ==
  ASSUME Inv, copy_returns
  PROVE  Good
  <1>1. /\ UNCHANGED writer_vars /\ job' = no_job /\ returned' = answer(job.kind, NONE, "OK")
        /\ job.kind # "copy"
    BY DEF copy_returns, Copying
  <1>2. "OK" \in Codes
    BY DEF Codes
  <1> QED BY <1>1, <1>2, JobEnds

\* The writer fails with the copy, and forgets no earlier failure.
LEMMA CopyFailed ==
  ASSUME Inv, copy_failed
  PROVE  Good
  <1> DEFINE code == IF returned.code = "ARGUMENT" THEN "STATE" ELSE returned.code
  <1>1. /\ job.kind = "failed" /\ writer_fail(code) /\ job' = no_job
        /\ returned' = answer("copy", NONE, returned.code)
        /\ profile' = profile /\ finished' = finished /\ UNCHANGED tree_vars
    BY DEF copy_failed
  <1>2. /\ returned.code \in Codes \ {"OK", "IO"} /\ profile # NONE /\ ~finished
        /\ failure = "OK" => returned.code \in {"ARGUMENT", "RANGE"}
        /\ failure \in Failures /\ finished \in BOOLEAN
    BY <1>1 DEF Inv, JobInv, Idle, TreeInv, Shape
  <1>3. /\ failure # "OK" => failure' = failure
        /\ failure = "OK" => failure' \in {"STATE", "RANGE"}
    BY <1>1, <1>2 DEF writer_fail
  <1>4. failure' \in Failures /\ failure' # "OK"
    BY <1>2, <1>3 DEF Failures, Codes
  <1>5. TreeInv' /\ open_containers' = open_containers
    BY <1>1, <1>2, <1>4, SameTree DEF Inv
  <1>6. nodes' = nodes /\ pending' = pending
    BY <1>1 DEF tree_vars
  <1>7. ContractStep
    <2>1. CASE failure = "OK"
      <3>1. writer_ready
        BY <1>2, <2>1 DEF writer_ready
      <3> QED BY <1>1, <1>2, <1>3, <1>5, <1>6, <2>1, <3>1, ContractFails
    <2>2. CASE failure # "OK"
      BY <1>1, <1>3, <1>5, <1>6, <2>2 DEF ContractStep, Contract!vars
    <2> QED BY <2>1, <2>2
  <1>8. job' \in Job /\ job'.kind = "none"
    BY <1>1 DEF no_job, Job
  <1>9. returned'.code \in Codes
    BY <1>1, <1>2 DEF answer
  <1>10. JobInv'
    BY <1>4, <1>8, <1>9 DEF JobInv, FailedCopyIsSticky, Idle, Copying
  <1> QED BY <1>5, <1>7, <1>10 DEF Good, Inv

\* maelys_json_writer_value.
LEMMA WriterValue ==
  ASSUME Inv, Idle, profile # NONE, NEW v, writer_value(v)
  PROVE  Good
  <1>1. CASE Refuse("value", "ARGUMENT") /\ UNCHANGED job
    <2>1. Sound
      BY <1>1, RefuseStep DEF Inv
    <2> QED BY <1>1, <2>1, ClientCall
  <1>2. CASE NotReady("value") /\ UNCHANGED job
    <2>1. Sound
      BY <1>2, NotReadyStep DEF Inv
    <2> QED BY <1>2, <2>1, ClientCall
  <1>3. CASE /\ value_type(v) # "none" /\ writer_ready
             /\ job' = [no_job EXCEPT !.kind = "value", !.todo = v]
             /\ UNCHANGED <<writer_vars, returned>>
    <2>1. v \in DOMAIN Document
      BY <1>3 DEF value_type
    <2>2. job' = [kind |-> "value", todo |-> v, frames |-> <<>>, excluded |-> {}]
      BY <1>3 DEF no_job
    <2>3. <<>> \in Seq(Frame)
      OBVIOUS
    <2>4. job' \in Job /\ job'.kind = "value"
      BY <2>1, <2>2, <2>3 DEF Job
    <2> QED BY <1>3, <2>4, JobOnly
  <1> QED BY <1>1, <1>2, <1>3 DEF writer_value

\* maelys_json_writer_object_begin_except: the object is opened by the call itself.
LEMMA BeginExcept ==
  ASSUME Inv, Idle, profile # NONE, NEW v, NEW excluded \in Exclusions,
         object_begin_except(v, excluded)
  PROVE  Good
  <1>1. CASE Refuse("except", "ARGUMENT") /\ UNCHANGED job
    <2>1. Sound
      BY <1>1, RefuseStep DEF Inv
    <2> QED BY <1>1, <2>1, ClientCall
  <1>2. CASE NotReady("except") /\ UNCHANGED job
    <2>1. Sound
      BY <1>2, NotReadyStep DEF Inv
    <2> QED BY <1>2, <2>1, ClientCall
  <1>3. CASE /\ value_type(v) = "object" /\ writer_ready /\ container_begin("object")
             /\ job' = IF returned'.code # "OK" THEN no_job
                       ELSE [kind |-> "except", todo |-> NONE, excluded |-> excluded,
                             frames |-> <<[value |-> v, next |-> 1]>>]
    <2>1. Sound
      BY <1>3, ContainerBegin DEF Inv
    <2>2. /\ returned'.code \in Codes \ {"IO"} /\ returned'.op # "copy"
          /\ profile' = profile /\ finished' = finished
          /\ returned'.code = "OK" => failure' = failure
      BY <2>1 DEF Sound, Answered
    <2>3. CASE returned'.code # "OK"
      <3>1. job' \in Job /\ job'.kind = "none"
        BY <1>3, <2>3 DEF no_job, Job
      <3>2. JobInv'
        BY <2>2, <3>1 DEF JobInv, FailedCopyIsSticky, Idle, Copying
      <3> QED BY <2>1, <3>2 DEF Good, Inv, Sound
    <2>4. CASE returned'.code = "OK"
      <3>1. v \in DOMAIN Document
        BY <1>3 DEF value_type
      <3>2. [value |-> v, next |-> 1] \in Frame
        BY <3>1 DEF Frame
      <3>3. <<[value |-> v, next |-> 1]>> \in Seq(Frame)
        BY <3>2
      <3>4. job' \in Job /\ job'.kind = "except"
        BY <1>3, <2>4, <3>3 DEF Job
      <3>5. JobInv'
        BY <1>3, <2>2, <2>4, <3>4
        DEF JobInv, FailedCopyIsSticky, Idle, Copying, writer_ready
      <3> QED BY <2>1, <3>5 DEF Good, Inv, Sound
    <2> QED BY <2>3, <2>4
  <1> QED BY <1>1, <1>2, <1>3 DEF object_begin_except

-----------------------------------------------------------------------------
(* The life of a writer.                                                    *)

\* The text is complete; writing it may still fail, after the writer is finished.
LEMMA FinishesStep ==
  ASSUME Inv, Idle, profile # NONE, writer_ready, complete, NEW code \in {"OK", "IO"},
         Finishes(code), UNCHANGED <<profile, tree_vars, failure>>, job' = job
  PROVE  Good
  <1>1. /\ finished' = TRUE /\ returned'.code = code /\ returned'.op = "finish"
        /\ profile' = profile /\ failure' = failure /\ UNCHANGED tree_vars
    BY DEF Finishes, answer
  <1>2. TreeInv' /\ open_containers' = open_containers
    BY <1>1, SameTree DEF Inv, TreeInv, Shape
  <1>3. nodes' = nodes /\ pending' = pending
    BY <1>1 DEF tree_vars
  <1>4. stack = <<>> /\ pending = NONE /\ nodes # <<>>
    BY DEF complete
  <1>5. open_containers = <<>>
    BY <1>4, OpenFacts DEF Inv
  <1>6. Contract!Finish
    BY <1>1, <1>2, <1>3, <1>4, <1>5 DEF Contract!Finish, Contract!Usable, writer_ready
  <1>7. ContractStep
    BY <1>6 DEF ContractStep, Contract!Next
  <1>8. JobInv'
    BY <1>1 DEF Inv, JobInv, FailedCopyIsSticky, Idle, Copying, Codes
  <1> QED BY <1>2, <1>7, <1>8 DEF Good, Inv

\* maelys_json_writer_finish and finish_file.
LEMMA WriterFinish ==
  ASSUME Inv, Idle, profile # NONE, writer_finish \/ StreamFails, job' = job
  PROVE  Good
  <1>1. CASE NotReady("finish")
    <2>1. Sound
      BY <1>1, NotReadyStep DEF Inv
    <2> QED BY <2>1, ClientCall
  <1>2. CASE writer_ready /\ Fail("finish", "STATE")
    <2>1. Sound
      BY <1>2, FailStep DEF Inv
    <2> QED BY <2>1, ClientCall
  <1>3. ASSUME writer_ready, NEW code \in serialize \ {"OK"}, Fail("finish", code)
        PROVE  Good
    <2>1. code \in {"STATE", "LIMIT", "MEMORY", "RANGE"}
      BY DEF serialize
    <2>2. Sound
      BY <1>3, <2>1, FailStep DEF Inv
    <2> QED BY <2>2, ClientCall
  <1>4. CASE writer_ready /\ complete /\ Finishes("OK") /\ UNCHANGED <<profile, tree_vars, failure>>
    BY <1>4, FinishesStep
  <1>5. CASE writer_ready /\ complete /\ Finishes("IO") /\ UNCHANGED <<profile, tree_vars, failure>>
    BY <1>5, FinishesStep
  <1> QED BY <1>1, <1>2, <1>3, <1>4, <1>5 DEF writer_finish, StreamFails

\* A new writer, or none.
LEMMA WriterCreate ==
  ASSUME Inv, writer_create
  PROVE  Good
  <1>1. /\ nodes' = nodes /\ node_capacity' = node_capacity /\ keys' = keys /\ stack' = stack
        /\ pending' = pending /\ texts' = texts /\ finished' = finished /\ failure' = failure
        /\ job' = job /\ profile = NONE
    BY DEF writer_create
  <1>2. /\ profile' \in {profile, "RFC8259", "CONTRACT_ASCII"}
        /\ key_slots' \in {key_slots, InitialSlots}
        /\ returned'.code \in {"OK", "MEMORY", "ARGUMENT"} /\ returned'.op = "create"
    BY DEF writer_create, answer
  <1>3. key_slots' \in Nat
    BY <1>2, WriterAssumption DEF Inv, TreeInv, Shape
  <1>4. Shape'
    BY <1>1, <1>3 DEF Inv, TreeInv, Shape
  <1>5. ArraysFit' /\ Rising' /\ TreeWellLinked' /\ KeysHeld'
    BY <1>1 DEF Inv, TreeInv, ArraysFit, Rising, TreeWellLinked, KeysHeld
  <1>6. UniqueKeys'
    BY <1>1 DEF Inv, TreeInv, UniqueKeys, keyset_contains, container
  <1>7. NoTextLost'
    BY <1>1 DEF Inv, TreeInv, NoTextLost, reachable
  <1>8. open_containers' = open_containers
    BY <1>1 DEF open_containers
  <1>9. ContractStep
    <2>1. CASE profile' = NONE
      BY <1>1, <1>8, <2>1 DEF ContractStep, Contract!vars
    <2>2. CASE profile' # NONE
      <3>1. Contract!Create
        BY <1>1, <1>8, <2>2 DEF Contract!Create
      <3> QED BY <3>1 DEF ContractStep, Contract!Next
    <2> QED BY <2>1, <2>2
  <1>10. JobInv'
    <2>1. job \in Job /\ Idle
      BY <1>1 DEF Inv, JobInv
    <2> QED BY <1>1, <1>2, <2>1 DEF JobInv, FailedCopyIsSticky, Idle, Copying, Codes
  <1> QED BY <1>4, <1>5, <1>6, <1>7, <1>9, <1>10 DEF Good, Inv, TreeInv

\* An empty writer, before create and after release.
Empty ==
  /\ nodes = <<>> /\ node_capacity = 0 /\ keys = {} /\ key_slots = 0
  /\ stack = <<>> /\ pending = NONE /\ finished = FALSE /\ failure = "OK" /\ texts = 0

\* A writer without nodes satisfies the invariant, and has no open container.
LEMMA EmptyTree ==
  Empty => TreeInv /\ open_containers = <<>>
  <1> SUFFICES ASSUME Empty PROVE TreeInv /\ open_containers = <<>>
    OBVIOUS
  <1>1. Shape
    <2>1. \A S : <<>> \in Seq(S)
      OBVIOUS
    <2>2. "OK" \in Failures
      BY DEF Failures, Codes
    <2> QED BY <2>1, <2>2 DEF Empty, Shape
  <1>2. ArraysFit /\ Rising
    BY WriterAssumption DEF Empty, ArraysFit, Rising
  <1>3. TreeWellLinked /\ KeysHeld
    BY DEF Empty, TreeWellLinked, WellLinked, KeysHeld
  <1>4. UniqueKeys
    BY DEF Empty, UniqueKeys
  <1>5. NoTextLost
    <2>1. {i \in DOMAIN nodes : nodes[i].key # NONE} = {} /\ {i \in DOMAIN nodes : nodes[i].owned} = {}
      BY DEF Empty
    <2>2. Cardinality({}) = 0
      BY FS_EmptySet
    <2> QED BY <2>1, <2>2 DEF Empty, NoTextLost, reachable
  <1>6. TreeInv
    BY <1>1, <1>2, <1>3, <1>4, <1>5 DEF TreeInv
  <1>7. open_containers = <<>>
    BY <1>6, OpenFacts DEF Empty
  <1> QED BY <1>6, <1>7

\* The same of the next state.
LEMMA EmptyTreeNext ==
  (Empty => TreeInv /\ open_containers = <<>>)'
BY EmptyTree, PTL

\* Release frees every copy there is.
LEMMA WriterRelease ==
  ASSUME Inv, writer_release
  PROVE  Good
  <1>1. /\ profile # NONE /\ Idle /\ profile' = NONE /\ job' = job
        /\ returned'.code = "OK" /\ returned'.op = "release"
    BY DEF writer_release, answer
  <1>2. texts' = 0
    <2>1. texts = reachable /\ texts \in Nat
      BY DEF Inv, TreeInv, Shape, NoTextLost
    <2>2. texts' = texts - reachable
      BY DEF writer_release
    <2> QED BY <2>1, <2>2
  <1>3. Empty'
    BY <1>2 DEF writer_release, Empty
  <1>4. TreeInv' /\ open_containers' = <<>>
    BY <1>3, EmptyTreeNext
  <1>5. Contract!Release
    <2>1. nodes' = <<>> /\ pending' = NONE /\ finished' = FALSE /\ failure' = "OK"
      BY <1>3 DEF Empty
    <2>2. (profile' # NONE) = FALSE /\ (nodes' # <<>>) = FALSE
      BY <1>1, <2>1
    <2> QED BY <1>1, <1>4, <2>1, <2>2 DEF Contract!Release
  <1>6. ContractStep
    BY <1>5 DEF ContractStep, Contract!Next
  <1>7. JobInv'
    BY <1>1 DEF Inv, JobInv, FailedCopyIsSticky, Idle, Copying, Codes
  <1> QED BY <1>4, <1>6, <1>7 DEF Good, Inv

\* Every call of the client.
LEMMA ClientStep ==
  ASSUME Inv, Client
  PROVE  Good
  <1>1. profile # NONE /\ Idle /\ TreeInv
    BY DEF Client, Inv
  <1>2. ASSUME job' = job, NEW type \in {"object", "array"}, container_begin(type)
        PROVE  Good
    BY <1>1, <1>2, ContainerBegin, ClientCall
  <1>3. ASSUME job' = job, NEW type \in {"object", "array"}, container_end(type)
        PROVE  Good
    BY <1>1, <1>3, ContainerEnd, ClientCall
  <1>4. ASSUME job' = job, NEW type \in ClientScalars, attach_scalar(type)
        PROVE  Good
    <2>1. type \in Types
      BY TextsAssumption DEF Types
    <2> QED BY <1>1, <1>4, <2>1, AttachScalar, ClientCall
  <1>5. ASSUME job' = job, NEW t \in ClientTexts,
               writer_key(t) \/ writer_string(t) \/ write_number_lexeme(t, MaximumNumberText)
        PROVE  Good
    <2>1. t \in Texts
      BY TextsAssumption
    <2>2. Sound
      BY <1>1, <1>5, <2>1, WriterKey, WriterString, WriteLexeme
    <2> QED BY <1>1, <1>5, <2>2, ClientCall
  <1>6. ASSUME job' = job, writer_finish \/ StreamFails
        PROVE  Good
    BY <1>1, <1>6, WriterFinish
  <1>7. ASSUME NEW v, writer_value(v)
        PROVE  Good
    BY <1>1, <1>7, WriterValue
  <1>8. ASSUME NEW v, NEW excluded \in Exclusions, object_begin_except(v, excluded)
        PROVE  Good
    BY <1>1, <1>8, BeginExcept
  <1> QED BY <1>2, <1>3, <1>4, <1>5, <1>6, <1>7, <1>8 DEF Client

\* Every step of the writer keeps the invariant and is a step of the contract.
LEMMA NextStep ==
  ASSUME Inv, [Next]_vars
  PROVE  Good
  <1>1. CASE writer_create
    BY <1>1, WriterCreate
  <1>2. CASE writer_release
    BY <1>2, WriterRelease
  <1>3. CASE Client
    BY <1>3, ClientStep
  <1>4. CASE CopyStep
    BY <1>4, CopyValue, CopyMember, CopyElement, CopyEnd, CopyReturnsStep, CopyFailed
    DEF CopyStep
  <1>5. CASE UNCHANGED vars
    <2>1. /\ UNCHANGED tree_vars /\ profile' = profile /\ finished' = finished
          /\ failure' = failure /\ returned' = returned /\ job' = job
      BY <1>5 DEF vars, writer_vars
    <2>2. TreeInv' /\ open_containers' = open_containers
      BY <2>1, SameTree DEF Inv, TreeInv, Shape
    <2>3. nodes' = nodes /\ pending' = pending
      BY <2>1 DEF tree_vars
    <2>4. ContractStep
      BY <2>1, <2>2, <2>3 DEF ContractStep, Contract!vars
    <2>5. JobInv'
      BY <2>1 DEF Inv, JobInv, FailedCopyIsSticky, Idle, Copying
    <2> QED BY <2>2, <2>4, <2>5 DEF Good, Inv
  <1> QED BY <1>1, <1>2, <1>3, <1>4, <1>5 DEF Next

\* The initial states satisfy the invariant and are initial states of the contract.
LEMMA InitInv ==
  ASSUME Init
  PROVE  Inv /\ Contract!Init
  <1>1. Empty
    BY DEF Init, Empty
  <1>2. TreeInv /\ open_containers = <<>>
    BY <1>1, EmptyTree
  <1>3. job \in Job /\ job.kind = "none"
    BY DEF Init, no_job, Job
  <1>4. JobInv
    BY <1>3 DEF Init, JobInv, FailedCopyIsSticky, Idle, Copying, answer, Codes
  <1>5. Contract!Init
    BY <1>2 DEF Init, Contract!Init
  <1> QED BY <1>2, <1>4, <1>5 DEF Inv

-----------------------------------------------------------------------------
(* Recursive functions.  A measure that goes down with every call makes the *)
(* defining equation have one solution.                                     *)

\* A set that contains what everything smaller being in it puts there is everything.
LEMMA MeasureInduction ==
  ASSUME NEW D, NEW m \in [D -> Nat], NEW T,
         \A d \in D : (\A e \in D : m[e] < m[d] => e \in T) => d \in T
  PROVE  \A d \in D : d \in T
  <1> SUFFICES ASSUME NEW c \in D, c \notin T PROVE FALSE OBVIOUS
  <1> DEFINE S == {m[d] : d \in {x \in D : x \notin T}}
  <1>1. S \in SUBSET Nat /\ S # {} OBVIOUS
  <1>2. PICK n \in S : \A k \in S : n <= k BY <1>1, LeastOf
  <1>3. PICK d \in D : d \notin T /\ n = m[d] BY <1>2
  <1>4. \A e \in D : m[e] < m[d] => e \in T
    <2> SUFFICES ASSUME NEW e \in D, m[e] < m[d], e \notin T PROVE FALSE OBVIOUS
    <2>1. m[e] \in S OBVIOUS
    <2>2. n <= m[e] BY <1>2, <2>1
    <2>3. m[e] \in Nat /\ m[d] \in Nat OBVIOUS
    <2> QED BY <1>3, <2>2, <2>3
  <1> QED BY <1>3, <1>4

\* f and g agree where they agree on everything smaller.
Determined(D, m, f, g) ==
  /\ m \in [D -> Nat]
  /\ \A d \in D : (\A e \in D : m[e] < m[d] => f[e] = g[e]) => f[d] = g[d]

\* Two solutions of the same equation agree.
LEMMA RecursionUnique ==
  ASSUME NEW D, NEW m, NEW f, NEW g, Determined(D, m, f, g)
  PROVE  \A d \in D : f[d] = g[d]
  <1> DEFINE T == {d \in D : f[d] = g[d]}
  <1>1. \A d \in D : (\A e \in D : m[e] < m[d] => e \in T) => d \in T BY DEF Determined
  <1>2. m \in [D -> Nat] BY DEF Determined
  <1> HIDE DEF T
  <1>3. \A d \in D : d \in T BY <1>1, <1>2, MeasureInduction
  <1> QED BY <1>3 DEF T

\* G gives each value from smaller ones.
Recursion(D, V, m, G) ==
  /\ V # {} /\ m \in [D -> Nat] /\ G \in [[D -> V] -> [D -> V]]
  /\ \A g, h \in [D -> V] : \A d \in D :
       (\A e \in D : m[e] < m[d] => g[e] = h[e]) => G[g][d] = G[h][d]

\* Such an equation has a solution.
LEMMA RecursionExists ==
  ASSUME NEW D, NEW V, NEW m, NEW G, Recursion(D, V, m, G)
  PROVE  \E g \in [D -> V] : g = G[g]
  <1> USE DEF Recursion
  <1> DEFINE Upto(n, g) == \A d \in D : m[d] < n => g[d] = G[g][d]
             S == {n \in Nat : \A g \in [D -> V] : ~Upto(n, g)}
  <1>1. S = {}
    <2> SUFFICES ASSUME S # {} PROVE FALSE OBVIOUS
    <2>1. S \in SUBSET Nat OBVIOUS
    <2>2. PICK n \in S : \A k \in S : n <= k BY <2>1, LeastOf
    <2>3. CASE n = 0
      <3>1. PICK v \in V : TRUE OBVIOUS
      <3>2. [d \in D |-> v] \in [D -> V] OBVIOUS
      <3>3. Upto(0, [d \in D |-> v]) OBVIOUS
      <3> QED BY <2>2, <2>3, <3>2, <3>3
    <2>4. CASE n # 0
      <3>1. n - 1 \in Nat /\ n - 1 \notin S BY <2>2, <2>4
      <3>2. PICK g \in [D -> V] : Upto(n - 1, g) BY <3>1
      <3>3. G[g] \in [D -> V] OBVIOUS
      <3>4. ASSUME NEW d \in D, m[d] < n PROVE G[g][d] = G[G[g]][d]
        <4>1. \A e \in D : m[e] < m[d] => g[e] = G[g][e]
          <5> SUFFICES ASSUME NEW e \in D, m[e] < m[d] PROVE g[e] = G[g][e] OBVIOUS
          <5>1. m[e] \in Nat /\ m[d] \in Nat /\ n \in Nat OBVIOUS
          <5>2. m[e] < n - 1 BY <3>4, <5>1
          <5> QED BY <3>2, <5>2
        <4> QED BY <3>3, <4>1
      <3>5. Upto(n, G[g]) BY <3>4
      <3> QED BY <3>3, <3>5
    <2> QED BY <2>3, <2>4
  <1>2. ASSUME NEW n \in Nat PROVE \E g \in [D -> V] : Upto(n, g)
    <2>1. n \notin S BY <1>1
    <2> HIDE DEF Upto
    <2> QED BY <2>1
  <1> DEFINE s == [n \in Nat |-> CHOOSE g \in [D -> V] : Upto(n, g)]
             r == [d \in D |-> s[m[d] + 1][d]]
  <1>3. ASSUME NEW n \in Nat PROVE s[n] \in [D -> V] /\ Upto(n, s[n])
    <2>1. s[n] = CHOOSE g \in [D -> V] : Upto(n, g) OBVIOUS
    <2>2. \E g \in [D -> V] : Upto(n, g) BY <1>2
    <2> HIDE DEF Upto, s
    <2> QED BY <2>1, <2>2
  <1> HIDE DEF S, s
  <1>4. r \in [D -> V] BY <1>3
  <1>5. ASSUME NEW n \in Nat, NEW k \in Nat
        PROVE  \A d \in D : m[d] < n /\ m[d] < k => s[n][d] = s[k][d]
    <2> DEFINE T == {d \in D : m[d] < n /\ m[d] < k => s[n][d] = s[k][d]}
    <2>1. ASSUME NEW d \in D, \A e \in D : m[e] < m[d] => e \in T PROVE d \in T
      <3> SUFFICES ASSUME m[d] < n, m[d] < k PROVE s[n][d] = s[k][d] OBVIOUS
      <3>1. \A e \in D : m[e] < m[d] => s[n][e] = s[k][e]
        <4> SUFFICES ASSUME NEW e \in D, m[e] < m[d] PROVE s[n][e] = s[k][e] OBVIOUS
        <4>1. m[e] \in Nat /\ m[d] \in Nat /\ e \in T BY <2>1
        <4>2. m[e] < n /\ m[e] < k BY <4>1
        <4> QED BY <4>1, <4>2
      <3>2. G[s[n]][d] = G[s[k]][d] BY <1>3, <3>1
      <3>3. s[n][d] = G[s[n]][d] /\ s[k][d] = G[s[k]][d] BY <1>3
      <3> QED BY <3>2, <3>3
    <2> HIDE DEF T
    <2>2. \A d \in D : d \in T BY <2>1, MeasureInduction
    <2> QED BY <2>2 DEF T
  <1>6. ASSUME NEW d \in D PROVE r[d] = G[r][d]
    <2> DEFINE n == m[d] + 1
    <2>1. n \in Nat /\ m[d] < n /\ m[d] \in Nat OBVIOUS
    <2>2. \A e \in D : m[e] < m[d] => s[n][e] = r[e]
      <3> SUFFICES ASSUME NEW e \in D, m[e] < m[d] PROVE s[n][e] = r[e] OBVIOUS
      <3>1. m[e] \in Nat /\ m[e] < n /\ m[e] < m[e] + 1 /\ m[e] + 1 \in Nat BY <2>1
      <3> HIDE DEF n
      <3>2. s[n][e] = s[m[e] + 1][e] BY <1>5, <2>1, <3>1
      <3> QED BY <3>2
    <2>3. r[d] = s[n][d] OBVIOUS
    <2> HIDE DEF n
    <2>4. s[n] \in [D -> V] /\ s[n][d] = G[s[n]][d] BY <1>3, <2>1
    <2> HIDE DEF r
    <2>5. G[s[n]][d] = G[r][d] BY <1>4, <2>2, <2>4
    <2> QED BY <2>3, <2>4, <2>5
  <1> HIDE DEF r
  <1>7. r = G[r] BY <1>4, <1>6
  <1> QED BY <1>4, <1>7

-----------------------------------------------------------------------------
(* Loops that join sequences.                                               *)

\* u[i] is what a loop has put together after i pieces.
Looped(n, p, u) == u = [i \in 0 .. n |-> IF i = 0 THEN <<>> ELSE u[i - 1] \o p[i]]

\* What the equation says of each round.
LEMMA LoopRounds ==
  ASSUME NEW n \in Nat, NEW p, NEW u, Looped(n, p, u)
  PROVE  u[0] = <<>> /\ \A i \in 1 .. n : u[i] = u[i - 1] \o p[i]
  BY DEF Looped

\* The pieces are sequences over C.
Sequences(n, C, p) == p \in [1 .. n -> Seq(C)]

\* Such a loop has a result.
LEMMA LoopExists ==
  ASSUME NEW n \in Nat, NEW C, NEW p, Sequences(n, C, p)
  PROVE  \E u : u \in [0 .. n -> Seq(C)] /\ Looped(n, p, u)
  <1> DEFINE D == 0 .. n
             V == Seq(C)
             m == [i \in D |-> i]
             G == [g \in [D -> V] |-> [i \in D |-> IF i = 0 THEN <<>> ELSE g[i - 1] \o p[i]]]
  <1>1. m \in [D -> Nat] /\ V # {}
    <2>1. <<>> \in V OBVIOUS
    <2> HIDE DEF V
    <2>2. V # {} BY <2>1
    <2> QED BY <2>2
  <1>2. ASSUME NEW g \in [D -> V], NEW i \in D
        PROVE  (IF i = 0 THEN <<>> ELSE g[i - 1] \o p[i]) \in V
    <2>1. CASE i = 0 BY <2>1
    <2>2. CASE i # 0
      <3>1. i - 1 \in D /\ i \in 1 .. n BY <2>2
      <3>2. g[i - 1] \in Seq(C) /\ p[i] \in Seq(C) BY <3>1 DEF Sequences
      <3> QED BY <2>2, <3>2
    <2> QED BY <2>1, <2>2
  <1>3. G \in [[D -> V] -> [D -> V]] BY <1>2
  <1>4. ASSUME NEW g \in [D -> V], NEW h \in [D -> V], NEW d \in D,
               \A e \in D : m[e] < m[d] => g[e] = h[e]
        PROVE  G[g][d] = G[h][d]
    <2>1. d # 0 => d - 1 \in D /\ m[d - 1] < m[d] OBVIOUS
    <2>2. d # 0 => g[d - 1] = h[d - 1] BY <1>4, <2>1
    <2> QED BY <2>2
  <1>5. \E g \in [D -> V] : g = G[g]
    <2> HIDE DEF G, D, V, m
    <2>1. Recursion(D, V, m, G) BY <1>1, <1>3, <1>4 DEF Recursion
    <2> QED BY <2>1, RecursionExists
  <1>6. PICK g \in [D -> V] : g = G[g] BY <1>5
  <1>7. Looped(n, p, g) BY <1>6 DEF Looped
  <1> QED BY <1>7

\* And only one.
LEMMA LoopPrefix ==
  ASSUME NEW n \in Nat, NEW k \in Nat, k <= n, NEW p, NEW q, NEW u, NEW w,
         Looped(n, p, u), Looped(k, q, w), \A i \in 1 .. k : p[i] = q[i]
  PROVE  \A i \in 0 .. k : u[i] = w[i]
  <1> DEFINE D == 0 .. k
             m == [i \in D |-> i]
  <1>1. u[0] = <<>> /\ \A i \in 1 .. n : u[i] = u[i - 1] \o p[i] BY LoopRounds
  <1>2. w[0] = <<>> /\ \A i \in 1 .. k : w[i] = w[i - 1] \o q[i] BY LoopRounds
  <1>3. ASSUME NEW d \in D, \A e \in D : m[e] < m[d] => u[e] = w[e] PROVE u[d] = w[d]
    <2>1. CASE d = 0 BY <1>1, <1>2, <2>1
    <2>2. CASE d # 0
      <3>1. d - 1 \in D /\ m[d - 1] < m[d] /\ d \in 1 .. k /\ d \in 1 .. n BY <2>2
      <3>2. u[d - 1] = w[d - 1] BY <1>3, <3>1
      <3> QED BY <1>1, <1>2, <3>1, <3>2
    <2> QED BY <2>1, <2>2
  <1>4. m \in [D -> Nat] OBVIOUS
  <1> HIDE DEF m, D
  <1>5. Determined(D, m, u, w) BY <1>3, <1>4 DEF Determined
  <1>6. \A d \in D : u[d] = w[d] BY <1>5, RecursionUnique
  <1> QED BY <1>6 DEF D

\* Its type is that of its pieces.
LEMMA LoopTyped ==
  ASSUME NEW n \in Nat, NEW C, NEW p, Sequences(n, C, p), NEW u, Looped(n, p, u)
  PROVE  \A i \in 0 .. n : u[i] \in Seq(C)
  <1>1. PICK w : w \in [0 .. n -> Seq(C)] /\ Looped(n, p, w) BY LoopExists
  <1>2. \A i \in 0 .. n : u[i] = w[i]
    <2>1. n <= n /\ Looped(n, p, w) /\ \A i \in 1 .. n : p[i] = p[i] BY <1>1
    <2> QED BY <2>1, LoopPrefix
  <1> QED BY <1>1, <1>2

-----------------------------------------------------------------------------
(* Strung.                                                                  *)

\* A sequence of sequences over C.
Parts(C, p) == p \in Seq(Seq(C))

\* Strung is such a loop.
LEMMA StrungIsLoop ==
  ASSUME NEW C, NEW p, Parts(C, p)
  PROVE  /\ Sequences(Len(p), C, p) /\ Len(p) \in Nat
         /\ \E u : Looped(Len(p), p, u) /\ Strung(p) = u[Len(p)]
  <1>1. Sequences(Len(p), C, p) /\ Len(p) \in Nat BY DEF Sequences, Parts
  <1>2. \E u : Looped(Len(p), p, u) BY <1>1, LoopExists
  <1> QED BY <1>1, <1>2 DEF Strung, Looped

\* The elements are those of the parts.
LEMMA StrungTyped ==
  ASSUME NEW C, NEW p, Parts(C, p)
  PROVE  Strung(p) \in Seq(C)
  <1>1. PICK u : Looped(Len(p), p, u) /\ Strung(p) = u[Len(p)] BY StrungIsLoop
  <1>2. Sequences(Len(p), C, p) /\ Len(p) \in Nat BY StrungIsLoop
  <1>3. \A i \in 0 .. Len(p) : u[i] \in Seq(C) BY <1>1, <1>2, LoopTyped
  <1> QED BY <1>1, <1>2, <1>3

\* Nothing strung together.
LEMMA StrungEmpty == Strung(<<>>) = <<>>
  <1>1. Parts({}, <<>>) BY DEF Parts
  <1>2. PICK u : Looped(Len(<<>>), <<>>, u) /\ Strung(<<>>) = u[Len(<<>>)] BY <1>1, StrungIsLoop
  <1>3. Len(<<>>) = 0 /\ 0 \in Nat OBVIOUS
  <1>4. u[0] = <<>> BY <1>2, <1>3, LoopRounds
  <1> QED BY <1>2, <1>3, <1>4

\* One part more.
LEMMA StrungStep ==
  ASSUME NEW C, NEW p, Parts(C, p), NEW q, Parts(C, q), Len(p) = Len(q) + 1,
         \A i \in 1 .. Len(q) : p[i] = q[i]
  PROVE  Strung(p) = Strung(q) \o p[Len(p)]
  <1> DEFINE n == Len(p)
             k == Len(q)
  <1>1. PICK u : Looped(n, p, u) /\ Strung(p) = u[n] BY StrungIsLoop
  <1>2. PICK w : Looped(k, q, w) /\ Strung(q) = w[k] BY StrungIsLoop
  <1>3. n \in Nat /\ k \in Nat /\ n = k + 1 BY StrungIsLoop
  <1>4. \A i \in 1 .. k : p[i] = q[i] OBVIOUS
  <1> HIDE DEF n, k
  <1>5. u[k] = w[k]
    <2>1. k <= n /\ k \in 0 .. k BY <1>3
    <2>2. \A i \in 0 .. k : u[i] = w[i] BY <1>1, <1>2, <1>3, <1>4, <2>1, LoopPrefix
    <2> QED BY <2>1, <2>2
  <1>6. u[n] = u[n - 1] \o p[n]
    <2>1. n \in 1 .. n BY <1>3
    <2>2. u[0] = <<>> /\ \A i \in 1 .. n : u[i] = u[i - 1] \o p[i]
      <3>1. Looped(n, p, u) /\ n \in Nat BY <1>1, <1>3
      <3> QED BY <3>1, LoopRounds, ZenonT(60)
    <2> QED BY <2>1, <2>2, Zenon
  <1>7. n - 1 = k BY <1>3
  <1> QED BY <1>1, <1>2, <1>5, <1>6, <1>7 DEF n

\* p is q with more at the end of its last part.
LastGrown(p, q, more) ==
  /\ Len(p) = Len(q) /\ q # <<>>
  /\ \A i \in 1 .. Len(q) - 1 : p[i] = q[i]
  /\ p[Len(q)] = q[Len(q)] \o more

\* The last part has grown.
LEMMA StrungGrown ==
  ASSUME NEW C, NEW p, Parts(C, p), NEW q, Parts(C, q),
         NEW more, more \in Seq(C), LastGrown(p, q, more)
  PROVE  Strung(p) = Strung(q) \o more
  <1> USE DEF LastGrown
  <1> DEFINE n == Len(q)
             r == [i \in 1 .. n - 1 |-> q[i]]
  <1>1. n \in Nat /\ n >= 1 /\ \A i \in 1 .. n : q[i] \in Seq(C) BY DEF Parts
  <1>2. Parts(C, r) /\ Len(r) = n - 1
    <2> DEFINE V == Seq(C)
               k == n - 1
    <2>1. k \in Nat /\ \A i \in 1 .. k : i \in 1 .. n BY <1>1
    <2>2. \A i \in 1 .. k : q[i] \in V BY <1>1, <2>1
    <2> HIDE DEF V, n, k
    <2>3. [i \in 1 .. k |-> q[i]] \in [1 .. k -> V] BY <2>2
    <2>4. [i \in 1 .. k |-> q[i]] \in Seq(V) /\ Len([i \in 1 .. k |-> q[i]]) = k
      BY <2>1, <2>3, FunctionIsSeq
    <2> QED BY <2>4 DEF V, k, Parts
  <1>3. \A i \in 1 .. n - 1 : q[i] = r[i] /\ p[i] = r[i] OBVIOUS
  <1>4. Len(q) = Len(r) + 1 /\ Len(p) = Len(r) + 1 BY <1>1, <1>2
  <1>5. Strung(r) \in Seq(C) BY <1>2, StrungTyped
  <1>6. q[n] \in Seq(C) /\ p[n] = q[n] \o more /\ Len(p) = n BY <1>1
  <1> HIDE DEF r
  <1>7. Strung(q) = Strung(r) \o q[n] BY <1>2, <1>3, <1>4, StrungStep
  <1>8. Strung(p) = Strung(r) \o p[n]
    <2>1. \A i \in 1 .. Len(r) : p[i] = r[i] BY <1>2, <1>3
    <2> QED BY <1>2, <1>4, <1>6, <2>1, StrungStep
  <1> DEFINE a == Strung(r)
             b == q[n]
  <1>9. a \in Seq(C) /\ b \in Seq(C) BY <1>5, <1>6
  <1> HIDE DEF a, b, n
  <1>10. (a \o b) \o more = a \o (b \o more) BY <1>9, ConcatAssociative, SMTT(40)
  <1> QED BY <1>6, <1>7, <1>8, <1>10 DEF a, b

-----------------------------------------------------------------------------
(* Chains of members.                                                       *)

\* c is what a loop over the members of node i visits.
Chained(s, i, c) ==
  /\ c \in Seq(DOMAIN s) /\ Len(c) <= Len(s)
  /\ s[i].links.first_child = IF c = <<>> THEN NONE ELSE c[1]
  /\ s[i].links.last_child = IF c = <<>> THEN NONE ELSE c[Len(c)]
  /\ \A k \in DOMAIN c :
       /\ s[c[k]].links.parent = i
       /\ s[c[k]].links.next_sibling = IF k = Len(c) THEN NONE ELSE c[k + 1]

\* What Chained says of positions, one by one.
LEMMA ChainFacts ==
  ASSUME NEW s \in Seq(Node), NEW i, NEW c, Chained(s, i, c)
  PROVE  /\ Len(c) \in Nat /\ DOMAIN c = 1 .. Len(c) /\ Len(s) \in Nat
         /\ \A k \in 1 .. Len(c) : c[k] \in 1 .. Len(s) /\ c[k] # NONE /\ c[k] \in Nat
         /\ c = <<>> <=> Len(c) = 0
         /\ c = [k \in 1 .. Len(c) |-> c[k]]
  <1>1. c \in Seq(DOMAIN s) /\ DOMAIN s = 1 .. Len(s) /\ Len(s) \in Nat BY DEF Chained
  <1>2. Len(c) \in Nat /\ DOMAIN c = 1 .. Len(c) /\ (c = <<>> <=> Len(c) = 0) BY <1>1
  <1>3. \A k \in 1 .. Len(c) : c[k] \in 1 .. Len(s) BY <1>1, <1>2
  <1>4. \A k \in 1 .. Len(s) : k # NONE /\ k \in Nat BY <1>1, NoneAssumption
  <1>5. c = [k \in 1 .. Len(c) |-> c[k]] BY <1>1
  <1> QED BY <1>1, <1>2, <1>3, <1>4, <1>5

\* The loop of chain visits c.
LEMMA ChainIs ==
  ASSUME NEW s \in Seq(Node), NEW i \in DOMAIN s, NEW c, Chained(s, i, c)
  PROVE  chain(s, i) = c
  <1> DEFINE n == Len(s)
             l == Len(c)
             D == 1 .. n
             m == [k \in D |-> k]
             first == s[i].links.first_child
             next(j) == s[j].links.next_sibling
             v == [k \in D |-> IF k <= l THEN c[k] ELSE NONE]
             Rounds(f) == \A k \in D :
               f[k] = IF k = 1 THEN first ELSE IF f[k - 1] = NONE THEN NONE ELSE next(f[k - 1])
             E(f) == f = [k \in 1 .. Len(s) |->
                            IF k = 1 THEN s[i].links.first_child
                            ELSE IF f[k - 1] = NONE THEN NONE
                            ELSE s[f[k - 1]].links.next_sibling]
             W == CHOOSE f : E(f)
             ends(f, k) == /\ \A j \in 1 .. k : f[j] # NONE
                           /\ k < Len(s) => f[k + 1] = NONE
             length == CHOOSE k \in 0 .. Len(s) : ends(W, k)
  <1>1. /\ n \in Nat /\ l \in Nat /\ l <= n /\ (c = <<>> <=> l = 0) /\ DOMAIN c = 1 .. l
        /\ \A k \in 1 .. l : c[k] # NONE
    <2>1. l <= n BY DEF Chained
    <2> QED BY <2>1, ChainFacts
  <1>2. /\ first = IF c = <<>> THEN NONE ELSE c[1]
        /\ \A k \in 1 .. l : next(c[k]) = IF k = l THEN NONE ELSE c[k + 1]
    BY <1>1 DEF Chained
  <1> HIDE DEF n, l, first, next
  <1>3. Rounds(v)
    <2> SUFFICES ASSUME NEW k \in D
                 PROVE  v[k] = IF k = 1 THEN first
                               ELSE IF v[k - 1] = NONE THEN NONE ELSE next(v[k - 1])
      OBVIOUS
    <2>1. CASE k = 1 BY <1>1, <1>2, <2>1
    <2>2. CASE k # 1
      <3>1. k - 1 \in D /\ k \in Nat /\ k - 1 \in Nat /\ k - 1 >= 1 BY <1>1, <2>2
      <3>2. v[k - 1] = IF k - 1 <= l THEN c[k - 1] ELSE NONE BY <3>1
      <3>3. CASE k - 1 <= l
        <4>1. k - 1 \in 1 .. l BY <1>1, <3>1, <3>3
        <4>2. next(c[k - 1]) = IF k - 1 = l THEN NONE ELSE c[(k - 1) + 1] BY <1>2, <4>1
        <4>3. (k - 1) + 1 = k /\ (k - 1 = l <=> ~(k <= l)) BY <1>1, <3>1, <3>3
        <4> QED BY <1>1, <2>2, <3>2, <3>3, <4>1, <4>2, <4>3
      <3>4. CASE ~(k - 1 <= l)
        <4>1. ~(k <= l) BY <1>1, <3>1, <3>4
        <4> QED BY <2>2, <3>2, <3>4, <4>1
      <3> QED BY <3>3, <3>4
    <2> QED BY <2>1, <2>2
  <1>4. E(v)
    <2>1. v = [k \in D |-> v[k]] OBVIOUS
    <2>2. v = [k \in D |-> IF k = 1 THEN first
                           ELSE IF v[k - 1] = NONE THEN NONE ELSE next(v[k - 1])]
      <3> HIDE DEF v
      <3> QED BY <1>3, <2>1
    <2> HIDE DEF v
    <2> QED BY <2>2 DEF n, first, next
  <1>5. E(W)
    <2> HIDE DEF E, v
    <2> QED BY <1>4
  <1>6. Rounds(W)
    <2> HIDE DEF W
    <2> QED BY <1>5 DEF n, first, next
  <1>7. \A k \in D : W[k] = v[k]
    <2> HIDE DEF W, v
    <2>1. ASSUME NEW d \in D, \A e \in D : m[e] < m[d] => W[e] = v[e] PROVE W[d] = v[d]
      <3>1. d = 1 \/ (d - 1 \in D /\ d - 1 < d) BY <1>1
      <3>2. d = 1 \/ W[d - 1] = v[d - 1] BY <2>1, <3>1
      <3>3. W[d] = IF d = 1 THEN first ELSE IF W[d - 1] = NONE THEN NONE ELSE next(W[d - 1])
        BY <1>6
      <3>4. v[d] = IF d = 1 THEN first ELSE IF v[d - 1] = NONE THEN NONE ELSE next(v[d - 1])
        BY <1>3
      <3> QED BY <3>2, <3>3, <3>4
    <2>2. m \in [D -> Nat] BY <1>1
    <2> HIDE DEF D, m
    <2>3. Determined(D, m, W, v) BY <2>1, <2>2 DEF Determined
    <2> QED BY <2>3, RecursionUnique
  <1>8. \A k \in 0 .. Len(s) : ends(W, k) <=> k = l
    <2> SUFFICES ASSUME NEW k \in 0 .. n PROVE ends(W, k) <=> k = l BY DEF n
    <2> HIDE DEF W
    <2>1. \A j \in 1 .. k : W[j] = IF j <= l THEN c[j] ELSE NONE BY <1>1, <1>7
    <2>2. k < n => W[k + 1] = IF k + 1 <= l THEN c[k + 1] ELSE NONE BY <1>1, <1>7
    <2>3. CASE k = l
      <3>1. \A j \in 1 .. k : W[j] # NONE BY <1>1, <2>1, <2>3
      <3>2. k < n => W[k + 1] = NONE BY <1>1, <2>2, <2>3
      <3> QED BY <2>3, <3>1, <3>2 DEF n
    <2>4. CASE k < l
      <3>1. k < n /\ k + 1 \in 1 .. l BY <1>1, <2>4
      <3>2. W[k + 1] # NONE BY <1>1, <2>2, <3>1
      <3> QED BY <1>1, <2>4, <3>1, <3>2 DEF n
    <2>5. CASE k > l
      <3>1. k \in 1 .. k /\ ~(k <= l) BY <1>1, <2>5
      <3>2. W[k] = NONE BY <2>1, <3>1
      <3> QED BY <1>1, <2>5, <3>1, <3>2
    <2> QED BY <1>1, <2>3, <2>4, <2>5
  <1>9. length = l
    <2>1. l \in 0 .. Len(s) BY <1>1 DEF n
    <2> HIDE DEF ends, W
    <2> QED BY <1>8, <2>1
  <1>10. chain(s, i) = [k \in 1 .. length |-> W[k]] BY DEF chain
  <1>11. [k \in 1 .. l |-> W[k]] = [k \in 1 .. l |-> c[k]]
    <2> HIDE DEF W
    <2>1. \A k \in 1 .. l : W[k] = c[k] BY <1>1, <1>7
    <2> QED BY <2>1
  <1>12. c = [k \in 1 .. l |-> c[k]] BY ChainFacts DEF l
  <1> HIDE DEF length, W
  <1> QED BY <1>9, <1>10, <1>11, <1>12

\* x becomes the last member of p.
Attaches(s, x, p, g) ==
  /\ s \in Seq(Node) /\ p \in DOMAIN s /\ x.links = links_init(p) /\ Joined(s, x, g)
  /\ \A i \in DOMAIN s :
       g[i].links = links_after(s[i].links, i, p, s[p].links.last_child, Len(s) + 1)

\* The positions of an array that has grown.
LEMMA AttachPositions ==
  ASSUME NEW s, NEW x, NEW p, NEW g, Attaches(s, x, p, g)
  PROVE  /\ g \in Seq(Node) /\ Len(s) \in Nat /\ Len(g) = Len(s) + 1
         /\ DOMAIN s = 1 .. Len(s) /\ DOMAIN g = 1 .. Len(s) + 1
         /\ DOMAIN s \subseteq DOMAIN g /\ Len(s) + 1 \notin DOMAIN s /\ NONE \notin DOMAIN g
         /\ p \in 1 .. Len(s) /\ g[Len(s) + 1] = x
  BY NoneAssumption DEF Attaches, Joined

\* The links of an older node.
LEMMA AttachLinks ==
  ASSUME NEW s, NEW x, NEW p, NEW g, Attaches(s, x, p, g), NEW i \in DOMAIN s
  PROVE  LET last == s[p].links.last_child
             old  == s[i].links
             new  == g[i].links
             n    == Len(s) + 1
         IN  /\ new.parent = old.parent
             /\ new.first_child = IF i = p /\ last = NONE THEN n ELSE old.first_child
             /\ new.last_child = IF i = p THEN n ELSE old.last_child
             /\ new.next_sibling = IF i = last THEN n ELSE old.next_sibling
  <1>1. g[i].links = links_after(s[i].links, i, p, s[p].links.last_child, Len(s) + 1)
    BY DEF Attaches
  <1> QED BY <1>1 DEF links_after

\* The new node has no members.
LEMMA ChainNew ==
  ASSUME NEW s, NEW x, NEW p, NEW g, Attaches(s, x, p, g)
  PROVE  Chained(g, Len(s) + 1, <<>>)
  <1>1. g[Len(s) + 1].links.first_child = NONE /\ g[Len(s) + 1].links.last_child = NONE
    BY AttachPositions DEF Attaches, links_init
  <1>2. Len(<<>>) <= Len(g) BY AttachPositions
  <1> QED BY <1>1, <1>2 DEF Chained

\* The members of another node are the same.
LEMMA ChainKept ==
  ASSUME NEW s, NEW x, NEW p, NEW g, Attaches(s, x, p, g), NEW a, Chained(s, p, a),
         NEW q \in DOMAIN s, q # p, NEW c, Chained(s, q, c)
  PROVE  Chained(g, q, c)
  <1> DEFINE last == s[p].links.last_child
             n == Len(s) + 1
  <1>1. s \in Seq(Node) BY DEF Attaches
  <1>2. /\ Len(c) \in Nat /\ DOMAIN c = 1 .. Len(c)
        /\ \A k \in 1 .. Len(c) : c[k] \in DOMAIN s /\ c[k] # NONE
    BY <1>1, ChainFacts, AttachPositions
  <1>3. last = NONE \/ s[last].links.parent = p
    <2>1. CASE a = <<>> BY <2>1 DEF Chained
    <2>2. CASE a # <<>>
      <3>1. Len(a) \in DOMAIN a BY <1>1, <2>2, ChainFacts
      <3> QED BY <2>2, <3>1 DEF Chained
    <2> QED BY <2>1, <2>2
  <1>4. \A k \in 1 .. Len(c) : s[c[k]].links.parent = q /\ c[k] # last
    BY <1>2, <1>3 DEF Chained
  <1>5. /\ g[q].links.first_child = s[q].links.first_child
        /\ g[q].links.last_child = s[q].links.last_child
    BY AttachLinks
  <1> HIDE DEF last
  <1>6. \A k \in 1 .. Len(c) :
          /\ g[c[k]].links.parent = s[c[k]].links.parent
          /\ g[c[k]].links.next_sibling = s[c[k]].links.next_sibling
    BY <1>2, <1>4, AttachLinks DEF last
  <1>7. c \in Seq(DOMAIN g) /\ Len(c) <= Len(g)
    <2>1. c \in Seq(DOMAIN s) /\ Len(c) <= Len(s) BY DEF Chained
    <2> QED BY <1>2, <2>1, AttachPositions, SeqMonotonic
  <1> QED BY <1>2, <1>5, <1>6, <1>7 DEF Chained

\* The members of the parent are one more.
LEMMA ChainLonger ==
  ASSUME NEW s, NEW x, NEW p, NEW g, Attaches(s, x, p, g), NEW a, Chained(s, p, a)
  PROVE  Chained(g, p, Append(a, Len(s) + 1))
  <1> DEFINE last == s[p].links.last_child
             n == Len(s) + 1
             l == Len(a)
             b == Append(a, n)
  <1>1. s \in Seq(Node) BY DEF Attaches
  <1>2. /\ l \in Nat /\ DOMAIN a = 1 .. l /\ (a = <<>> <=> l = 0) /\ l + 1 <= n
        /\ \A k \in 1 .. l : a[k] \in DOMAIN s /\ a[k] # NONE
    BY <1>1, ChainFacts, AttachPositions DEF Chained
  <1>3. /\ a \in Seq(DOMAIN g) /\ n \in DOMAIN g /\ Len(g) = n
    <2>1. a \in Seq(DOMAIN s) BY DEF Chained
    <2> QED BY <2>1, AttachPositions, SeqMonotonic
  <1>4. /\ b \in Seq(DOMAIN g) /\ Len(b) = l + 1 /\ b # <<>> /\ DOMAIN b = 1 .. l + 1
        /\ b[l + 1] = n /\ \A k \in 1 .. l : b[k] = a[k]
    <2> DEFINE C == DOMAIN g
    <2>1. a \in Seq(C) /\ n \in C BY <1>3
    <2> HIDE DEF C, n
    <2>2. b \in Seq(C) /\ Len(b) = l + 1 /\ b[l + 1] = n /\ \A k \in 1 .. l : b[k] = a[k]
      BY <2>1, AppendProperties
    <2>3. b # <<>> /\ DOMAIN b = 1 .. l + 1 BY <1>2, <2>2, LenProperties
    <2> QED BY <2>2, <2>3 DEF C
  <1>5. last = IF l = 0 THEN NONE ELSE a[l] BY <1>2 DEF Chained
  <1>6. \A k \in 1 .. l : s[a[k]].links.parent = p
                          /\ s[a[k]].links.next_sibling = IF k = l THEN NONE ELSE a[k + 1]
    BY <1>2 DEF Chained
  <1>7. \A k \in 1 .. l : a[k] = last <=> k = l
    <2> SUFFICES ASSUME NEW k \in 1 .. l PROVE a[k] = last <=> k = l OBVIOUS
    <2> HIDE DEF l, last
    <2>1. l # 0 /\ l \in 1 .. l /\ last = a[l] BY <1>2, <1>5
    <2>2. CASE k # l
      <3>1. k + 1 \in 1 .. l BY <1>2, <2>2
      <3>2. s[a[k]].links.next_sibling = a[k + 1] /\ s[a[l]].links.next_sibling = NONE
        BY <1>6, <2>1, <2>2
      <3> QED BY <1>2, <2>1, <2>2, <3>1, <3>2
    <2> QED BY <2>1, <2>2
  <1>8. g[n].links.parent = p /\ g[n].links.next_sibling = NONE
    BY AttachPositions DEF Attaches, links_init
  <1>9. /\ g[p].links.first_child = (IF last = NONE THEN n ELSE s[p].links.first_child)
        /\ g[p].links.last_child = n
    <2>1. p \in DOMAIN s BY DEF Attaches
    <2> QED BY <2>1, AttachLinks
  <1>10. s[p].links.first_child = IF l = 0 THEN NONE ELSE a[1] BY <1>2 DEF Chained
  <1>11. \A i \in DOMAIN s :
           /\ g[i].links.parent = s[i].links.parent
           /\ g[i].links.next_sibling = IF i = last THEN n ELSE s[i].links.next_sibling
    BY AttachLinks
  <1> HIDE DEF b, n, l, last
  <1>12. g[p].links.first_child = b[1]
    <2>1. CASE l = 0 BY <1>4, <1>5, <1>9, <2>1
    <2>2. CASE l # 0
      <3>1. 1 \in 1 .. l /\ l \in 1 .. l BY <1>2, <2>2
      <3> QED BY <1>2, <1>4, <1>5, <1>9, <1>10, <2>2, <3>1
    <2> QED BY <2>1, <2>2
  <1>13. ASSUME NEW k \in 1 .. l + 1
         PROVE  /\ g[b[k]].links.parent = p
                /\ g[b[k]].links.next_sibling = IF k = l + 1 THEN NONE ELSE b[k + 1]
    <2>1. CASE k = l + 1 BY <1>4, <1>8, <2>1
    <2>2. CASE k # l + 1
      <3>1. k \in 1 .. l BY <1>2, <2>2
      <3>2. b[k] = a[k] /\ a[k] \in DOMAIN s BY <1>2, <1>4, <3>1
      <3>3. g[a[k]].links.parent = p BY <1>6, <1>11, <3>1, <3>2
      <3>4. g[a[k]].links.next_sibling = IF k = l THEN n ELSE a[k + 1]
        BY <1>7, <1>6, <1>11, <3>1, <3>2
      <3>5. k # l => k + 1 \in 1 .. l BY <1>2, <3>1
      <3>6. b[k + 1] = IF k = l THEN n ELSE a[k + 1] BY <1>4, <3>5
      <3> QED BY <2>2, <3>2, <3>3, <3>4, <3>6
    <2> QED BY <2>1, <2>2
  <1>14. Chained(g, p, b) BY <1>2, <1>3, <1>4, <1>9, <1>12, <1>13 DEF Chained
  <1> QED BY <1>14 DEF b, n

-----------------------------------------------------------------------------
(* The calls of a tree.                                                     *)

Event == {event(op, arg) : op \in {"begin", "end", "key", "scalar", "string", "lexeme"},
                           arg \in Types \cup {t.name : t \in Texts}}

\* The calls of single nodes are events.
LEMMA EventTyped ==
  /\ \A type \in Types : event("begin", type) \in Event /\ event("end", type) \in Event
                         /\ event("scalar", type) \in Event
  /\ \A t \in Texts : event("key", t.name) \in Event /\ event("string", t.name) \in Event
                      /\ event("lexeme", t.name) \in Event
  BY DEF Event

\* So are those of a key, of the brackets of a container, and of a leaf.
LEMMA CallsTyped ==
  ASSUME NEW type \in Types, NEW t \in Texts \cup {NONE}
  PROVE  /\ named(t) \in Seq(Event) /\ leaf(type, t) \in Seq(Event)
         /\ <<opens(type)>> \in Seq(Event) /\ <<closes(type)>> \in Seq(Event)
  <1>1. \A e \in Event : <<e>> \in Seq(Event) OBVIOUS
  <1>2. <<>> \in Seq(Event) OBVIOUS
  <1>3. \A u \in Texts : u # NONE BY TextsAssumption
  <1> QED BY <1>1, <1>2, <1>3, EventTyped DEF named, leaf, opens, closes

\* The parts of a container.
parts(s, c, E) == [k \in DOMAIN c |-> named(s[c[k]].key) \o E[c[k]]]

\* The calls of every node.
Calls(s, E) == s \in Seq(Node) /\ E \in [DOMAIN s -> Seq(Event)]

\* The open containers, each the last member of the one outside it.
Spine(s, st) ==
  /\ st \in Seq(DOMAIN s)
  /\ \A d, e \in DOMAIN st : d < e => st[d] < st[e]
  /\ st # <<>> => st[1] = 1
  /\ \A d \in DOMAIN st :
       /\ s[st[d]].type \in Containers
       /\ s[st[d]].links.parent = IF d = 1 THEN NONE ELSE st[d - 1]
       /\ d # Len(st) => s[st[d]].links.last_child = st[d + 1]

Open(st) == {st[d] : d \in DOMAIN st}

\* q is open and not the innermost.
Outside(st, q) == \E d \in DOMAIN st : d # Len(st) /\ q = st[d]

TypedParts(s, c, E) ==
  /\ Parts(Event, parts(s, c, E)) /\ Len(parts(s, c, E)) = Len(c) /\ Len(c) \in Nat
  /\ \A k \in 1 .. Len(c) :
       /\ parts(s, c, E)[k] = named(s[c[k]].key) \o E[c[k]]
       /\ named(s[c[k]].key) \in Seq(Event) /\ E[c[k]] \in Seq(Event)
       /\ c[k] \in DOMAIN s

\* Parts are sequences of calls.
LEMMA PartsTyped ==
  ASSUME NEW s, NEW E, Calls(s, E), NEW i, NEW c, Chained(s, i, c)
  PROVE  TypedParts(s, c, E)
  <1> DEFINE V == Seq(Event)
             n == Len(c)
             p == parts(s, c, E)
  <1>1. s \in Seq(Node) BY DEF Calls
  <1>2. n \in Nat /\ DOMAIN c = 1 .. n /\ \A k \in 1 .. n : c[k] \in DOMAIN s
    <2>1. DOMAIN s = 1 .. Len(s) BY <1>1
    <2> QED BY <1>1, <2>1, ChainFacts
  <1>3. \A j \in DOMAIN s : s[j].key \in Texts \cup {NONE} /\ s[j].type \in Types
    <2>1. \A j \in DOMAIN s : s[j] \in Node BY <1>1
    <2> QED BY <2>1 DEF Node
  <1> HIDE DEF n
  <1>4. ASSUME NEW k \in 1 .. n
        PROVE  named(s[c[k]].key) \in V /\ E[c[k]] \in V /\ c[k] \in DOMAIN s
    <2>1. c[k] \in DOMAIN s BY <1>2
    <2>2. s[c[k]].key \in Texts \cup {NONE} /\ s[c[k]].type \in Types BY <1>3, <2>1
    <2>3. named(s[c[k]].key) \in V BY <2>2, CallsTyped
    <2>4. E[c[k]] \in V BY <2>1 DEF Calls
    <2> QED BY <2>1, <2>3, <2>4
  <1>5. p = [k \in 1 .. n |-> named(s[c[k]].key) \o E[c[k]]] BY <1>2 DEF parts
  <1>6. \A k \in 1 .. n : named(s[c[k]].key) \o E[c[k]] \in V
    <2> SUFFICES ASSUME NEW k \in 1 .. n PROVE named(s[c[k]].key) \o E[c[k]] \in V OBVIOUS
    <2> DEFINE a == named(s[c[k]].key)
               b == E[c[k]]
    <2>1. a \in Seq(Event) /\ b \in Seq(Event) BY <1>4
    <2> HIDE DEF a, b
    <2>2. a \o b \in Seq(Event) BY <2>1, ConcatProperties
    <2> QED BY <2>2 DEF a, b
  <1> HIDE DEF V, p
  <1>7. p \in [1 .. n -> V] BY <1>5, <1>6
  <1>8. p \in Seq(V) /\ Len(p) = n BY <1>2, <1>7, FunctionIsSeq
  <1> QED BY <1>2, <1>4, <1>5, <1>8 DEF TypedParts, Parts, V, p, n

\* Of the members of a node only the last can be open, and only outside the innermost container.
LEMMA OpenMember ==
  ASSUME NEW s \in Seq(Node), NEW st, Spine(s, st), NEW q \in DOMAIN s, NEW c, Chained(s, q, c),
         NEW k \in 1 .. Len(c)
  PROVE  c[k] \in Open(st) <=> (Outside(st, q) /\ k = Len(c))
  <1> DEFINE n == Len(st)
             l == Len(c)
  <1>1. /\ n \in Nat /\ DOMAIN st = 1 .. n /\ \A d \in 1 .. n : st[d] \in Nat
        /\ st = <<>> <=> n = 0
    BY DEF Spine
  <1>2. l \in Nat /\ DOMAIN c = 1 .. l /\ \A j \in 1 .. l : c[j] # NONE /\ c[j] \in Nat
    BY ChainFacts
  <1>3. /\ \A j \in 1 .. l : s[c[j]].links.parent = q
        /\ \A j \in 1 .. l : s[c[j]].links.next_sibling = IF j = l THEN NONE ELSE c[j + 1]
        /\ l # 0 => s[q].links.last_child = c[l]
    BY <1>2, ChainFacts DEF Chained
  <1>4. /\ \A d, e \in 1 .. n : d < e => st[d] < st[e]
        /\ \A d \in 1 .. n : s[st[d]].links.parent = IF d = 1 THEN NONE ELSE st[d - 1]
        /\ \A d \in 1 .. n : d # n => s[st[d]].links.last_child = st[d + 1]
    BY <1>1 DEF Spine
  <1>5. q # NONE /\ q \in Nat BY NoneAssumption
  <1> HIDE DEF n, l
  <1>6. ASSUME Outside(st, q)
        PROVE  /\ c[l] \in Open(st)
               /\ \A j \in 1 .. l : c[j] \in Open(st) => j = l
    <2>1. PICK d \in 1 .. n : d # n /\ q = st[d] BY <1>1, <1>6 DEF Outside, n
    <2>2. d + 1 \in 1 .. n BY <1>1, <2>1
    <2>3. l # 0 /\ l \in 1 .. l BY <1>2 DEF l
    <2>4. c[l] = st[d + 1] BY <1>3, <1>4, <2>1, <2>3
    <2>5. c[l] \in Open(st) BY <1>1, <2>2, <2>4 DEF Open
    <2>6. ASSUME NEW j \in 1 .. l, c[j] \in Open(st) PROVE j = l
      <3>1. PICK e \in 1 .. n : c[j] = st[e] BY <1>1, <2>6 DEF Open
      <3>2. e # 1 /\ st[e - 1] = q
        <4>1. s[st[e]].links.parent = q BY <1>3, <3>1
        <4> QED BY <1>4, <1>5, <4>1
      <3>3. e - 1 \in 1 .. n BY <1>1, <3>2
      <3>4. e - 1 = d
        <4>1. /\ e - 1 < d => st[e - 1] < st[d]
              /\ d < e - 1 => st[d] < st[e - 1]
          BY <1>4, <2>1, <3>3
        <4>2. st[e - 1] = st[d] /\ st[d] \in Nat BY <1>1, <2>1, <3>2
        <4> QED BY <1>1, <2>1, <3>3, <4>1, <4>2
      <3>5. c[j] = c[l] BY <2>4, <3>1, <3>4
      <3>6. j # l => j + 1 \in 1 .. l BY <1>2
      <3> QED BY <1>2, <1>3, <2>3, <3>5, <3>6
    <2> QED BY <2>5, <2>6
  <1>7. ASSUME ~Outside(st, q), c[k] \in Open(st) PROVE FALSE
    <2>1. PICK e \in 1 .. n : c[k] = st[e] BY <1>1, <1>7 DEF Open
    <2>2. e # 1 /\ st[e - 1] = q BY <1>3, <1>4, <1>5, <2>1, SMTT(40) DEF l
    <2>3. e - 1 \in 1 .. n /\ e - 1 # n BY <1>1, <2>2
    <2> QED BY <1>1, <1>7, <2>2, <2>3 DEF Outside, n
  <1> QED BY <1>6, <1>7 DEF l

\* The open containers have got the calls X more; the nodes are otherwise the same.
Grown(s, st, E, X, g, F) ==
  /\ X \in Seq(Event) /\ DOMAIN s \subseteq DOMAIN g
  /\ \A i \in DOMAIN s : SameNode(s[i], g[i])
  /\ \A i \in DOMAIN s : F[i] = IF i \in Open(st) THEN E[i] \o X ELSE E[i]

\* A container whose last member is open has got them with that member.
LEMMA PartsGrown ==
  ASSUME NEW s, NEW E, Calls(s, E), NEW st, Spine(s, st), NEW g, NEW F, Calls(g, F), NEW X,
         Grown(s, st, E, X, g, F), NEW q \in DOMAIN s, NEW c, Chained(s, q, c), NEW i, Chained(g, i, c)
  PROVE  Strung(parts(g, c, F)) = IF Outside(st, q) THEN Strung(parts(s, c, E)) \o X
                                  ELSE Strung(parts(s, c, E))
  <1> DEFINE p == parts(s, c, E)
             r == parts(g, c, F)
             l == Len(c)
  <1>1. s \in Seq(Node) BY DEF Calls
  <1>2. /\ Parts(Event, p) /\ Len(p) = l /\ l \in Nat
        /\ \A k \in 1 .. l : /\ p[k] = named(s[c[k]].key) \o E[c[k]]
                             /\ named(s[c[k]].key) \in Seq(Event) /\ E[c[k]] \in Seq(Event)
                             /\ c[k] \in DOMAIN s
    <2>1. TypedParts(s, c, E) BY PartsTyped
    <2> QED BY <2>1 DEF TypedParts
  <1>3. /\ Parts(Event, r) /\ Len(r) = l
        /\ \A k \in 1 .. l : r[k] = named(g[c[k]].key) \o F[c[k]]
    <2>1. TypedParts(g, c, F) BY PartsTyped
    <2> QED BY <2>1 DEF TypedParts
  <1>4. \A k \in 1 .. l : c[k] \in Open(st) <=> (Outside(st, q) /\ k = l)
    BY <1>1, OpenMember
  <1>5. X \in Seq(Event) BY DEF Grown
  <1>6. \A k \in 1 .. l : g[c[k]].key = s[c[k]].key
    BY <1>2 DEF Grown, SameNode
  <1>7. \A k \in 1 .. l : F[c[k]] = IF c[k] \in Open(st) THEN E[c[k]] \o X ELSE E[c[k]]
    BY <1>2 DEF Grown
  <1>8. \A k \in 1 .. l : c[k] \notin Open(st) => r[k] = p[k]
    BY <1>2, <1>3, <1>6, <1>7
  <1>9. CASE ~Outside(st, q)
    <2>1. \A k \in 1 .. l : r[k] = p[k] BY <1>4, <1>8, <1>9
    <2>2. p = [k \in 1 .. l |-> p[k]] /\ r = [k \in 1 .. l |-> r[k]]
      <3>1. DOMAIN c = 1 .. l BY <1>1, ChainFacts
      <3> QED BY <3>1 DEF parts
    <2> HIDE DEF p, r, l
    <2>3. p = r BY <2>1, <2>2
    <2> QED BY <1>9, <2>3 DEF p, r
  <1>10. CASE Outside(st, q)
    <2>1. c # <<>>
      <3>1. PICK d \in DOMAIN st : d # Len(st) /\ q = st[d] BY <1>10 DEF Outside
      <3>2. st \in Seq(DOMAIN s) BY DEF Spine
      <3>3. d + 1 \in DOMAIN st BY <3>1, <3>2
      <3>4. st[d + 1] # NONE
        <4>1. st[d + 1] \in DOMAIN s /\ DOMAIN s = 1 .. Len(s) BY <1>1, <3>2, <3>3
        <4> QED BY <4>1, NoneAssumption
      <3>5. s[q].links.last_child = st[d + 1] BY <3>1 DEF Spine
      <3> QED BY <3>4, <3>5 DEF Chained
    <2>2. l # 0 /\ l \in 1 .. l
      <3>1. l # 0 BY <1>1, <2>1, ChainFacts
      <3> QED BY <1>2, <3>1
    <2>3. p # <<>> BY <1>2, <2>2, LenProperties DEF Parts
    <2>4. \A k \in 1 .. l - 1 : r[k] = p[k] BY <1>2, <1>4, <1>8
    <2>5. r[l] = p[l] \o X
      <3> DEFINE a == named(s[c[l]].key)
                 b == E[c[l]]
      <3>1. a \in Seq(Event) /\ b \in Seq(Event) /\ p[l] = a \o b BY <1>2, <2>2
      <3>2. r[l] = a \o (b \o X) BY <1>3, <1>4, <1>6, <1>7, <1>10, <2>2
      <3> HIDE DEF a, b, l, p, r
      <3>3. (a \o b) \o X = a \o (b \o X) BY <1>5, <3>1, ConcatAssociative
      <3> QED BY <3>1, <3>2, <3>3
    <2> HIDE DEF p, r, l
    <2>6. LastGrown(r, p, X) BY <1>2, <1>3, <2>3, <2>4, <2>5 DEF LastGrown
    <2>7. Parts(Event, p) /\ Parts(Event, r) BY <1>2, <1>3
    <2>8. Strung(r) = Strung(p) \o X BY <1>5, <2>6, <2>7, StrungGrown
    <2> QED BY <1>10, <2>8 DEF p, r
  <1> QED BY <1>9, <1>10

\* The calls of a node, written out.
LEMMA NodeCalls ==
  ASSUME NEW s, NEW E, NEW open, NEW c, NEW i
  PROVE  node_calls(s, open, c, E, i) =
           IF s[i].type \notin Containers THEN leaf(s[i].type, s[i].value)
           ELSE <<opens(s[i].type)>> \o Strung(parts(s, c, E))
                  \o (IF i \in open THEN <<>> ELSE <<closes(s[i].type)>>)
  BY DEF node_calls, parts

\* Joining three sequences, the second one grown.
LEMMA GrownInside ==
  ASSUME NEW C, NEW a, NEW b, NEW x, a \in Seq(C), b \in Seq(C), x \in Seq(C)
  PROVE  /\ (a \o b \o <<>>) \o x = a \o (b \o x) \o <<>>
         /\ (a \o b \o <<>>) \o x = a \o b \o x
  <1>1. <<>> \in Seq(C) /\ a \o b \in Seq(C) /\ b \o x \in Seq(C) /\ a \o (b \o x) \in Seq(C)
    BY ConcatProperties
  <1>2. (a \o b) \o <<>> = a \o b /\ (a \o (b \o x)) \o <<>> = a \o (b \o x)
    BY <1>1, ConcatEmptySeq
  <1>3. (a \o b) \o x = a \o (b \o x) BY ConcatAssociative
  <1> QED BY <1>2, <1>3

\* The brackets of a container are calls.
LEMMA NodeTyped ==
  ASSUME NEW s, NEW E, Calls(s, E), NEW q \in DOMAIN s
  PROVE  /\ s[q].type \in Types /\ s[q].key \in Texts \cup {NONE} /\ s[q].value \in Texts \cup {NONE}
         /\ <<opens(s[q].type)>> \in Seq(Event) /\ <<closes(s[q].type)>> \in Seq(Event)
         /\ E[q] \in Seq(Event)
  <1>1. s[q] \in Node BY DEF Calls
  <1>2. s[q].type \in Types /\ s[q].key \in Texts \cup {NONE} /\ s[q].value \in Texts \cup {NONE}
    BY <1>1 DEF Node
  <1>3. E[q] \in Seq(Event) BY DEF Calls
  <1> QED BY <1>2, <1>3, CallsTyped

\* A node that is not the innermost container: the same calls as before, with those its
\* last member has got.
LEMMA NodeGrown ==
  ASSUME NEW s, NEW E, Calls(s, E), NEW st, Spine(s, st), NEW g, NEW F, Calls(g, F), NEW X,
         Grown(s, st, E, X, g, F), NEW q \in DOMAIN s, NEW c, Chained(s, q, c), Chained(g, q, c),
         q \in Open(st) => Outside(st, q),
         NEW open, q \in open <=> q \in Open(st),
         E[q] = node_calls(s, Open(st), c, E, q)
  PROVE  F[q] = node_calls(g, open, c, F, q)
  <1> DEFINE a == <<opens(s[q].type)>>
             b == Strung(parts(s, c, E))
             z == <<closes(s[q].type)>>
  <1>1. g[q].type = s[q].type /\ g[q].value = s[q].value BY DEF Grown, SameNode
  <1>2. F[q] = IF q \in Open(st) THEN E[q] \o X ELSE E[q] BY DEF Grown
  <1>3. X \in Seq(Event) BY DEF Grown
  <1>4. a \in Seq(Event) /\ z \in Seq(Event) BY NodeTyped
  <1>5. b \in Seq(Event) BY PartsTyped, StrungTyped DEF TypedParts
  <1>6. E[q] = IF s[q].type \notin Containers THEN leaf(s[q].type, s[q].value)
               ELSE a \o b \o (IF q \in Open(st) THEN <<>> ELSE z)
    BY NodeCalls
  <1>7. node_calls(g, open, c, F, q) =
          IF s[q].type \notin Containers THEN leaf(s[q].type, s[q].value)
          ELSE a \o Strung(parts(g, c, F)) \o (IF q \in Open(st) THEN <<>> ELSE z)
    BY <1>1, NodeCalls
  <1>8. Strung(parts(g, c, F)) = IF Outside(st, q) THEN b \o X ELSE b
    BY PartsGrown
  <1>9. Outside(st, q) => q \in Open(st) BY DEF Outside, Open
  <1>10. q \in Open(st) => s[q].type \in Containers BY DEF Spine, Open
  <1> HIDE DEF a, b, z
  <1>11. CASE q \notin Open(st) BY <1>2, <1>6, <1>7, <1>8, <1>9, <1>11
  <1>12. CASE q \in Open(st)
    <2>1. E[q] = a \o b \o <<>> /\ F[q] = E[q] \o X BY <1>2, <1>6, <1>10, <1>12
    <2>2. node_calls(g, open, c, F, q) = a \o (b \o X) \o <<>>
      BY <1>7, <1>8, <1>10, <1>12
    <2>3. (a \o b \o <<>>) \o X = a \o (b \o X) \o <<>> BY <1>3, <1>4, <1>5, GrownInside
    <2> QED BY <2>1, <2>2, <2>3
  <1> QED BY <1>11, <1>12

\* The innermost container ends.
LEMMA NodeEnds ==
  ASSUME NEW s, NEW E, Calls(s, E), NEW st, Spine(s, st), NEW F, Calls(s, F), NEW q \in DOMAIN s,
         Grown(s, st, E, <<closes(s[q].type)>>, s, F), NEW c, Chained(s, q, c),
         q \in Open(st), ~Outside(st, q), NEW open, q \notin open,
         E[q] = node_calls(s, Open(st), c, E, q)
  PROVE  F[q] = node_calls(s, open, c, F, q)
  <1> DEFINE a == <<opens(s[q].type)>>
             b == Strung(parts(s, c, E))
             z == <<closes(s[q].type)>>
  <1>1. F[q] = E[q] \o z BY DEF Grown
  <1>2. a \in Seq(Event) /\ z \in Seq(Event) BY NodeTyped
  <1>3. b \in Seq(Event) BY PartsTyped, StrungTyped DEF TypedParts
  <1>4. s[q].type \in Containers BY DEF Spine, Open
  <1>5. E[q] = a \o b \o <<>> BY <1>4, NodeCalls
  <1>6. node_calls(s, open, c, F, q) = a \o Strung(parts(s, c, F)) \o z BY <1>4, NodeCalls
  <1>7. Strung(parts(s, c, F)) = b BY PartsGrown
  <1> HIDE DEF a, b, z
  <1>8. (a \o b \o <<>>) \o z = a \o b \o z BY <1>2, <1>3, GrownInside
  <1> QED BY <1>1, <1>5, <1>6, <1>7, <1>8

\* The innermost container gets a member.
LEMMA NodeGets ==
  ASSUME NEW s, NEW E, Calls(s, E), NEW st, Spine(s, st), NEW x, NEW g, NEW q,
         Attaches(s, x, q, g), NEW F, Calls(g, F),
         Grown(s, st, E, named(x.key) \o F[Len(s) + 1], g, F), NEW c, Chained(s, q, c),
         q \in Open(st), ~Outside(st, q), NEW open, q \in open,
         E[q] = node_calls(s, Open(st), c, E, q)
  PROVE  F[q] = node_calls(g, open, Append(c, Len(s) + 1), F, q)
  <1> DEFINE a == <<opens(s[q].type)>>
             b == Strung(parts(s, c, E))
             X == named(x.key) \o F[Len(s) + 1]
             n == Len(s) + 1
             d == Append(c, n)
             p == parts(s, c, E)
             r == parts(g, d, F)
             l == Len(c)
  <1>1. q \in DOMAIN s /\ s \in Seq(Node) BY DEF Attaches
  <1>2. F[q] = E[q] \o X /\ X \in Seq(Event) BY <1>1 DEF Grown
  <1>3. a \in Seq(Event) BY <1>1, NodeTyped
  <1>4. b \in Seq(Event) BY PartsTyped, StrungTyped DEF TypedParts
  <1>5. s[q].type \in Containers /\ g[q].type = s[q].type BY <1>1 DEF Spine, Open, Grown, SameNode
  <1>6. E[q] = a \o b \o <<>> BY <1>5, NodeCalls
  <1>7. node_calls(g, open, d, F, q) = a \o Strung(r) \o <<>> BY <1>5, NodeCalls
  <1>8. /\ Parts(Event, p) /\ Len(p) = l /\ l \in Nat
        /\ \A k \in 1 .. l : p[k] = named(s[c[k]].key) \o E[c[k]] /\ c[k] \in DOMAIN s
    <2>1. TypedParts(s, c, E) BY PartsTyped
    <2> QED BY <2>1 DEF TypedParts
  <1>9. Chained(g, q, d) BY ChainLonger
  <1>10. /\ Parts(Event, r) /\ Len(r) = Len(d)
         /\ \A k \in 1 .. Len(d) : r[k] = named(g[d[k]].key) \o F[d[k]]
    <2>1. TypedParts(g, d, F)
      <3> HIDE DEF d
      <3> QED BY <1>9, PartsTyped
    <2> QED BY <2>1 DEF TypedParts
  <1>11. Len(d) = l + 1 /\ d[l + 1] = n /\ \A k \in 1 .. l : d[k] = c[k]
    <2> DEFINE S == DOMAIN g
    <2>1. c \in Seq(S) /\ n \in S
      <3>1. c \in Seq(DOMAIN s) BY DEF Chained
      <3> QED BY <3>1, AttachPositions, SeqMonotonic
    <2> HIDE DEF S, n
    <2> QED BY <2>1, AppendProperties
  <1>12. r[l + 1] = X
    <2>1. l + 1 \in 1 .. Len(d) BY <1>8, <1>11
    <2>2. g[n].key = x.key BY AttachPositions
    <2>3. r[l + 1] = named(g[n].key) \o F[n] BY <1>10, <1>11, <2>1
    <2> QED BY <2>2, <2>3
  <1>13. \A k \in 1 .. l : r[k] = p[k]
    <2> SUFFICES ASSUME NEW k \in 1 .. l PROVE r[k] = p[k] OBVIOUS
    <2>1. c[k] \notin Open(st) BY <1>1, OpenMember
    <2>2. c[k] \in DOMAIN s /\ p[k] = named(s[c[k]].key) \o E[c[k]] BY <1>8
    <2>3. F[c[k]] = E[c[k]] /\ g[c[k]].key = s[c[k]].key BY <2>1, <2>2 DEF Grown, SameNode
    <2>4. k \in 1 .. Len(d) /\ d[k] = c[k] BY <1>8, <1>11
    <2>5. r[k] = named(g[d[k]].key) \o F[d[k]] BY <1>10, <2>4
    <2> QED BY <2>2, <2>3, <2>4, <2>5
  <1> HIDE DEF r, p, X, l, d
  <1>14. Strung(r) = b \o X
    <2>1. Len(r) = Len(p) + 1 /\ \A k \in 1 .. Len(p) : r[k] = p[k] BY <1>8, <1>10, <1>11, <1>13
    <2>2. Strung(r) = Strung(p) \o r[Len(r)] BY <1>8, <1>10, <2>1, StrungStep, SMTT(40)
    <2>3. r[Len(r)] = X BY <1>10, <1>11, <1>12
    <2> QED BY <2>2, <2>3 DEF p
  <1> HIDE DEF a, b
  <1>15. (a \o b \o <<>>) \o X = a \o (b \o X) \o <<>> BY <1>2, <1>3, <1>4, GrownInside, SMTT(40)
  <1>16. F[q] = node_calls(g, open, d, F, q) BY <1>2, <1>6, <1>7, <1>14, <1>15
  <1> QED BY <1>16 DEF d

\* E tells the calls of every node, K its members.
Record(s, st, K, E) ==
  /\ Calls(s, E) /\ Spine(s, st)
  /\ \A i \in DOMAIN s : Chained(s, i, K[i]) /\ E[i] = node_calls(s, Open(st), K[i], E, i)

\* Some record of these nodes tells the calls T of the first.
Tells(s, st, T) == \E K, E : Record(s, st, K, E) /\ E[1] = T

\* The innermost container and the ones outside it.
LEMMA SpineFacts ==
  ASSUME NEW s \in Seq(Node), NEW st, Spine(s, st), st # <<>>
  PROVE  /\ Len(st) \in Nat \ {0} /\ DOMAIN st = 1 .. Len(st) /\ st[Len(st)] \in DOMAIN s
         /\ st[Len(st)] \in Open(st) /\ ~Outside(st, st[Len(st)])
         /\ \A q \in Open(st) : q # st[Len(st)] => Outside(st, q)
         /\ 1 \in Open(st) /\ 1 \in DOMAIN s /\ Open(st) \subseteq DOMAIN s
  <1> DEFINE n == Len(st)
  <1>1. st \in Seq(DOMAIN s) /\ st[1] = 1 BY DEF Spine
  <1>2. n \in Nat \ {0} /\ DOMAIN st = 1 .. n /\ n \in 1 .. n /\ 1 \in 1 .. n BY <1>1
  <1>3. \A d \in 1 .. n : st[d] \in DOMAIN s /\ st[d] \in Nat
    <2>1. DOMAIN s \subseteq Nat OBVIOUS
    <2> QED BY <1>1, <1>2, <2>1
  <1>4. \A d, e \in 1 .. n : d < e => st[d] < st[e] BY <1>2 DEF Spine
  <1> HIDE DEF n
  <1>5. ~Outside(st, st[n])
    <2> SUFFICES ASSUME NEW d \in 1 .. n, d # n, st[n] = st[d] PROVE FALSE
      BY <1>2 DEF Outside, n
    <2>1. d < n BY <1>2
    <2>2. st[d] < st[n] BY <1>2, <1>4, <2>1
    <2> QED BY <1>2, <1>3, <2>2
  <1>6. \A q \in Open(st) : q # st[n] => Outside(st, q) BY <1>2 DEF Open, Outside, n
  <1> QED BY <1>1, <1>2, <1>3, <1>5, <1>6 DEF Open, n

\* The innermost container ends: one more call.
LEMMA RecordEnds ==
  ASSUME NEW s, NEW st, NEW K, NEW E, Record(s, st, K, E), st # <<>>,
         NEW st2, st2 = SubSeq(st, 1, Len(st) - 1)
  PROVE  Tells(s, st2, E[1] \o <<closes(s[st[Len(st)]].type)>>)
  <1> DEFINE n == Len(st)
             p == st[n]
             Z == <<closes(s[p].type)>>
             F == [i \in DOMAIN s |-> IF i \in Open(st) THEN E[i] \o Z ELSE E[i]]
  <1>1. s \in Seq(Node) /\ Calls(s, E) /\ Spine(s, st) BY DEF Record, Calls
  <1>2. /\ n \in Nat \ {0} /\ DOMAIN st = 1 .. n /\ p \in DOMAIN s
        /\ p \in Open(st) /\ ~Outside(st, p) /\ \A q \in Open(st) : q # p => Outside(st, q)
        /\ 1 \in Open(st) /\ 1 \in DOMAIN s
    BY <1>1, SpineFacts
  <1>3. st \in Seq(DOMAIN s) BY <1>1 DEF Spine
  <1>4. st2 = [d \in 1 .. n - 1 |-> st[d]] /\ st2 \in Seq(DOMAIN s) /\ Len(st2) = n - 1
    BY <1>3, PopIs
  <1>5. Z \in Seq(Event) BY <1>1, <1>2, NodeTyped
  <1> HIDE DEF n, p, Z
  <1>6. Calls(s, F)
    <2> DEFINE V == Seq(Event)
    <2>1. \A i \in DOMAIN s : E[i] \in V BY <1>1 DEF Calls
    <2>2. \A i \in DOMAIN s : E[i] \o Z \in V BY <1>5, <2>1, ConcatProperties
    <2> HIDE DEF V
    <2>3. F \in [DOMAIN s -> V] BY <2>1, <2>2
    <2> QED BY <1>1, <2>3 DEF Calls, V
  <1>7. Grown(s, st, E, Z, s, F) BY <1>5 DEF Grown, SameNode
  <1>8. \A d \in 1 .. n - 1 : d \in 1 .. n /\ d # n BY <1>2
  <1>9. Spine(s, st2)
    <2>1. DOMAIN st2 = 1 .. n - 1 /\ \A d \in 1 .. n - 1 : st2[d] = st[d] BY <1>4
    <2>2. \A d, e \in DOMAIN st2 : d < e => st2[d] < st2[e] BY <1>1, <1>2, <1>8, <2>1 DEF Spine
    <2>3. st2 # <<>> => st2[1] = 1
      <3>1. st2 # <<>> => 1 \in 1 .. n - 1 BY <1>2, <1>4
      <3> QED BY <1>1, <1>2, <1>8, <2>1, <3>1 DEF Spine
    <2>4. ASSUME NEW d \in DOMAIN st2
          PROVE  /\ s[st2[d]].type \in Containers
                 /\ s[st2[d]].links.parent = IF d = 1 THEN NONE ELSE st2[d - 1]
                 /\ d # Len(st2) => s[st2[d]].links.last_child = st2[d + 1]
      <3>1. d \in DOMAIN st /\ d # Len(st) /\ st2[d] = st[d] BY <1>2, <1>8, <2>1 DEF n
      <3>2. /\ s[st[d]].type \in Containers
            /\ s[st[d]].links.parent = IF d = 1 THEN NONE ELSE st[d - 1]
            /\ s[st[d]].links.last_child = st[d + 1]
        BY <1>1, <3>1 DEF Spine
      <3>3. d # 1 => d - 1 \in 1 .. n - 1 BY <1>2, <2>1
      <3>4. d # Len(st2) => d + 1 \in 1 .. n - 1 BY <1>2, <1>4, <2>1
      <3> QED BY <2>1, <3>1, <3>2, <3>3, <3>4
    <2> QED BY <1>4, <2>2, <2>3, <2>4 DEF Spine
  <1>10. \A q : q \in Open(st2) <=> q \in Open(st) /\ q # p
    <2>1. DOMAIN st2 = 1 .. n - 1 /\ \A d \in 1 .. n - 1 : st2[d] = st[d] BY <1>4
    <2>2. \A d \in 1 .. n : d # n => d \in 1 .. n - 1 BY <1>2
    <2>3. \A d \in 1 .. n - 1 : st[d] # p
      <3> SUFFICES ASSUME NEW d \in 1 .. n - 1, st[d] = p PROVE FALSE OBVIOUS
      <3>1. d \in DOMAIN st /\ d # Len(st) BY <1>2, <1>8 DEF n
      <3>2. Outside(st, p) BY <3>1 DEF Outside
      <3> QED BY <1>2, <3>2
    <2> QED BY <1>2, <1>8, <2>1, <2>2, <2>3, ZenonT(60) DEF Open, p
  <1>11. ASSUME NEW q \in DOMAIN s PROVE F[q] = node_calls(s, Open(st2), K[q], F, q)
    <2>1. Chained(s, q, K[q]) /\ E[q] = node_calls(s, Open(st), K[q], E, q) BY DEF Record
    <2> HIDE DEF F
    <2>2. CASE q # p
      <3>1. q \in Open(st) => Outside(st, q) BY <1>2, <2>2
      <3>2. q \in Open(st2) <=> q \in Open(st) BY <1>10, <2>2
      <3> QED BY <1>1, <1>6, <1>7, <2>1, <3>1, <3>2, NodeGrown
    <2>3. CASE q = p
      <3>1. q \in Open(st) /\ ~Outside(st, q) /\ q \notin Open(st2) BY <1>2, <1>10, <2>3
      <3>2. Grown(s, st, E, <<closes(s[q].type)>>, s, F) BY <1>7, <2>3 DEF Z
      <3> QED BY <1>1, <1>6, <2>1, <3>1, <3>2, NodeEnds
    <2> QED BY <2>2, <2>3
  <1>12. F[1] = E[1] \o Z BY <1>2
  <1>13. Record(s, st2, K, F)
    <2>1. \A i \in DOMAIN s : Chained(s, i, K[i]) BY DEF Record
    <2> HIDE DEF F
    <2> QED BY <1>6, <1>9, <1>11, <2>1 DEF Record
  <1> HIDE DEF F
  <1> QED BY <1>12, <1>13 DEF Z, p, n, Tells

\* What a call that attaches x leaves of the stack, and the calls it stands for.
Placed(s, x, st, st2, Y) ==
  IF x.type \in Containers THEN st2 = Append(st, Len(s) + 1) /\ Y = <<opens(x.type)>>
  ELSE st2 = st /\ Y = leaf(x.type, x.value)

\* The open containers after such a call.
OpenAfter(s, x, st, st2) ==
  /\ \A i \in DOMAIN s : i \in Open(st2) <=> i \in Open(st)
  /\ Len(s) + 1 \in Open(st2) <=> x.type \in Containers

\* They are still each the last member of the one outside it.
LEMMA SpineGrows ==
  ASSUME NEW s, NEW st, Spine(s, st), st # <<>>, NEW x, NEW g, Attaches(s, x, st[Len(st)], g),
         NEW st2, NEW Y, Placed(s, x, st, st2, Y)
  PROVE  Spine(g, st2) /\ OpenAfter(s, x, st, st2)
  <1> DEFINE m == Len(st)
             n == Len(s) + 1
             q == st[m]
  <1>1. s \in Seq(Node) BY DEF Attaches
  <1>2. /\ m \in Nat \ {0} /\ DOMAIN st = 1 .. m /\ q \in DOMAIN s /\ m \in 1 .. m
        /\ \A d \in 1 .. m : st[d] \in DOMAIN s
    BY <1>1, SpineFacts DEF Spine
  <1>3. /\ g \in Seq(Node) /\ DOMAIN s = 1 .. Len(s) /\ Len(s) \in Nat /\ DOMAIN g = 1 .. n
        /\ DOMAIN s \subseteq DOMAIN g /\ n \notin DOMAIN s /\ NONE \notin DOMAIN g /\ g[n] = x
    BY AttachPositions
  <1>4. /\ st[1] = 1 /\ \A d, e \in 1 .. m : d < e => st[d] < st[e]
        /\ \A d \in 1 .. m : /\ s[st[d]].type \in Containers
                             /\ s[st[d]].links.parent = IF d = 1 THEN NONE ELSE st[d - 1]
                             /\ d # m => s[st[d]].links.last_child = st[d + 1]
    BY <1>2 DEF Spine
  <1> HIDE DEF m
  <1>5. \A i \in DOMAIN s : /\ g[i].type = s[i].type
                            /\ g[i].links.parent = s[i].links.parent
                            /\ g[i].links.last_child = IF i = q THEN n ELSE s[i].links.last_child
    <2>1. \A i \in DOMAIN s : g[i].type = s[i].type BY DEF Attaches, Joined, SameNode
    <2> QED BY <2>1, AttachLinks DEF m
  <1>6. \A d \in 1 .. m : d # m => st[d] # q
    <2> SUFFICES ASSUME NEW d \in 1 .. m, d # m, st[d] = q PROVE FALSE OBVIOUS
    <2>1. d < m BY <1>2
    <2>2. st[d] < q /\ q \in Nat BY <1>2, <1>3, <1>4, <2>1
    <2> QED BY <2>2
  <1>7. g[n].links.parent = q BY <1>3 DEF Attaches, links_init, m
  <1>8. st \in Seq(DOMAIN s) /\ st \in Seq(DOMAIN g)
    <2>1. st \in Seq(DOMAIN s) BY DEF Spine
    <2> QED BY <1>3, <2>1, SeqMonotonic
  <1>9. CASE x.type \notin Containers
    <2>1. st2 = st BY <1>9 DEF Placed
    <2>2. \A d \in 1 .. m : /\ g[st[d]].type \in Containers
                            /\ g[st[d]].links.parent = IF d = 1 THEN NONE ELSE st[d - 1]
                            /\ d # m => g[st[d]].links.last_child = st[d + 1]
      BY <1>2, <1>4, <1>5, <1>6
    <2>3. Spine(g, st2) BY <1>2, <1>4, <1>8, <2>1, <2>2 DEF Spine, m
    <2>4. n \notin Open(st2) BY <1>2, <1>3, <2>1 DEF Open
    <2> QED BY <1>9, <2>1, <2>3, <2>4 DEF OpenAfter
  <1>10. CASE x.type \in Containers
    <2>1. st2 = Append(st, n) BY <1>10 DEF Placed
    <2>2. /\ st2 \in Seq(DOMAIN g) /\ Len(st2) = m + 1 /\ st2[m + 1] = n
          /\ \A d \in 1 .. m : st2[d] = st[d]
      <3> DEFINE S == DOMAIN g
      <3>1. st \in Seq(S) /\ n \in S BY <1>3, <1>8
      <3> HIDE DEF S, n
      <3>2. /\ Append(st, n) \in Seq(S) /\ Len(Append(st, n)) = Len(st) + 1
            /\ Append(st, n)[Len(st) + 1] = n
            /\ \A d \in 1 .. Len(st) : Append(st, n)[d] = st[d]
        BY <3>1, AppendProperties
      <3> QED BY <2>1, <3>2 DEF S, m
    <2>3. DOMAIN st2 = 1 .. m + 1 /\ st2 # <<>> BY <1>2, <2>2
    <2>4. \A d \in 1 .. m + 1 : d \in 1 .. m \/ d = m + 1 BY <1>2
    <2>5. ASSUME NEW d \in 1 .. m + 1, NEW e \in 1 .. m + 1, d < e PROVE st2[d] < st2[e]
      <3>1. d \in 1 .. m BY <1>2, <2>4, <2>5
      <3>2. CASE e \in 1 .. m BY <1>4, <2>2, <2>5, <3>1, <3>2
      <3>3. CASE e = m + 1
        <4>1. st[d] \in 1 .. Len(s) BY <1>2, <1>3, <3>1
        <4> QED BY <1>3, <2>2, <3>1, <3>3, <4>1
      <3> QED BY <2>4, <3>2, <3>3
    <2>6. ASSUME NEW d \in 1 .. m
          PROVE  /\ g[st2[d]].type \in Containers
                 /\ g[st2[d]].links.parent = IF d = 1 THEN NONE ELSE st2[d - 1]
                 /\ g[st2[d]].links.last_child = st2[d + 1]
      <3>1. d # 1 => d - 1 \in 1 .. m BY <1>2
      <3>2. d # m => d + 1 \in 1 .. m BY <1>2
      <3>3. st2[d + 1] = IF d = m THEN n ELSE st[d + 1] BY <2>2, <3>2
      <3>4. st[d] \in DOMAIN s /\ st2[d] = st[d] BY <1>2, <2>2
      <3>5. g[st[d]].type \in Containers /\ g[st[d]].links.parent = s[st[d]].links.parent
        BY <1>4, <1>5, <3>4
      <3>6. g[st[d]].links.parent = IF d = 1 THEN NONE ELSE st2[d - 1] BY <1>4, <2>2, <3>1, <3>5
      <3>7. g[st[d]].links.last_child = IF d = m THEN n ELSE s[st[d]].links.last_child
        BY <1>5, <1>6, <3>4
      <3>8. g[st[d]].links.last_child = st2[d + 1] BY <1>4, <3>3, <3>7
      <3> QED BY <3>4, <3>5, <3>6, <3>8
    <2>7. /\ g[st2[m + 1]].type \in Containers
          /\ g[st2[m + 1]].links.parent = st2[(m + 1) - 1] /\ m + 1 # 1
      <3>1. (m + 1) - 1 = m /\ m + 1 # 1 BY <1>2
      <3> QED BY <1>2, <1>3, <1>7, <1>10, <2>2, <3>1
    <2>8. st2[1] = 1
      <3>1. 1 \in 1 .. m BY <1>2
      <3> QED BY <1>4, <2>2, <3>1
    <2>9. Spine(g, st2)
      <3>1. \A d, e \in DOMAIN st2 : d < e => st2[d] < st2[e] BY <2>3, <2>5
      <3>2. \A d \in DOMAIN st2 :
               /\ g[st2[d]].type \in Containers
               /\ g[st2[d]].links.parent = IF d = 1 THEN NONE ELSE st2[d - 1]
               /\ d # Len(st2) => g[st2[d]].links.last_child = st2[d + 1]
        BY <2>2, <2>3, <2>4, <2>6, <2>7
      <3> QED BY <2>2, <2>8, <3>1, <3>2 DEF Spine
    <2>10. \A i : i \in Open(st2) <=> i \in Open(st) \/ i = n
      BY <1>2, <2>2, <2>3, <2>4 DEF Open
    <2> QED BY <1>3, <1>10, <2>9, <2>10 DEF OpenAfter
  <1> QED BY <1>9, <1>10

\* The innermost container gets a member: its key and what opens or writes it are called last.
LEMMA RecordGets ==
  ASSUME NEW s, NEW st, NEW K, NEW E, Record(s, st, K, E), st # <<>>, NEW x, x \in Node,
         NEW g, Attaches(s, x, st[Len(st)], g), NEW st2, NEW Y, Placed(s, x, st, st2, Y)
  PROVE  Tells(g, st2, E[1] \o (named(x.key) \o Y))
  <1> DEFINE n == Len(s) + 1
             q == st[Len(st)]
             X == named(x.key) \o Y
             F == [i \in DOMAIN g |-> IF i = n THEN Y ELSE IF i \in Open(st) THEN E[i] \o X ELSE E[i]]
             L == [i \in DOMAIN g |-> IF i = n THEN <<>> ELSE IF i = q THEN Append(K[q], n) ELSE K[i]]
  <1>1. s \in Seq(Node) /\ Calls(s, E) /\ Spine(s, st) BY DEF Record, Calls
  <1>2. /\ q \in DOMAIN s /\ q \in Open(st) /\ ~Outside(st, q) /\ 1 \in Open(st) /\ 1 \in DOMAIN s
        /\ \A i \in Open(st) : i # q => Outside(st, i)
    BY <1>1, SpineFacts
  <1>3. /\ g \in Seq(Node) /\ DOMAIN g = DOMAIN s \cup {n} /\ n \notin DOMAIN s /\ g[n] = x
    <2>1. /\ g \in Seq(Node) /\ DOMAIN s = 1 .. Len(s) /\ Len(s) \in Nat /\ DOMAIN g = 1 .. n
          /\ n \notin DOMAIN s /\ g[n] = x
      BY AttachPositions
    <2> QED BY <2>1
  <1>4. Spine(g, st2) /\ OpenAfter(s, x, st, st2) BY <1>1, SpineGrows
  <1>5. X \in Seq(Event) /\ Y \in Seq(Event)
    <2>1. x.type \in Types /\ x.key \in Texts \cup {NONE} /\ x.value \in Texts \cup {NONE} BY DEF Node
    <2>2. Y \in Seq(Event) BY <2>1, CallsTyped DEF Placed
    <2>3. named(x.key) \in Seq(Event) BY <2>1, CallsTyped
    <2> DEFINE a == named(x.key)
    <2> HIDE DEF a
    <2>4. a \o Y \in Seq(Event)
      <3>1. a \in Seq(Event) BY <2>3 DEF a
      <3> QED BY <2>2, <3>1, ConcatProperties
    <2> QED BY <2>2, <2>4 DEF a
  <1> HIDE DEF n, q, X
  <1>6. Calls(g, F)
    <2> DEFINE V == Seq(Event)
    <2>1. \A i \in DOMAIN s : E[i] \in V BY <1>1 DEF Calls
    <2>2. \A i \in DOMAIN s : E[i] \o X \in V BY <1>5, <2>1, ConcatProperties
    <2>3. Y \in V BY <1>5
    <2> HIDE DEF V
    <2>4. F \in [DOMAIN g -> V] BY <1>3, <2>1, <2>2, <2>3
    <2> QED BY <1>3, <2>4 DEF Calls, V
  <1>7. Grown(s, st, E, X, g, F)
    <2>1. \A i \in DOMAIN s : SameNode(s[i], g[i]) BY DEF Attaches, Joined
    <2>2. \A i \in DOMAIN s : F[i] = IF i \in Open(st) THEN E[i] \o X ELSE E[i]
      BY <1>3
    <2> QED BY <1>3, <1>5, <2>1, <2>2 DEF Grown
  <1>8. F[n] = Y /\ L[n] = <<>> BY <1>3
  <1>9. F[1] = E[1] \o X BY <1>2, <1>3
  <1>10. \A i \in DOMAIN s : i # q => L[i] = K[i] BY <1>3
  <1>11. L[q] = Append(K[q], n) BY <1>2, <1>3
  <1>12. Attaches(s, x, q, g) /\ \A i \in DOMAIN s : Chained(s, i, K[i])
    BY DEF Record, q
  <1> HIDE DEF F, L
  <1>13. Chained(g, n, L[n]) /\ F[n] = node_calls(g, Open(st2), L[n], F, n)
    <2>1. Chained(g, n, <<>>) BY <1>12, ChainNew DEF n
    <2>2. parts(g, <<>>, F) = <<>> BY DEF parts
    <2>3. node_calls(g, Open(st2), <<>>, F, n) =
            IF x.type \notin Containers THEN leaf(x.type, x.value)
            ELSE <<opens(x.type)>> \o <<>> \o (IF n \in Open(st2) THEN <<>> ELSE <<closes(x.type)>>)
      BY <1>3, <2>2, NodeCalls, StrungEmpty
    <2>4. n \in Open(st2) <=> x.type \in Containers BY <1>4 DEF OpenAfter, n
    <2>5. x.type \in Containers => <<opens(x.type)>> \o <<>> \o <<>> = <<opens(x.type)>>
      <3> DEFINE a == <<opens(x.type)>>
      <3>1. x.type \in Containers => a \in Seq(Event) BY <1>5 DEF Placed
      <3> HIDE DEF a
      <3>2. x.type \in Containers => a \o <<>> = a BY <3>1, ConcatEmptySeq
      <3>3. x.type \in Containers => a \o <<>> \o <<>> = a BY <3>2
      <3> QED BY <3>3 DEF a
    <2> QED BY <1>8, <2>1, <2>3, <2>4, <2>5 DEF Placed
  <1>14. ASSUME NEW i \in DOMAIN s, i # q
         PROVE  Chained(g, i, L[i]) /\ F[i] = node_calls(g, Open(st2), L[i], F, i)
    <2>1. Chained(s, i, K[i]) /\ E[i] = node_calls(s, Open(st), K[i], E, i) BY DEF Record
    <2>2. Chained(g, i, K[i]) BY <1>2, <1>12, <1>14, <2>1, ChainKept
    <2>3. i \in Open(st) => Outside(st, i) BY <1>2, <1>14
    <2>4. i \in Open(st2) <=> i \in Open(st) BY <1>4 DEF OpenAfter
    <2>5. F[i] = node_calls(g, Open(st2), K[i], F, i)
      BY <1>1, <1>6, <1>7, <2>1, <2>2, <2>3, <2>4, NodeGrown
    <2> QED BY <1>10, <1>14, <2>2, <2>5
  <1>15. Chained(g, q, L[q]) /\ F[q] = node_calls(g, Open(st2), L[q], F, q)
    <2>1. Chained(s, q, K[q]) /\ E[q] = node_calls(s, Open(st), K[q], E, q) BY <1>2 DEF Record
    <2>2. Chained(g, q, Append(K[q], Len(s) + 1)) BY <1>12, <2>1, ChainLonger
    <2>3. q \in Open(st2) BY <1>2, <1>4 DEF OpenAfter
    <2>4. Grown(s, st, E, named(x.key) \o F[Len(s) + 1], g, F) BY <1>7, <1>8 DEF X, n
    <2>5. F[q] = node_calls(g, Open(st2), Append(K[q], Len(s) + 1), F, q)
      BY <1>1, <1>2, <1>6, <1>12, <2>1, <2>3, <2>4, NodeGets
    <2> QED BY <1>11, <2>2, <2>5 DEF n
  <1>16. Record(g, st2, L, F)
    <2>1. \A i \in DOMAIN g : Chained(g, i, L[i]) /\ F[i] = node_calls(g, Open(st2), L[i], F, i)
      BY <1>3, <1>13, <1>14, <1>15
    <2> QED BY <1>4, <1>6, <2>1 DEF Record
  <1> QED BY <1>9, <1>16 DEF X, Tells

\* The root of an empty tree.
LEMMA RecordRoot ==
  ASSUME NEW x, x \in Node, x.links = links_init(NONE), NEW st2, NEW Y, Placed(<<>>, x, <<>>, st2, Y)
  PROVE  Tells(<<x>>, st2, Y)
  <1> DEFINE g == <<x>>
             F == <<Y>>
             L == << <<>> >>
  <1>1. g \in Seq(Node) /\ DOMAIN g = {1} /\ Len(g) = 1 /\ g[1] = x OBVIOUS
  <1>2. x.type \in Types /\ x.value \in Texts \cup {NONE} BY DEF Node
  <1>3. Y \in Seq(Event) BY <1>2, CallsTyped DEF Placed
  <1>4. Len(<<>>) + 1 = 1 OBVIOUS
  <1>5. st2 = IF x.type \in Containers THEN <<1>> ELSE <<>> BY <1>4 DEF Placed
  <1>6. Spine(g, st2)
    <2>1. CASE x.type \in Containers
      <3>1. /\ st2 \in Seq(DOMAIN g) /\ DOMAIN st2 = {1} /\ Len(st2) = 1 /\ st2[1] = 1
        BY <1>1, <1>5, <2>1
      <3>2. x.links.parent = NONE BY DEF links_init
      <3> QED BY <1>1, <2>1, <3>1, <3>2 DEF Spine
    <2>2. CASE x.type \notin Containers
      <3>1. st2 = <<>> BY <1>5, <2>2
      <3>2. <<>> \in Seq(DOMAIN g) /\ DOMAIN <<>> = {} OBVIOUS
      <3> QED BY <3>1, <3>2 DEF Spine
    <2> QED BY <2>1, <2>2
  <1>7. Calls(g, F)
    <2> DEFINE V == Seq(Event)
    <2>1. Y \in V BY <1>3
    <2> HIDE DEF V
    <2>2. F \in [{1} -> V] BY <2>1
    <2> QED BY <1>1, <2>2 DEF Calls, V
  <1>8. 1 \in Open(st2) <=> x.type \in Containers BY <1>5 DEF Open
  <1>9. Chained(g, 1, <<>>)
    <2>1. x.links.first_child = NONE /\ x.links.last_child = NONE BY DEF links_init
    <2>2. Len(<<>>) <= Len(g) BY <1>1
    <2> QED BY <1>1, <2>1, <2>2 DEF Chained
  <1>10. F[1] = node_calls(g, Open(st2), <<>>, F, 1)
    <2>1. parts(g, <<>>, F) = <<>> BY DEF parts
    <2>2. node_calls(g, Open(st2), <<>>, F, 1) =
            IF x.type \notin Containers THEN leaf(x.type, x.value)
            ELSE <<opens(x.type)>> \o <<>> \o (IF 1 \in Open(st2) THEN <<>> ELSE <<closes(x.type)>>)
      BY <1>1, <2>1, NodeCalls, StrungEmpty
    <2>3. x.type \in Containers => <<opens(x.type)>> \o <<>> \o <<>> = <<opens(x.type)>>
      <3> DEFINE a == <<opens(x.type)>>
      <3>1. x.type \in Containers => a \in Seq(Event) BY <1>3 DEF Placed
      <3> HIDE DEF a
      <3>2. x.type \in Containers => a \o <<>> = a BY <3>1, ConcatEmptySeq
      <3>3. x.type \in Containers => a \o <<>> \o <<>> = a BY <3>2
      <3> QED BY <3>3 DEF a
    <2> QED BY <1>8, <2>2, <2>3 DEF Placed
  <1>11. L[1] = <<>> /\ F[1] = Y OBVIOUS
  <1> HIDE DEF F, L
  <1>12. Record(g, st2, L, F) BY <1>1, <1>6, <1>7, <1>9, <1>10, <1>11 DEF Record
  <1> QED BY <1>11, <1>12 DEF Tells

\* What the tree and the key that waits say has been called.
said(E) == (IF nodes = <<>> THEN <<>> ELSE E[1]) \o named(pending)

\* Nodes come after the nodes that hold them, so that one function gives each the calls of its
\* members.
LEMMA RecordIsTree ==
  ASSUME NEW K, NEW E, Record(nodes, stack, K, E), WellLinked(nodes)
  PROVE  tree_events = said(E)
  <1> DEFINE D == DOMAIN nodes
             n == Len(nodes)
             open == {stack[d] : d \in DOMAIN stack}
             m == [i \in D |-> n - i]
             Eq(f) == f = [i \in DOMAIN nodes |->
                             node_calls(nodes, {stack[d] : d \in DOMAIN stack}, chain(nodes, i), f, i)]
             W == CHOOSE f : Eq(f)
  <1>1. nodes \in Seq(Node) /\ n \in Nat /\ D = 1 .. n /\ Calls(nodes, E) BY DEF Record, Calls
  <1>2. \A i \in D : Chained(nodes, i, K[i]) /\ chain(nodes, i) = K[i]
    <2> SUFFICES ASSUME NEW i \in D PROVE Chained(nodes, i, K[i]) /\ chain(nodes, i) = K[i] OBVIOUS
    <2>1. Chained(nodes, i, K[i]) BY DEF Record
    <2> QED BY <1>1, <2>1, ChainIs
  <1>3. E = [i \in D |-> E[i]]
    <2> DEFINE V == Seq(Event)
    <2>1. E \in [D -> V] BY <1>1 DEF Calls
    <2> HIDE DEF V, D
    <2> QED BY <2>1
  <1>4. \A i \in D : E[i] = node_calls(nodes, open, chain(nodes, i), E, i)
    BY <1>2 DEF Record, Open
  <1>5. Eq(E)
    <2> HIDE DEF open
    <2>1. E = [i \in D |-> node_calls(nodes, open, chain(nodes, i), E, i)] BY <1>3, <1>4
    <2> QED BY <2>1 DEF open
  <1>6. Eq(W)
    <2> HIDE DEF Eq
    <2> QED BY <1>5
  <1>7. \A i \in D : W[i] = node_calls(nodes, open, K[i], W, i)
    <2> HIDE DEF W, open
    <2>1. W = [i \in D |-> node_calls(nodes, open, chain(nodes, i), W, i)] BY <1>6 DEF open
    <2> QED BY <1>2, <2>1
  <1>8. \A i \in D : E[i] = node_calls(nodes, open, K[i], E, i) BY <1>2, <1>4
  <1> HIDE DEF W, open
  <1>9. ASSUME NEW i \in D, \A j \in D : m[j] < m[i] => W[j] = E[j] PROVE W[i] = E[i]
    <2> DEFINE c == K[i]
    <2>1. Chained(nodes, i, c) BY <1>2
    <2>2. DOMAIN c = 1 .. Len(c) /\ \A k \in DOMAIN c : c[k] \in D
      BY <1>1, <2>1, ChainFacts
    <2>3. \A k \in DOMAIN c : nodes[c[k]].links.parent = i BY <2>1 DEF Chained
    <2>4. i # NONE BY <1>1, NoneAssumption
    <2> HIDE DEF c
    <2>5. ASSUME NEW k \in DOMAIN c PROVE W[c[k]] = E[c[k]]
      <3>1. LinkedAt(nodes, c[k]) BY <2>2, WellLinkedAt
      <3>2. i \in 1 .. c[k] - 1 BY <2>3, <2>4, <3>1 DEF LinkedAt
      <3>3. c[k] \in D /\ i \in D BY <2>2
      <3>4. m[c[k]] < m[i] BY <1>1, <3>2, <3>3
      <3> QED BY <1>9, <3>3, <3>4
    <2>6. parts(nodes, c, W) = parts(nodes, c, E) BY <2>5 DEF parts
    <2>7. node_calls(nodes, open, c, W, i) = node_calls(nodes, open, c, E, i)
      BY <2>6, NodeCalls
    <2> QED BY <1>7, <1>8, <2>7 DEF c
  <1>10. \A i \in D : W[i] = E[i]
    <2>1. m \in [D -> Nat] BY <1>1
    <2> HIDE DEF m, D
    <2>2. Determined(D, m, W, E) BY <1>9, <2>1 DEF Determined
    <2> QED BY <2>2, RecursionUnique
  <1>11. tree_events = (IF nodes = <<>> THEN <<>> ELSE W[1]) \o named(pending)
    BY DEF tree_events, W
  <1>12. nodes # <<>> => 1 \in D BY <1>1
  <1> QED BY <1>10, <1>11, <1>12 DEF said

-----------------------------------------------------------------------------
(* What a call does to the tree and to the record of the calls.             *)

Unmoved == UNCHANGED tree_vars /\ profile' = profile /\ (failure' = "OK" => failure = "OK")
Broken  == failure' # "OK" /\ profile' = profile

Gained(op, arg) ==
  \E type \in Types, value \in Texts \cup {NONE}, owned \in BOOLEAN :
    /\ Attached(op, arg, type, value, owned)
    /\ Placed(nodes, node(type, value, owned), stack, stack', <<event(op, arg)>>)

Ended(op, arg) ==
  /\ op = "end" /\ may_end(arg)
  /\ stack' = SubSeq(stack, 1, Len(stack) - 1)
  /\ UNCHANGED <<profile, nodes, pending, failure>>

Keyed(op, arg) ==
  /\ op = "key" /\ pending = NONE
  /\ \E key \in Texts : arg = key.name /\ pending' = key
  /\ UNCHANGED <<profile, nodes, stack, failure>>

\* A call that is refused, and one that is accepted.
Effect(op, arg) ==
  \/ returned'.code # "OK" /\ (Unmoved \/ Broken)
  \/ /\ returned' = answer(op, arg, "OK") /\ writer_ready
     /\ Gained(op, arg) \/ Ended(op, arg) \/ Keyed(op, arg)

\* A refused call leaves the tree as it is.
LEMMA RefuseEffect ==
  ASSUME NEW op, NEW code, code # "OK", Refuse(op, code), NEW o, NEW arg
  PROVE  Effect(o, arg)
  BY DEF Refuse, answer, writer_vars, Effect, Unmoved

\* So does one on a writer that has failed or is finished.
LEMMA NotReadyEffect ==
  ASSUME NEW op, NotReady(op), NEW o, NEW arg
  PROVE  Effect(o, arg)
  BY RefuseEffect DEF NotReady

\* A call that fails before it builds anything.
LEMMA FailEffect ==
  ASSUME NEW op, NEW code, code # "OK", Fail(op, code), NEW o, NEW arg
  PROVE  Effect(o, arg)
  BY DEF Fail, writer_fail, answer, Effect, Unmoved

\* A call whose node is refused.
LEMMA AttachFailsEffect ==
  ASSUME writer_ready, NEW op, NEW type, AttachFails(op, type), NEW o, NEW arg
  PROVE  Effect(o, arg)
  <1>1. ASSUME NEW code \in {"STATE", "LIMIT", "MEMORY"}, Fail(op, code) PROVE Effect(o, arg)
    BY <1>1, FailEffect
  <1>2. CASE KeyLost(op, type)
    BY <1>2 DEF KeyLost, writer_fail, writer_ready, answer, Effect, Broken
  <1> QED BY <1>1, <1>2 DEF AttachFails

NodeJoins(type, value, owned) ==
  Joined(nodes, node(type, value, owned), nodes') /\ node(type, value, owned).type = type

\* The node of a call that succeeds joins the tree.
LEMMA AttachedJoins ==
  ASSUME TreeInv, writer_ready, NEW op, NEW arg, NEW type \in Types,
         NEW value \in Texts \cup {NONE}, NEW owned \in BOOLEAN,
         Attached(op, arg, type, value, owned)
  PROVE  NodeJoins(type, value, owned)
  BY AttachedNode DEF NodeJoins

\* A container is opened.
LEMMA BeginEffect ==
  ASSUME TreeInv, NEW type \in {"object", "array"}, container_begin(type)
  PROVE  Effect("begin", type)
  <1>1. CASE NotReady("begin") BY <1>1, NotReadyEffect
  <1>2. CASE writer_ready /\ Fail("begin", "LIMIT") BY <1>2, FailEffect
  <1>3. CASE writer_ready /\ AttachFails("begin", type) BY <1>3, AttachFailsEffect
  <1>4. CASE /\ writer_ready /\ ~depth_reached
             /\ Attached("begin", type, type, NONE, FALSE)
             /\ stack' = Append(stack, Len(nodes'))
    <2> DEFINE x == node(type, NONE, FALSE)
    <2>1. type \in Types /\ type \in Containers BY DEF Types, Containers
    <2>2. Joined(nodes, x, nodes') /\ x.type = type
      <3>1. NONE \in Texts \cup {NONE} /\ FALSE \in BOOLEAN OBVIOUS
      <3>2. writer_ready /\ Attached("begin", type, type, NONE, FALSE) BY <1>4
      <3>3. NodeJoins(type, NONE, FALSE) BY <2>1, <3>1, <3>2, AttachedJoins
      <3> QED BY <3>3 DEF NodeJoins
    <2>3. Len(nodes') = Len(nodes) + 1 BY <2>2 DEF Joined
    <2>4. Placed(nodes, x, stack, stack', <<event("begin", type)>>)
      BY <1>4, <2>1, <2>2, <2>3 DEF Placed, opens
    <2>5. Gained("begin", type)
      <3> HIDE DEF x
      <3> QED BY <1>4, <2>1, <2>4 DEF Gained, x
    <2> QED BY <1>4, <2>5 DEF Effect, Attached
  <1> QED BY <1>1, <1>2, <1>3, <1>4 DEF container_begin

\* A node without members is written.
LEMMA LeafEffect ==
  ASSUME TreeInv, writer_ready, NEW op, NEW arg, NEW type \in Types \ Containers,
         NEW value \in Texts \cup {NONE}, NEW owned \in BOOLEAN,
         Attached(op, arg, type, value, owned), stack' = stack,
         leaf(type, value) = <<event(op, arg)>>
  PROVE  Effect(op, arg)
  <1> DEFINE x == node(type, value, owned)
  <1>1. x.type = type /\ x.value = value
    <2>1. x.type = type BY AttachedNode
    <2>2. x.value = value BY DEF node
    <2> QED BY <2>1, <2>2
  <1>2. Placed(nodes, x, stack, stack', <<event(op, arg)>>) BY <1>1 DEF Placed
  <1>3. Gained(op, arg)
    <2> HIDE DEF x
    <2> QED BY <1>2 DEF Gained, x
  <1> QED BY <1>3 DEF Effect, Attached

\* u64, i64, boolean and null.
LEMMA ScalarEffect ==
  ASSUME TreeInv, NEW type \in {"number", "boolean", "null"}, attach_scalar(type)
  PROVE  Effect("scalar", type)
  <1>1. CASE NotReady("scalar") BY <1>1, NotReadyEffect
  <1>2. CASE writer_ready /\ AttachFails("scalar", type) BY <1>2, AttachFailsEffect
  <1>3. CASE writer_ready /\ Attached("scalar", type, type, NONE, FALSE) /\ stack' = stack
    <2>1. type \in Types \ Containers BY DEF Types, Containers
    <2>2. leaf(type, NONE) = <<event("scalar", type)>> BY DEF leaf
    <2> QED BY <1>3, <2>1, <2>2, LeafEffect
  <1> QED BY <1>1, <1>2, <1>3 DEF attach_scalar

\* A string or a lexeme.
LEMMA TextEffect ==
  ASSUME TreeInv, writer_ready, NEW op, NEW text \in Texts, NEW type,
         (op = "string" /\ type = "string") \/ (op = "lexeme" /\ type = "number"),
         OwnText(op, text, type)
  PROVE  Effect(op, text.name)
  <1>1. CASE Fail(op, "MEMORY") BY <1>1, FailEffect
  <1>2. CASE AttachFails(op, type) BY <1>2, AttachFailsEffect
  <1>3. CASE Attached(op, text.name, type, text, TRUE) /\ stack' = stack
    <2>1. /\ (op = "string" /\ type = "string") \/ (op = "lexeme" /\ type = "number")
          /\ text # NONE /\ text \in Texts \cup {NONE} /\ TRUE \in BOOLEAN
      BY TextsAssumption
    <2>2. type \in Types \ Containers BY <2>1 DEF Types, Containers
    <2>3. leaf(type, text) = <<event(op, text.name)>> BY <2>1 DEF leaf
    <2> QED BY <1>3, <2>1, <2>2, <2>3, LeafEffect
  <1> QED BY <1>1, <1>2, <1>3 DEF OwnText

\* maelys_json_writer_string.
LEMMA StringEffect ==
  ASSUME TreeInv, NEW text \in Texts, writer_string(text)
  PROVE  Effect("string", text.name)
  <1>1. CASE Refuse("string", "ARGUMENT") BY <1>1, RefuseEffect
  <1>2. CASE NotReady("string") BY <1>2, NotReadyEffect
  <1>3. CASE Fail("string", "LIMIT") BY <1>3, FailEffect
  <1>4. CASE writer_ready /\ OwnText("string", text, "string")
    <2>1. ("string" = "string" /\ "string" = "string") \/ ("string" = "lexeme" /\ "string" = "number")
      OBVIOUS
    <2> QED BY <1>4, <2>1, TextEffect
  <1> QED BY <1>1, <1>2, <1>3, <1>4 DEF writer_string

\* Lexemes.
LEMMA LexemeEffect ==
  ASSUME TreeInv, NEW text \in Texts, NEW maximum, write_number_lexeme(text, maximum)
  PROVE  Effect("lexeme", text.name)
  <1>1. CASE Refuse("lexeme", "ARGUMENT") BY <1>1, RefuseEffect
  <1>2. CASE NotReady("lexeme") BY <1>2, NotReadyEffect
  <1>3. CASE Fail("lexeme", "LIMIT") BY <1>3, FailEffect
  <1>4. CASE writer_ready /\ OwnText("lexeme", text, "number") BY <1>4, TextEffect
  <1> QED BY <1>1, <1>2, <1>3, <1>4 DEF write_number_lexeme

\* A container is closed.
LEMMA EndEffect ==
  ASSUME NEW type, container_end(type)
  PROVE  Effect("end", type)
  <1>1. CASE NotReady("end") BY <1>1, NotReadyEffect
  <1>2. CASE Fail("end", "STATE") BY <1>2, FailEffect
  <1>3. CASE /\ writer_ready /\ may_end(type) /\ stack' = SubSeq(stack, 1, Len(stack) - 1)
             /\ returned' = answer("end", type, "OK")
             /\ UNCHANGED <<profile, nodes, pending, failure>>
    BY <1>3 DEF Effect, Ended
  <1> QED BY <1>1, <1>2, <1>3 DEF container_end

\* maelys_json_writer_key.
LEMMA KeyEffect ==
  ASSUME NEW key \in Texts, writer_key(key)
  PROVE  Effect("key", key.name)
  <1>1. CASE Refuse("key", "ARGUMENT") BY <1>1, RefuseEffect
  <1>2. CASE NotReady("key") BY <1>2, NotReadyEffect
  <1>3. ASSUME NEW code \in key_outcomes(key) \ {"OK"}, Fail("key", code)
        PROVE  Effect("key", key.name)
    BY <1>3, FailEffect
  <1>4. CASE /\ writer_ready /\ "OK" \in key_outcomes(key) /\ pending' = key
             /\ returned' = answer("key", key.name, "OK")
             /\ UNCHANGED <<profile, nodes, stack, failure>>
    <2>1. pending = NONE BY <1>4 DEF key_outcomes
    <2> QED BY <1>4, <2>1 DEF Effect, Keyed
  <1> QED BY <1>1, <1>2, <1>3, <1>4 DEF writer_key

-----------------------------------------------------------------------------
(* The invariant of the record.                                             *)

HistInv ==
  /\ profile = NONE => nodes = <<>> /\ stack = <<>> /\ pending = NONE /\ events = <<>>
  /\ failure = "OK" => \E K, E : Record(nodes, stack, K, E) /\ events = said(E)

\* An empty tree is the record of no calls.
LEMMA RecordEmpty == Record(<<>>, <<>>, <<>>, <<>>)
  <1>1. Calls(<<>>, <<>>)
    <2> DEFINE V == Seq(Event)
    <2>1. <<>> \in [{} -> V] /\ DOMAIN <<>> = {}
      <3> HIDE DEF V
      <3> QED OBVIOUS
    <2>2. <<>> \in Seq(Node) OBVIOUS
    <2> QED BY <2>1, <2>2 DEF Calls
  <1>2. Spine(<<>>, <<>>)
    <2>1. <<>> \in Seq(DOMAIN <<>>) /\ DOMAIN <<>> = {} OBVIOUS
    <2> QED BY <2>1 DEF Spine
  <1>3. DOMAIN <<>> = {} OBVIOUS
  <1> QED BY <1>1, <1>2, <1>3 DEF Record

\* What has been said is a sequence of calls, and one more is said last.
LEMMA SaidMore ==
  ASSUME NEW a \in Seq(Event), NEW b \in Seq(Event), NEW e \in Event
  PROVE  /\ Append(a \o b, e) = a \o (b \o <<e>>) /\ Append(a, e) = a \o <<e>>
         /\ a \o <<>> = a /\ <<>> \o a = a
         /\ a \o (b \o <<e>>) \o <<>> = a \o (b \o <<e>>)
  <1>1. a \o b \in Seq(Event) /\ <<e>> \in Seq(Event) /\ <<>> \in Seq(Event) BY ConcatProperties
  <1>2. Append(a \o b, e) = (a \o b) \o <<e>> BY <1>1, AppendIsConcat
  <1>3. (a \o b) \o <<e>> = a \o (b \o <<e>>) BY <1>1, ConcatAssociative
  <1>4. b \o <<e>> \in Seq(Event) BY <1>1, ConcatProperties
  <1>5. a \o (b \o <<e>>) \in Seq(Event) BY <1>4, ConcatProperties
  <1> QED BY <1>1, <1>2, <1>3, <1>5, AppendIsConcat, ConcatEmptySeq

\* A record of the tree, with the calls made so far.
Told(K, E) == Record(nodes, stack, K, E) /\ events = said(E)

\* The calls of a node that joins.
LEMMA EventOf ==
  ASSUME NEW s, NEW x, x \in Node, NEW st, NEW st2, NEW e, Placed(s, x, st, st2, <<e>>)
  PROVE  e \in Event /\ named(x.key) \in Seq(Event)
  <1>1. x.type \in Types /\ x.key \in Texts \cup {NONE} /\ x.value \in Texts \cup {NONE} BY DEF Node
  <1>2. <<e>> \in Seq(Event) BY <1>1, CallsTyped DEF Placed
  <1>3. e \in Event
    <2>1. 1 \in 1 .. Len(<<e>>) /\ <<e>>[1] = e OBVIOUS
    <2>2. <<e>>[1] \in Event BY <1>2, <2>1
    <2> QED BY <2>1, <2>2
  <1> QED BY <1>1, <1>3, CallsTyped

\* A node joins the tree: its call is the last.
LEMMA GainedTold ==
  ASSUME TreeInv, writer_ready, NEW K, NEW E, Told(K, E), NEW op, NEW arg, Gained(op, arg),
         events' = Append(events, event(op, arg))
  PROVE  \E L, F : Told(L, F)'
  <1> DEFINE e == event(op, arg)
  <1>1. PICK type \in Types, value \in Texts \cup {NONE}, owned \in BOOLEAN :
          /\ Attached(op, arg, type, value, owned)
          /\ Placed(nodes, node(type, value, owned), stack, stack', <<e>>)
    BY DEF Gained
  <1> DEFINE x == node(type, value, owned)
  <1>2. has_room /\ nodes' = attach(nodes, x) /\ pending' = NONE BY <1>1 DEF Attached
  <1>3. /\ x \in Node /\ x.links = links_init(container) /\ x.links.parent = container
        /\ x.key = pending
        /\ in_object <=> pending # NONE
    BY <1>2, NodeType
  <1>4. Joined(nodes, x, nodes') /\ WellLinked(nodes)
    BY <1>1, AttachedNode
  <1>5. nodes \in Seq(Node) BY DEF TreeInv, Shape
  <1>6. Placed(nodes, x, stack, stack', <<e>>) BY <1>1
  <1>7. Record(nodes, stack, K, E) /\ events = said(E) BY DEF Told
  <1> HIDE DEF x, e
  <1>8. e \in Event /\ named(x.key) \in Seq(Event) BY <1>3, <1>6, EventOf
  <1>9. nodes' # <<>>
    <2>1. nodes' \in Seq(Node) /\ Len(nodes') = Len(nodes) + 1 /\ Len(nodes) \in Nat
      BY <1>4, <1>5 DEF Joined
    <2> QED BY <2>1
  <1>10. named(NONE) = <<>> BY DEF named
  <1>11. CASE stack = <<>>
    <2>1. container = NONE /\ nodes = <<>> /\ pending = NONE
      <3>1. container = NONE BY <1>11 DEF container
      <3>2. ~in_object BY <3>1 DEF in_object
      <3> QED BY <1>2, <1>3, <3>1, <3>2 DEF has_room, misplaced
    <2>2. nodes' = <<x>>
      <3>1. nodes' = Append(<<>>, x) BY <1>2, <1>3, <2>1 DEF attach
      <3> QED BY <3>1
    <2>3. PICK L, F : Record(<<x>>, stack', L, F) /\ F[1] = <<e>>
      <3>1. Placed(<<>>, x, <<>>, stack', <<e>>) BY <1>6, <1>11, <2>1
      <3>2. x.links = links_init(NONE) BY <1>3, <2>1
      <3>3. Tells(<<x>>, stack', <<e>>) BY <1>3, <3>1, <3>2, RecordRoot
      <3> QED BY <3>3 DEF Tells
    <2>4. events = <<>> BY <1>7, <1>10, <2>1 DEF said
    <2>5. events' = <<e>> BY <2>4 DEF e
    <2>6. F[1] \o named(NONE) = <<e>>
      <3>1. <<e>> \in Seq(Event) BY <1>8
      <3>2. <<e>> \o <<>> = <<e>> BY <3>1, ConcatEmptySeq
      <3> QED BY <1>10, <2>3, <3>2
    <2>7. events' = (IF nodes' = <<>> THEN <<>> ELSE F[1]) \o named(pending')
      BY <1>2, <1>9, <2>5, <2>6
    <2>8. Told(L, F)' BY <2>2, <2>3, <2>7 DEF Told, said
    <2> QED BY <2>8
  <1>12. CASE stack # <<>>
    <2>1. container \in DOMAIN nodes /\ container = stack[Len(stack)]
      BY <1>12, ContainerType DEF TreeInv
    <2>2. Attaches(nodes, x, container, nodes')
      <3>1. nodes[container].links.last_child # Len(nodes) + 1
        <4>1. LinkedAt(nodes, container) BY <1>4, <2>1, WellLinkedAt
        <4>2. ChildrenOf(nodes, container) \in SUBSET (1 .. Len(nodes)) BY <1>5, ChildrenType
        <4>3. ChildrenOf(nodes, container) # {} =>
                Greatest(ChildrenOf(nodes, container)) \in ChildrenOf(nodes, container)
          BY <1>5, <4>2, GreatestOf, LenProperties
        <4>4. ChildrenOf(nodes, container) = {} => Greatest(ChildrenOf(nodes, container)) = NONE
          BY DEF Greatest
        <4>5. Len(nodes) + 1 \notin 1 .. Len(nodes) /\ NONE # Len(nodes) + 1
          BY <1>5, NoneAssumption
        <4> QED BY <4>1, <4>2, <4>3, <4>4, <4>5 DEF LinkedAt
      <3>2. \A i \in DOMAIN nodes : attach(nodes, x)[i].links =
              links_after(nodes[i].links, i, container, nodes[container].links.last_child,
                          Len(nodes) + 1)
        BY <1>3, <1>5, <2>1, <3>1, AttachChild
      <3> QED BY <1>2, <1>3, <1>4, <1>5, <2>1, <3>2 DEF Attaches
    <2>3. PICK L, F : Record(nodes', stack', L, F) /\ F[1] = E[1] \o (named(x.key) \o <<e>>)
      <3>1. Attaches(nodes, x, stack[Len(stack)], nodes') BY <2>1, <2>2
      <3>2. Tells(nodes', stack', E[1] \o (named(x.key) \o <<e>>))
        BY <1>3, <1>6, <1>7, <1>12, <3>1, RecordGets
      <3> QED BY <3>2 DEF Tells
    <2>4. nodes # <<>> /\ E[1] \in Seq(Event)
      <3>1. Calls(nodes, E) BY <1>7 DEF Record
      <3>2. 1 \in DOMAIN nodes BY <1>5, <2>1
      <3>3. E[1] \in Seq(Event) BY <3>1, <3>2 DEF Calls
      <3> QED BY <3>2, <3>3
    <2>5. events = E[1] \o named(x.key)
      <3>1. said(E) = E[1] \o named(pending) BY <2>4 DEF said
      <3> QED BY <1>3, <1>7, <3>1
    <2>6. events' = E[1] \o (named(x.key) \o <<e>>) BY <1>8, <2>4, <2>5, SaidMore DEF e
    <2>7. F[1] \o named(NONE) = F[1]
      BY <1>8, <1>10, <2>3, <2>4, SaidMore
    <2>8. events' = (IF nodes' = <<>> THEN <<>> ELSE F[1]) \o named(pending')
      BY <1>2, <1>9, <2>3, <2>6, <2>7
    <2>9. Told(L, F)' BY <2>3, <2>8 DEF Told, said
    <2> QED BY <2>9
  <1> QED BY <1>11, <1>12

\* The innermost container ends.
LEMMA EndedTold ==
  ASSUME TreeInv, NEW K, NEW E, Told(K, E), NEW op, NEW arg, Ended(op, arg),
         events' = Append(events, event(op, arg))
  PROVE  \E L, F : Told(L, F)'
  <1> DEFINE p == stack[Len(stack)]
             e == event("end", arg)
  <1>1. /\ op = "end" /\ stack # <<>> /\ container = p /\ nodes[p].type = arg /\ pending = NONE
        /\ stack' = SubSeq(stack, 1, Len(stack) - 1) /\ nodes' = nodes /\ pending' = pending
    BY DEF Ended, may_end, container
  <1>2. p \in DOMAIN nodes /\ nodes \in Seq(Node) BY <1>1, ContainerType DEF TreeInv, Shape
  <1>3. Record(nodes, stack, K, E) /\ events = said(E) BY DEF Told
  <1>4. PICK L, F : Record(nodes, stack', L, F) /\ F[1] = E[1] \o <<closes(nodes[p].type)>>
    <2>1. Tells(nodes, stack', E[1] \o <<closes(nodes[stack[Len(stack)]].type)>>)
      BY <1>1, <1>3, RecordEnds
    <2> QED BY <2>1 DEF Tells
  <1>5. closes(nodes[p].type) = e BY <1>1 DEF closes
  <1> HIDE DEF e
  <1>6. nodes # <<>> /\ E[1] \in Seq(Event) /\ e \in Event
    <2>1. Calls(nodes, E) BY <1>3 DEF Record
    <2>2. 1 \in DOMAIN nodes BY <1>2
    <2>3. E[1] \in Seq(Event) BY <2>1, <2>2 DEF Calls
    <2>4. nodes[p].type \in Types BY <1>2, <2>1, NodeTyped
    <2>5. e \in Event BY <1>1, <2>4, EventTyped DEF e
    <2> QED BY <2>2, <2>3, <2>5
  <1>7. named(NONE) = <<>> /\ <<>> \in Seq(Event) BY DEF named
  <1>8. events = E[1] BY <1>1, <1>3, <1>6, <1>7, SaidMore DEF said
  <1>9. events' = E[1] \o <<e>> BY <1>1, <1>6, <1>7, <1>8, SaidMore DEF e
  <1>10. (E[1] \o <<e>>) \o <<>> = E[1] \o <<e>>
    <2> DEFINE a == E[1]
    <2>1. <<e>> \in Seq(Event) /\ a \in Seq(Event) BY <1>6
    <2> HIDE DEF a
    <2>2. a \o <<e>> \in Seq(Event) BY <2>1, ConcatProperties
    <2>3. (a \o <<e>>) \o <<>> = a \o <<e>> BY <2>2, ConcatEmptySeq
    <2> QED BY <2>3 DEF a
  <1>11. events' = (IF nodes' = <<>> THEN <<>> ELSE F[1]) \o named(pending')
    BY <1>1, <1>4, <1>5, <1>6, <1>7, <1>9, <1>10
  <1>12. Told(L, F)' BY <1>1, <1>4, <1>11 DEF Told, said
  <1> QED BY <1>12

\* A key waits for its value.
LEMMA KeyedTold ==
  ASSUME TreeInv, NEW K, NEW E, Told(K, E), NEW op, NEW arg, Keyed(op, arg),
         events' = Append(events, event(op, arg))
  PROVE  \E L, F : Told(L, F)'
  <1> DEFINE e == event("key", arg)
             a == IF nodes = <<>> THEN <<>> ELSE E[1]
  <1>1. PICK key \in Texts : arg = key.name /\ pending' = key BY DEF Keyed
  <1>2. op = "key" /\ nodes' = nodes /\ stack' = stack /\ pending = NONE BY DEF Keyed
  <1>3. Record(nodes, stack, K, E) /\ events = said(E) BY DEF Told
  <1>4. key # NONE BY TextsAssumption
  <1>5. named(key) = <<e>> /\ named(NONE) = <<>> BY <1>1, <1>4 DEF named
  <1>6. e \in Event BY <1>1, EventTyped
  <1>7. a \in Seq(Event)
    <2>1. Calls(nodes, E) BY <1>3 DEF Record
    <2>2. nodes # <<>> => 1 \in DOMAIN nodes
      <3>1. nodes \in Seq(Node) BY <2>1 DEF Calls
      <3> QED BY <3>1
    <2>3. nodes # <<>> => E[1] \in Seq(Event) BY <2>1, <2>2 DEF Calls
    <2>4. <<>> \in Seq(Event) OBVIOUS
    <2> QED BY <2>3, <2>4
  <1>8. events = a \o <<>> BY <1>2, <1>3, <1>5 DEF said
  <1> HIDE DEF a, e
  <1>9. events' = a \o <<e>>
    <2>1. <<>> \in Seq(Event) OBVIOUS
    <2> QED BY <1>2, <1>6, <1>7, <1>8, <2>1, SaidMore DEF e
  <1>10. events' = (IF nodes' = <<>> THEN <<>> ELSE E[1]) \o named(pending')
    BY <1>1, <1>2, <1>5, <1>9 DEF a
  <1>11. Told(K, E)' BY <1>2, <1>3, <1>10 DEF Told, said
  <1> QED BY <1>11

\* Only an accepted call is recorded.
LEMMA EventsAfter ==
  ASSUME TreeInv, profile # NONE, NEW op, NEW arg, Effect(op, arg), Recorded
  PROVE  events' = IF returned'.code = "OK" THEN Append(events, event(op, arg)) ELSE events
  <1>1. profile' # NONE
    BY DEF Effect, Unmoved, Broken, Gained, Attached, Ended, Keyed
  <1>2. CASE returned'.code # "OK" BY <1>1, <1>2 DEF Recorded
  <1>3. CASE returned'.code = "OK"
    <2>1. /\ returned' = answer(op, arg, "OK")
          /\ writer_ready /\ (Gained(op, arg) \/ Ended(op, arg) \/ Keyed(op, arg))
      BY <1>3 DEF Effect
    <2>2. returned'.op = op /\ returned'.arg = arg BY <2>1 DEF answer
    <2>3. <<nodes', stack', pending'>> # <<nodes, stack, pending>>
      <3>1. ASSUME Gained(op, arg) PROVE nodes' # nodes
        <4>1. PICK type \in Types, value \in Texts \cup {NONE}, owned \in BOOLEAN :
                Attached(op, arg, type, value, owned)
          BY <3>1 DEF Gained
        <4>2. Joined(nodes, node(type, value, owned), nodes') BY <2>1, <4>1, AttachedNode
        <4>3. Len(nodes') = Len(nodes) + 1 /\ Len(nodes) \in Nat
          BY <4>2 DEF Joined, TreeInv, Shape
        <4> QED BY <4>3
      <3>2. ASSUME Ended(op, arg) PROVE stack' # stack
        <4>1. stack # <<>> /\ stack' = SubSeq(stack, 1, Len(stack) - 1)
          BY <3>2 DEF Ended, may_end, container
        <4>2. stack \in Seq(DOMAIN nodes) BY DEF TreeInv, Shape
        <4>3. Len(stack') = Len(stack) - 1 /\ Len(stack) \in Nat BY <4>1, <4>2, PopIs
        <4> QED BY <4>3
      <3>3. ASSUME Keyed(op, arg) PROVE pending' # pending
        BY <3>3, TextsAssumption DEF Keyed
      <3> QED BY <2>1, <3>1, <3>2, <3>3
    <2>4. ~ UNCHANGED tree_vars BY <2>3 DEF tree_vars
    <2> QED BY <1>1, <1>3, <2>2, <2>4 DEF Recorded
  <1> QED BY <1>2, <1>3

\* Every call keeps the record.
LEMMA EffectHist ==
  ASSUME TreeInv, HistInv, profile # NONE, NEW op, NEW arg, Effect(op, arg), Recorded
  PROVE  HistInv'
  <1>1. profile' # NONE
    BY DEF Effect, Unmoved, Broken, Gained, Attached, Ended, Keyed
  <1>2. SUFFICES ASSUME failure' = "OK" PROVE \E K, E : Told(K, E)'
    BY <1>1 DEF HistInv, Told
  <1>3. CASE returned'.code # "OK"
    <2>1. failure = "OK" /\ UNCHANGED tree_vars /\ events' = events
      BY <1>2, <1>3, EventsAfter DEF Effect, Unmoved, Broken, answer
    <2>2. nodes' = nodes /\ stack' = stack /\ pending' = pending BY <2>1 DEF tree_vars
    <2>3. PICK K, E : Record(nodes, stack, K, E) /\ events = said(E) BY <2>1 DEF HistInv
    <2>4. Told(K, E)' BY <2>1, <2>2, <2>3 DEF Told, said
    <2> QED BY <2>4
  <1>4. CASE returned'.code = "OK"
    <2>1. writer_ready /\ (Gained(op, arg) \/ Ended(op, arg) \/ Keyed(op, arg))
      BY <1>4 DEF Effect
    <2>2. events' = Append(events, event(op, arg)) BY <1>4, EventsAfter
    <2>3. PICK K, E : Told(K, E) BY <2>1 DEF writer_ready, HistInv, Told
    <2> QED BY <2>1, <2>2, <2>3, GainedTold, EndedTold, KeyedTold
  <1> QED BY <1>3, <1>4

\* A step that leaves the tree alone is not recorded.
LEMMA UnmovedHist ==
  ASSUME HistInv, profile # NONE, Unmoved, Recorded
  PROVE  HistInv' /\ events' = events
  <1>1. /\ nodes' = nodes /\ stack' = stack /\ pending' = pending /\ profile' = profile
        /\ failure' = "OK" => failure = "OK"
    BY DEF Unmoved, tree_vars
  <1>2. events' = events BY <1>1 DEF Recorded, Unmoved
  <1>3. ASSUME failure' = "OK" PROVE \E K, E : Told(K, E)'
    <2>1. PICK K, E : Record(nodes, stack, K, E) /\ events = said(E) BY <1>1, <1>3 DEF HistInv
    <2>2. Told(K, E)' BY <1>1, <1>2, <2>1 DEF Told, said
    <2> QED BY <2>2
  <1> QED BY <1>1, <1>2, <1>3 DEF HistInv, Told

\* A writer without nodes is the record of no calls.
LEMMA EmptyHist ==
  ASSUME nodes = <<>>, stack = <<>>, pending = NONE, events = <<>>
  PROVE  HistInv
  <1>1. said(<<>>) = <<>> BY DEF said, named
  <1>2. Record(nodes, stack, <<>>, <<>>) /\ events = said(<<>>) BY <1>1, RecordEmpty
  <1> QED BY <1>2 DEF HistInv

\* The same of the next state.
LEMMA EmptyHistNext ==
  (nodes = <<>> /\ stack = <<>> /\ pending = NONE /\ events = <<>> => HistInv)'
  BY EmptyHist, PTL

\* The calls that change nothing of the tree.
LEMMA RefuseUnmoved ==
  ASSUME NEW op, NEW code, Refuse(op, code)
  PROVE  Unmoved
  BY DEF Refuse, Unmoved, writer_vars

\* A step of a copy does what one call does, or nothing.
LEMMA CopyHist ==
  ASSUME Inv, HistInv, CopyStep, Recorded
  PROVE  HistInv'
  <1>1. profile # NONE /\ TreeInv
    <2>1. ~Idle
      BY DEF CopyStep, copy_value, copy_member, copy_element, copy_end, copy_returns,
             copy_failed, InFrame, Copying, Idle
    <2> QED BY <2>1 DEF Inv, JobInv
  <1>2. ASSUME copy_value PROVE HistInv'
    <2> DEFINE v == job.todo
               type == value_type(v)
    <2>1. v \in DOMAIN Document /\ Copying
      BY <1>2 DEF copy_value, Inv, JobInv, Job, Copying, Idle
    <2>2. /\ type = Document[v].type
          /\ type \in {"string", "number"} => Document[v].text \in Texts
      BY <2>1, DocumentAssumption DEF value_type
    <2>3. \/ type = "string" /\ writer_string(Document[v].text)
          \/ type = "number" /\ copy_number(v)
          \/ type \in {"boolean", "null"} /\ attach_scalar(type)
          \/ type \in {"object", "array"} /\ container_begin(type)
      BY <1>2 DEF copy_value
    <2> HIDE DEF v, type
    <2>4. CASE type = "string" /\ writer_string(Document[v].text)
      BY <1>1, <2>2, <2>4, StringEffect, EffectHist
    <2>5. CASE type = "number" /\ copy_number(v)
      <3>1. CASE attach_scalar("number") BY <1>1, <3>1, ScalarEffect, EffectHist
      <3>2. CASE Refuse("integer", "RANGE") BY <1>1, <3>2, RefuseUnmoved, UnmovedHist
      <3>3. CASE write_number_lexeme(Document[v].text, MaxBytes)
        BY <1>1, <2>2, <2>5, <3>3, LexemeEffect, EffectHist
      <3> QED BY <2>5, <3>1, <3>2, <3>3 DEF copy_number
    <2>6. CASE type \in {"boolean", "null"} /\ attach_scalar(type)
      BY <1>1, <2>6, ScalarEffect, EffectHist
    <2>7. CASE type \in {"object", "array"} /\ container_begin(type)
      BY <1>1, <2>7, BeginEffect, EffectHist
    <2> QED BY <2>3, <2>4, <2>5, <2>6, <2>7
  <1>3. ASSUME copy_member PROVE HistInv'
    <2>1. InFrame /\ HasNext /\ value_type(top.value) = "object"
          /\ (UNCHANGED writer_vars \/ writer_key(next_kid.key))
      BY <1>3 DEF copy_member
    <2>2. next_kid.key \in Texts BY <2>1, FrameFacts
    <2>3. CASE UNCHANGED writer_vars
      <3>1. Unmoved BY <2>3 DEF writer_vars, Unmoved
      <3> QED BY <1>1, <3>1, UnmovedHist
    <2>4. CASE writer_key(next_kid.key) BY <1>1, <2>2, <2>4, KeyEffect, EffectHist
    <2> QED BY <2>1, <2>3, <2>4
  <1>4. ASSUME copy_element PROVE HistInv'
    <2>1. Unmoved BY <1>4 DEF copy_element, writer_vars, Unmoved
    <2> QED BY <1>1, <2>1, UnmovedHist
  <1>5. ASSUME copy_end PROVE HistInv'
    <2>1. container_end(value_type(top.value)) BY <1>5 DEF copy_end
    <2> QED BY <1>1, <2>1, EndEffect, EffectHist
  <1>6. ASSUME copy_returns PROVE HistInv'
    <2>1. Unmoved BY <1>6 DEF copy_returns, writer_vars, Unmoved
    <2> QED BY <1>1, <2>1, UnmovedHist
  <1>7. ASSUME copy_failed PROVE HistInv'
    <2>1. Unmoved BY <1>7 DEF copy_failed, writer_fail, Unmoved
    <2> QED BY <1>1, <2>1, UnmovedHist
  <1> QED BY <1>2, <1>3, <1>4, <1>5, <1>6, <1>7 DEF CopyStep

\* So does a call of the client.
LEMMA ClientHist ==
  ASSUME Inv, HistInv, Client, Recorded
  PROVE  HistInv'
  <1>1. profile # NONE /\ TreeInv BY DEF Client, Inv
  <1>2. ASSUME NEW type \in {"object", "array"}, container_begin(type) PROVE HistInv'
    BY <1>1, <1>2, BeginEffect, EffectHist
  <1>3. ASSUME NEW type \in {"object", "array"}, container_end(type) PROVE HistInv'
    BY <1>1, <1>3, EndEffect, EffectHist
  <1>4. ASSUME NEW type \in ClientScalars, attach_scalar(type) PROVE HistInv'
    <2>1. type \in {"number", "boolean", "null"} BY TextsAssumption
    <2> QED BY <1>1, <1>4, <2>1, ScalarEffect, EffectHist
  <1>5. ASSUME NEW t \in ClientTexts,
               writer_key(t) \/ writer_string(t) \/ write_number_lexeme(t, MaximumNumberText)
        PROVE  HistInv'
    <2>1. t \in Texts BY TextsAssumption
    <2>2. CASE writer_key(t) BY <1>1, <2>1, <2>2, KeyEffect, EffectHist
    <2>3. CASE writer_string(t) BY <1>1, <2>1, <2>3, StringEffect, EffectHist
    <2>4. CASE write_number_lexeme(t, MaximumNumberText) BY <1>1, <2>1, <2>4, LexemeEffect, EffectHist
    <2> QED BY <1>5, <2>2, <2>3, <2>4
  <1>6. ASSUME writer_finish \/ StreamFails PROVE HistInv'
    <2>1. Unmoved
      BY <1>6 DEF writer_finish, StreamFails, NotReady, Refuse, Fail, Finishes, writer_fail,
                  writer_vars, Unmoved
    <2> QED BY <1>1, <2>1, UnmovedHist
  <1>7. ASSUME NEW v, writer_value(v) PROVE HistInv'
    <2>1. Unmoved
      BY <1>7 DEF writer_value, NotReady, Refuse, writer_vars, Unmoved
    <2> QED BY <1>1, <2>1, UnmovedHist
  <1>8. ASSUME NEW v, NEW excluded, object_begin_except(v, excluded) PROVE HistInv'
    <2>1. CASE container_begin("object") BY <1>1, <2>1, BeginEffect, EffectHist
    <2>2. CASE Refuse("except", "ARGUMENT") \/ NotReady("except")
      <3>1. Unmoved BY <2>2, RefuseUnmoved DEF NotReady
      <3> QED BY <1>1, <3>1, UnmovedHist
    <2> QED BY <1>8, <2>1, <2>2 DEF object_begin_except
  <1> QED BY <1>2, <1>3, <1>4, <1>5, <1>6, <1>7, <1>8 DEF Client

\* Every step keeps the record.
LEMMA NextHist ==
  ASSUME Inv, HistInv, [HistoryNext]_hvars
  PROVE  HistInv'
  <1>1. CASE writer_create /\ Recorded
    <2>1. /\ nodes' = nodes /\ stack' = stack /\ pending' = pending /\ profile = NONE
      BY <1>1 DEF writer_create
    <2>2. nodes = <<>> /\ stack = <<>> /\ pending = NONE /\ events = <<>> BY <2>1 DEF HistInv
    <2>3. events' = <<>> BY <1>1, <2>1, <2>2 DEF Recorded
    <2> QED BY <2>1, <2>2, <2>3, EmptyHistNext
  <1>2. CASE writer_release /\ Recorded
    <2>1. nodes' = <<>> /\ stack' = <<>> /\ pending' = NONE /\ profile' = NONE
      BY <1>2 DEF writer_release
    <2>2. events' = <<>> BY <1>2, <2>1 DEF Recorded
    <2> QED BY <2>1, <2>2, EmptyHistNext
  <1>3. CASE UNCHANGED hvars
    BY <1>3 DEF hvars, vars, writer_vars, tree_vars, HistInv, said
  <1> QED BY <1>1, <1>2, <1>3, ClientHist, CopyHist DEF HistoryNext, Next

-----------------------------------------------------------------------------
(* The calls that write a value of the document.                            *)

\* The members of a value come after it and have keys in objects only.
KidsOf(v) ==
  /\ Len(kids(v)) \in Nat /\ DOMAIN kids(v) = 1 .. Len(kids(v))
  /\ \A i \in 1 .. Len(kids(v)) :
       /\ kids(v)[i].value \in DOMAIN Document /\ kids(v)[i].value > v
       /\ kids(v)[i].key \in Texts \cup {NONE}
       /\ kids(v)[i].key # NONE <=> Document[v].type = "object"

\* What the assumptions on the document say of one value.
LEMMA KidFacts ==
  ASSUME NEW v \in DOMAIN Document
  PROVE  KidsOf(v) /\ Document[v].type \in Types /\ written_with(v) \in Texts \cup {NONE} /\ v \in Nat
  <1> DEFINE S == [key : Texts \cup {NONE}, value : {w \in DOMAIN Document : w > v}]
             c == kids(v)
  <1>1. c \in Seq(S) BY DocumentAssumption DEF kids
  <1>2. \A x \in S : x.value \in DOMAIN Document /\ x.value > v /\ x.key \in Texts \cup {NONE}
    OBVIOUS
  <1>3. \A i \in DOMAIN c : c[i].key # NONE <=> Document[v].type = "object"
    BY DocumentIsFinite DEF kids
  <1> HIDE DEF S, c
  <1>4. Len(c) \in Nat /\ DOMAIN c = 1 .. Len(c) /\ \A i \in 1 .. Len(c) : c[i] \in S BY <1>1
  <1>5. KidsOf(v) BY <1>2, <1>3, <1>4 DEF KidsOf, c
  <1>6. Document[v].type \in Types /\ Document[v].text \in Texts \cup {NONE} /\ v \in Nat
    BY DocumentAssumption
  <1> QED BY <1>5, <1>6 DEF written_with

\* The parts of a container of the document.
member_parts(g, v) == [i \in DOMAIN kids(v) |-> member_calls(g, kids(v)[i])]

\* Functions that give every value a sequence of calls.
CallMaps == [DOMAIN Document -> Seq(Event)]

\* Members have sequences of calls, if values do.
LEMMA MemberTyped ==
  ASSUME NEW g, g \in CallMaps, NEW v \in DOMAIN Document, NEW i \in 1 .. Len(kids(v))
  PROVE  /\ member_calls(g, kids(v)[i]) \in Seq(Event) /\ named(kids(v)[i].key) \in Seq(Event)
         /\ g[kids(v)[i].value] \in Seq(Event)
  <1> DEFINE a == named(kids(v)[i].key)
             b == g[kids(v)[i].value]
  <1>1. kids(v)[i].value \in DOMAIN Document /\ kids(v)[i].key \in Texts \cup {NONE}
    BY KidFacts DEF KidsOf
  <1>2. "null" \in Types BY DEF Types
  <1>3. a \in Seq(Event) BY <1>1, <1>2, CallsTyped
  <1>4. b \in Seq(Event) BY <1>1 DEF CallMaps
  <1> HIDE DEF a, b
  <1>5. a \o b \in Seq(Event) BY <1>3, <1>4, ConcatProperties
  <1> QED BY <1>3, <1>4, <1>5 DEF a, b, member_calls

\* So do values.
LEMMA ValueTyped ==
  ASSUME NEW g, g \in CallMaps, NEW v \in DOMAIN Document
  PROVE  /\ Parts(Event, member_parts(g, v)) /\ Len(member_parts(g, v)) = Len(kids(v))
         /\ value_calls(g, v) \in Seq(Event)
         /\ <<opens(Document[v].type)>> \in Seq(Event) /\ <<closes(Document[v].type)>> \in Seq(Event)
  <1> DEFINE p == member_parts(g, v)
             V == Seq(Event)
             n == Len(kids(v))
             a == <<opens(Document[v].type)>>
             z == <<closes(Document[v].type)>>
  <1>1. n \in Nat /\ DOMAIN kids(v) = 1 .. n BY KidFacts DEF KidsOf
  <1>2. \A i \in 1 .. n : member_calls(g, kids(v)[i]) \in V BY MemberTyped
  <1>3. p = [i \in 1 .. n |-> member_calls(g, kids(v)[i])] BY <1>1 DEF member_parts
  <1> HIDE DEF V, n, p
  <1>4. p \in [1 .. n -> V] BY <1>2, <1>3
  <1>5. p \in Seq(V) /\ Len(p) = n BY <1>1, <1>4, FunctionIsSeq
  <1>6. Parts(Event, p) BY <1>5 DEF Parts, V
  <1>7. a \in Seq(Event) /\ z \in Seq(Event) /\ leaf(Document[v].type, written_with(v)) \in Seq(Event)
    BY KidFacts, CallsTyped
  <1> HIDE DEF a, z
  <1>8. Strung(p) \in Seq(Event) BY <1>6, StrungTyped
  <1>9. a \o Strung(p) \o z \in Seq(Event)
    <2>1. a \o Strung(p) \in Seq(Event) BY <1>7, <1>8, ConcatProperties
    <2> QED BY <1>7, <2>1, ConcatProperties
  <1>10. value_calls(g, v) = IF Document[v].type \notin Containers
                            THEN leaf(Document[v].type, written_with(v)) ELSE a \o Strung(p) \o z
    BY DEF value_calls, member_parts, p, a, z
  <1> QED BY <1>5, <1>6, <1>7, <1>9, <1>10 DEF p, n, a, z

\* There are fewer values after a later one.
LEMMA LaterIsLess ==
  ASSUME NEW v \in DOMAIN Document, NEW w \in DOMAIN Document, w > v
  PROVE  /\ Cardinality({u \in DOMAIN Document : u > v}) \in Nat
         /\ Cardinality({u \in DOMAIN Document : u > w}) \in Nat
         /\ Cardinality({u \in DOMAIN Document : u > w}) < Cardinality({u \in DOMAIN Document : u > v})
  <1> DEFINE A == {u \in DOMAIN Document : u > v}
             B == {u \in DOMAIN Document : u > w}
  <1>1. DOMAIN Document \subseteq Nat BY DocumentAssumption
  <1>2. B \in SUBSET A /\ w \in A /\ w \notin B BY <1>1
  <1>3. A \in SUBSET DOMAIN Document OBVIOUS
  <1> HIDE DEF A, B
  <1>4. IsFiniteSet(A) BY <1>3, DocumentIsFinite, FS_Subset
  <1>5. IsFiniteSet(B) /\ Cardinality(B) <= Cardinality(A) /\ Cardinality(B) # Cardinality(A)
    BY <1>2, <1>4, FS_Subset
  <1>6. Cardinality(A) \in Nat /\ Cardinality(B) \in Nat BY <1>4, <1>5, FS_CardinalityType
  <1> QED BY <1>5, <1>6 DEF A, B

\* What document_events gives every value.
doc_calls == CHOOSE f : f = [w \in DOMAIN Document |-> value_calls(f, w)]

\* Containers come before their members, so the equation has a solution.
LEMMA DocCalls ==
  doc_calls \in CallMaps /\ \A v \in DOMAIN Document : doc_calls[v] = value_calls(doc_calls, v)
  <1> DEFINE D == DOMAIN Document
             V == Seq(Event)
             m == [w \in D |-> Cardinality({u \in DOMAIN Document : u > w})]
             G == [g \in [D -> V] |-> [w \in D |-> value_calls(g, w)]]
  <1>1. m \in [D -> Nat]
    <2> SUFFICES ASSUME NEW w \in D PROVE Cardinality({u \in DOMAIN Document : u > w}) \in Nat
      OBVIOUS
    <2>1. {u \in DOMAIN Document : u > w} \in SUBSET DOMAIN Document OBVIOUS
    <2> QED BY <2>1, DocumentIsFinite, FS_Subset, FS_CardinalityType
  <1>2. V # {}
    <2>1. <<>> \in V OBVIOUS
    <2> HIDE DEF V
    <2> QED BY <2>1
  <1>3. \A g \in [D -> V] : \A w \in D : value_calls(g, w) \in V BY ValueTyped DEF CallMaps
  <1>4. ASSUME NEW g \in [D -> V], NEW h \in [D -> V], NEW d \in D,
               \A e \in D : m[e] < m[d] => g[e] = h[e]
        PROVE  value_calls(g, d) = value_calls(h, d)
    <2>1. KidsOf(d) BY KidFacts
    <2>2. ASSUME NEW i \in DOMAIN kids(d)
          PROVE  member_calls(g, kids(d)[i]) = member_calls(h, kids(d)[i])
      <3> DEFINE e == kids(d)[i].value
      <3>1. e \in D /\ e > d BY <2>1 DEF KidsOf
      <3>2. m[e] < m[d] BY <3>1, LaterIsLess
      <3>3. g[e] = h[e] BY <1>4, <3>1, <3>2
      <3> QED BY <3>3 DEF member_calls
    <2>3. member_parts(g, d) = member_parts(h, d) BY <2>2 DEF member_parts
    <2>4. \A f : value_calls(f, d) = IF Document[d].type \notin Containers
                 THEN leaf(Document[d].type, written_with(d))
                 ELSE <<opens(Document[d].type)>> \o Strung(member_parts(f, d))
                        \o <<closes(Document[d].type)>>
      BY DEF value_calls, member_parts
    <2> QED BY <2>3, <2>4
  <1> HIDE DEF D, V, m
  <1>5. G \in [[D -> V] -> [D -> V]] BY <1>3
  <1>6. Recursion(D, V, m, G)
    <2>1. \A g, h \in [D -> V] : \A d \in D :
            (\A e \in D : m[e] < m[d] => g[e] = h[e]) => G[g][d] = G[h][d]
      BY <1>4
    <2> HIDE DEF G
    <2> QED BY <1>1, <1>2, <1>5, <2>1 DEF Recursion
  <1>7. PICK f \in [D -> V] : f = G[f]
    <2> HIDE DEF G
    <2> QED BY <1>6, RecursionExists
  <1>8. f = [w \in DOMAIN Document |-> value_calls(f, w)] BY <1>7 DEF D
  <1>9. doc_calls = [w \in DOMAIN Document |-> value_calls(doc_calls, w)] BY <1>8 DEF doc_calls
  <1>10. \A v \in DOMAIN Document : doc_calls[v] = f[v]
    <2> DEFINE c == doc_calls
    <2>1. \A d \in D : c[d] = value_calls(c, d) BY <1>9 DEF D
    <2>2. \A d \in D : f[d] = value_calls(f, d) BY <1>8 DEF D
    <2> HIDE DEF c
    <2>3. ASSUME NEW d \in D, \A e \in D : m[e] < m[d] => c[e] = f[e] PROVE c[d] = f[d]
      <3>1. KidsOf(d) BY KidFacts DEF D
      <3>2. ASSUME NEW i \in DOMAIN kids(d)
            PROVE  member_calls(c, kids(d)[i]) = member_calls(f, kids(d)[i])
        <4> DEFINE e == kids(d)[i].value
        <4>1. e \in D /\ e > d BY <3>1 DEF KidsOf, D
        <4>2. m[e] < m[d] BY <4>1, LaterIsLess DEF m, D
        <4>3. c[e] = f[e] BY <2>3, <4>1, <4>2
        <4> QED BY <4>3 DEF member_calls
      <3>3. member_parts(c, d) = member_parts(f, d) BY <3>2 DEF member_parts
      <3>4. \A h : value_calls(h, d) = IF Document[d].type \notin Containers
                   THEN leaf(Document[d].type, written_with(d))
                   ELSE <<opens(Document[d].type)>> \o Strung(member_parts(h, d))
                          \o <<closes(Document[d].type)>>
        BY DEF value_calls, member_parts
      <3>5. value_calls(c, d) = value_calls(f, d) BY <3>3, <3>4
      <3> QED BY <2>1, <2>2, <3>5
    <2>4. Determined(D, m, c, f) BY <1>1, <2>3 DEF Determined
    <2>5. \A d \in D : c[d] = f[d] BY <2>4, RecursionUnique
    <2> QED BY <2>5 DEF c, D
  <1>11. doc_calls \in CallMaps
    <2>1. \A v \in D : f[v] \in V BY <1>7
    <2>2. \A v \in D : doc_calls[v] \in V BY <1>10, <2>1 DEF D
    <2> DEFINE c == doc_calls
    <2>3. c = [w \in D |-> value_calls(c, w)] BY <1>9 DEF D
    <2>4. \A v \in D : c[v] \in V BY <2>2
    <2> HIDE DEF c
    <2>5. c \in [D -> V] BY <2>3, <2>4
    <2> QED BY <2>5 DEF c, D, V, CallMaps
  <1>12. \A v \in DOMAIN Document : doc_calls[v] = value_calls(doc_calls, v)
    <2> DEFINE c == doc_calls
    <2>1. c = [w \in DOMAIN Document |-> value_calls(c, w)] BY <1>9
    <2> HIDE DEF c
    <2>2. \A v \in DOMAIN Document : c[v] = value_calls(c, v) BY <2>1
    <2> QED BY <2>2 DEF c
  <1> QED BY <1>11, <1>12

-----------------------------------------------------------------------------
(* What is left of a sequence of parts.                                     *)

\* t[i] is what the parts from the i-th on give.
Rests(C, p, t) ==
  /\ t \in [1 .. Len(p) + 1 -> Seq(C)] /\ t[Len(p) + 1] = <<>>
  /\ \A i \in 1 .. Len(p) : t[i] = p[i] \o t[i + 1]

\* All of them give what they give strung together.
LEMMA RestsAreStrung ==
  ASSUME NEW C, NEW p, Parts(C, p), NEW t, Rests(C, p, t)
  PROVE  t[1] = Strung(p)
  <1> DEFINE n == Len(p)
             D == 0 .. n
             m == [i \in D |-> i]
  <1>1. n \in Nat /\ Sequences(n, C, p) BY StrungIsLoop
  <1>2. PICK u : Looped(n, p, u) /\ Strung(p) = u[n] BY StrungIsLoop
  <1>3. /\ \A i \in 1 .. n + 1 : t[i] \in Seq(C)
        /\ t[n + 1] = <<>> /\ \A i \in 1 .. n : t[i] = p[i] \o t[i + 1]
    BY DEF Rests
  <1>4. \A i \in 1 .. n : p[i] \in Seq(C) BY <1>1 DEF Sequences
  <1> HIDE DEF n
  <1>5. u[0] = <<>> /\ \A i \in 1 .. n : u[i] = u[i - 1] \o p[i] BY <1>1, <1>2, LoopRounds
  <1>6. \A i \in 0 .. n : u[i] \in Seq(C) BY <1>1, <1>2, LoopTyped
  <1> DEFINE f == [i \in D |-> u[i] \o t[i + 1]]
             g == [i \in D |-> t[1]]
  <1>7. ASSUME NEW d \in D, \A e \in D : m[e] < m[d] => f[e] = g[e] PROVE f[d] = g[d]
    <2>1. CASE d = 0
      <3>1. 0 + 1 = 1 /\ 1 \in 1 .. n + 1 BY <1>1
      <3> DEFINE a == t[1]
      <3>2. a \in Seq(C) BY <1>3, <3>1
      <3> HIDE DEF a
      <3>3. <<>> \o a = a BY <3>2, ConcatEmptySeq
      <3> QED BY <1>5, <2>1, <3>1, <3>3 DEF a
    <2>2. CASE d # 0
      <3>1. d - 1 \in D /\ m[d - 1] < m[d] /\ d \in 1 .. n /\ d + 1 \in 1 .. n + 1
            /\ (d - 1) + 1 = d
        BY <1>1, <2>2
      <3> DEFINE a == u[d - 1]
                 b == p[d]
                 c == t[d + 1]
      <3>2. a \in Seq(C) /\ b \in Seq(C) /\ c \in Seq(C) BY <1>3, <1>4, <1>6, <3>1
      <3>3. u[d] = a \o b /\ t[d] = b \o c BY <1>3, <1>5, <3>1
      <3>4. f[d - 1] = a \o t[d] /\ f[d] = u[d] \o c /\ g[d] = g[d - 1] BY <3>1
      <3>5. f[d - 1] = g[d - 1] BY <1>7, <3>1
      <3> HIDE DEF a, b, c, f, g
      <3>6. (a \o b) \o c = a \o (b \o c) BY <3>2, ConcatAssociative
      <3> QED BY <3>3, <3>4, <3>5, <3>6
    <2> QED BY <2>1, <2>2
  <1>8. m \in [D -> Nat] OBVIOUS
  <1>9. \A d \in D : f[d] = g[d]
    <2> HIDE DEF f, g, m, D
    <2>1. Determined(D, m, f, g) BY <1>7, <1>8 DEF Determined
    <2> QED BY <2>1, RecursionUnique
  <1>10. n \in D BY <1>1
  <1>11. u[n] \o <<>> = t[1]
    <2>1. f[n] = u[n] \o t[n + 1] /\ g[n] = t[1] BY <1>10
    <2> QED BY <1>3, <1>9, <1>10, <2>1
  <1>12. u[n] \o <<>> = u[n]
    <2> DEFINE a == u[n]
    <2>1. a \in Seq(C) BY <1>6, <1>10
    <2> HIDE DEF a
    <2>2. a \o <<>> = a BY <2>1, ConcatEmptySeq
    <2> QED BY <2>2 DEF a
  <1> QED BY <1>2, <1>11, <1>12

\* There are such rests.
LEMMA RestsExist ==
  ASSUME NEW C, NEW p, Parts(C, p)
  PROVE  \E t : Rests(C, p, t)
  <1> DEFINE n == Len(p)
             D == 1 .. n + 1
             V == Seq(C)
             m == [i \in D |-> (n + 1) - i]
             G == [g \in [D -> V] |-> [i \in D |-> IF i = n + 1 THEN <<>> ELSE p[i] \o g[i + 1]]]
  <1>1. n \in Nat /\ Sequences(n, C, p) BY StrungIsLoop
  <1>2. \A i \in 1 .. n : p[i] \in Seq(C) BY <1>1 DEF Sequences
  <1> HIDE DEF n
  <1>3. m \in [D -> Nat] BY <1>1
  <1>4. V # {}
    <2>1. <<>> \in V OBVIOUS
    <2> HIDE DEF V
    <2> QED BY <2>1
  <1>5. ASSUME NEW g \in [D -> V], NEW i \in D
        PROVE  (IF i = n + 1 THEN <<>> ELSE p[i] \o g[i + 1]) \in V
    <2>1. CASE i = n + 1 BY <2>1
    <2>2. CASE i # n + 1
      <3>1. i \in 1 .. n /\ i + 1 \in D BY <1>1, <2>2
      <3> DEFINE a == p[i]
                 b == g[i + 1]
      <3>2. a \in Seq(C) /\ b \in Seq(C) BY <1>2, <3>1
      <3> HIDE DEF a, b
      <3>3. a \o b \in Seq(C) BY <3>2, ConcatProperties
      <3> QED BY <2>2, <3>3 DEF a, b
    <2> QED BY <2>1, <2>2
  <1>6. G \in [[D -> V] -> [D -> V]] BY <1>5
  <1>7. ASSUME NEW g \in [D -> V], NEW h \in [D -> V], NEW d \in D,
               \A e \in D : m[e] < m[d] => g[e] = h[e]
        PROVE  G[g][d] = G[h][d]
    <2>1. d # n + 1 => d + 1 \in D /\ m[d + 1] < m[d] BY <1>1
    <2>2. d # n + 1 => g[d + 1] = h[d + 1] BY <1>7, <2>1
    <2> QED BY <2>2
  <1>8. Recursion(D, V, m, G)
    <2> HIDE DEF G, D, V, m
    <2> QED BY <1>3, <1>4, <1>6, <1>7 DEF Recursion
  <1>9. PICK g \in [D -> V] : g = G[g]
    <2> HIDE DEF G, D, V
    <2> QED BY <1>8, RecursionExists
  <1>10. g = [i \in D |-> IF i = n + 1 THEN <<>> ELSE p[i] \o g[i + 1]] BY <1>9
  <1>11. \A i \in D : g[i] = IF i = n + 1 THEN <<>> ELSE p[i] \o g[i + 1]
    <2> HIDE DEF D
    <2> QED BY <1>10
  <1>12. n + 1 \in D /\ \A i \in 1 .. n : i \in D /\ i # n + 1 BY <1>1
  <1>13. Rests(C, p, g)
    <2>1. g[n + 1] = <<>> /\ \A i \in 1 .. n : g[i] = p[i] \o g[i + 1] BY <1>11, <1>12
    <2> QED BY <1>9, <2>1 DEF Rests, n
  <1> QED BY <1>13

-----------------------------------------------------------------------------
(* What a frame of a copy has still to say.                                 *)

\* What the members of a value give, those left out on the outer level aside.
copied_parts(outer, excluded, v) ==
  [i \in DOMAIN kids(v) |-> IF outer /\ kids(v)[i].key \in excluded THEN <<>>
                            ELSE member_calls(doc_calls, kids(v)[i])]

\* What each tail of the parts gives.
left(p) == CHOOSE t : Rests(Event, p, t)

\* The outer object stays open.
ending(outer, v) == IF outer THEN <<>> ELSE <<closes(Document[v].type)>>

Left(outer, excluded, f) ==
  left(copied_parts(outer, excluded, f.value))[f.next] \o ending(outer, f.value)

Sized == {f \in Frame : f.next <= Len(kids(f.value)) + 1 /\ Document[f.value].type \in Containers}

advanced(f) == [f EXCEPT !.next = @ + 1]

\* The parts are sequences of calls, and have tails.
LEMMA CopiedTyped ==
  ASSUME NEW outer \in BOOLEAN, NEW excluded, NEW v \in DOMAIN Document
  PROVE  /\ Parts(Event, copied_parts(outer, excluded, v))
         /\ Len(copied_parts(outer, excluded, v)) = Len(kids(v))
         /\ Rests(Event, copied_parts(outer, excluded, v), left(copied_parts(outer, excluded, v)))
  <1> DEFINE p == copied_parts(outer, excluded, v)
             V == Seq(Event)
             n == Len(kids(v))
             b(i) == outer /\ kids(v)[i].key \in excluded
  <1>1. n \in Nat /\ DOMAIN kids(v) = 1 .. n BY KidFacts DEF KidsOf
  <1>2. \A i \in 1 .. n : member_calls(doc_calls, kids(v)[i]) \in V BY MemberTyped, DocCalls
  <1>3. p = [i \in 1 .. n |-> IF b(i) THEN <<>> ELSE member_calls(doc_calls, kids(v)[i])]
    BY <1>1 DEF copied_parts
  <1>4. <<>> \in V OBVIOUS
  <1> HIDE DEF V, n, p, b
  <1>5. p \in [1 .. n -> V] BY <1>2, <1>3, <1>4
  <1>6. p \in Seq(V) /\ Len(p) = n BY <1>1, <1>5, FunctionIsSeq
  <1>7. Parts(Event, p) BY <1>6 DEF Parts, V
  <1>8. \E t : Rests(Event, p, t) BY <1>7, RestsExist
  <1>9. Rests(Event, p, left(p)) BY <1>8 DEF left
  <1> QED BY <1>6, <1>7, <1>9 DEF p, n

\* What is left grows shorter from member to member, down to the end.
LEMMA LeftFacts ==
  ASSUME NEW outer \in BOOLEAN, NEW excluded, NEW f \in Sized
  PROVE  /\ Left(outer, excluded, f) \in Seq(Event)
         /\ f.next > Len(kids(f.value)) => Left(outer, excluded, f) = ending(outer, f.value)
         /\ f.next <= Len(kids(f.value)) =>
              /\ advanced(f) \in Sized
              /\ Left(outer, excluded, advanced(f)) \in Seq(Event)
              /\ copied_parts(outer, excluded, f.value)[f.next] \in Seq(Event)
              /\ Left(outer, excluded, f) = copied_parts(outer, excluded, f.value)[f.next]
                                              \o Left(outer, excluded, advanced(f))
  <1> DEFINE v == f.value
             p == copied_parts(outer, excluded, v)
             t == left(p)
             n == Len(kids(v))
             k == f.next
             z == ending(outer, v)
  <1>1. v \in DOMAIN Document /\ k \in Nat \ {0} /\ k <= n + 1 /\ n \in Nat
        /\ Document[v].type \in Containers
    <2>1. v \in DOMAIN Document /\ k \in Nat \ {0} /\ k <= n + 1 /\ Document[v].type \in Containers
      BY DEF Sized, Frame
    <2>2. n \in Nat BY <2>1, KidFacts DEF KidsOf
    <2> QED BY <2>1, <2>2
  <1>2. Rests(Event, p, t) /\ Len(p) = n /\ Parts(Event, p) BY <1>1, CopiedTyped
  <1>3. /\ \A i \in 1 .. n + 1 : t[i] \in Seq(Event)
        /\ t[n + 1] = <<>> /\ \A i \in 1 .. n : t[i] = p[i] \o t[i + 1]
    BY <1>2 DEF Rests
  <1>4. \A i \in 1 .. n : p[i] \in Seq(Event) BY <1>2, StrungIsLoop DEF Sequences
  <1>5. z \in Seq(Event)
    <2>1. <<closes(Document[v].type)>> \in Seq(Event) BY <1>1, ValueTyped, DocCalls
    <2>2. <<>> \in Seq(Event) OBVIOUS
    <2> QED BY <2>1, <2>2 DEF ending
  <1>6. Left(outer, excluded, f) = t[k] \o z BY DEF Left
  <1>7. /\ advanced(f).value = v /\ advanced(f).next = k + 1
        /\ k <= n => advanced(f) \in Sized
    BY <1>1 DEF Sized, Frame, advanced
  <1>8. Left(outer, excluded, advanced(f)) = t[k + 1] \o z BY <1>7 DEF Left
  <1> HIDE DEF v, p, t, n, k, z
  <1>9. t[k] \in Seq(Event) BY <1>1, <1>3
  <1>10. Left(outer, excluded, f) \in Seq(Event) BY <1>5, <1>6, <1>9, ConcatProperties
  <1>11. ASSUME k > n PROVE Left(outer, excluded, f) = z
    <2>1. k = n + 1 BY <1>1, <1>11
    <2>2. t[k] = <<>> BY <1>3, <2>1
    <2> QED BY <1>5, <1>6, <2>2, ConcatEmptySeq
  <1>12. ASSUME k <= n
         PROVE  /\ Left(outer, excluded, advanced(f)) \in Seq(Event) /\ p[k] \in Seq(Event)
                /\ Left(outer, excluded, f) = p[k] \o Left(outer, excluded, advanced(f))
    <2> DEFINE a == p[k]
               b == t[k + 1]
    <2>1. k \in 1 .. n /\ k + 1 \in 1 .. n + 1 BY <1>1, <1>12
    <2>2. a \in Seq(Event) /\ b \in Seq(Event) /\ t[k] = a \o b BY <1>3, <1>4, <2>1
    <2> HIDE DEF a, b
    <2>3. (a \o b) \o z = a \o (b \o z) BY <1>5, <2>2, ConcatAssociative
    <2>4. b \o z \in Seq(Event) BY <1>5, <2>2, ConcatProperties
    <2> QED BY <1>6, <1>8, <2>2, <2>3, <2>4 DEF a, b
  <1> QED BY <1>7, <1>10, <1>11, <1>12 DEF v, p, n, k, z

\* A container of the document is its begin and what a new frame has to say.
LEMMA LeftBegins ==
  ASSUME NEW outer \in BOOLEAN, NEW excluded, NEW v \in DOMAIN Document,
         Document[v].type \in Containers
  PROVE  /\ [value |-> v, next |-> 1] \in Sized
         /\ Left(outer, excluded, [value |-> v, next |-> 1])
              = Strung(copied_parts(outer, excluded, v)) \o ending(outer, v)
         /\ ~outer => doc_calls[v] = <<opens(Document[v].type)>>
                                       \o Left(outer, excluded, [value |-> v, next |-> 1])
  <1> DEFINE f == [value |-> v, next |-> 1]
             p == copied_parts(outer, excluded, v)
             a == <<opens(Document[v].type)>>
             z == <<closes(Document[v].type)>>
  <1>1. f.value = v /\ f.next = 1 /\ f \in Frame BY DEF Frame
  <1>2. Len(kids(v)) \in Nat BY KidFacts DEF KidsOf
  <1>3. f \in Sized BY <1>1, <1>2 DEF Sized
  <1>4. Rests(Event, p, left(p)) /\ Parts(Event, p) BY CopiedTyped
  <1> HIDE DEF p
  <1>5. left(p)[1] = Strung(p) /\ Strung(p) \in Seq(Event) BY <1>4, RestsAreStrung, StrungTyped
  <1>6. Left(outer, excluded, f) = Strung(p) \o ending(outer, v) BY <1>1, <1>5 DEF Left, p
  <1>7. ASSUME ~outer PROVE doc_calls[v] = a \o Left(outer, excluded, f)
    <2>1. p = member_parts(doc_calls, v) BY <1>7 DEF p, copied_parts, member_parts
    <2>2. doc_calls[v] = a \o Strung(p) \o z
      BY <2>1, DocCalls DEF value_calls, member_parts
    <2>3. a \in Seq(Event) /\ z \in Seq(Event) BY ValueTyped, DocCalls
    <2>4. ending(outer, v) = z BY <1>7 DEF ending
    <2> DEFINE b == Strung(p)
    <2>5. b \in Seq(Event) BY <1>5
    <2> HIDE DEF a, b, z, f
    <2>6. (a \o b) \o z = a \o (b \o z) BY <2>3, <2>5, ConcatAssociative
    <2> QED BY <1>6, <2>2, <2>4, <2>6 DEF b
  <1> QED BY <1>3, <1>6, <1>7 DEF f, p, a

-----------------------------------------------------------------------------
(* What the frames of a copy have still to say, the innermost first.        *)

IsOuter(kind, d) == kind = "except" /\ d = 1

\* R[d] is what the d outermost frames have still to say.
Remaining(kind, excluded, frames, R) ==
  /\ R \in [0 .. Len(frames) -> Seq(Event)] /\ R[0] = <<>>
  /\ \A d \in 1 .. Len(frames) :
       R[d] = Left(IsOuter(kind, d), excluded, frames[d]) \o R[d - 1]

Remains(kind, excluded, frames, T) ==
  \E R : Remaining(kind, excluded, frames, R) /\ T = R[Len(frames)]

\* No frames say nothing.
LEMMA RemainsNothing ==
  ASSUME NEW kind, NEW excluded
  PROVE  /\ Remains(kind, excluded, <<>>, <<>>)
         /\ \A T : Remains(kind, excluded, <<>>, T) => T = <<>>
  <1> DEFINE V == Seq(Event)
             R == [d \in {0} |-> <<>>]
  <1>1. Len(<<>>) = 0 /\ 0 .. 0 = {0} /\ 1 .. 0 = {} OBVIOUS
  <1>2. <<>> \in V OBVIOUS
  <1> HIDE DEF V
  <1>3. R \in [{0} -> V] /\ R[0] = <<>> BY <1>2
  <1> HIDE DEF R
  <1>4. Remaining(kind, excluded, <<>>, R) BY <1>1, <1>3 DEF Remaining, V
  <1>5. Remains(kind, excluded, <<>>, <<>>) BY <1>1, <1>3, <1>4 DEF Remains
  <1>6. ASSUME NEW T, Remains(kind, excluded, <<>>, T) PROVE T = <<>>
    BY <1>1, <1>6 DEF Remains, Remaining
  <1> QED BY <1>5, <1>6

\* One frame says what is left of it, and then the frames around it go on.
LEMMA RemainsInner ==
  ASSUME NEW kind, NEW excluded, NEW frames \in Seq(Sized), NEW inner, NEW f \in Sized,
         Len(inner) = Len(frames) + 1, \A d \in 1 .. Len(frames) : inner[d] = frames[d],
         inner[Len(inner)] = f,
         NEW U, Remains(kind, excluded, frames, U)
  PROVE  /\ Remains(kind, excluded, inner,
                    Left(IsOuter(kind, Len(inner)), excluded, f) \o U)
         /\ U \in Seq(Event)
  <1> DEFINE n == Len(frames)
             l == Left(IsOuter(kind, n + 1), excluded, f)
             V == Seq(Event)
  <1>1. PICK R : Remaining(kind, excluded, frames, R) /\ U = R[n] BY DEF Remains
  <1>2. n \in Nat OBVIOUS
  <1>3. /\ R \in [0 .. n -> V] /\ R[0] = <<>>
        /\ \A d \in 1 .. n : R[d] = Left(IsOuter(kind, d), excluded, frames[d]) \o R[d - 1]
    BY <1>1 DEF Remaining
  <1>4. IsOuter(kind, n + 1) \in BOOLEAN BY DEF IsOuter
  <1>5. l \in V BY <1>4, LeftFacts
  <1>6. Len(inner) = n + 1 /\ inner[n + 1] = f /\ \A d \in 1 .. n : inner[d] = frames[d]
    OBVIOUS
  <1> DEFINE c == l \o U
  <1>7. U \in V /\ c \in V
    <2>1. n \in 0 .. n BY <1>2
    <2> HIDE DEF l, n, V
    <2>2. U \in V BY <1>1, <1>3, <2>1
    <2> QED BY <1>5, <2>2, ConcatProperties DEF V
  <1> DEFINE S == [d \in 0 .. n + 1 |-> IF d = n + 1 THEN c ELSE R[d]]
  <1> HIDE DEF n, l, V, c
  <1>8. S \in [0 .. n + 1 -> V] BY <1>2, <1>3, <1>7
  <1>9. S[0] = <<>> /\ S[n + 1] = c /\ \A d \in 0 .. n : S[d] = R[d] BY <1>2, <1>3
  <1> HIDE DEF S
  <1>10. ASSUME NEW d \in 1 .. n + 1
         PROVE  S[d] = Left(IsOuter(kind, d), excluded, inner[d]) \o S[d - 1]
    <2>1. CASE d = n + 1
      <3>1. d - 1 = n /\ n \in 0 .. n BY <1>2, <2>1
      <3>2. S[d - 1] = U BY <1>1, <1>9, <3>1
      <3>3. S[d] = l \o U BY <1>9, <2>1 DEF c
      <3>4. l = Left(IsOuter(kind, d), excluded, inner[d]) BY <1>6, <2>1 DEF l
      <3> HIDE DEF l
      <3> QED BY <3>2, <3>3, <3>4
    <2>2. CASE d # n + 1
      <3>1. d \in 1 .. n /\ d \in 0 .. n /\ d - 1 \in 0 .. n BY <1>2, <2>2
      <3> QED BY <1>3, <1>6, <1>9, <3>1
    <2> QED BY <2>1, <2>2
  <1>11. Remaining(kind, excluded, inner, S) BY <1>6, <1>8, <1>9, <1>10 DEF Remaining, V
  <1>12. Remains(kind, excluded, inner, c) BY <1>6, <1>9, <1>11 DEF Remains
  <1> QED BY <1>6, <1>7, <1>12 DEF c, l, V

\* What the innermost frame says comes first.
InnerFirst(kind, excluded, frames, T) ==
  \E U \in Seq(Event) :
    /\ Remains(kind, excluded, SubSeq(frames, 1, Len(frames) - 1), U)
    /\ T = Left(IsOuter(kind, Len(frames)), excluded, frames[Len(frames)]) \o U

\* So much for the innermost frame.
LEMMA RemainsOuter ==
  ASSUME NEW kind, NEW excluded, NEW frames \in Seq(Sized), frames # <<>>,
         NEW T, Remains(kind, excluded, frames, T)
  PROVE  InnerFirst(kind, excluded, frames, T)
  <1> DEFINE n == Len(frames)
             front == SubSeq(frames, 1, n - 1)
             V == Seq(Event)
  <1>1. PICK R : Remaining(kind, excluded, frames, R) /\ T = R[n] BY DEF Remains
  <1>2. n \in Nat /\ n # 0 OBVIOUS
  <1>3. /\ R \in [0 .. n -> V] /\ R[0] = <<>>
        /\ \A d \in 1 .. n : R[d] = Left(IsOuter(kind, d), excluded, frames[d]) \o R[d - 1]
    BY <1>1 DEF Remaining
  <1>4. Len(front) = n - 1 /\ \A d \in 1 .. n - 1 : front[d] = frames[d]
    <2>1. front = [d \in 1 .. n - 1 |-> frames[d]] /\ Len(front) = n - 1 BY PopIs
    <2> HIDE DEF front
    <2> QED BY <2>1
  <1> DEFINE S == [d \in 0 .. n - 1 |-> R[d]]
  <1> HIDE DEF n, V, front
  <1>5. S \in [0 .. n - 1 -> V] BY <1>2, <1>3
  <1>6. S[0] = <<>> /\ \A d \in 0 .. n - 1 : S[d] = R[d] BY <1>2, <1>3
  <1>7. n - 1 \in 0 .. n - 1 /\ n - 1 \in 0 .. n /\ n \in 1 .. n BY <1>2
  <1> HIDE DEF S
  <1>8. ASSUME NEW d \in 1 .. n - 1
        PROVE  S[d] = Left(IsOuter(kind, d), excluded, front[d]) \o S[d - 1]
    <2>1. d \in 1 .. n /\ d \in 0 .. n - 1 /\ d - 1 \in 0 .. n - 1 BY <1>2
    <2> QED BY <1>3, <1>4, <1>6, <2>1
  <1>9. Remaining(kind, excluded, front, S) BY <1>4, <1>5, <1>6, <1>8 DEF Remaining, V
  <1>10. Remains(kind, excluded, front, R[n - 1]) BY <1>4, <1>6, <1>7, <1>9 DEF Remains
  <1>11. R[n - 1] \in V BY <1>3, <1>7
  <1>12. T = Left(IsOuter(kind, n), excluded, frames[n]) \o R[n - 1] BY <1>1, <1>3, <1>7
  <1> QED BY <1>10, <1>11, <1>12 DEF InnerFirst, front, n, V

-----------------------------------------------------------------------------
(* What a copy has still to say.                                            *)

to_say(todo) == IF todo = NONE THEN <<>> ELSE doc_calls[todo]

Pending(j, P) ==
  \E T \in Seq(Event) : Remains(j.kind, j.excluded, j.frames, T) /\ P = to_say(j.todo) \o T

\* From j to k the copy says e, or says nothing.
Says(j, e, k) ==
  \A P : Pending(j, P) => \E Q \in Seq(Event) : P = <<e>> \o Q /\ Pending(k, Q)
Quiet(j, k) == \A P : Pending(j, P) => Pending(k, P)

\* What has been said since `from`, and what is still to say, is the target.
Progress(said_so_far, from, target, j) ==
  \E A, W, P \in Seq(Event) :
    /\ said_so_far = A \o W /\ Len(A) = from
    /\ Pending(j, P) /\ target = W \o P

\* Saying the next call is progress.
LEMMA ProgressSays ==
  ASSUME NEW S, NEW from, NEW target, NEW j, Progress(S, from, target, j),
         NEW e \in Event, NEW k, Says(j, e, k)
  PROVE  Progress(Append(S, e), from, target, k)
  <1>1. PICK A, W, P \in Seq(Event) :
          S = A \o W /\ Len(A) = from /\ Pending(j, P) /\ target = W \o P
    BY DEF Progress
  <1>2. PICK Q \in Seq(Event) : P = <<e>> \o Q /\ Pending(k, Q) BY <1>1 DEF Says
  <1> DEFINE s == <<e>>
  <1>3. s \in Seq(Event) OBVIOUS
  <1>4. Append(S, e) = A \o (W \o s) BY <1>1, SaidMore, ZenonT(60)
  <1> HIDE DEF s
  <1>5. W \o s \in Seq(Event) BY <1>3, ConcatProperties
  <1>6. (W \o s) \o Q = W \o (s \o Q)
    <2> DEFINE B == Event
    <2>1. W \in Seq(B) /\ s \in Seq(B) /\ Q \in Seq(B) BY <1>2, <1>3
    <2> HIDE DEF B
    <2> QED BY <2>1, ConcatAssociative, SMTT(40)
  <1>7. target = (W \o s) \o Q BY <1>1, <1>2, <1>6 DEF s
  <1> DEFINE X == W \o s
  <1>8. X \in Seq(Event) /\ Append(S, e) = A \o X /\ target = X \o Q BY <1>4, <1>5, <1>7
  <1> HIDE DEF X
  <1> QED BY <1>1, <1>2, <1>8 DEF Progress

\* Saying nothing is none.
LEMMA ProgressQuiet ==
  ASSUME NEW S, NEW from, NEW target, NEW j, Progress(S, from, target, j), NEW k, Quiet(j, k)
  PROVE  Progress(S, from, target, k)
  BY DEF Progress, Quiet

\* With nothing more to say, what was said is the target.
LEMMA ProgressDone ==
  ASSUME NEW S, NEW from, NEW target, NEW j, Progress(S, from, target, j),
         \A P : Pending(j, P) => P = <<>>
  PROVE  SubSeq(S, from + 1, Len(S)) = target
  <1>1. PICK A, W, P \in Seq(Event) :
          S = A \o W /\ Len(A) = from /\ Pending(j, P) /\ target = W \o P
    BY DEF Progress
  <1>2. target = W BY <1>1, ConcatEmptySeq
  <1> DEFINE a == Len(A)
             w == Len(W)
             X == SubSeq(S, a + 1, a + w)
  <1>3. a \in Nat /\ w \in Nat /\ DOMAIN W = 1 .. w OBVIOUS
  <1>4. /\ Len(S) = a + w
        /\ \A i \in 1 .. a + w : S[i] = IF i <= a THEN A[i] ELSE W[i - a]
    BY <1>1, ConcatProperties
  <1>5. \A i \in 1 .. w : W[i] \in Event OBVIOUS
  <1> HIDE DEF a, w
  <1>6. \A i \in a + 1 .. a + w : S[i] = W[i - a] /\ i - a \in 1 .. w BY <1>3, <1>4
  <1>7. \A i \in a + 1 .. a + w : S[i] \in Event BY <1>5, <1>6
  <1>8. a + 1 \in Int /\ a + w \in Int BY <1>3
  <1>9. /\ X \in Seq(Event) /\ Len(X) = IF a + 1 <= a + w THEN (a + w) - (a + 1) + 1 ELSE 0
        /\ \A i \in 1 .. (a + w) - (a + 1) + 1 : X[i] = S[(a + 1) + i - 1]
    BY <1>7, <1>8, SubSeqProperties
  <1> HIDE DEF X
  <1>10. Len(X) = w /\ \A i \in 1 .. w : X[i] = S[a + i] BY <1>3, <1>9
  <1>11. ASSUME NEW i \in 1 .. w PROVE X[i] = W[i]
    <2>1. a + i \in a + 1 .. a + w /\ (a + i) - a = i BY <1>3
    <2> QED BY <1>6, <1>10, <2>1
  <1>12. X = [i \in 1 .. w |-> X[i]] BY <1>9, <1>10
  <1>13. W = [i \in 1 .. w |-> W[i]] BY <1>3
  <1>14. X = W BY <1>11, <1>12, <1>13
  <1>15. SubSeq(S, from + 1, Len(S)) = X BY <1>1, <1>4 DEF X, a
  <1> QED BY <1>2, <1>14, <1>15

-----------------------------------------------------------------------------
(* The steps of a copy.                                                     *)

\* A copy under way; that of object_begin_except never leaves its object.
Traveling(j) ==
  /\ j.frames \in Seq(Sized) /\ j.todo \in DOMAIN Document \cup {NONE}
  /\ j.kind = "except" =>
       j.frames # <<>> /\ Document[j.frames[1].value].type = "object"

\* The copy goes on from j to k.
Follows(j, k) == k.kind = j.kind /\ k.excluded = j.excluded

\* What is still to say is a sequence of calls.
LEMMA ToSayTyped ==
  ASSUME NEW v \in DOMAIN Document
  PROVE  to_say(v) = doc_calls[v] /\ to_say(NONE) = <<>> /\ doc_calls[v] \in Seq(Event)
  <1>1. v # NONE BY NoneAssumption, DocumentAssumption
  <1>2. doc_calls[v] \in Seq(Event) BY DocCalls DEF CallMaps
  <1> QED BY <1>1, <1>2 DEF to_say

\* A leaf is said with one call.
LEMMA LeafSaid ==
  ASSUME NEW j, NEW k, Follows(j, k), NEW v \in DOMAIN Document, j.todo = v,
         Document[v].type \notin Containers, k.frames = j.frames, k.todo = NONE,
         NEW e, leaf(Document[v].type, written_with(v)) = <<e>>
  PROVE  Says(j, e, k)
  <1> SUFFICES ASSUME NEW P, Pending(j, P)
               PROVE  \E Q \in Seq(Event) : P = <<e>> \o Q /\ Pending(k, Q)
    BY DEF Says
  <1>1. PICK T \in Seq(Event) :
          Remains(j.kind, j.excluded, j.frames, T) /\ P = to_say(j.todo) \o T
    BY DEF Pending
  <1>2. doc_calls[v] = <<e>> BY DocCalls DEF value_calls
  <1>3. P = <<e>> \o T BY <1>1, <1>2, ToSayTyped
  <1>4. T = to_say(k.todo) \o T BY ToSayTyped, ConcatEmptySeq
  <1>5. Remains(k.kind, k.excluded, k.frames, T) BY <1>1 DEF Follows
  <1>6. Pending(k, T) BY <1>4, <1>5 DEF Pending
  <1> QED BY <1>3, <1>6

\* A container with its begin, and a frame for its members.
LEMMA BeginSaid ==
  ASSUME NEW j, NEW k, Traveling(j), Follows(j, k), NEW v \in DOMAIN Document, j.todo = v,
         Document[v].type \in Containers,
         k.frames = Append(j.frames, [value |-> v, next |-> 1]), k.todo = NONE
  PROVE  Says(j, event("begin", Document[v].type), k) /\ Traveling(k)
  <1> DEFINE f == [value |-> v, next |-> 1]
             n == Len(j.frames)
             o == IsOuter(j.kind, n + 1)
             l == Left(o, j.excluded, f)
             b == <<opens(Document[v].type)>>
  <1>1. j.frames \in Seq(Sized) /\ n \in Nat /\ (j.kind = "except" => n # 0)
    BY DEF Traveling
  <1>2. o \in BOOLEAN /\ ~o BY <1>1 DEF IsOuter
  <1>3. f \in Sized /\ doc_calls[v] = b \o l
    <2> HIDE DEF o
    <2> QED BY <1>2, LeftBegins
  <1>4. l \in Seq(Event)
    <2> HIDE DEF o, f
    <2> QED BY <1>2, <1>3, LeftFacts
  <1>5. b \in Seq(Event) BY ValueTyped, DocCalls
  <1> DEFINE g == Append(j.frames, f)
  <1>6. g \in Seq(Sized) /\ Len(g) = n + 1 /\ g[n + 1] = f /\ \A d \in 1 .. n : g[d] = j.frames[d]
    <2> DEFINE h == j.frames
    <2>1. h \in Seq(Sized) BY <1>1
    <2> HIDE DEF h, f
    <2>2. Append(h, f) \in Seq(Sized) /\ Len(Append(h, f)) = Len(h) + 1
          /\ Append(h, f)[Len(h) + 1] = f /\ \A d \in 1 .. Len(h) : Append(h, f)[d] = h[d]
      BY <1>3, <2>1, AppendIs
    <2> QED BY <2>2 DEF h
  <1>7. Traveling(k)
    <2>1. ASSUME k.kind = "except" PROVE g # <<>> /\ g[1] = j.frames[1]
      <3>1. n # 0 /\ 1 \in 1 .. n BY <1>1, <2>1 DEF Follows
      <3>2. Len(g) = n + 1 BY <1>6
      <3> HIDE DEF g, n
      <3>3. g # <<>>
        <4>1. Len(g) # 0 BY <1>1, <3>2
        <4>2. Len(<<>>) = 0 OBVIOUS
        <4> QED BY <4>1, <4>2
      <3> QED BY <1>6, <3>1, <3>3
    <2>2. k.frames = g OBVIOUS
    <2> HIDE DEF g
    <2> QED BY <1>6, <2>1, <2>2 DEF Traveling, Follows
  <1>8. ASSUME NEW P, Pending(j, P)
        PROVE  \E Q \in Seq(Event) : P = b \o Q /\ Pending(k, Q)
    <2>1. PICK T \in Seq(Event) :
            Remains(j.kind, j.excluded, j.frames, T) /\ P = to_say(j.todo) \o T
      BY <1>8 DEF Pending
    <2> HIDE DEF b, f, g, n, o
    <2>2. Remains(j.kind, j.excluded, g, l \o T)
      <3>1. Len(g) = Len(j.frames) + 1 /\ g[Len(g)] = f
            /\ \A d \in 1 .. Len(j.frames) : g[d] = j.frames[d]
        BY <1>6 DEF n
      <3>2. Remains(j.kind, j.excluded, g, Left(IsOuter(j.kind, Len(g)), j.excluded, f) \o T)
        BY <1>1, <1>3, <2>1, <3>1, RemainsInner
      <3> QED BY <1>6, <3>2 DEF o
    <2> HIDE DEF l
    <2> DEFINE Q == l \o T
    <2>3. Q \in Seq(Event) BY <1>4, <2>1, ConcatProperties
    <2>4. (b \o l) \o T = b \o Q BY <1>4, <1>5, <2>1, ConcatAssociative
    <2>5. P = b \o Q BY <1>3, <2>1, <2>4, ToSayTyped
    <2>6. Remains(k.kind, k.excluded, k.frames, Q) BY <2>2 DEF Follows, g, f
    <2> HIDE DEF Q
    <2>7. Q = to_say(k.todo) \o Q BY <2>3, ToSayTyped, ConcatEmptySeq
    <2>8. Pending(k, Q) BY <2>3, <2>6, <2>7 DEF Pending
    <2> QED BY <2>3, <2>5, <2>8
  <1>9. b = <<event("begin", Document[v].type)>> BY DEF opens
  <1> QED BY <1>7, <1>8, <1>9 DEF Says

\* The part of the member the innermost frame is at.
part_of(kind, excluded, frames) ==
  copied_parts(IsOuter(kind, Len(frames)), excluded, frames[Len(frames)].value)
    [frames[Len(frames)].next]

\* What a frame has to say begins with its next part.
NextPart(kind, excluded, frames, more) ==
  /\ part_of(kind, excluded, frames) \in Seq(Event)
  /\ more \in Seq(Sized) /\ Len(more) = Len(frames)
  /\ more[1].value = frames[1].value
  /\ \A T : Remains(kind, excluded, frames, T) =>
       \E U \in Seq(Event) : /\ Remains(kind, excluded, more, U)
                             /\ T = part_of(kind, excluded, frames) \o U

\* The loop of a frame takes its next member.
LEMMA FrameSteps ==
  ASSUME NEW kind, NEW excluded, NEW frames \in Seq(Sized), frames # <<>>,
         frames[Len(frames)].next <= Len(kids(frames[Len(frames)].value)),
         NEW more, more = [frames EXCEPT ![Len(frames)].next = @ + 1]
  PROVE  NextPart(kind, excluded, frames, more)
  <1> DEFINE n == Len(frames)
             f == frames[n]
             g == advanced(f)
             o == IsOuter(kind, n)
             p == part_of(kind, excluded, frames)
             front == SubSeq(frames, 1, n - 1)
  <1>1. n \in Nat \ {0} /\ DOMAIN frames = 1 .. n /\ f \in Sized OBVIOUS
  <1>2. o \in BOOLEAN BY DEF IsOuter
  <1>3. /\ g \in Sized /\ p \in Seq(Event) /\ Left(o, excluded, g) \in Seq(Event)
        /\ Left(o, excluded, f) = p \o Left(o, excluded, g)
    <2>1. f \in Sized /\ f.next <= Len(kids(f.value)) BY <1>1
    <2>2. p = copied_parts(o, excluded, f.value)[f.next] BY DEF part_of
    <2> HIDE DEF f, o, p
    <2> QED BY <1>2, <2>1, <2>2, LeftFacts
  <1>4. more = [frames EXCEPT ![n] = g] BY DEF advanced
  <1>5. more \in Seq(Sized) /\ Len(more) = n
    <2> HIDE DEF g
    <2>1. g \in Sized BY <1>3
    <2> QED BY <1>1, <1>4, <2>1
  <1>6. more[n] = g /\ \A d \in 1 .. n - 1 : more[d] = frames[d]
    <2> HIDE DEF g, n
    <2> QED BY <1>1, <1>4
  <1>7. more[1].value = frames[1].value
    <2>1. CASE n = 1 BY <1>6, <2>1 DEF advanced
    <2>2. CASE n # 1
      <3>1. 1 \in 1 .. n - 1 BY <1>1, <2>2
      <3> QED BY <1>6, <3>1
    <2> QED BY <2>1, <2>2
  <1>8. front \in Seq(Sized) /\ Len(front) = n - 1 /\ \A d \in 1 .. n - 1 : front[d] = frames[d]
    <2>1. front = [d \in 1 .. n - 1 |-> frames[d]] /\ Len(front) = n - 1 /\ front \in Seq(Sized)
      BY PopIs
    <2> HIDE DEF front
    <2> QED BY <2>1
  <1>9. ASSUME NEW T, Remains(kind, excluded, frames, T)
        PROVE  \E U \in Seq(Event) : Remains(kind, excluded, more, U) /\ T = p \o U
    <2>1. InnerFirst(kind, excluded, frames, T) BY <1>9, RemainsOuter
    <2>2. PICK U \in Seq(Event) : Remains(kind, excluded, front, U)
                                  /\ T = Left(o, excluded, f) \o U
      BY <2>1 DEF InnerFirst
    <2> DEFINE l == Left(o, excluded, g)
    <2> HIDE DEF n, f, g, o, p, front
    <2>3. Len(more) = Len(front) + 1 /\ \A d \in 1 .. Len(front) : more[d] = front[d]
      BY <1>1, <1>5, <1>6, <1>8
    <2>4. more[Len(more)] = g /\ g \in Sized /\ front \in Seq(Sized) BY <1>3, <1>5, <1>6, <1>8
    <2>5. Remains(kind, excluded, more, l \o U)
      <3>1. Remains(kind, excluded, front, U) BY <2>2
      <3>2. Remains(kind, excluded, more, Left(IsOuter(kind, Len(more)), excluded, g) \o U)
        BY <2>3, <2>4, <3>1, RemainsInner
      <3> QED BY <1>5, <3>2 DEF o
    <2>6. l \in Seq(Event) BY <1>3
    <2>7. Left(o, excluded, f) = p \o l BY <1>3
    <2>8. (p \o l) \o U = p \o (l \o U) /\ l \o U \in Seq(Event)
      <3> DEFINE B == Event
      <3>1. p \in Seq(B) /\ l \in Seq(B) /\ U \in Seq(B) BY <1>3
      <3> HIDE DEF l, B
      <3>2. (p \o l) \o U = p \o (l \o U) BY <3>1, ConcatAssociative, SMTT(40)
      <3>3. l \o U \in Seq(B) BY <3>1, ConcatProperties
      <3> QED BY <3>2, <3>3 DEF B
    <2> HIDE DEF l
    <2>9. T = p \o (l \o U) BY <2>2, <2>7, <2>8
    <2> QED BY <2>5, <2>8, <2>9
  <1> QED BY <1>3, <1>5, <1>7, <1>9 DEF NextPart

\* A frame whose loop has a next member.
AtMember(j) ==
  /\ Traveling(j) /\ j.todo = NONE /\ j.frames # <<>>
  /\ j.frames[Len(j.frames)].next <= Len(kids(j.frames[Len(j.frames)].value))

\* The loop goes on to k with that member.
Taken(j, k) ==
  /\ Follows(j, k) /\ k.frames = [j.frames EXCEPT ![Len(j.frames)].next = @ + 1]
  /\ k.todo \in DOMAIN Document \cup {NONE}

\* What is to say, then, is the part of the member and what more there is.
PartFirst(j, k) ==
  /\ part_of(j.kind, j.excluded, j.frames) \in Seq(Event) /\ Traveling(k)
  /\ \A P : Pending(j, P) =>
       \E U \in Seq(Event) : /\ Remains(k.kind, k.excluded, k.frames, U)
                             /\ P = part_of(j.kind, j.excluded, j.frames) \o U

\* The loop takes a member.
LEMMA MemberTaken ==
  ASSUME NEW j, NEW k, AtMember(j), Taken(j, k)
  PROVE  PartFirst(j, k)
  <1> DEFINE p == part_of(j.kind, j.excluded, j.frames)
             F == j.frames
             M == k.frames
  <1>1. F \in Seq(Sized) /\ F # <<>> /\ F[Len(F)].next <= Len(kids(F[Len(F)].value))
        /\ M = [F EXCEPT ![Len(F)].next = @ + 1]
    BY DEF AtMember, Traveling, Taken
  <1> HIDE DEF F, M
  <1>2. NextPart(j.kind, j.excluded, F, M) BY <1>1, FrameSteps
  <1>3. p \in Seq(Event) /\ M \in Seq(Sized) /\ Len(M) = Len(F) /\ M[1].value = F[1].value
    BY <1>2 DEF NextPart, F
  <1>4. Traveling(k)
    <2>1. M # <<>>
      <3>1. Len(M) # 0
        <4>1. Len(F) # 0 BY <1>1
        <4> QED BY <1>3, <4>1
      <3>2. Len(<<>>) = 0 OBVIOUS
      <3> QED BY <3>1, <3>2
    <2>2. /\ M \in Seq(Sized) /\ k.todo \in DOMAIN Document \cup {NONE}
          /\ k.kind = "except" => M # <<>> /\ Document[M[1].value].type = "object"
      BY <1>3, <2>1 DEF AtMember, Taken, Traveling, Follows, F
    <2> QED BY <2>2 DEF Traveling, M
  <1>5. ASSUME NEW P, Pending(j, P)
        PROVE  \E U \in Seq(Event) : Remains(k.kind, k.excluded, k.frames, U) /\ P = p \o U
    <2>1. PICK T \in Seq(Event) : Remains(j.kind, j.excluded, F, T) /\ P = to_say(j.todo) \o T
      BY <1>5 DEF Pending, F
    <2>2. P = T
      <3>1. to_say(j.todo) = <<>> BY DEF AtMember, to_say
      <3> QED BY <2>1, <3>1, ConcatEmptySeq
    <2>3. PICK U \in Seq(Event) : Remains(j.kind, j.excluded, M, U)
                                  /\ T = part_of(j.kind, j.excluded, F) \o U
      BY <1>2, <2>1 DEF NextPart
    <2> QED BY <2>2, <2>3 DEF Taken, Follows, F, M
  <1> QED BY <1>3, <1>4, <1>5 DEF PartFirst

\* The member the innermost frame is at.
member(j) == kids(j.frames[Len(j.frames)].value)[j.frames[Len(j.frames)].next]
left_out(j) == IsOuter(j.kind, Len(j.frames)) /\ member(j).key \in j.excluded

\* It is one of the document, and what it gives.
LEMMA MemberPart ==
  ASSUME NEW j, AtMember(j)
  PROVE  /\ member(j).value \in DOMAIN Document
         /\ member(j).key \in Texts \cup {NONE}
         /\ member(j).key # NONE <=> Document[j.frames[Len(j.frames)].value].type = "object"
         /\ part_of(j.kind, j.excluded, j.frames)
              = IF left_out(j) THEN <<>> ELSE named(member(j).key) \o doc_calls[member(j).value]
  <1> DEFINE f == j.frames[Len(j.frames)]
             v == f.value
             i == f.next
  <1>1. f \in Sized
    <2> DEFINE F == j.frames
    <2>1. F \in Seq(Sized) /\ F # <<>> BY DEF AtMember, Traveling
    <2> HIDE DEF F
    <2>2. F[Len(F)] \in Sized BY <2>1
    <2> QED BY <2>2 DEF F
  <1>2. v \in DOMAIN Document /\ i \in Nat \ {0} /\ i <= Len(kids(v))
    <2>1. v \in DOMAIN Document /\ i \in Nat \ {0}
      <3> HIDE DEF f
      <3> QED BY <1>1 DEF Sized, Frame
    <2> QED BY <2>1 DEF AtMember
  <1>3. KidsOf(v) BY <1>2, KidFacts
  <1>4. i \in 1 .. Len(kids(v)) /\ i \in DOMAIN kids(v) BY <1>2, <1>3 DEF KidsOf
  <1>5. member(j) = kids(v)[i] BY DEF member
  <1>6. part_of(j.kind, j.excluded, j.frames)
          = copied_parts(IsOuter(j.kind, Len(j.frames)), j.excluded, v)[i]
    BY DEF part_of
  <1> HIDE DEF f, v, i
  <1>7. part_of(j.kind, j.excluded, j.frames)
          = IF left_out(j) THEN <<>> ELSE member_calls(doc_calls, kids(v)[i])
    BY <1>4, <1>5, <1>6 DEF copied_parts, left_out
  <1>8. Document[j.frames[Len(j.frames)].value].type = Document[v].type BY DEF v, f
  <1> QED BY <1>3, <1>4, <1>5, <1>7, <1>8 DEF KidsOf, member_calls

\* A member left out says nothing.
LEMMA ExcludedQuiet ==
  ASSUME NEW j, NEW k, AtMember(j), Taken(j, k), k.todo = NONE, left_out(j)
  PROVE  Quiet(j, k) /\ Traveling(k)
  <1>1. PartFirst(j, k) /\ part_of(j.kind, j.excluded, j.frames) = <<>>
    BY MemberTaken, MemberPart
  <1>2. ASSUME NEW P, Pending(j, P) PROVE Pending(k, P)
    <2>1. PICK U \in Seq(Event) : Remains(k.kind, k.excluded, k.frames, U) /\ P = <<>> \o U
      BY <1>1, <1>2 DEF PartFirst
    <2>2. to_say(k.todo) = <<>> BY DEF to_say
    <2> QED BY <2>1, <2>2 DEF Pending
  <1> QED BY <1>1, <1>2 DEF Quiet, PartFirst

\* A member says its key first.
LEMMA KeySaid ==
  ASSUME NEW j, NEW k, AtMember(j), Taken(j, k), ~left_out(j), k.todo = member(j).value,
         member(j).key # NONE
  PROVE  Says(j, event("key", member(j).key.name), k) /\ Traveling(k)
  <1> DEFINE e == event("key", member(j).key.name)
             s == <<e>>
             D == doc_calls[member(j).value]
  <1>1. PartFirst(j, k) BY MemberTaken
  <1>2. /\ part_of(j.kind, j.excluded, j.frames) = named(member(j).key) \o D
        /\ member(j).value \in DOMAIN Document /\ member(j).key \in Texts
    BY MemberPart
  <1>3. named(member(j).key) = s BY DEF named
  <1>4. D \in Seq(Event) /\ to_say(k.todo) = D BY <1>2, ToSayTyped
  <1>5. e \in Event BY <1>2, EventTyped
  <1>6. s \in Seq(Event) BY <1>5
  <1>7. ASSUME NEW P, Pending(j, P) PROVE \E Q \in Seq(Event) : P = s \o Q /\ Pending(k, Q)
    <2>1. PICK U \in Seq(Event) : /\ Remains(k.kind, k.excluded, k.frames, U)
                                  /\ P = part_of(j.kind, j.excluded, j.frames) \o U
      BY <1>1, <1>7 DEF PartFirst
    <2>2. P = (s \o D) \o U BY <1>2, <1>3, <2>1
    <2> HIDE DEF s, D
    <2> DEFINE Q == D \o U
    <2>3. Q \in Seq(Event) BY <1>4, <2>1, ConcatProperties
    <2>4. (s \o D) \o U = s \o Q BY <1>4, <1>6, <2>1, ConcatAssociative, SMTT(40)
    <2>5. Pending(k, Q) BY <1>4, <2>1 DEF Pending
    <2> HIDE DEF Q
    <2> QED BY <2>2, <2>3, <2>4, <2>5
  <1> QED BY <1>1, <1>7 DEF Says, PartFirst

\* An element has none.
LEMMA ElementQuiet ==
  ASSUME NEW j, NEW k, AtMember(j), Taken(j, k), k.todo = member(j).value,
         Document[j.frames[Len(j.frames)].value].type = "array"
  PROVE  Quiet(j, k) /\ Traveling(k)
  <1> DEFINE D == doc_calls[member(j).value]
  <1>1. PartFirst(j, k) BY MemberTaken
  <1>2. member(j).value \in DOMAIN Document /\ member(j).key = NONE BY MemberPart
  <1>3. ~left_out(j)
    <2>1. ASSUME IsOuter(j.kind, Len(j.frames)) PROVE FALSE
      BY <2>1 DEF IsOuter, AtMember, Traveling
    <2> QED BY <2>1 DEF left_out
  <1>4. D \in Seq(Event) /\ to_say(k.todo) = D BY <1>2, ToSayTyped
  <1>5. part_of(j.kind, j.excluded, j.frames) = D
    <2>1. part_of(j.kind, j.excluded, j.frames) = <<>> \o D BY <1>2, <1>3, MemberPart DEF named
    <2> QED BY <1>4, <2>1, ConcatEmptySeq
  <1>6. ASSUME NEW P, Pending(j, P) PROVE Pending(k, P)
    <2>1. PICK U \in Seq(Event) : /\ Remains(k.kind, k.excluded, k.frames, U)
                                  /\ P = part_of(j.kind, j.excluded, j.frames) \o U
      BY <1>1, <1>6 DEF PartFirst
    <2> QED BY <1>4, <1>5, <2>1 DEF Pending
  <1> QED BY <1>1, <1>6 DEF Quiet, PartFirst

\* A frame at its end.
AtEnd(j) ==
  /\ Traveling(j) /\ j.todo = NONE /\ j.frames # <<>>
  /\ j.frames[Len(j.frames)].next > Len(kids(j.frames[Len(j.frames)].value))

\* What is to say, then, is its end and what the others have.
LEMMA EndingFirst ==
  ASSUME NEW j, AtEnd(j), NEW P, Pending(j, P)
  PROVE  \E U : /\ U \in Seq(Event)
                /\ Remains(j.kind, j.excluded, SubSeq(j.frames, 1, Len(j.frames) - 1), U)
                /\ P = ending(IsOuter(j.kind, Len(j.frames)), j.frames[Len(j.frames)].value) \o U
  <1> DEFINE F == j.frames
             f == F[Len(F)]
             o == IsOuter(j.kind, Len(F))
  <1>1. F \in Seq(Sized) /\ F # <<>> /\ f.next > Len(kids(f.value)) BY DEF AtEnd, Traveling
  <1>2. PICK T \in Seq(Event) : Remains(j.kind, j.excluded, F, T) /\ P = to_say(j.todo) \o T
    BY DEF Pending
  <1>3. P = T
    <2>1. to_say(j.todo) = <<>> BY DEF AtEnd, to_say
    <2> QED BY <1>2, <2>1, ConcatEmptySeq
  <1> HIDE DEF F
  <1>4. f \in Sized BY <1>1
  <1>5. InnerFirst(j.kind, j.excluded, F, T) BY <1>1, <1>2, RemainsOuter
  <1>6. PICK U \in Seq(Event) : /\ Remains(j.kind, j.excluded, SubSeq(F, 1, Len(F) - 1), U)
                                /\ T = Left(o, j.excluded, f) \o U
    BY <1>5 DEF InnerFirst
  <1>7. o \in BOOLEAN BY DEF IsOuter
  <1> HIDE DEF f, o
  <1>8. Left(o, j.excluded, f) = ending(o, f.value) BY <1>1, <1>4, <1>7, LeftFacts
  <1> QED BY <1>3, <1>6, <1>8 DEF F, f, o

\* A frame that is not the outer one ends with a call.
LEMMA EndSaid ==
  ASSUME NEW j, NEW k, AtEnd(j), Follows(j, k), ~IsOuter(j.kind, Len(j.frames)), k.todo = NONE,
         k.frames = SubSeq(j.frames, 1, Len(j.frames) - 1)
  PROVE  Says(j, event("end", Document[j.frames[Len(j.frames)].value].type), k) /\ Traveling(k)
  <1> DEFINE F == j.frames
             G == k.frames
             v == F[Len(F)].value
             s == <<closes(Document[v].type)>>
  <1>1. ASSUME NEW P, Pending(j, P) PROVE \E Q \in Seq(Event) : P = s \o Q /\ Pending(k, Q)
    <2>1. PICK U : /\ U \in Seq(Event)
                   /\ Remains(j.kind, j.excluded, SubSeq(j.frames, 1, Len(j.frames) - 1), U)
                   /\ P = ending(IsOuter(j.kind, Len(j.frames)), j.frames[Len(j.frames)].value) \o U
      BY <1>1, EndingFirst
    <2>2. P = s \o U BY <2>1 DEF ending
    <2>3. Remains(k.kind, k.excluded, k.frames, U) BY <2>1 DEF Follows
    <2>4. U = to_say(k.todo) \o U BY <2>1, ConcatEmptySeq DEF to_say
    <2>5. Pending(k, U) BY <2>1, <2>3, <2>4 DEF Pending
    <2> QED BY <2>1, <2>2, <2>5
  <1>2. F \in Seq(Sized) /\ F # <<>> /\ (j.kind = "except" => Document[F[1].value].type = "object")
    BY DEF AtEnd, Traveling
  <1>3. G = SubSeq(F, 1, Len(F) - 1) OBVIOUS
  <1>4. Traveling(k)
    <2> HIDE DEF F, G
    <2>1. /\ G \in Seq(Sized) /\ G = [d \in 1 .. Len(F) - 1 |-> F[d]] /\ Len(G) = Len(F) - 1
      BY <1>2, <1>3, PopIs
    <2>2. ASSUME k.kind = "except" PROVE G # <<>> /\ G[1] = F[1]
      <3>1. Len(F) # 1 BY <2>2 DEF IsOuter, Follows, F
      <3>2. Len(F) \in Nat \ {0} BY <1>2
      <3> DEFINE m == Len(F)
                 n == Len(G)
      <3>3. m \in Nat \ {0} /\ m # 1 /\ n = m - 1 BY <2>1, <3>1, <3>2
      <3>4. 1 \in 1 .. Len(F) - 1 /\ Len(G) # 0
        <4> HIDE DEF m, n
        <4>1. 1 \in 1 .. m - 1 /\ n # 0 BY <3>3
        <4> QED BY <4>1 DEF m, n
      <3>5. Len(<<>>) = 0 OBVIOUS
      <3>6. G # <<>> BY <3>4, <3>5
      <3> QED BY <2>1, <3>4, <3>6
    <2>3. k.todo \in DOMAIN Document \cup {NONE} OBVIOUS
    <2> QED BY <1>2, <2>1, <2>2, <2>3 DEF Traveling, Follows, G
  <1>5. s = <<event("end", Document[v].type)>> BY DEF closes
  <1> QED BY <1>1, <1>4, <1>5 DEF Says

\* The outer frame ends without one, and so does a copy without frames.
LEMMA NothingLeft ==
  ASSUME NEW j, NEW P, Pending(j, P), j.todo = NONE,
         j.frames = <<>> \/ (AtEnd(j) /\ IsOuter(j.kind, Len(j.frames)))
  PROVE  P = <<>>
  <1>1. CASE j.frames = <<>>
    <2>1. PICK T \in Seq(Event) :
            Remains(j.kind, j.excluded, <<>>, T) /\ P = to_say(j.todo) \o T
      BY <1>1 DEF Pending
    <2>2. T = <<>> /\ to_say(j.todo) = <<>> BY <2>1, RemainsNothing DEF to_say
    <2> QED BY <2>1, <2>2
  <1>2. CASE AtEnd(j) /\ IsOuter(j.kind, Len(j.frames))
    <2>1. PICK U : /\ U \in Seq(Event)
                   /\ Remains(j.kind, j.excluded, SubSeq(j.frames, 1, Len(j.frames) - 1), U)
                   /\ P = ending(IsOuter(j.kind, Len(j.frames)), j.frames[Len(j.frames)].value) \o U
      BY <1>2, EndingFirst
    <2>2. SubSeq(j.frames, 1, Len(j.frames) - 1) = <<>>
      <3>1. Len(j.frames) = 1 BY <1>2 DEF IsOuter
      <3>2. SubSeq(j.frames, 1, 0) = <<>> BY SubSeqEmpty
      <3> QED BY <3>1, <3>2
    <2>3. U = <<>> BY <2>1, <2>2, RemainsNothing
    <2>4. ending(IsOuter(j.kind, Len(j.frames)), j.frames[Len(j.frames)].value) = <<>>
      BY <1>2 DEF ending
    <2> QED BY <2>1, <2>3, <2>4
  <1> QED BY <1>1, <1>2

-----------------------------------------------------------------------------
(* The beginning of a copy.                                                 *)

\* maelys_json_writer_value.
LEMMA ValueStarts ==
  ASSUME NEW v \in DOMAIN Document, NEW j, j = [no_job EXCEPT !.kind = "value", !.todo = v],
         NEW S \in Seq(Event)
  PROVE  Traveling(j) /\ Progress(S, Len(S), document_events("value", v, {}), j)
  <1>1. j.kind = "value" /\ j.todo = v /\ j.frames = <<>> /\ j.excluded = {} BY DEF no_job
  <1>2. Traveling(j)
    <2>1. <<>> \in Seq(Sized) OBVIOUS
    <2> QED BY <1>1, <2>1 DEF Traveling
  <1> DEFINE D == doc_calls[v]
             e == <<>>
  <1>3. document_events("value", v, {}) = D BY DEF document_events, doc_calls
  <1>4. D \in Seq(Event) /\ to_say(j.todo) = D /\ e \in Seq(Event) BY <1>1, ToSayTyped
  <1> HIDE DEF D
  <1>5. D \o e = D /\ e \o D = D /\ S \o e = S BY <1>4, ConcatEmptySeq
  <1>6. Remains(j.kind, j.excluded, j.frames, e) BY <1>1, RemainsNothing
  <1>7. Pending(j, D) BY <1>4, <1>5, <1>6 DEF Pending
  <1> HIDE DEF e
  <1>8. Progress(S, Len(S), D, j) BY <1>4, <1>5, <1>7 DEF Progress
  <1> QED BY <1>2, <1>3, <1>8

\* maelys_json_writer_object_begin_except.
LEMMA ExceptStarts ==
  ASSUME NEW v \in DOMAIN Document, Document[v].type = "object", NEW excluded, NEW j,
         j = [kind |-> "except", todo |-> NONE, excluded |-> excluded,
              frames |-> <<[value |-> v, next |-> 1]>>],
         NEW S \in Seq(Event)
  PROVE  /\ Traveling(j)
         /\ Progress(Append(S, event("begin", "object")), Len(S),
                     document_events("except", v, excluded), j)
  <1> DEFINE f == [value |-> v, next |-> 1]
             l == Left(TRUE, excluded, f)
             w == Strung(copied_parts(TRUE, excluded, v))
             b == <<opens("object")>>
             e == <<>>
             F == <<f>>
  <1>1. j.kind = "except" /\ j.todo = NONE /\ j.frames = F /\ j.excluded = excluded OBVIOUS
  <1>2. TRUE \in BOOLEAN /\ Document[v].type \in Containers BY DEF Containers
  <1>3. f \in Sized /\ l = w \o ending(TRUE, v) BY <1>2, LeftBegins
  <1>4. e \in Seq(Event) /\ e \in Seq(Sized) /\ Len(e) = 0 OBVIOUS
  <1>5. w \in Seq(Event)
    <2>1. Parts(Event, copied_parts(TRUE, excluded, v)) BY <1>2, CopiedTyped
    <2> QED BY <2>1, StrungTyped
  <1>6. b \in Seq(Event)
    <2>1. <<opens(Document[v].type)>> \in Seq(Event) BY ValueTyped, DocCalls
    <2> QED BY <2>1
  <1>7. l = w
    <2>1. l = w \o <<>> BY <1>3 DEF ending
    <2> HIDE DEF w
    <2> QED BY <1>5, <2>1, ConcatEmptySeq
  <1>8. F \in Seq(Sized) /\ Len(F) = 1 /\ F[1] = f
    <2> HIDE DEF f
    <2> QED BY <1>3
  <1>9. f.value = v OBVIOUS
  <1>10. Traveling(j)
    <2>1. F # <<>> BY <1>8
    <2> HIDE DEF F, f
    <2> QED BY <1>1, <1>8, <1>9, <2>1 DEF Traveling
  <1>11. IsOuter("except", 1) = TRUE BY DEF IsOuter
  <1>12. Remains("except", excluded, F, l \o e)
    <2>1. Remains("except", excluded, e, e) BY RemainsNothing
    <2>2. Len(F) = Len(e) + 1 /\ F[Len(F)] = f /\ \A d \in 1 .. Len(e) : F[d] = e[d]
      BY <1>4, <1>8
    <2> HIDE DEF F, f, e
    <2>3. Remains("except", excluded, F, Left(IsOuter("except", Len(F)), excluded, f) \o e)
      BY <1>3, <1>4, <2>1, <2>2, RemainsInner
    <2> QED BY <1>8, <1>11, <2>3
  <1> HIDE DEF w, b, f, l, F
  <1>13. w \o e = w /\ e \o w = w BY <1>5, ConcatEmptySeq
  <1>14. Pending(j, w)
    <2>1. to_say(j.todo) = e BY <1>1 DEF to_say
    <2>2. Remains(j.kind, j.excluded, j.frames, w) BY <1>1, <1>7, <1>12, <1>13
    <2> QED BY <1>5, <1>13, <2>1, <2>2 DEF Pending
  <1>15. document_events("except", v, excluded) = b \o w
    <2>1. copied_parts(TRUE, excluded, v)
            = [i \in DOMAIN kids(v) |-> IF kids(v)[i].key \in excluded THEN <<>>
                                        ELSE member_calls(doc_calls, kids(v)[i])]
      BY DEF copied_parts
    <2> QED BY <2>1 DEF document_events, doc_calls, w, b
  <1>16. Append(S, event("begin", "object")) = S \o b BY AppendIsConcat DEF b, opens
  <1>17. Progress(S \o b, Len(S), b \o w, j) BY <1>5, <1>6, <1>14 DEF Progress
  <1> QED BY <1>10, <1>15, <1>16, <1>17

-----------------------------------------------------------------------------
(* The invariant of the copies.                                             *)

\* What a copy has said and what it has still to say make up what it is to say.
CopyInv ==
  Copying =>
    /\ copied.kind = job.kind /\ Traveling(job)
    /\ Progress(events, copied.from,
                document_events(copied.kind, copied.value, copied.excluded), job)

\* The calls recorded by a writer that has not failed.
LEMMA EventsTyped ==
  ASSUME TreeInv, HistInv, failure = "OK"
  PROVE  events \in Seq(Event)
  <1>1. PICK K, E : Record(nodes, stack, K, E) /\ events = said(E) BY DEF HistInv
  <1> DEFINE a == IF nodes = <<>> THEN <<>> ELSE E[1]
             b == named(pending)
  <1>2. a \in Seq(Event)
    <2>1. CASE nodes = <<>> BY <2>1
    <2>2. CASE nodes # <<>>
      <3>1. E \in [DOMAIN nodes -> Seq(Event)] BY <1>1 DEF Record, Calls
      <3>2. 1 \in DOMAIN nodes BY <2>2 DEF TreeInv, Shape
      <3> QED BY <2>2, <3>1, <3>2
    <2> QED BY <2>1, <2>2
  <1>3. b \in Seq(Event)
    <2>1. "null" \in Types /\ pending \in Texts \cup {NONE} BY DEF Types, TreeInv, Shape
    <2> QED BY <2>1, CallsTyped
  <1>4. events = a \o b BY <1>1 DEF said
  <1> HIDE DEF a, b
  <1> QED BY <1>2, <1>3, <1>4, ConcatProperties

\* A step of a copy under way is not its beginning.
LEMMA CopiedKept ==
  ASSUME Copying, Copying', CopyRecorded
  PROVE  copied' = copied
  BY DEF Copying, CopyRecorded, Begins, Idle

\* A copy goes on with one call, or without.
LEMMA GoesOn ==
  ASSUME Copying, CopyInv, CopyRecorded, Follows(job, job'), Traveling(job'),
         \/ \E e \in Event : events' = Append(events, e) /\ Says(job, e, job')
         \/ events' = events /\ Quiet(job, job')
  PROVE  CopyInv'
  <1> SUFFICES ASSUME Copying'
               PROVE  /\ copied'.kind = job'.kind
                      /\ Progress(events', copied'.from,
                           document_events(copied'.kind, copied'.value, copied'.excluded), job')
    BY DEF CopyInv
  <1>1. copied' = copied BY CopiedKept
  <1> DEFINE target == document_events(copied.kind, copied.value, copied.excluded)
  <1>2. copied.kind = job.kind /\ Progress(events, copied.from, target, job) BY DEF CopyInv
  <1>3. copied'.kind = job'.kind BY <1>1, <1>2 DEF Follows
  <1> HIDE DEF target
  <1>4. Progress(events', copied.from, target, job')
    <2>1. ASSUME NEW e \in Event, events' = Append(events, e), Says(job, e, job')
          PROVE  Progress(events', copied.from, target, job')
      BY <1>2, <2>1, ProgressSays
    <2>2. ASSUME events' = events, Quiet(job, job')
          PROVE  Progress(events', copied.from, target, job')
      BY <1>2, <2>2, ProgressQuiet
    <2> QED BY <2>1, <2>2
  <1> QED BY <1>1, <1>3, <1>4 DEF target

\* What holds while a copy goes on.
LEMMA CopyFacts ==
  ASSUME Inv, HistInv, CopyInv, Copying
  PROVE  /\ TreeInv /\ profile # NONE /\ writer_ready /\ job \in Job /\ Traveling(job)
         /\ job.kind \in {"value", "except"}
  BY DEF Inv, JobInv, Copying, Idle, writer_ready, CopyInv

\* A call made on behalf of the copy, once it is known to have succeeded.
LEMMA CallSaid ==
  ASSUME Inv, HistInv, CopyInv, Copying, Recorded, NEW op, NEW arg, Effect(op, arg),
         returned'.code = "OK"
  PROVE  events' = Append(events, event(op, arg))
  BY CopyFacts, EventsAfter

\* A copy whose call succeeded is where it should go next.
LEMMA ThenGoes ==
  ASSUME job \in Job, NEW frames, NEW todo, Then(frames, todo), Copying'
  PROVE  /\ returned'.code = "OK" /\ Follows(job, job')
         /\ job'.frames = frames /\ job'.todo = todo
  BY DEF Then, Copying, Job, Follows

\* copy_value, of a value that is no container.
LEMMA CopiesLeaf ==
  ASSUME Inv, HistInv, CopyInv, copy_value, Recorded, CopyRecorded, Copying',
         Document[job.todo].type \notin Containers
  PROVE  CopyInv'
  <1> DEFINE v == job.todo
             type == Document[v].type
  <1>1. Copying /\ v # NONE BY DEF copy_value
  <1>2. /\ TreeInv /\ profile # NONE /\ writer_ready /\ job \in Job /\ Traveling(job)
        /\ v \in DOMAIN Document
    BY <1>1, CopyFacts DEF Job
  <1>3. value_type(v) = type BY <1>2 DEF value_type
  <1>4. /\ type \in {"string", "number"} => Document[v].text \in Texts
        /\ Document[v].text \in Texts => Document[v].text # NONE
    BY <1>2, DocumentAssumption, TextsAssumption
  <1>5. Then(job.frames, NONE)
    <2>1. value_type(v) \notin {"object", "array"} BY <1>3 DEF Containers
    <2> QED BY <2>1 DEF copy_value
  <1>6. /\ returned'.code = "OK" /\ Follows(job, job')
        /\ job'.frames = job.frames /\ job'.todo = NONE
    BY <1>2, <1>5, ThenGoes
  <1>7. Traveling(job') BY <1>2, <1>6 DEF Traveling, Follows
  <1>8. ASSUME NEW op, NEW arg, Effect(op, arg), event(op, arg) \in Event,
               leaf(type, written_with(v)) = <<event(op, arg)>>
        PROVE  CopyInv'
    <2>1. events' = Append(events, event(op, arg)) BY <1>1, <1>6, <1>8, CallSaid
    <2>2. Says(job, event(op, arg), job') BY <1>2, <1>6, <1>8, LeafSaid
    <2> QED BY <1>1, <1>6, <1>7, <1>8, <2>1, <2>2, GoesOn
  <1>9. ASSUME NEW s \in {"number", "boolean", "null"}, attach_scalar(s), s = type,
               written_with(v) = NONE
        PROVE  CopyInv'
    <2>1. Effect("scalar", s) BY <1>2, <1>9, ScalarEffect
    <2>2. event("scalar", s) \in Event
      <3>1. s \in Types BY DEF Types
      <3> QED BY <3>1, EventTyped
    <2>3. leaf(type, written_with(v)) = <<event("scalar", s)>> BY <1>9 DEF leaf
    <2> QED BY <1>8, <2>1, <2>2, <2>3
  <1>10. CASE type = "string" /\ writer_string(Document[v].text)
    <2>1. Effect("string", Document[v].text.name) BY <1>2, <1>4, <1>10, StringEffect
    <2>2. event("string", Document[v].text.name) \in Event BY <1>4, <1>10, EventTyped
    <2>3. leaf(type, written_with(v)) = <<event("string", Document[v].text.name)>>
      BY <1>4, <1>10 DEF leaf, written_with
    <2> QED BY <1>8, <2>1, <2>2, <2>3
  <1>11. CASE type = "number" /\ copy_number(v)
    <2>1. CASE Document[v].integer = "OK" /\ attach_scalar("number")
      <3>1. written_with(v) = NONE BY <1>11, <2>1 DEF written_with
      <3> QED BY <1>9, <1>11, <2>1, <3>1
    <2>2. CASE Refuse("integer", "RANGE") BY <1>6, <2>2 DEF Refuse, answer
    <2>3. CASE Document[v].integer = "NOT_INTEGER"
               /\ write_number_lexeme(Document[v].text, MaxBytes)
      <3>1. Effect("lexeme", Document[v].text.name) BY <1>2, <1>4, <1>11, <2>3, LexemeEffect
      <3>2. event("lexeme", Document[v].text.name) \in Event BY <1>4, <1>11, EventTyped
      <3>3. leaf(type, written_with(v)) = <<event("lexeme", Document[v].text.name)>>
        BY <1>4, <1>11, <2>3 DEF leaf, written_with
      <3> QED BY <1>8, <3>1, <3>2, <3>3
    <2> QED BY <1>11, <2>1, <2>2, <2>3 DEF copy_number
  <1>12. CASE type \in {"boolean", "null"} /\ attach_scalar(type)
    <2>1. written_with(v) = NONE BY <1>12 DEF written_with
    <2> QED BY <1>9, <1>12, <2>1
  <1> QED BY <1>3, <1>10, <1>11, <1>12 DEF copy_value, Containers

\* copy_value, of a container.
LEMMA CopiesContainer ==
  ASSUME Inv, HistInv, CopyInv, copy_value, Recorded, CopyRecorded, Copying',
         Document[job.todo].type \in Containers
  PROVE  CopyInv'
  <1> DEFINE v == job.todo
             type == Document[v].type
             F == Append(job.frames, [value |-> v, next |-> 1])
  <1>1. Copying /\ v # NONE BY DEF copy_value
  <1>2. /\ TreeInv /\ profile # NONE /\ writer_ready /\ job \in Job /\ Traveling(job)
        /\ v \in DOMAIN Document
    BY <1>1, CopyFacts DEF Job
  <1>3. value_type(v) = type BY <1>2 DEF value_type
  <1>4. type \in {"object", "array"} /\ container_begin(type) /\ Then(F, NONE)
    BY <1>3 DEF copy_value, Containers
  <1> HIDE DEF F
  <1>5. returned'.code = "OK" /\ Follows(job, job') /\ job'.frames = F /\ job'.todo = NONE
    BY <1>2, <1>4, ThenGoes
  <1>6. Effect("begin", type) BY <1>2, <1>4, BeginEffect
  <1>7. events' = Append(events, event("begin", type)) BY <1>1, <1>5, <1>6, CallSaid
  <1>8. Says(job, event("begin", type), job') /\ Traveling(job')
    BY <1>2, <1>5, BeginSaid DEF F
  <1>9. event("begin", type) \in Event
    <2>1. type \in Types BY <1>4 DEF Types
    <2> QED BY <2>1, EventTyped
  <1> QED BY <1>1, <1>5, <1>7, <1>8, <1>9, GoesOn

\* The loop of the innermost frame, and its next member.
LEMMA LoopFacts ==
  ASSUME Inv, HistInv, CopyInv, InFrame
  PROVE  /\ TreeInv /\ profile # NONE /\ writer_ready /\ job \in Job /\ Traveling(job) /\ Copying
         /\ top.value \in DOMAIN Document /\ value_type(top.value) = Document[top.value].type
         /\ HasNext => AtMember(job) /\ next_kid = member(job) /\ (key_excluded <=> left_out(job))
         /\ ~HasNext => AtEnd(job)
         /\ Outer <=> IsOuter(job.kind, Len(job.frames))
         /\ \A todo \in DOMAIN Document \cup {NONE} :
              Follows(job, job') /\ job'.frames = visited /\ job'.todo = todo => Taken(job, job')
  <1>1. /\ TreeInv /\ profile # NONE /\ writer_ready /\ job \in Job /\ Traveling(job) /\ Copying
        /\ job.todo = NONE /\ job.frames # <<>>
    BY CopyFacts DEF InFrame
  <1>2. top \in Frame BY FrameFacts
  <1>3. top.value \in DOMAIN Document /\ top.next \in Nat BY <1>2 DEF Frame
  <1>4. Len(kids(top.value)) \in Nat BY <1>3, KidFacts DEF KidsOf
  <1>5. HasNext => AtMember(job) BY <1>1 DEF HasNext, AtMember, top
  <1>6. ~HasNext => AtEnd(job)
    <2>1. ~HasNext => top.next > Len(kids(top.value)) BY <1>3, <1>4 DEF HasNext
    <2> QED BY <1>1, <2>1 DEF AtEnd, top
  <1>7. Outer <=> IsOuter(job.kind, Len(job.frames)) BY DEF Outer, IsOuter
  <1>8. next_kid = member(job) BY DEF next_kid, member, top
  <1>9. key_excluded <=> left_out(job) BY <1>7, <1>8 DEF key_excluded, left_out
  <1>10. \A todo \in DOMAIN Document \cup {NONE} :
           Follows(job, job') /\ job'.frames = visited /\ job'.todo = todo => Taken(job, job')
    BY DEF Taken, visited
  <1> QED BY <1>1, <1>3, <1>5, <1>6, <1>7, <1>8, <1>9, <1>10 DEF value_type

\* copy_object on its next member.
LEMMA CopiesMember ==
  ASSUME Inv, HistInv, CopyInv, copy_member, Recorded, CopyRecorded, Copying'
  PROVE  CopyInv'
  <1>1. InFrame /\ HasNext /\ value_type(top.value) = "object" BY DEF copy_member
  <1>2. /\ TreeInv /\ profile # NONE /\ writer_ready /\ job \in Job /\ Traveling(job) /\ Copying
        /\ value_type(top.value) = Document[top.value].type
        /\ AtMember(job) /\ next_kid = member(job) /\ (key_excluded <=> left_out(job))
    BY <1>1, LoopFacts
  <1>3. CASE key_excluded /\ job' = [job EXCEPT !.frames = visited] /\ UNCHANGED writer_vars
    <2>1. Follows(job, job') /\ job'.frames = visited /\ job'.todo = NONE
      BY <1>2, <1>3 DEF Follows, Job, AtMember
    <2>2. Taken(job, job') BY <1>1, <2>1, LoopFacts
    <2>3. Quiet(job, job') /\ Traveling(job') BY <1>2, <1>3, <2>1, <2>2, ExcludedQuiet
    <2>4. Unmoved BY <1>3 DEF writer_vars, Unmoved
    <2>5. events' = events BY <1>2, <2>4, UnmovedHist
    <2> QED BY <1>2, <2>1, <2>3, <2>5, GoesOn
  <1>4. CASE ~key_excluded /\ writer_key(next_kid.key) /\ Then(visited, next_kid.value)
    <2> DEFINE key == next_kid.key
    <2>1. next_kid.value \in DOMAIN Document /\ key \in Texts BY <1>1, FrameFacts
    <2>2. returned'.code = "OK" /\ Follows(job, job') /\ job'.frames = visited
          /\ job'.todo = next_kid.value
      BY <1>2, <1>4, ThenGoes
    <2>3. Taken(job, job') BY <1>1, <2>1, <2>2, LoopFacts
    <2>4. Effect("key", key.name) BY <1>4, <2>1, KeyEffect
    <2>5. events' = Append(events, event("key", key.name)) BY <1>2, <2>2, <2>4, CallSaid
    <2>6. event("key", key.name) \in Event BY <2>1, EventTyped
    <2>7. key # NONE BY <2>1, TextsAssumption
    <2>8. Says(job, event("key", key.name), job') /\ Traveling(job')
      BY <1>2, <1>4, <2>2, <2>3, <2>7, KeySaid
    <2> QED BY <1>2, <2>2, <2>5, <2>6, <2>8, GoesOn
  <1> QED BY <1>3, <1>4 DEF copy_member

\* copy_array on its next element.
LEMMA CopiesElement ==
  ASSUME Inv, HistInv, CopyInv, copy_element, Recorded, CopyRecorded, Copying'
  PROVE  CopyInv'
  <1>1. InFrame /\ HasNext /\ value_type(top.value) = "array" BY DEF copy_element
  <1>2. /\ profile # NONE /\ job \in Job /\ Copying
        /\ value_type(top.value) = Document[top.value].type
        /\ AtMember(job) /\ next_kid = member(job)
    BY <1>1, LoopFacts
  <1>3. job' = [job EXCEPT !.frames = visited, !.todo = next_kid.value] /\ UNCHANGED writer_vars
    BY DEF copy_element
  <1>4. next_kid.value \in DOMAIN Document BY <1>1, FrameFacts
  <1>5. Follows(job, job') /\ job'.frames = visited /\ job'.todo = next_kid.value
    BY <1>2, <1>3 DEF Follows, Job
  <1>6. Taken(job, job') BY <1>1, <1>4, <1>5, LoopFacts
  <1>7. Document[job.frames[Len(job.frames)].value].type = "array" BY <1>1, <1>2 DEF top
  <1>8. Quiet(job, job') /\ Traveling(job') BY <1>2, <1>5, <1>6, <1>7, ElementQuiet
  <1>9. Unmoved BY <1>3 DEF writer_vars, Unmoved
  <1>10. events' = events BY <1>2, <1>9, UnmovedHist
  <1> QED BY <1>2, <1>5, <1>8, <1>10, GoesOn

\* copy_object and copy_array close what they opened.
LEMMA CopiesEnd ==
  ASSUME Inv, HistInv, CopyInv, copy_end, Recorded, CopyRecorded, Copying'
  PROVE  CopyInv'
  <1> DEFINE type == value_type(top.value)
             F == SubSeq(job.frames, 1, Len(job.frames) - 1)
  <1>1. InFrame /\ ~HasNext /\ ~Outer /\ container_end(type) /\ Then(F, NONE) BY DEF copy_end
  <1>2. /\ profile # NONE /\ job \in Job /\ Copying /\ AtEnd(job)
        /\ type = Document[top.value].type /\ top.value \in DOMAIN Document
        /\ ~IsOuter(job.kind, Len(job.frames))
    BY <1>1, LoopFacts
  <1> HIDE DEF F
  <1>3. returned'.code = "OK" /\ Follows(job, job') /\ job'.frames = F /\ job'.todo = NONE
    BY <1>1, <1>2, ThenGoes
  <1>4. Effect("end", type) BY <1>1, EndEffect
  <1>5. events' = Append(events, event("end", type)) BY <1>2, <1>3, <1>4, CallSaid
  <1>6. Says(job, event("end", Document[job.frames[Len(job.frames)].value].type), job')
        /\ Traveling(job')
    BY <1>2, <1>3, EndSaid DEF F
  <1>7. type = Document[job.frames[Len(job.frames)].value].type BY <1>2 DEF top
  <1>8. type \in Types BY <1>2, KidFacts
  <1>9. event("end", type) \in Event BY <1>8, EventTyped
  <1> QED BY <1>2, <1>3, <1>5, <1>6, <1>7, <1>9, GoesOn

\* maelys_json_writer_value begins a copy.
LEMMA ValueBegins ==
  ASSUME Inv, HistInv, NEW v, writer_value(v), Idle, profile # NONE, Recorded, CopyRecorded,
         Copying'
  PROVE  CopyInv'
  <1>1. /\ value_type(v) # "none" /\ writer_ready
        /\ job' = [no_job EXCEPT !.kind = "value", !.todo = v] /\ UNCHANGED writer_vars
    <2>1. job' # job BY DEF Idle, Copying
    <2> QED BY <2>1 DEF writer_value
  <1>2. v \in DOMAIN Document BY <1>1 DEF value_type
  <1>3. job'.kind = "value" /\ job'.todo = v /\ job'.excluded = {} BY <1>1 DEF no_job
  <1>4. copied' = [from |-> Len(events), kind |-> "value", excluded |-> {}, value |-> v]
    BY <1>3 DEF CopyRecorded, Begins
  <1>5. events \in Seq(Event) BY <1>1, EventsTyped DEF Inv, writer_ready
  <1>6. Unmoved BY <1>1 DEF writer_vars, Unmoved
  <1>7. events' = events BY <1>6, UnmovedHist
  <1>8. Traveling(job') /\ Progress(events, Len(events), document_events("value", v, {}), job')
    BY <1>1, <1>2, <1>5, ValueStarts
  <1> QED BY <1>3, <1>4, <1>7, <1>8 DEF CopyInv

\* So does maelys_json_writer_object_begin_except, once the object is open.
LEMMA ExceptBegins ==
  ASSUME Inv, HistInv, NEW v, NEW excluded, object_begin_except(v, excluded), Idle,
         profile # NONE, Recorded, CopyRecorded, Copying'
  PROVE  CopyInv'
  <1> DEFINE j == [kind |-> "except", todo |-> NONE, excluded |-> excluded,
                   frames |-> <<[value |-> v, next |-> 1]>>]
  <1>1. /\ value_type(v) = "object" /\ writer_ready /\ container_begin("object")
        /\ returned'.code = "OK" /\ job' = j
    <2>1. job' # job /\ job' # no_job BY DEF Idle, Copying, no_job
    <2> QED BY <2>1 DEF object_begin_except
  <1>2. v \in DOMAIN Document /\ Document[v].type = "object" BY <1>1 DEF value_type
  <1>3. job'.kind = "except" /\ job'.excluded = excluded /\ job'.frames[1].value = v BY <1>1
  <1>4. copied' = [from |-> Len(events), kind |-> "except", excluded |-> excluded, value |-> v]
    BY <1>3 DEF CopyRecorded, Begins
  <1>5. events \in Seq(Event) /\ TreeInv BY <1>1, EventsTyped DEF Inv, writer_ready
  <1>6. Effect("begin", "object") BY <1>1, <1>5, BeginEffect
  <1>7. events' = Append(events, event("begin", "object")) BY <1>1, <1>5, <1>6, EventsAfter
  <1>8. /\ Traveling(job')
        /\ Progress(Append(events, event("begin", "object")), Len(events),
                    document_events("except", v, excluded), job')
    BY <1>1, <1>2, <1>5, ExceptStarts
  <1> QED BY <1>3, <1>4, <1>7, <1>8 DEF CopyInv

\* Every step keeps what is said and what is to say together.
LEMMA NextCopy ==
  ASSUME Inv, HistInv, CopyInv, [HistoryNext]_hvars
  PROVE  CopyInv'
  <1>1. SUFFICES ASSUME Copying' PROVE CopyInv' BY DEF CopyInv
  <1>2. CASE UNCHANGED hvars
    BY <1>1, <1>2 DEF hvars, vars, CopyInv, Copying
  <1>3. ASSUME HistoryNext PROVE CopyInv'
    <2>1. Next /\ Recorded /\ CopyRecorded BY <1>3 DEF HistoryNext
    <2>2. CASE writer_create \/ writer_release
      <3>1. job' = job /\ (profile = NONE \/ Idle) BY <2>2 DEF writer_create, writer_release
      <3>2. Idle BY <3>1 DEF Inv, JobInv
      <3> QED BY <1>1, <3>1, <3>2 DEF Idle, Copying
    <2>3. CASE Client
      <3>1. profile # NONE /\ Idle BY <2>3 DEF Client
      <3>2. job' # job BY <1>1, <3>1 DEF Idle, Copying
      <3>3. PICK v : writer_value(v) \/ \E excluded \in Exclusions : object_begin_except(v, excluded)
        BY <2>3, <3>2 DEF Client
      <3>4. CASE writer_value(v) BY <1>1, <2>1, <3>1, <3>4, ValueBegins
      <3>5. CASE \E excluded \in Exclusions : object_begin_except(v, excluded)
        <4>1. PICK excluded : object_begin_except(v, excluded) BY <3>5
        <4> QED BY <1>1, <2>1, <3>1, <4>1, ExceptBegins
      <3> QED BY <3>3, <3>4, <3>5
    <2>4. CASE copy_value
      <3>1. CASE Document[job.todo].type \in Containers
        BY <1>1, <2>1, <2>4, <3>1, CopiesContainer
      <3>2. CASE Document[job.todo].type \notin Containers
        BY <1>1, <2>1, <2>4, <3>2, CopiesLeaf
      <3> QED BY <3>1, <3>2
    <2>5. CASE copy_member BY <1>1, <2>1, <2>5, CopiesMember
    <2>6. CASE copy_element BY <1>1, <2>1, <2>6, CopiesElement
    <2>7. CASE copy_end BY <1>1, <2>1, <2>7, CopiesEnd
    <2>8. CASE copy_returns \/ copy_failed
      BY <1>1, <2>8 DEF copy_returns, copy_failed, no_job, Copying
    <2> QED BY <2>1, <2>2, <2>3, <2>4, <2>5, <2>6, <2>7, <2>8 DEF Next, CopyStep
  <1> QED BY <1>2, <1>3

\* When a copy returns, what it has said is all it was to say.
LEMMA CopyDone ==
  ASSUME Inv, HistInv, CopyInv, copy_returns
  PROVE  SubSeq(events, copied.from + 1, Len(events))
           = document_events(copied.kind, copied.value, copied.excluded)
  <1> DEFINE target == document_events(copied.kind, copied.value, copied.excluded)
  <1>1. Copying /\ job.todo = NONE /\ (job.frames = <<>> \/ (Outer /\ ~HasNext))
    BY DEF copy_returns
  <1>2. Progress(events, copied.from, target, job) BY <1>1 DEF CopyInv
  <1>3. job.frames = <<>> \/ (AtEnd(job) /\ IsOuter(job.kind, Len(job.frames)))
    <2>1. ASSUME job.frames # <<>> PROVE AtEnd(job) /\ IsOuter(job.kind, Len(job.frames))
      <3>1. InFrame /\ Outer /\ ~HasNext BY <1>1, <2>1 DEF InFrame
      <3> QED BY <3>1, LoopFacts
    <2> QED BY <2>1
  <1>4. ASSUME NEW P, Pending(job, P) PROVE P = <<>> BY <1>1, <1>3, <1>4, NothingLeft
  <1> HIDE DEF target
  <1>5. SubSeq(events, copied.from + 1, Len(events)) = target BY <1>2, <1>4, ProgressDone
  <1> QED BY <1>5 DEF target

\* The histories start as the record of no calls.
LEMMA HistoryStarts == HistoryInit => Inv /\ HistInv /\ CopyInv
  <1> SUFFICES ASSUME HistoryInit PROVE Inv /\ HistInv /\ CopyInv OBVIOUS
  <1>1. Inv BY InitInv DEF HistoryInit
  <1>2. HistInv BY EmptyHist DEF HistoryInit, Init
  <1>3. CopyInv BY DEF HistoryInit, Init, no_job, CopyInv, Copying
  <1> QED BY <1>1, <1>2, <1>3

-----------------------------------------------------------------------------
(* Theorems.                                                                *)

\* The invariant of the tree and of the copy under way holds in every state.
THEOREM InvHolds == Spec => []Inv
  <1>1. Init => Inv
    BY InitInv
  <1>2. Inv /\ [Next]_vars => Inv'
    BY NextStep DEF Good
  <1> QED BY <1>1, <1>2, PTL DEF Spec

\* Whatever calls are made and whichever allocation fails: the fields of the writer have
\* their types, its failure is never ARGUMENT (the assertion of writer_fail), the stack
\* and the node array hold what is in them, and until a call fails the nodes are one
\* tree whose parent, child and sibling links agree.
THEOREM WriterOKHolds == Spec => []WriterOK
  <1>1. Inv => WriterOK
    BY DEF Inv, TreeInv, JobInv, Job, Shape, Failures, WriterOK, TypeOK
  <1> QED BY <1>1, InvHolds, PTL

\* Every live copy of a key, string or lexeme is one that release frees, once.
THEOREM NoTextIsLost == Spec => []NoTextLost
  <1>1. Inv => NoTextLost
    BY DEF Inv, TreeInv
  <1> QED BY <1>1, InvHolds, PTL

\* No object of the tree has two members with the same key, and the key attach_node takes
\* is not in its object yet (its assertion), whatever was copied or excluded before.
THEOREM KeysAreUnique == Spec => []UniqueKeys
  <1>1. Inv => UniqueKeys
    BY DEF Inv, TreeInv
  <1> QED BY <1>1, InvHolds, PTL

\* A copy that stops midway leaves the writer failed.
THEOREM FailedCopySticks == Spec => []FailedCopyIsSticky
  <1>1. Inv => FailedCopyIsSticky
    BY DEF Inv, JobInv
  <1> QED BY <1>1, InvHolds, PTL

\* The writer implements its contract: every call, and every step of a copy, is the
\* event of one JSON value, a failure, or nothing at all to a client.
THEOREM Refinement == Spec => ImplementsContract
  <1>1. Init => Contract!Init
    BY InitInv
  <1>2. Inv /\ [Next]_vars => [Contract!Next]_(Contract!vars)
    BY NextStep DEF Good, ContractStep
  <1> QED BY <1>1, <1>2, InvHolds, PTL DEF Spec, ImplementsContract, Contract!Spec

\* A writer whose calls have all succeeded holds exactly what they said, in their order:
\* whatever was copied, refused or begun in between, no call is dropped, doubled, moved to
\* another container or given another's key.
THEOREM TreeDenotes == HistorySpec => []TreeDenotesCalls
  <1>1. HistoryInit => Inv /\ HistInv
    <2> SUFFICES ASSUME HistoryInit PROVE Inv /\ HistInv OBVIOUS
    <2>1. Inv BY InitInv DEF HistoryInit
    <2>2. HistInv BY EmptyHist DEF HistoryInit, Init
    <2> QED BY <2>1, <2>2
  <1>2. Inv /\ HistInv /\ [HistoryNext]_hvars => Inv' /\ HistInv'
    <2> SUFFICES ASSUME Inv, HistInv, [HistoryNext]_hvars PROVE Inv' /\ HistInv' OBVIOUS
    <2>1. [Next]_vars BY DEF HistoryNext, hvars
    <2>2. Inv' BY <2>1, NextStep DEF Good
    <2> QED BY <2>2, NextHist
  <1>3. Inv /\ HistInv => TreeDenotesCalls
    <2> SUFFICES ASSUME Inv, HistInv, failure = "OK" PROVE tree_events = events
      BY DEF TreeDenotesCalls
    <2>1. PICK K, E : Record(nodes, stack, K, E) /\ events = said(E) BY DEF HistInv
    <2>2. WellLinked(nodes) BY DEF Inv, TreeInv, TreeWellLinked
    <2>3. tree_events = said(E) BY <2>1, <2>2, RecordIsTree
    <2> QED BY <2>1, <2>3
  <1> QED BY <1>1, <1>2, <1>3, PTL DEF HistorySpec

\* Whatever a client does between two copies and wherever allocations fail, a copy that
\* returns OK has added the calls that write its value, those of the excluded members
\* aside, in their order and nothing else.
THEOREM CopiesAreFaithful == HistorySpec => CopyIsFaithful
  <1>1. Inv /\ HistInv /\ CopyInv /\ [HistoryNext]_hvars => Inv' /\ HistInv' /\ CopyInv'
    <2> SUFFICES ASSUME Inv, HistInv, CopyInv, [HistoryNext]_hvars
                 PROVE  Inv' /\ HistInv' /\ CopyInv'
      OBVIOUS
    <2>1. [Next]_vars BY DEF HistoryNext, hvars
    <2>2. Inv' BY <2>1, NextStep DEF Good
    <2> QED BY <2>2, NextHist, NextCopy
  <1>2. Inv /\ HistInv /\ CopyInv =>
          [copy_returns => SubSeq(events, copied.from + 1, Len(events))
                             = document_events(copied.kind, copied.value, copied.excluded)]_hvars
    BY CopyDone
  <1> QED BY <1>1, <1>2, HistoryStarts, PTL DEF HistorySpec, CopyIsFaithful
=============================================================================
