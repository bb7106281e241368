---------------------------- MODULE ParserProofs ----------------------------
(***************************************************************************)
(* What holds of the parser for every input, every catalogue of lexemes,   *)
(* every limit and every structure size: first its arrays, then its        *)
(* memory.  maelys_json_document_parse_allocation_bound is an upper bound  *)
(* of what a call ever holds, and a call that fails leaves nothing behind; *)
(* for that, compact_walk must be shown to visit no token twice, so that   *)
(* the packed copy is never larger than what it replaces.                  *)
(***************************************************************************)
EXTENDS Parser, SequenceTheorems, TLAPS

\* A function on 1..n is a sequence of length n.
LEMMA FunctionIsSeq ==
  ASSUME NEW S, NEW n \in Nat, NEW f \in [1 .. n -> S]
  PROVE  f \in Seq(S) /\ Len(f) = n
  <1>1. f \in Seq(S)
    BY SeqDef
  <1> QED BY <1>1, LenProperties

\* An array that is one element longer has the old positions and one more.
LEMMA LongerSeq ==
  ASSUME NEW S, NEW s \in Seq(S), NEW t \in Seq(S), Len(t) = Len(s) + 1
  PROVE  DOMAIN s \subseteq DOMAIN t /\ Len(s) + 1 \in DOMAIN t /\ Len(s) + 1 \in Nat
  OBVIOUS

\* What holds of every entry of a stack holds after a push.
LEMMA PushSeq ==
  ASSUME NEW s \in Seq(Nat), NEW D, \A i \in DOMAIN s : s[i] \in D,
         NEW n \in Nat, n \in D
  PROVE  /\ Append(s, n) \in Seq(Nat) /\ Len(Append(s, n)) = Len(s) + 1
         /\ \A i \in DOMAIN Append(s, n) : Append(s, n)[i] \in D
  OBVIOUS

\* Dropping the last element.
LEMMA PopSeq ==
  ASSUME NEW S, NEW s \in Seq(S), s # <<>>
  PROVE  LET t == SubSeq(s, 1, Len(s) - 1)
         IN  /\ t \in Seq(S) /\ Len(t) = Len(s) - 1
             /\ \A i \in DOMAIN t : i \in DOMAIN s /\ t[i] = s[i]
  <1> DEFINE m == Len(s) - 1
             t == SubSeq(s, 1, m)
  <1>1. Len(s) \in Nat /\ Len(s) >= 1 /\ DOMAIN s = 1 .. Len(s)
    OBVIOUS
  <1>2. m \in Nat /\ 1 \in Int /\ m \in Int /\ (\A i \in 1 .. m : i \in DOMAIN s)
    BY <1>1
  <1>3. \A i \in 1 .. m : s[i] \in S
    BY <1>2
  <1> HIDE DEF m
  <1>4. /\ t \in Seq(S)
        /\ Len(t) = IF 1 <= m THEN m - 1 + 1 ELSE 0
        /\ \A i \in 1 .. m - 1 + 1 : t[i] = s[1 + i - 1]
    BY <1>2, <1>3, SubSeqProperties
  <1> HIDE DEF t
  <1>5. Len(t) = m /\ DOMAIN t = 1 .. m
    BY <1>2, <1>4
  <1>6. \A i \in 1 .. m : t[i] = s[i]
    BY <1>2, <1>4
  <1> QED BY <1>2, <1>4, <1>5, <1>6 DEF m, t

-----------------------------------------------------------------------------
(* Linking.                                                                 *)

\* Every link of a token array is a position of the array or NONE.
RangeOK(nodes) ==
  \A i \in DOMAIN nodes :
    /\ nodes[i].links.parent \in DOMAIN nodes \cup {NONE}
    /\ nodes[i].links.first_child \in DOMAIN nodes \cup {NONE}
    /\ nodes[i].links.last_child \in DOMAIN nodes \cup {NONE}
    /\ nodes[i].links.next_sibling \in DOMAIN nodes \cup {NONE}

\* Only the last child of a container has no next sibling.
ChainOK(nodes) ==
  \A i \in DOMAIN nodes :
    nodes[i].links.parent # NONE /\ nodes[i].links.next_sibling = NONE
      => nodes[nodes[i].links.parent].links.last_child = i

\* What attach leaves of an older element.
Kept(old, new) ==
  /\ new.type = old.type /\ new.object_key = old.object_key
  /\ new.text = old.text /\ new.text_size = old.text_size
  /\ new.superseded = old.superseded
  /\ new.links.parent = old.links.parent
  /\ old.links.next_sibling # NONE => new.links.next_sibling # NONE

\* An element without a parent is appended and nothing else changes.
LEMMA AttachRoot ==
  ASSUME NEW nodes \in Seq(Token), NEW node \in Token, node.links.parent = NONE
  PROVE  /\ attach(nodes, node) \in Seq(Token)
         /\ Len(attach(nodes, node)) = Len(nodes) + 1
         /\ \A i \in DOMAIN nodes : attach(nodes, node)[i] = nodes[i]
         /\ attach(nodes, node)[Len(nodes) + 1] = node
BY DEF attach

\* links_append written out, element by element.
LEMMA AttachChild ==
  ASSUME NEW nodes \in Seq(Token), NEW node \in Token, RangeOK(nodes),
         NEW p \in DOMAIN nodes, node.links = links_init(p)
  PROVE  LET g == attach(nodes, node)
             n == Len(nodes) + 1
         IN  /\ g \in Seq(Token)
             /\ Len(g) = n
             /\ \A i \in DOMAIN nodes : Kept(nodes[i], g[i])
             /\ \A i \in DOMAIN nodes : g[i].links.first_child =
                  IF i = p /\ nodes[p].links.last_child = NONE THEN n
                  ELSE nodes[i].links.first_child
             /\ \A i \in DOMAIN nodes : g[i].links.last_child =
                  IF i = p THEN n ELSE nodes[i].links.last_child
             /\ \A i \in DOMAIN nodes : g[i].links.next_sibling =
                  IF i = nodes[p].links.last_child THEN n ELSE nodes[i].links.next_sibling
             /\ g[n] = node
  <1> DEFINE n == Len(nodes) + 1
             grown == Append(nodes, node)
             last == grown[p].links.last_child
             g == attach(nodes, node)
  <1>1. grown \in Seq(Token) /\ Len(grown) = n /\ p \in 1 .. Len(nodes) /\ n \in Nat
    OBVIOUS
  <1>2. g = links_append(grown, p, n)
    BY <1>1, NoneAssumption DEF attach, links_init
  <1>3. last = nodes[p].links.last_child /\ last \in (1 .. Len(nodes)) \cup {NONE}
    BY <1>1 DEF RangeOK
  <1>4. DOMAIN grown = 1 .. n
    BY <1>1
  <1>5. \A i \in DOMAIN nodes : i \in 1 .. n /\ grown[i] = nodes[i]
    OBVIOUS
  <1>6. n \in 1 .. n /\ grown[n] = node /\ n # p /\ n # last /\ n # NONE
    BY <1>1, <1>3, NoneAssumption
  <1>7. g = [i \in 1 .. n |-> [grown[i] EXCEPT
               !.links = links_after(grown[i].links, i, p, last, n)]]
    BY <1>2, <1>4 DEF links_append
  <1>8. \A i \in 1 .. n : grown[i] \in Token
    BY <1>1, <1>4
  <1> HIDE DEF g, grown, last, n
  <1>9. ASSUME NEW i \in 1 .. n
        PROVE  /\ g[i] \in Token
               /\ Kept(grown[i], g[i])
               /\ g[i].links = links_after(grown[i].links, i, p, last, n)
    <2>1. g[i] = [grown[i] EXCEPT !.links = links_after(grown[i].links, i, p, last, n)]
      BY <1>7
    <2> DEFINE links == grown[i].links
               after == links_after(links, i, p, last, n)
    <2>2. grown[i] \in Token
      BY <1>8
    <2>3. links \in LinksOf(Nat)
      BY <2>2 DEF Token
    <2>4. after \in LinksOf(Nat)
      BY <1>1, <2>3 DEF links_after, LinksOf
    <2>5. /\ g[i].links = after
          /\ g[i].type = grown[i].type /\ g[i].object_key = grown[i].object_key
          /\ g[i].text = grown[i].text /\ g[i].text_size = grown[i].text_size
          /\ g[i].superseded = grown[i].superseded
      BY <2>1, <2>2 DEF Token
    <2>6. g[i] \in Token
      BY <2>1, <2>2, <2>4 DEF Token
    <2>7. /\ after.parent = links.parent
          /\ links.next_sibling # NONE => after.next_sibling # NONE
      BY <1>6 DEF links_after
    <2> QED BY <2>5, <2>6, <2>7 DEF Kept
  <1>10. g \in Seq(Token) /\ Len(g) = n
    <2>1. g \in [1 .. n -> Token]
      BY <1>7, <1>9
    <2> QED BY <1>1, <2>1, FunctionIsSeq
  <1>11. g[n] = node
    <2>1. links_after(node.links, n, p, last, n) = node.links
      BY <1>6 DEF links_after, links_init
    <2>2. g[n] = [node EXCEPT !.links = node.links]
      BY <1>6, <1>7, <2>1
    <2> QED BY <2>2 DEF Token
  <1>12. ASSUME NEW i \in DOMAIN nodes
         PROVE  /\ Kept(nodes[i], g[i])
                /\ g[i].links.first_child =
                     IF i = p /\ nodes[p].links.last_child = NONE THEN n
                     ELSE nodes[i].links.first_child
                /\ g[i].links.last_child = IF i = p THEN n ELSE nodes[i].links.last_child
                /\ g[i].links.next_sibling =
                     IF i = nodes[p].links.last_child THEN n ELSE nodes[i].links.next_sibling
    <2>1. i \in 1 .. n /\ grown[i] = nodes[i]
      BY <1>5
    <2>2. g[i].links = links_after(nodes[i].links, i, p, nodes[p].links.last_child, n)
      BY <1>3, <1>9, <2>1
    <2>3. Kept(nodes[i], g[i])
      BY <1>9, <2>1
    <2> QED BY <2>2, <2>3 DEF links_after
  <1> QED
    BY <1>10, <1>11, <1>12 DEF g, n

\* A superseded element has a next sibling: compact_walk's assertion.
SupersededOK(nodes) ==
  \A i \in DOMAIN nodes : nodes[i].superseded => nodes[i].links.next_sibling # NONE

\* attach keeps the array well typed and its links in range; after it, every
\* older sibling of the new element has a next sibling.
LEMMA AttachOK ==
  ASSUME NEW nodes \in Seq(Token), NEW node \in Token, RangeOK(nodes),
         NEW p \in DOMAIN nodes \cup {NONE}, node.links = links_init(p)
  PROVE  LET g == attach(nodes, node)
         IN  /\ g \in Seq(Token) /\ Len(g) = Len(nodes) + 1
             /\ RangeOK(g)
             /\ ChainOK(nodes) => ChainOK(g)
             /\ SupersededOK(nodes) /\ ~node.superseded => SupersededOK(g)
             /\ \A i \in DOMAIN nodes : g[i].links.parent = nodes[i].links.parent
             /\ g[Len(nodes) + 1] = node
             /\ ChainOK(nodes) => \A i \in DOMAIN nodes :
                  p # NONE /\ nodes[i].links.parent = p => g[i].links.next_sibling # NONE
  <1> DEFINE g == attach(nodes, node)
             n == Len(nodes) + 1
  <1>1. /\ node.links.parent = p /\ node.links.next_sibling = NONE
        /\ node.links.first_child = NONE /\ node.links.last_child = NONE
    BY DEF links_init
  <1>2. n \in Nat /\ n # NONE /\ n \notin DOMAIN nodes
        /\ \A i \in DOMAIN nodes : i # NONE /\ i \in Nat
    BY NoneAssumption
  <1>3. CASE p = NONE
    <2>1. /\ g \in Seq(Token) /\ Len(g) = n /\ g[n] = node
          /\ \A i \in DOMAIN nodes : g[i] = nodes[i]
      BY <1>1, <1>3, AttachRoot
    <2>2. DOMAIN g = DOMAIN nodes \cup {n}
      BY <2>1
    <2> HIDE DEF g, n
    <2>3. RangeOK(g)
      BY <1>1, <1>3, <2>1, <2>2 DEF RangeOK
    <2>4. ChainOK(nodes) => ChainOK(g)
      BY <1>1, <1>3, <2>1, <2>2 DEF ChainOK, RangeOK
    <2>5. SupersededOK(nodes) /\ ~node.superseded => SupersededOK(g)
      BY <2>1, <2>2 DEF SupersededOK
    <2> QED BY <1>3, <2>1, <2>3, <2>4, <2>5 DEF g, n
  <1>4. CASE p \in DOMAIN nodes
    <2>1. /\ g \in Seq(Token) /\ Len(g) = n /\ g[n] = node
          /\ \A i \in DOMAIN nodes :
               /\ Kept(nodes[i], g[i])
               /\ g[i].links.first_child \in {nodes[i].links.first_child, n}
               /\ g[i].links.last_child = IF i = p THEN n ELSE nodes[i].links.last_child
               /\ g[i].links.next_sibling =
                    IF i = nodes[p].links.last_child THEN n ELSE nodes[i].links.next_sibling
      BY <1>4, AttachChild
    <2>2. DOMAIN g = DOMAIN nodes \cup {n}
      BY <2>1
    <2> HIDE DEF g, n
    <2>3. RangeOK(g)
      <3> SUFFICES ASSUME NEW i \in DOMAIN g
                   PROVE  /\ g[i].links.parent \in DOMAIN g \cup {NONE}
                          /\ g[i].links.first_child \in DOMAIN g \cup {NONE}
                          /\ g[i].links.last_child \in DOMAIN g \cup {NONE}
                          /\ g[i].links.next_sibling \in DOMAIN g \cup {NONE}
        BY DEF RangeOK
      <3>1. CASE i = n
        BY <1>1, <1>4, <2>1, <2>2, <3>1
      <3>2. CASE i \in DOMAIN nodes
        BY <2>1, <2>2, <3>2 DEF RangeOK, Kept
      <3> QED BY <2>2, <3>1, <3>2
    <2>4. ASSUME ChainOK(nodes), NEW i \in DOMAIN nodes
          PROVE  /\ g[i].links.parent = p => g[i].links.next_sibling # NONE
                 /\ g[i].links.parent # NONE /\ g[i].links.next_sibling = NONE
                      => g[g[i].links.parent].links.last_child = i
      <3>1. g[i].links.parent = nodes[i].links.parent
        BY <2>1 DEF Kept
      <3>2. nodes[i].links.parent \in DOMAIN nodes \cup {NONE}
        BY DEF RangeOK
      <3>3. nodes[i].links.parent # NONE /\ nodes[i].links.next_sibling = NONE
              => nodes[nodes[i].links.parent].links.last_child = i
        BY <2>4 DEF ChainOK
      <3> QED BY <1>2, <1>4, <2>1, <3>1, <3>2, <3>3
    <2>5. ChainOK(nodes) => ChainOK(g)
      <3> SUFFICES ASSUME ChainOK(nodes), NEW i \in DOMAIN g,
                          g[i].links.parent # NONE, g[i].links.next_sibling = NONE
                   PROVE  g[g[i].links.parent].links.last_child = i
        BY DEF ChainOK
      <3>1. CASE i = n
        BY <1>1, <1>4, <2>1, <3>1
      <3>2. CASE i \in DOMAIN nodes
        BY <2>4, <3>2
      <3> QED BY <2>2, <3>1, <3>2
    <2>6. SupersededOK(nodes) /\ ~node.superseded => SupersededOK(g)
      BY <2>1, <2>2 DEF SupersededOK, Kept
    <2>7. ChainOK(nodes) => \A i \in DOMAIN nodes :
            nodes[i].links.parent = p => g[i].links.next_sibling # NONE
      BY <2>1, <2>4 DEF Kept
    <2>8. \A i \in DOMAIN nodes : g[i].links.parent = nodes[i].links.parent
      BY <2>1 DEF Kept
    <2> QED BY <2>1, <2>3, <2>5, <2>6, <2>7, <2>8 DEF g, n
  <1> QED BY <1>3, <1>4

-----------------------------------------------------------------------------
(* The inductive invariant.                                                 *)

Early == {"idle", "bound", "allocate", "reserve"}
Late  == {"measure", "copy", "children", "layout"}

\* A key whose value has no token yet, or the root that has none.
Pending == IF pc \in {"root", "colon", "member"} THEN 1 ELSE 0

\* Nothing has been read before the key set is ready.
Fresh ==
  pc \in Early =>
    /\ tokens = <<>> /\ stack = <<>> /\ keys = {} /\ packed.tokens = <<>>
    /\ offset = 0 /\ arena_used = 0 /\ arena_peak = 0 /\ key_count = 0

\* Every token has consumed a byte, every text fits in the bytes of its token
\* and one more, and every key but the pending one has its value's token.
Counting ==
  pc \in Scanning =>
    /\ offset <= call.size
    /\ Len(tokens) <= offset /\ Len(tokens) <= token_capacity
    /\ arena_used <= offset + Len(tokens)
    /\ 2 * key_count + 1 <= Len(tokens) + Pending
    /\ 2 * expected_keys <= slots
    /\ Len(stack) <= MaxDepth

\* A call has not failed as long as it goes on.
Outcome ==
  /\ pc \in Early \cup Scanning \cup Late => result = "OK"
  /\ result = "LIMIT" /\ pc \in {"finish", "failed"}
       => Len(tokens) = MaxTokens \/ Len(stack) = MaxDepth
  /\ result = "OK" /\ pc \in {"finish", "measure", "copy"} => Len(tokens) >= 1

\* The stack and the key set name tokens.
Naming ==
  pc \in Scanning =>
    /\ \A i \in DOMAIN stack : stack[i] \in DOMAIN tokens
    /\ keys \subseteq DOMAIN tokens
    /\ stack = <<>> <=> pc \in {"root", "end"}

Linking ==
  /\ RangeOK(tokens) /\ RangeOK(packed.tokens)
  /\ pc \in Early \cup Scanning \cup {"finish", "measure", "copy"}
       => ChainOK(tokens) /\ SupersededOK(tokens)

\* The frames of compact_walk and of build_children.
Walking ==
  /\ pc \in Scanning \cup {"finish", "measure"} => packed.tokens = <<>>
  /\ pc = "copy" => packed.token_count = Len(packed.tokens)
  /\ pc \in {"measure", "copy"} => \A i \in DOMAIN walk :
       /\ walk[i].child \in DOMAIN tokens \cup {NONE}
       /\ walk[i].parent \in (1 .. packed.token_count) \cup {NONE}
  /\ pc = "layout" =>
       /\ Len(walk) = 1
       /\ walk[1].child \in DOMAIN tokens \cup {NONE}
       /\ walk[1].parent \in 0 .. Len(tokens)

Inv ==
  /\ TypeOK /\ Fresh /\ Counting /\ Outcome /\ Naming /\ Linking /\ Walking
  /\ ArenaFits /\ LimitMeansLimit

-----------------------------------------------------------------------------
(* Reading a lexeme.                                                        *)

\* What document_parse derives from the size of the input: a token capacity
\* between 1 and maximum_tokens, and a table for more than half of it.
LEMMA CapacityFacts ==
  ASSUME TypeOK
  PROVE  /\ token_capacity \in Nat /\ token_capacity >= 1
         /\ token_capacity <= MaxTokens
         /\ call.size >= 1 => token_capacity = Lower(call.size, MaxTokens)
         /\ arena_capacity = call.size + token_capacity + 1
         /\ expected_keys \in Nat /\ token_capacity < 2 * expected_keys
  <1>1. call.size \in Nat /\ MaxTokens \in Nat /\ MaxTokens >= 1
    BY LimitsAssumption DEF TypeOK
  <1>2. /\ token_capacity \in Nat /\ token_capacity >= 1
        /\ token_capacity <= MaxTokens
        /\ call.size >= 1 => token_capacity = Lower(call.size, MaxTokens)
    BY <1>1 DEF token_capacity, AtLeastOne, Lower
  <1>3. ASSUME NEW n \in Nat
        PROVE  n \div 2 + 1 \in Nat /\ n < 2 * (n \div 2 + 1)
    OBVIOUS
  <1> QED BY <1>2, <1>3 DEF arena_capacity, expected_keys

\* A lexeme lies in the input; running out of tokens on one means maximum_tokens.
LEMMA ReadFacts ==
  ASSUME TypeOK, Counting, pc \in Scanning, NEW l \in Lexemes, Readable(l)
  PROVE  /\ l.lead \in Nat /\ l.width \in Nat /\ l.text_size \in Nat
         /\ at(l) \in Nat /\ end(l) \in Nat
         /\ offset <= at(l) /\ end(l) = at(l) + l.width /\ end(l) <= call.size
         /\ offset <= end(l)
         /\ l.kind # "eof" => l.width >= 1
         /\ l.kind # "eof" /\ token_limit => Len(tokens) = MaxTokens
  <1>1. /\ l.lead \in Nat /\ l.width \in Nat /\ l.text_size \in Nat
        /\ l.kind # "eof" => l.width >= 1
    BY LexemesAssumption
  <1>2. offset \in Nat /\ call.size \in Nat /\ Len(tokens) \in Nat
    BY DEF TypeOK
  <1>3. /\ at(l) \in Nat /\ end(l) \in Nat
        /\ offset <= at(l) /\ end(l) = at(l) + l.width /\ end(l) <= call.size
        /\ offset <= end(l)
    BY <1>1, <1>2 DEF Readable, at, end
  <1>4. ASSUME l.kind # "eof", token_limit
        PROVE  Len(tokens) = MaxTokens
    <2>1. Len(tokens) < call.size
      BY <1>1, <1>2, <1>3, <1>4 DEF Counting
    <2>2. Len(tokens) = token_capacity
      BY <1>2, <1>4, CapacityFacts DEF Counting, token_limit
    <2> QED BY <1>2, <2>1, <2>2, CapacityFacts, LimitsAssumption DEF Lower
  <1> QED BY <1>1, <1>3, <1>4

\* Reading a lexeme moves the offset to its end.
LEMMA ConsumeType ==
  ASSUME TypeOK, Counting, pc \in Scanning, NEW l \in Lexemes, Readable(l), Consume(l)
  PROVE  input' \in Seq(Lexemes) /\ offset' = end(l) /\ offset' \in Nat
  BY ReadFacts DEF Consume, TypeOK

\* A step that fails: the call is on its way out and holds what it held.
LEMMA FailStep ==
  ASSUME Inv, pc \in Scanning, NEW code \in Failures, NEW position \in Nat,
         input' \in Seq(Lexemes), offset' \in Nat,
         code = "LIMIT" => Len(tokens') = MaxTokens \/ Len(stack) = MaxDepth,
         tokens' \in Seq(Token), RangeOK(tokens'), ChainOK(tokens'), SupersededOK(tokens'),
         arena_used' \in Nat, arena_peak' \in Nat, arena_peak' <= arena_capacity,
         duplicate_count' \in Nat,
         fail(code, position)
  PROVE  Inv'
  <1> USE DEF Inv, fail, keyset_vars, compact_vars, memory_vars
  <1>1. TypeOK'
    BY DEF TypeOK, error_set, Lower, Places
  <1>2. Fresh' /\ Counting' /\ Naming'
    BY DEF Fresh, Counting, Naming, Early, Scanning
  <1>3. Outcome'
    BY DEF Outcome, Early, Scanning, Late, Failures
  <1>4. Linking'
    BY DEF Linking
  <1>5. Walking'
    BY DEF Walking
  <1>6. ArenaFits'
    BY DEF ArenaFits, arena_capacity, token_capacity
  <1>7. LimitMeansLimit'
    BY DEF LimitMeansLimit
  <1> QED BY <1>1, <1>2, <1>3, <1>4, <1>5, <1>6, <1>7

\* A step that fails before it adds a token.
LEMMA FailsStep ==
  ASSUME Inv, pc \in Scanning, NEW l \in Lexemes, Readable(l),
         NEW code \in Failures, NEW position \in Nat,
         code = "LIMIT" => Len(tokens) = MaxTokens \/ Len(stack) = MaxDepth,
         fails(l, code, position)
  PROVE  Inv'
  <1>1. fail(code, position) /\ Consume(l) /\ UNCHANGED document_vars
    BY DEF fails
  <1>2. input' \in Seq(Lexemes) /\ offset' \in Nat
    BY <1>1, ConsumeType DEF Inv
  <1>3. /\ tokens' = tokens /\ arena_used' = arena_used /\ arena_peak' = arena_peak
        /\ duplicate_count' = duplicate_count
    BY <1>1 DEF document_vars
  <1>4. /\ tokens \in Seq(Token) /\ arena_used \in Nat /\ arena_peak \in Nat
        /\ duplicate_count \in Nat /\ arena_peak <= arena_capacity
        /\ RangeOK(tokens) /\ ChainOK(tokens) /\ SupersededOK(tokens)
    BY DEF Inv, TypeOK, ArenaFits, Linking
  <1> QED BY <1>1, <1>2, <1>3, <1>4, FailStep

\* The token a step adds.
LEMMA TokenType ==
  ASSUME Inv, pc \in Scanning,
         NEW type \in {"object", "array", "string", "number", "literal"},
         NEW object_key \in BOOLEAN, NEW text_size \in Nat,
         NEW text \in {l.text : l \in Lexemes} \cup {NONE}
  PROVE  LET t == token(type, object_key, text, text_size)
         IN  t \in Token /\ t.links = links_init(parent) /\ ~t.superseded
  <1>1. parent \in DOMAIN tokens \cup {NONE}
    BY DEF Inv, TypeOK, Naming, parent
  <1>2. links_init(parent) \in LinksOf(Nat)
    BY <1>1 DEF Inv, TypeOK, links_init, LinksOf
  <1> QED BY <1>2 DEF token, Token

\* add_token for a lexeme of at least one byte: the token array stays well linked
\* and never outgrows the bytes consumed.
LEMMA TokenStep ==
  ASSUME Inv, pc \in Scanning, NEW l \in Lexemes, Readable(l), l.kind # "eof",
         ~token_limit, NEW t \in Token, t.links = links_init(parent), ~t.superseded,
         Consume(l)
  PROVE  LET g == attach(tokens, t)
         IN  /\ g \in Seq(Token) /\ Len(g) = Len(tokens) + 1
             /\ RangeOK(g) /\ ChainOK(g) /\ SupersededOK(g)
             /\ DOMAIN tokens \subseteq DOMAIN g /\ Len(g) \in DOMAIN g
             /\ Len(g) <= offset' /\ Len(g) <= token_capacity
             /\ offset' = at(l) + l.width /\ offset' <= call.size
             /\ \A i \in DOMAIN tokens : parent # NONE /\ tokens[i].links.parent = parent
                  => g[i].links.next_sibling # NONE
  <1> DEFINE g == attach(tokens, t)
  <1>1. parent \in DOMAIN tokens \cup {NONE}
    BY DEF Inv, TypeOK, Naming, parent
  <1>2. tokens \in Seq(Token) /\ RangeOK(tokens) /\ ChainOK(tokens) /\ SupersededOK(tokens)
    BY DEF Inv, TypeOK, Linking
  <1>3. /\ g \in Seq(Token) /\ Len(g) = Len(tokens) + 1
        /\ RangeOK(g) /\ ChainOK(g) /\ SupersededOK(g)
        /\ \A i \in DOMAIN tokens : parent # NONE /\ tokens[i].links.parent = parent
             => g[i].links.next_sibling # NONE
    BY <1>1, <1>2, AttachOK
  <1>4. DOMAIN tokens = 1 .. Len(tokens) /\ DOMAIN g = 1 .. Len(g) /\ Len(tokens) \in Nat
    BY <1>2, <1>3
  <1> HIDE DEF g
  <1>5. DOMAIN tokens \subseteq DOMAIN g /\ Len(g) \in DOMAIN g
    BY <1>3, <1>4
  <1>6. /\ l.width \in Nat /\ at(l) \in Nat /\ end(l) = at(l) + l.width
        /\ end(l) <= call.size /\ l.width >= 1 /\ offset <= at(l)
    BY ReadFacts DEF Inv
  <1>7. offset' = at(l) + l.width /\ offset' <= call.size /\ offset' >= offset + 1
    <2>1. offset' = end(l)
      BY DEF Consume
    <2>2. offset \in Nat /\ call.size \in Nat
      BY DEF Inv, TypeOK
    <2> QED BY <1>6, <2>1, <2>2
  <1>8. Len(tokens) <= offset /\ offset \in Nat
    BY DEF Inv, TypeOK, Counting
  <1>9. Len(tokens) < token_capacity /\ token_capacity \in Nat
    BY <1>4, CapacityFacts DEF Inv, token_limit
  <1>10. Len(g) <= offset' /\ Len(g) <= token_capacity
    <2>1. Len(g) <= token_capacity
      BY <1>3, <1>4, <1>9
    <2>2. offset' \in Nat
      BY <1>6, <1>7
    <2> QED BY <1>3, <1>4, <1>7, <1>8, <2>1, <2>2
  <1> QED BY <1>3, <1>5, <1>7, <1>10 DEF g

-----------------------------------------------------------------------------
(* The steps that read a lexeme.                                            *)

\* What a step that goes on has to show of the token array and the counters.
LEMMA GoOn ==
  ASSUME Inv, pc \in Scanning, pc' \in Scanning, input' \in Seq(Lexemes),
         offset' \in Nat, offset' <= call.size,
         tokens' \in Seq(Token), RangeOK(tokens'), ChainOK(tokens'), SupersededOK(tokens'),
         Len(tokens') <= offset', Len(tokens') <= token_capacity,
         DOMAIN tokens \subseteq DOMAIN tokens',
         arena_used' \in Nat, arena_used' <= offset' + Len(tokens'),
         arena_peak' \in Nat, arena_peak' <= arena_capacity,
         duplicate_count' \in Nat,
         stack' \in Seq(Nat), Len(stack') <= MaxDepth,
         \A i \in DOMAIN stack' : stack'[i] \in DOMAIN tokens',
         stack' = <<>> <=> pc' \in {"root", "end"},
         keys' \subseteq DOMAIN tokens', key_count' \in Nat,
         2 * key_count' + 1 <= Len(tokens') + Pending', slots' = slots,
         heap' \in [Blocks -> Nat], peak' \in Nat,
         UNCHANGED <<call, compact_vars, children, bound, outcome_vars>>
  PROVE  Inv'
  <1> USE DEF Inv, compact_vars, outcome_vars
  <1>1. TypeOK'
    <2>1. keys' \subseteq Nat
      <3> HIDE DEF Inv
      <3>1. DOMAIN tokens' = 1 .. Len(tokens') /\ Len(tokens') \in Nat
        BY LenProperties
      <3>2. DOMAIN tokens' \subseteq Nat
        BY <3>1, SMTT(30)
      <3> QED BY <3>2, Zenon
    <2> QED BY <2>1 DEF TypeOK, Places
  <1>2. Fresh' /\ Outcome'
    BY DEF Fresh, Outcome, Early, Scanning, Late
  <1>3. Counting'
    <2>1. token_capacity' = token_capacity /\ expected_keys' = expected_keys
      BY DEF token_capacity, expected_keys
    <2> QED BY <2>1 DEF Counting
  <1>4. Naming' /\ Linking'
    BY DEF Naming, Linking
  <1>5. Walking'
    BY DEF Walking, Scanning
  <1>6. ArenaFits'
    BY DEF ArenaFits, arena_capacity, token_capacity
  <1>7. LimitMeansLimit'
    BY DEF LimitMeansLimit, Outcome
  <1> QED BY <1>1, <1>2, <1>3, <1>4, <1>5, <1>6, <1>7

\* A delimiter: nothing but the place and, when it closes, the stack change.
LEMMA DelimiterStep ==
  ASSUME Inv, pc \in Scanning, NEW l \in Lexemes, Readable(l), Consume(l),
         UNCHANGED <<document_vars, keyset_vars>>, continue,
         pc' \in Scanning,
         \/ stack' = stack
         \/ stack # <<>> /\ stack' = SubSeq(stack, 1, Len(stack) - 1),
         stack' = <<>> <=> pc' \in {"root", "end"},
         Pending' >= Pending
  PROVE  Inv'
  <1>1. input' \in Seq(Lexemes) /\ offset' \in Nat /\ offset' = end(l)
    BY ConsumeType DEF Inv
  <1>2. offset <= offset' /\ offset' <= call.size
    <2>1. offset \in Nat
      BY DEF Inv, TypeOK
    <2>2. /\ l.width \in Nat /\ at(l) \in Nat /\ end(l) = at(l) + l.width
          /\ end(l) <= call.size /\ offset <= at(l)
      BY ReadFacts DEF Inv
    <2> QED BY <1>1, <2>1, <2>2
  <1>3. /\ tokens' = tokens /\ arena_used' = arena_used /\ arena_peak' = arena_peak
        /\ duplicate_count' = duplicate_count /\ keys' = keys
        /\ key_count' = key_count /\ slots' = slots /\ heap' = heap /\ peak' = peak
        /\ UNCHANGED <<call, compact_vars, children, bound, outcome_vars>>
    BY DEF document_vars, keyset_vars, memory_vars, continue
  <1>4. stack \in Seq(Nat) /\ Len(stack) \in Nat
    BY DEF Inv, TypeOK
  <1>5. /\ stack' \in Seq(Nat) /\ Len(stack') <= Len(stack) /\ Len(stack') \in Nat
        /\ \A i \in DOMAIN stack' : i \in DOMAIN stack /\ stack'[i] = stack[i]
    <2>1. CASE stack' = stack
      BY <1>4, <2>1
    <2>2. CASE stack # <<>> /\ stack' = SubSeq(stack, 1, Len(stack) - 1)
      BY <1>4, <2>2
    <2> QED BY <2>1, <2>2
  <1>6. Len(stack) <= MaxDepth /\ \A i \in DOMAIN stack : stack[i] \in DOMAIN tokens
    BY DEF Inv, Counting, Naming
  <1>8. Len(stack') <= MaxDepth /\ \A i \in DOMAIN stack' : stack'[i] \in DOMAIN tokens'
    BY <1>3, <1>4, <1>5, <1>6, LimitsAssumption
  <1>9. /\ 2 * key_count + 1 <= Len(tokens) + Pending
        /\ Len(tokens) <= offset /\ Len(tokens) <= token_capacity
        /\ arena_used <= offset + Len(tokens)
    BY DEF Inv, Counting
  <1>10. /\ key_count \in Nat /\ Len(tokens) \in Nat /\ offset \in Nat
         /\ arena_used \in Nat /\ Pending \in Nat /\ Pending' \in Nat
    BY DEF Inv, TypeOK, Pending
  <1>11. /\ 2 * key_count' + 1 <= Len(tokens') + Pending'
         /\ Len(tokens') <= offset' /\ Len(tokens') <= token_capacity
         /\ arena_used' <= offset' + Len(tokens')
    BY <1>1, <1>2, <1>3, <1>9, <1>10
  <1>7. /\ tokens' \in Seq(Token) /\ RangeOK(tokens') /\ ChainOK(tokens')
        /\ SupersededOK(tokens') /\ arena_used' \in Nat /\ arena_peak' \in Nat
        /\ arena_peak' <= arena_capacity /\ duplicate_count' \in Nat
        /\ keys' \subseteq DOMAIN tokens' /\ key_count' \in Nat
        /\ heap' \in [Blocks -> Nat] /\ peak' \in Nat
    BY <1>3 DEF Inv, TypeOK, Linking, ArenaFits, Naming
  <1> QED BY <1>1, <1>2, <1>3, <1>5, <1>7, <1>8, <1>11, GoOn

\* Bytes read and tokens made bound the text; bytes and tokens left leave room.
LEMMA Room ==
  ASSUME NEW x \in Nat, NEW o \in Nat, NEW n \in Nat, NEW w \in Nat,
         NEW s \in Nat, NEW t \in Nat, x <= (o + n) + (w + 1), o + w <= s, n < t
  PROVE  x <= s + t + 1
  <1>1. x <= (o + w) + (n + 1)
    OBVIOUS
  <1>2. n + 1 <= t + 1 /\ n + 1 \in Nat /\ o + w \in Nat
    OBVIOUS
  <1>3. (o + w) + (n + 1) <= s + (t + 1)
    BY <1>2
  <1> QED BY <1>1, <1>3

\* A text of a token of `l` fits, with its NUL, in what the arena has left.
LEMMA ArenaStep ==
  ASSUME Inv, pc \in Scanning, NEW l \in Lexemes, Readable(l), ~token_limit,
         NEW capacity \in Nat, capacity <= l.width + 1, NEW used \in Nat, used <= l.width
  PROVE  /\ Upper(arena_peak, arena_used + capacity) \in Nat
         /\ Upper(arena_peak, arena_used + capacity) <= arena_capacity
         /\ arena_used + used + 1 \in Nat
         /\ arena_used + used + 1 <= end(l) + (Len(tokens) + 1)
  <1>1. /\ arena_used \in Nat /\ arena_peak \in Nat /\ Len(tokens) \in Nat
        /\ call.size \in Nat /\ offset \in Nat
    BY DEF Inv, TypeOK
  <1>2. /\ l.width \in Nat /\ at(l) \in Nat /\ end(l) = at(l) + l.width
        /\ end(l) <= call.size /\ offset <= at(l)
    BY ReadFacts DEF Inv
  <1>3. arena_used <= offset + Len(tokens)
    BY DEF Inv, Counting
  <1>4. /\ token_capacity \in Nat /\ Len(tokens) < token_capacity
        /\ arena_capacity = call.size + token_capacity + 1
    BY <1>1, CapacityFacts DEF Inv, token_limit
  <1>5. arena_peak <= arena_capacity
    BY DEF Inv, ArenaFits
  <1>6. arena_capacity \in Nat /\ arena_used + capacity <= arena_capacity
    <2>1. l.width \in Nat /\ offset + l.width <= call.size
      BY <1>1, <1>2
    <2>2. arena_used + capacity <= (offset + Len(tokens)) + (l.width + 1)
      BY <1>1, <1>3, <2>1
    <2>3. arena_used + capacity \in Nat
      BY <1>1
    <2>4. arena_used + capacity <= call.size + token_capacity + 1
      BY <1>1, <1>4, <2>1, <2>2, <2>3, Room, SMTT(30)
    <2>5. arena_capacity \in Nat
      BY <1>1, <1>4
    <2> QED BY <1>4, <2>4, <2>5, Zenon
  <1>7. arena_used + used + 1 <= end(l) + (Len(tokens) + 1)
    <2>1. offset + used <= end(l) /\ end(l) \in Nat
      BY <1>1, <1>2
    <2> QED BY <1>1, <1>3, <2>1
  <1>8. arena_used + capacity \in Nat /\ arena_used + used + 1 \in Nat
    BY <1>1
  <1> QED BY <1>1, <1>5, <1>6, <1>7, <1>8 DEF Upper

\* scan_string_body stops at a position when it refuses a byte.
LEMMA RefusedPosition ==
  ASSUME NEW l \in Lexemes, refused(l) # {}
  PROVE  Least(refused(l)) \in Nat
  <1>1. l.control \in Nat \cup {NONE} /\ l.exotic \in Nat \cup {NONE}
    BY LexemesAssumption
  <1> DEFINE S == refused(l)
  <1>2. \E a, b \in Nat : S = {a, b}
    <2>1. CASE l.control # NONE /\ l.exotic # NONE /\ call.profile = "CONTRACT_ASCII"
      <3>1. S = {l.control, l.exotic}
        BY <2>1 DEF refused
      <3> QED BY <1>1, <2>1, <3>1
    <2>2. CASE l.control # NONE /\ ~(l.exotic # NONE /\ call.profile = "CONTRACT_ASCII")
      <3>1. S = {l.control, l.control}
        BY <2>2 DEF refused
      <3> QED BY <1>1, <2>2, <3>1
    <2>3. CASE l.control = NONE
      <3>1. S = {l.exotic, l.exotic} /\ l.exotic # NONE
        BY <2>3 DEF refused
      <3> QED BY <1>1, <3>1
    <2> QED BY <2>1, <2>2, <2>3
  <1> HIDE DEF S
  <1>3. PICK a, b \in Nat : S = {a, b}
    BY <1>2
  <1>4. \E i \in S : \A j \in S : i <= j
    <2>1. CASE a <= b
      BY <1>3, <2>1
    <2>2. CASE b <= a
      BY <1>3, <2>2
    <2> QED BY <2>1, <2>2
  <1>5. Least(S) \in S
    BY <1>3, <1>4 DEF Least
  <1> QED BY <1>3, <1>5 DEF S

\* A string literal that is refused, or for which there is no token left.
LEMMA StringFailsStep ==
  ASSUME Inv, pc \in Scanning, NEW l \in Lexemes, Readable(l), l.kind = "string",
         StringFails(l)
  PROVE  Inv'
  <1> DEFINE outcome == string_outcome(l)
  <1>1. outcome.code # "OK" /\ fails(l, outcome.code, outcome.offset)
    BY DEF StringFails
  <1>2. at(l) \in Nat /\ (token_limit => Len(tokens) = MaxTokens)
    BY ReadFacts DEF Inv
  <1>3. /\ outcome.code \in Failures /\ outcome.offset \in Nat
        /\ outcome.code = "LIMIT" => Len(tokens) = MaxTokens
    <2>1. CASE refused(l) # {}
      BY <1>2, <2>1, RefusedPosition DEF string_outcome, Failures
    <2>2. CASE refused(l) = {}
      BY <1>1, <1>2, <2>2 DEF string_outcome, Failures
    <2> QED BY <2>1, <2>2
  <1> QED BY <1>1, <1>3, FailsStep

\* What an accepted or refused string literal says about its lexeme.
LEMMA StringFacts ==
  ASSUME Inv, pc \in Scanning, NEW l \in Lexemes, Readable(l), l.kind = "string",
         string_outcome(l).code = "OK"
  PROVE  /\ ~token_limit /\ l.closed
         /\ l.width - 1 \in Nat /\ l.width - 1 <= l.width + 1
         /\ l.text_size \in Nat /\ l.text_size <= l.width
  <1>1. ~token_limit /\ l.closed
    BY DEF string_outcome
  <1> QED BY <1>1, LexemesAssumption

\* A string literal whose token exists when the decoder refuses its text.
LEMMA DecodeFailsStep ==
  ASSUME Inv, pc \in Scanning, NEW l \in Lexemes, Readable(l), l.kind = "string",
         NEW object_key \in BOOLEAN, DecodeFails(l, object_key)
  PROVE  Inv'
  <1> DEFINE t == token("string", object_key, NONE, 0)
             g == attach(tokens, t)
  <1>1. /\ string_outcome(l).code = "OK" /\ l.decoded # "OK" /\ Consume(l)
        /\ tokens' = g /\ arena_peak' = Upper(arena_peak, arena_used + (l.width - 1))
        /\ fail(l.decoded, at(l) + 1 + l.bad)
        /\ arena_used' = arena_used /\ duplicate_count' = duplicate_count
    BY DEF DecodeFails
  <1>2. t \in Token /\ t.links = links_init(parent) /\ ~t.superseded
    BY TokenType
  <1> HIDE DEF t
  <1>3. g \in Seq(Token) /\ RangeOK(g) /\ ChainOK(g) /\ SupersededOK(g)
    BY <1>1, <1>2, StringFacts, TokenStep
  <1>4. arena_peak' \in Nat /\ arena_peak' <= arena_capacity
    BY <1>1, StringFacts, ArenaStep
  <1>5. l.decoded \in Failures /\ l.decoded # "LIMIT" /\ at(l) + 1 + l.bad \in Nat
    BY <1>1, ReadFacts, LexemesAssumption DEF Inv, Failures
  <1>6. input' \in Seq(Lexemes) /\ offset' \in Nat
    BY <1>1, ConsumeType DEF Inv
  <1>7. arena_used \in Nat /\ duplicate_count \in Nat
    BY DEF Inv, TypeOK
  <1> QED BY <1>1, <1>3, <1>4, <1>5, <1>6, <1>7, FailStep

\* What every step that adds a token and goes on has in common.
LEMMA AcceptStep ==
  ASSUME Inv, pc \in Scanning, NEW l \in Lexemes, Readable(l), l.kind # "eof",
         ~token_limit, Consume(l),
         NEW t \in Token, t.links = links_init(parent), ~t.superseded,
         tokens' \in Seq(Token), Len(tokens') = Len(attach(tokens, t)),
         RangeOK(tokens'), ChainOK(tokens'), SupersededOK(tokens'),
         NEW capacity \in Nat, capacity <= l.width + 1, NEW used \in Nat, used <= l.width,
         \/ arena_claim(capacity, used)
         \/ UNCHANGED <<arena_used, arena_peak>>,
         duplicate_count' \in Nat, pc' \in Scanning,
         \/ stack' = stack
         \/ stack' = Append(stack, Len(tokens) + 1) /\ Len(stack) < MaxDepth,
         stack' = <<>> <=> pc' \in {"root", "end"},
         keys' \subseteq DOMAIN tokens', key_count' \in Nat,
         2 * key_count' + 1 <= Len(tokens) + 1 + Pending', slots' = slots,
         heap' \in [Blocks -> Nat], peak' \in Nat,
         UNCHANGED <<call, compact_vars, children, bound, outcome_vars>>
  PROVE  Inv'
  <1> DEFINE n == Len(tokens) + 1
  <1>1. Len(tokens') = n /\ n <= offset' /\ n <= token_capacity /\ offset' <= call.size
    BY TokenStep
  <1>2. input' \in Seq(Lexemes) /\ offset' \in Nat /\ offset' = end(l)
    BY ConsumeType DEF Inv
  <1>3. tokens \in Seq(Token) /\ Len(tokens) \in Nat /\ stack \in Seq(Nat)
    BY DEF Inv, TypeOK
  <1>4. DOMAIN tokens \subseteq DOMAIN tokens' /\ n \in DOMAIN tokens' /\ n \in Nat
    BY <1>1, <1>3, LongerSeq
  <1>5. Len(stack) <= MaxDepth /\ \A i \in DOMAIN stack : stack[i] \in DOMAIN tokens
    BY DEF Inv, Counting, Naming
  <1>6. /\ stack' \in Seq(Nat) /\ Len(stack') <= MaxDepth
        /\ \A i \in DOMAIN stack' : stack'[i] \in DOMAIN tokens'
    <2>1. CASE stack' = stack
      BY <1>3, <1>4, <1>5, <2>1
    <2>2. CASE stack' = Append(stack, n) /\ Len(stack) < MaxDepth
      <3>1. /\ Append(stack, n) \in Seq(Nat) /\ Len(Append(stack, n)) = Len(stack) + 1
            /\ \A i \in DOMAIN Append(stack, n) : Append(stack, n)[i] \in DOMAIN tokens'
        BY <1>3, <1>4, <1>5, PushSeq
      <3>2. Len(stack) \in Nat /\ MaxDepth \in Nat
        BY <1>3, LimitsAssumption
      <3>3. Len(stack) + 1 <= MaxDepth
        BY <2>2, <3>2
      <3> QED BY <2>2, <3>1, <3>3
    <2> QED BY <2>1, <2>2
  <1>7. /\ arena_used' \in Nat /\ arena_used' <= offset' + Len(tokens')
        /\ arena_peak' \in Nat /\ arena_peak' <= arena_capacity
    <2>1. CASE arena_claim(capacity, used)
      BY <1>1, <1>2, <2>1, ArenaStep DEF arena_claim
    <2>2. CASE UNCHANGED <<arena_used, arena_peak>>
      <3>1. /\ arena_used \in Nat /\ arena_peak \in Nat /\ arena_peak <= arena_capacity
            /\ arena_used <= offset + Len(tokens) /\ offset \in Nat
        BY DEF Inv, TypeOK, ArenaFits, Counting
      <3>2. offset <= end(l) /\ end(l) \in Nat
        BY ReadFacts DEF Inv
      <3>3. \A u, o, m, e \in Nat : u <= o + m /\ o <= e => u <= e + (m + 1)
        OBVIOUS
      <3>4. arena_used <= end(l) + (Len(tokens) + 1)
        BY <1>3, <3>1, <3>2, <3>3
      <3> QED BY <1>1, <1>2, <2>2, <3>1, <3>4
    <2> QED BY <2>1, <2>2
  <1> QED BY <1>1, <1>2, <1>4, <1>6, <1>7, GoOn

\* The bytes held are a number.
LEMMA LiveNat ==
  ASSUME NEW h \in [Blocks -> Nat]
  PROVE  Live(h) \in Nat
  <1>1. /\ h["document"] \in Nat /\ h["bytes"] \in Nat /\ h["tokens"] \in Nat
        /\ h["arena"] \in Nat /\ h["keys"] \in Nat /\ h["packed_tokens"] \in Nat
        /\ h["packed_arena"] \in Nat /\ h["children"] \in Nat
    BY DEF Blocks
  <1> QED BY <1>1 DEF Live

\* The parts of the invariant about blocks, keys and the stack.
LEMMA HeapType ==
  ASSUME Inv
  PROVE  /\ heap \in [Blocks -> Nat] /\ peak \in Nat /\ slots \in Nat
         /\ key_count \in Nat /\ duplicate_count \in Nat
         /\ pc \in Scanning => keys \subseteq DOMAIN tokens
         /\ pc \in Scanning => stack = <<>> <=> pc \in {"root", "end"}
         /\ pc \in Scanning => 2 * key_count + 1 <= Len(tokens) + Pending
  BY DEF Inv, TypeOK, Naming, Counting

\* A value token where the parser expects a value.
LEMMA ValueStep ==
  ASSUME Inv, pc \in {"root", "member", "element", "first_element"},
         NEW l \in Lexemes, Readable(l), l.kind # "eof", ~token_limit, Consume(l),
         NEW t \in Token, t.links = links_init(parent), ~t.superseded,
         tokens' = attach(tokens, t),
         NEW capacity \in Nat, capacity <= l.width + 1, NEW used \in Nat, used <= l.width,
         \/ arena_claim(capacity, used)
         \/ UNCHANGED <<arena_used, arena_peak>>,
         pc' \in Scanning,
         \/ stack' = stack
         \/ stack' = Append(stack, Len(tokens) + 1) /\ Len(stack) < MaxDepth,
         stack' = <<>> <=> pc' \in {"root", "end"},
         UNCHANGED <<duplicate_count, keyset_vars>>, continue
  PROVE  Inv'
  <1>1. pc \in Scanning
    BY DEF Scanning
  <1>2. /\ tokens' \in Seq(Token) /\ RangeOK(tokens') /\ ChainOK(tokens')
        /\ SupersededOK(tokens') /\ DOMAIN tokens \subseteq DOMAIN tokens'
    BY <1>1, TokenStep
  <1>3. /\ duplicate_count' = duplicate_count /\ keys' = keys
        /\ key_count' = key_count /\ slots' = slots /\ heap' = heap /\ peak' = peak
        /\ UNCHANGED <<call, compact_vars, children, bound, outcome_vars>>
    BY DEF keyset_vars, memory_vars, continue
  <1>4. 2 * key_count' + 1 <= Len(tokens) + 1 + Pending'
    <2>1. Len(tokens) \in Nat /\ Pending \in 0 .. 1 /\ Pending' \in 0 .. 1
      BY DEF Inv, TypeOK, Pending
    <2>2. key_count \in Nat /\ 2 * key_count + 1 <= Len(tokens) + Pending
      BY <1>1, HeapType
    <2> QED BY <1>3, <2>1, <2>2
  <1>5. keys' \subseteq DOMAIN tokens'
    BY <1>1, <1>2, <1>3, HeapType
  <1>6. /\ duplicate_count' \in Nat /\ key_count' \in Nat
        /\ heap' \in [Blocks -> Nat] /\ peak' \in Nat
    BY <1>3, HeapType
  <1> QED BY <1>1, <1>2, <1>3, <1>4, <1>5, <1>6, AcceptStep

\* parse_value, whatever the lexeme.
LEMMA ParseValueStep ==
  ASSUME Inv, pc \in {"root", "member", "element", "first_element"},
         NEW l \in Lexemes, Readable(l), parse_value(l)
  PROVE  Inv'
  <1>1. pc \in Scanning
    BY DEF Scanning
  <1>2. /\ l.text \in {x.text : x \in Lexemes} \cup {NONE} /\ at(l) \in Nat
        /\ l.text_size \in Nat /\ l.width \in Nat
        /\ l.kind # "eof" /\ token_limit => Len(tokens) = MaxTokens
    BY <1>1, ReadFacts DEF Inv
  <1>3. stack \in Seq(Nat) /\ Len(stack) \in Nat
    BY DEF Inv, TypeOK
  <1>4. ASSUME after_value, stack' = stack
        PROVE  pc' \in Scanning /\ (stack' = <<>> <=> pc' \in {"root", "end"})
    BY <1>4 DEF after_value, Scanning
  <1>5. CASE Open(l)
    <2>1. /\ Consume(l) /\ ~token_limit /\ l.kind # "eof" /\ Len(stack) < MaxDepth
          /\ stack' = Append(stack, Len(tokens) + 1) /\ pc' \in {"first_key", "first_element"}
          /\ UNCHANGED <<arena_used, arena_peak>> /\ UNCHANGED <<duplicate_count, keyset_vars>>
          /\ continue
      BY <1>5 DEF Open, keyset_vars
    <2>2. pc' \in Scanning /\ (stack' = <<>> <=> pc' \in {"root", "end"})
      BY <1>3, <2>1 DEF Scanning
    <2>3. PICK type \in {"object", "array"} :
            tokens' = attach(tokens, token(type, FALSE, NONE, 0))
      BY <1>5 DEF Open
    <2> DEFINE t == token(type, FALSE, NONE, 0)
    <2>4. t \in Token /\ t.links = links_init(parent) /\ ~t.superseded
      BY <1>1, <2>3, TokenType
    <2> HIDE DEF t
    <2>5. 0 \in Nat /\ 0 <= l.width /\ 0 <= l.width + 1
      BY <1>2
    <2> QED BY <2>1, <2>2, <2>3, <2>4, <2>5, ValueStep DEF t
  <1>6. CASE OpenFails(l)
    <2>1. l.kind # "eof" /\ fails(l, "LIMIT", at(l)) /\ (Len(stack) >= MaxDepth \/ token_limit)
      BY <1>6 DEF OpenFails
    <2>2. Len(stack) <= MaxDepth
      BY <1>1 DEF Inv, Counting
    <2>3. Len(tokens) = MaxTokens \/ Len(stack) = MaxDepth
      BY <1>2, <1>3, <2>1, <2>2, LimitsAssumption
    <2> QED BY <1>1, <1>2, <2>1, <2>3, FailsStep DEF Failures
  <1>7. CASE l.kind = "string" /\ StringFails(l)
    BY <1>1, <1>7, StringFailsStep
  <1>8. CASE l.kind = "string" /\ DecodeFails(l, FALSE)
    BY <1>1, <1>8, DecodeFailsStep
  <1>9. CASE l.kind = "string" /\ StringValue(l)
    <2> DEFINE t == token("string", FALSE, l.text, l.text_size)
    <2>1. /\ string_outcome(l).code = "OK" /\ Consume(l) /\ l.kind # "eof"
          /\ arena_claim(l.width - 1, l.text_size)
          /\ tokens' = attach(tokens, t) /\ after_value /\ stack' = stack
          /\ UNCHANGED <<duplicate_count, keyset_vars>> /\ continue
      BY <1>9 DEF StringValue, StringAccepted, keyset_vars
    <2>2. t \in Token /\ t.links = links_init(parent) /\ ~t.superseded
      BY <1>1, <1>2, TokenType
    <2> HIDE DEF t
    <2>3. /\ ~token_limit /\ l.width - 1 \in Nat /\ l.width - 1 <= l.width + 1
          /\ l.text_size \in Nat /\ l.text_size <= l.width
      BY <1>1, <1>9, <2>1, StringFacts
    <2> QED BY <1>4, <2>1, <2>2, <2>3, ValueStep
  <1>10. CASE Primitive(l)
    <2> DEFINE t == token(l.kind, FALSE, l.text, l.text_size)
    <2>1. /\ Consume(l) /\ ~token_limit /\ l.kind \in {"number", "literal"}
          /\ tokens' = attach(tokens, t) /\ after_value /\ stack' = stack
          /\ UNCHANGED <<duplicate_count, keyset_vars>> /\ continue
      BY <1>10 DEF Primitive, keyset_vars
    <2>2. t \in Token /\ t.links = links_init(parent) /\ ~t.superseded
      <3>1. l.kind \in {"object", "array", "string", "number", "literal"} /\ FALSE \in BOOLEAN
        BY <2>1
      <3> QED BY <1>1, <1>2, <3>1, TokenType
    <2> HIDE DEF t
    <2>3. l.kind # "eof" /\ l.text_size <= l.width
      BY <1>2, <2>1, LexemesAssumption
    <2>4. \/ arena_claim(l.text_size + 1, l.text_size)
          \/ UNCHANGED <<arena_used, arena_peak>>
      BY <1>10 DEF Primitive
    <2>5. l.text_size + 1 \in Nat /\ l.text_size + 1 <= l.width + 1
      BY <1>2, <2>3
    <2> QED BY <1>2, <1>4, <2>1, <2>2, <2>3, <2>4, <2>5, ValueStep
  <1>11. CASE PrimitiveLimit(l)
    BY <1>1, <1>2, <1>11, FailsStep DEF PrimitiveLimit, Failures
  <1>12. CASE ValueExpected(l)
    BY <1>1, <1>2, <1>12, FailsStep DEF ValueExpected, Failures
  <1> QED
    BY <1>5, <1>6, <1>7, <1>8, <1>9, <1>10, <1>11, <1>12 DEF parse_value

\* The key of a member, whatever the lexeme; the table keeps its capacity.
LEMMA ParseKeyStep ==
  ASSUME Inv, pc \in {"first_key", "key"}, NEW l \in Lexemes, Readable(l), parse_key(l)
  PROVE  Inv' /\ (pc' = "colon" => slots' = slots)
  <1>1. pc \in Scanning /\ pc \notin {"root", "colon", "member", "end"}
    BY DEF Scanning
  <1>2. /\ l.text \in {x.text : x \in Lexemes} \cup {NONE} /\ at(l) \in Nat
        /\ l.text_size \in Nat /\ l.width \in Nat
    BY <1>1, ReadFacts DEF Inv
  <1>3. stack # <<>> /\ parent \in DOMAIN tokens /\ parent # NONE
    <2>1. /\ stack \in Seq(Nat) /\ stack # <<>> /\ tokens \in Seq(Token)
          /\ \A i \in DOMAIN stack : stack[i] \in DOMAIN tokens
      BY <1>1 DEF Inv, TypeOK, Naming
    <2>2. parent \in DOMAIN tokens
      BY <2>1 DEF parent
    <2> QED BY <2>1, <2>2, NoneAssumption
  <1>4. Len(tokens) \in Nat /\ 2 * key_count + 1 <= Len(tokens)
    <2>1. Len(tokens) \in Nat
      BY DEF Inv, TypeOK
    <2>2. Pending = 0
      BY <1>1 DEF Pending
    <2> QED BY <1>1, <2>1, <2>2, HeapType
  <1>5. CASE KeyExpected(l)
    BY <1>1, <1>2, <1>5, FailsStep DEF KeyExpected, Failures, fails, fail
  <1>6. CASE l.kind = "string" /\ StringFails(l)
    BY <1>1, <1>6, StringFailsStep DEF StringFails, fails, fail
  <1>7. CASE l.kind = "string" /\ DecodeFails(l, TRUE)
    BY <1>1, <1>7, DecodeFailsStep DEF DecodeFails, fail
  <1> DEFINE t == token("string", TRUE, l.text, l.text_size)
             g == attach(tokens, t)
             n == Len(tokens) + 1
  <1>8. ASSUME l.kind = "string", StringAccepted(l)
        PROVE  /\ t \in Token /\ t.links = links_init(parent) /\ ~t.superseded
               /\ Consume(l) /\ l.kind # "eof" /\ ~token_limit
               /\ arena_claim(l.width - 1, l.text_size)
               /\ l.width - 1 \in Nat /\ l.width - 1 <= l.width + 1
               /\ l.text_size <= l.width
    <2>1. string_outcome(l).code = "OK" /\ Consume(l) /\ arena_claim(l.width - 1, l.text_size)
      BY <1>8 DEF StringAccepted
    <2> QED BY <1>1, <1>2, <1>8, <2>1, StringFacts, TokenType
  <1> HIDE DEF t
  <1>9. ASSUME l.kind = "string", StringAccepted(l)
        PROVE  /\ g \in Seq(Token) /\ Len(g) = n
               /\ RangeOK(g) /\ ChainOK(g) /\ SupersededOK(g)
               /\ DOMAIN tokens \subseteq DOMAIN g /\ n \in DOMAIN g
               /\ \A i \in DOMAIN tokens : tokens[i].links.parent = parent
                    => g[i].links.next_sibling # NONE
               /\ n <= token_capacity
    BY <1>1, <1>3, <1>8, <1>9, TokenStep
  <1> HIDE DEF g
  <1>10. CASE l.kind = "string" /\ NewKey(l)
    <2>1. /\ StringAccepted(l) /\ tokens' = g /\ keys' = keys \cup {n}
          /\ key_count' = key_count + 1
          /\ slots' = IF grows THEN 2 * slots ELSE slots
          /\ heap' = [heap EXCEPT !["keys"] = slots' * WordSize]
          /\ peak' = Upper(peak, Live(heap) + (IF grows THEN 2 * slots * WordSize ELSE 0))
          /\ pc' = "colon" /\ stack' = stack /\ duplicate_count' = duplicate_count
          /\ UNCHANGED <<call, compact_vars, children, bound, outcome_vars>>
      BY <1>10 DEF NewKey, t, g
    <2>2. ~grows
      <3>1. n <= token_capacity
        BY <1>9, <1>10, <2>1
      <3>2. /\ token_capacity \in Nat /\ expected_keys \in Nat
            /\ token_capacity < 2 * expected_keys /\ 2 * expected_keys <= slots
        BY <1>1, CapacityFacts DEF Inv, Counting
      <3>3. \A k, m, c, e, s \in Nat : 2 * k + 1 <= m /\ m + 1 <= c /\ c < 2 * e /\ 2 * e <= s
              => ~((k + 1) * 2 > s)
        OBVIOUS
      <3> QED BY <1>4, <3>1, <3>2, <3>3, HeapType DEF grows
    <2>3. slots' = slots
      BY <2>1, <2>2
    <2>4. heap' \in [Blocks -> Nat] /\ peak' \in Nat
      <3>1. slots * WordSize \in Nat
        BY HeapType, LayoutAssumption
      <3>2. heap' \in [Blocks -> Nat]
        BY <2>1, <2>3, <3>1, HeapType DEF Blocks
      <3>3. Live(heap) \in Nat
        BY HeapType, LiveNat
      <3> QED BY <2>1, <2>2, <3>2, <3>3, HeapType DEF Upper
    <2>5. /\ keys' \subseteq DOMAIN tokens' /\ key_count' \in Nat /\ duplicate_count' \in Nat
          /\ tokens' \in Seq(Token) /\ Len(tokens') = Len(attach(tokens, t))
          /\ RangeOK(tokens') /\ ChainOK(tokens') /\ SupersededOK(tokens')
      <3>1. /\ g \in Seq(Token) /\ RangeOK(g) /\ ChainOK(g) /\ SupersededOK(g)
            /\ DOMAIN tokens \subseteq DOMAIN g /\ n \in DOMAIN g
        BY <1>9, <1>10, <2>1
      <3>2. key_count' \in Nat /\ duplicate_count' \in Nat
        BY <2>1, HeapType
      <3>3. keys \subseteq DOMAIN tokens
        BY <1>1, HeapType
      <3>4. keys' \subseteq DOMAIN tokens'
        BY <2>1, <3>1, <3>3, Zenon
      <3> HIDE DEF n
      <3>5. Len(tokens') = Len(attach(tokens, t))
        BY <2>1 DEF g
      <3> QED BY <2>1, <3>1, <3>2, <3>4, <3>5
    <2>6. 2 * key_count' + 1 <= Len(tokens) + 1 + Pending' /\ pc' \in Scanning
      BY <1>4, <2>1, HeapType, SMTT(30) DEF Pending, Scanning
    <2>7. stack' = <<>> <=> pc' \in {"root", "end"}
      BY <1>3, <2>1
    <2>8. Inv'
      BY <1>1, <1>2, <1>8, <1>10, <2>1, <2>3, <2>4, <2>5, <2>6, <2>7, AcceptStep
    <2> QED BY <2>3, <2>8
  <1>11. CASE l.kind = "string" /\ RepeatedKey(l)
    <2> DEFINE previous == find_slot(l.text)
               marked == [i \in DOMAIN g |->
                            IF i \in previous THEN [g[i] EXCEPT !.superseded = TRUE] ELSE g[i]]
    <2>1. /\ StringAccepted(l) /\ tokens' = marked /\ keys' = (keys \ previous) \cup {n}
          /\ duplicate_count' = duplicate_count + 1
          /\ pc' = "colon" /\ stack' = stack /\ key_count' = key_count /\ slots' = slots
          /\ continue
      BY <1>11 DEF RepeatedKey, t, g
    <2>2. previous \subseteq DOMAIN tokens
          /\ \A i \in previous : tokens[i].links.parent = parent
      BY <1>1, HeapType DEF find_slot
    <2>3. /\ g \in Seq(Token) /\ Len(g) = n /\ DOMAIN g = 1 .. n
          /\ RangeOK(g) /\ ChainOK(g) /\ SupersededOK(g)
          /\ DOMAIN tokens \subseteq DOMAIN g /\ n \in DOMAIN g
          /\ \A i \in previous : g[i].links.next_sibling # NONE
      BY <1>9, <1>11, <2>1, <2>2
    <2> HIDE DEF previous
    <2>4. ASSUME NEW i \in 1 .. n
          PROVE  /\ marked[i] \in Token /\ marked[i].links = g[i].links
                 /\ marked[i].superseded => i \in previous \/ g[i].superseded
      <3>1. g[i] \in Token /\ i \in DOMAIN g
        BY <2>3
      <3>2. CASE i \in previous
        BY <3>1, <3>2 DEF Token
      <3>3. CASE i \notin previous
        BY <3>1, <3>3
      <3> QED BY <3>2, <3>3
    <2>5. DOMAIN marked = 1 .. n
      BY <2>3
    <2>6. marked \in Seq(Token) /\ Len(marked) = n
      <3>1. marked \in [1 .. n -> Token]
        BY <2>3, <2>4
      <3> QED BY <1>4, <3>1, FunctionIsSeq
    <2> HIDE DEF marked
    <2>7. RangeOK(marked)
      BY <2>3, <2>4, <2>5 DEF RangeOK
    <2>8. ChainOK(marked)
      <3> SUFFICES ASSUME NEW i \in DOMAIN marked, marked[i].links.parent # NONE,
                          marked[i].links.next_sibling = NONE
                   PROVE  marked[marked[i].links.parent].links.last_child = i
        BY DEF ChainOK
      <3>1. marked[i].links = g[i].links
        BY <2>4, <2>5
      <3>2. i \in DOMAIN g /\ g[i].links.parent # NONE /\ g[i].links.next_sibling = NONE
        BY <2>3, <2>5, <3>1
      <3>3. g[i].links.parent \in 1 .. n
        BY <2>3, <3>2 DEF RangeOK
      <3>4. g[g[i].links.parent].links.last_child = i
        BY <2>3, <3>2 DEF ChainOK
      <3> QED BY <2>4, <3>1, <3>3, <3>4
    <2>9. SupersededOK(marked)
      BY <2>3, <2>4, <2>5 DEF SupersededOK
    <2>10. /\ UNCHANGED <<call, compact_vars, children, bound, outcome_vars>>
           /\ heap' = heap /\ peak' = peak
      BY <2>1 DEF continue, memory_vars
    <2>11. keys' \subseteq DOMAIN tokens'
      BY <1>1, <2>1, <2>3, <2>5, HeapType
    <2>12. 2 * key_count' + 1 <= Len(tokens) + 1 + Pending' /\ pc' \in Scanning
      BY <1>4, <2>1, HeapType DEF Pending, Scanning
    <2>13. stack' = <<>> <=> pc' \in {"root", "end"}
      BY <1>3, <2>1
    <2>14. Len(tokens') = Len(attach(tokens, t)) /\ duplicate_count' \in Nat
      BY <2>1, <2>3, <2>6, HeapType DEF g
    <2>15. Inv'
      BY <1>1, <1>2, <1>8, <1>11, <2>1, <2>6, <2>7, <2>8, <2>9, <2>10, <2>11, <2>12,
         <2>13, <2>14, HeapType, AcceptStep
    <2> QED BY <2>1, <2>15
  <1>12. CASE l.kind = "string" /\ DuplicateKey(l)
    <2>1. /\ StringAccepted(l) /\ tokens' = g /\ duplicate_count' = duplicate_count
          /\ fail("DUPLICATE_KEY", at(l))
      BY <1>12 DEF DuplicateKey, t, g
    <2>2. /\ arena_used' \in Nat /\ arena_peak' \in Nat /\ arena_peak' <= arena_capacity
      BY <1>1, <1>2, <1>8, <1>12, <2>1, ArenaStep DEF arena_claim
    <2>3. input' \in Seq(Lexemes) /\ offset' \in Nat
      BY <1>1, <1>8, <1>12, <2>1, ConsumeType DEF Inv
    <2>4. Inv'
      BY <1>1, <1>2, <1>9, <1>12, <2>1, <2>2, <2>3, HeapType, FailStep DEF Failures
    <2> QED BY <2>1, <2>4 DEF fail
  <1> QED
    BY <1>5, <1>6, <1>7, <1>10, <1>11, <1>12 DEF parse_key

\* Closing a container, which is never the end of an empty stack.
LEMMA CloseStep ==
  ASSUME Inv, pc \in {"first_key", "first_element", "delimiter"},
         NEW l \in Lexemes, Readable(l), Close(l)
  PROVE  Inv'
  <1>1. pc \in Scanning /\ Pending = 0
    BY DEF Scanning, Pending
  <1>2. stack \in Seq(Nat) /\ stack # <<>>
    BY <1>1 DEF Inv, TypeOK, Naming
  <1>3. /\ Consume(l) /\ UNCHANGED <<document_vars, keyset_vars>> /\ continue
        /\ stack' = SubSeq(stack, 1, Len(stack) - 1)
        /\ pc' = IF Len(stack) = 1 THEN "end" ELSE "delimiter"
    BY DEF Close
  <1>4. pc' \in Scanning /\ Pending' >= Pending
    BY <1>1, <1>3 DEF Scanning, Pending
  <1>5. stack' = <<>> <=> pc' \in {"root", "end"}
    <2>1. Len(stack) \in Nat /\ Len(stack) >= 1
      BY <1>2
    <2>2. stack' \in Seq(Nat) /\ Len(stack') = Len(stack) - 1
      BY <1>2, <1>3, PopSeq
    <2>3. stack' = <<>> <=> Len(stack) = 1
      BY <2>1, <2>2
    <2> QED BY <1>3, <2>3
  <1> QED BY <1>1, <1>2, <1>3, <1>4, <1>5, DelimiterStep

\* A colon, a comma or what stands in their place.
LEMMA SeparatorStep ==
  ASSUME Inv, NEW l \in Lexemes, Readable(l),
         \/ pc = "colon" /\ Colon(l)
         \/ pc = "delimiter" /\ container_delimiter(l)
  PROVE  Inv'
  <1>1. pc \in Scanning /\ stack # <<>>
    BY DEF Inv, Naming, Scanning
  <1>2. at(l) \in Nat
    BY <1>1, ReadFacts DEF Inv
  <1>3. CASE fails(l, "SYNTAX", at(l))
    BY <1>1, <1>2, <1>3, FailsStep DEF Failures
  <1>4. CASE pc = "delimiter" /\ Close(l)
    BY <1>4, CloseStep
  <1>5. CASE /\ Consume(l) /\ UNCHANGED <<document_vars, stack, keyset_vars>> /\ continue
             /\ \/ pc = "colon" /\ pc' = "member"
                \/ pc = "delimiter" /\ pc' \in {"key", "element"}
    <2>1. pc' \in Scanning /\ Pending' >= Pending /\ pc' \notin {"root", "end"}
      BY <1>5 DEF Scanning, Pending
    <2> QED BY <1>1, <1>5, <2>1, DelimiterStep
  <1>6. CASE pc = "colon"
    BY <1>3, <1>5, <1>6 DEF Colon
  <1>7. CASE pc = "delimiter"
    BY <1>3, <1>4, <1>5, <1>7 DEF container_delimiter
  <1> QED BY <1>6, <1>7

\* After the root value: the end of the input, or bytes too many.
LEMMA TrailingStep ==
  ASSUME Inv, pc = "end", NEW l \in Lexemes, Readable(l), TrailingBytes(l)
  PROVE  Inv'
  <1>1. pc \in Scanning
    BY DEF Scanning
  <1>2. CASE fails(l, "SYNTAX", at(l))
    BY <1>1, <1>2, ReadFacts, FailsStep DEF Inv, Failures
  <1>3. CASE /\ Consume(l) /\ pc' = "finish" /\ continue
             /\ UNCHANGED <<document_vars, stack, keyset_vars>>
    <2>1. input' \in Seq(Lexemes) /\ offset' \in Nat
      BY <1>1, <1>3, ConsumeType DEF Inv
    <2>2. Len(tokens) >= 1
      <3>1. Len(tokens) \in Nat /\ key_count \in Nat
        BY DEF Inv, TypeOK
      <3>2. 2 * key_count + 1 <= Len(tokens) + Pending /\ Pending = 0
        BY <1>1 DEF Inv, Counting, Pending
      <3> QED BY <3>1, <3>2
    <2>3. UNCHANGED <<call, tokens, arena_used, arena_peak, duplicate_count, stack, keys,
                      key_count, slots, walk, packed, children, bound, heap, peak,
                      result, error>>
      BY <1>3 DEF document_vars, keyset_vars, continue, compact_vars, memory_vars, outcome_vars
    <2>4. result = "OK"
      BY <1>1 DEF Inv, Outcome
    <2>5. TypeOK'
      BY <1>3, <2>1, <2>3 DEF Inv, TypeOK, Places
    <2>6. Fresh' /\ Counting' /\ Outcome' /\ Naming'
      BY <1>3, <2>2, <2>3, <2>4 DEF Inv, Fresh, Counting, Outcome, Naming, Early, Scanning, Late
    <2>7. Linking' /\ Walking'
      BY <1>1, <1>3, <2>3 DEF Inv, Linking, Walking
    <2>8. ArenaFits' /\ LimitMeansLimit'
      BY <2>3, <2>4 DEF Inv, ArenaFits, arena_capacity, token_capacity, LimitMeansLimit
    <2> QED BY <2>5, <2>6, <2>7, <2>8 DEF Inv
  <1> QED BY <1>2, <1>3 DEF TrailingBytes

\* Whatever the next lexeme is, the invariant survives and no key makes the
\* table grow.
LEMMA ScanStep ==
  ASSUME Inv, NEW l \in Lexemes, Scan(l)
  PROVE  Inv' /\ (pc \in {"first_key", "key"} /\ pc' = "colon" => slots' = slots)
  <1>1. Readable(l)
    BY DEF Scan
  <1>2. CASE pc \in {"root", "member", "element", "first_element"} /\ parse_value(l)
    BY <1>1, <1>2, ParseValueStep
  <1>3. CASE pc \in {"first_element", "first_key"} /\ Close(l)
    BY <1>1, <1>3, CloseStep DEF Close
  <1>4. CASE pc \in {"first_key", "key"} /\ parse_key(l)
    BY <1>1, <1>4, ParseKeyStep
  <1>5. CASE \/ pc = "colon" /\ Colon(l)
             \/ pc = "delimiter" /\ container_delimiter(l)
    BY <1>1, <1>5, SeparatorStep
  <1>6. CASE pc = "end" /\ TrailingBytes(l)
    BY <1>1, <1>6, TrailingStep
  <1> QED BY <1>2, <1>3, <1>4, <1>5, <1>6 DEF Scan
-----------------------------------------------------------------------------
(* The steps before the first lexeme.                                       *)

\* The checks of the arguments, before anything is held.
LEMMA CallStep ==
  ASSUME Inv, Call
  PROVE  Inv'
  <1> PICK c \in Calls :
        /\ call' = c
        /\ \/ c.profile \notin Profiles /\ refuse("ARGUMENT") /\ UNCHANGED slots
           \/ c.profile \in Profiles /\ c.size > MaxBytes /\ refuse("LIMIT") /\ UNCHANGED slots
           \/ /\ c.profile \in Profiles /\ c.size <= MaxBytes
              /\ slots' = MinimumCapacity
              /\ pc' = "bound"
              /\ UNCHANGED outcome_vars
    BY DEF Call
  <1>1. pc = "idle" /\ UNCHANGED <<input, offset, tokens, arena_used, arena_peak,
          duplicate_count, stack, keys, key_count, walk, packed, children, bound, heap, peak>>
    BY DEF Call, document_vars, compact_vars, memory_vars
  <1>2. call'.size \in Nat
    BY CallsAssumption
  <1>3. result = "OK" /\ arena_peak = 0 /\ packed.tokens = <<>>
    BY <1>1 DEF Inv, Outcome, Fresh, Early
  <1>4. \/ /\ pc' = "done" /\ result' \in {"ARGUMENT", "LIMIT"} /\ slots' = slots
           /\ error' = [code |-> result', offset |-> 0]
           /\ result' = "LIMIT" => call'.size > MaxBytes
        \/ pc' = "bound" /\ slots' = MinimumCapacity /\ result' = result /\ error' = error
    BY DEF refuse, outcome_vars
  <1>5. TypeOK'
    <2>1. pc' \in Places /\ slots' \in Nat /\ result' \in Failures \cup {"OK"}
      BY <1>3, <1>4, CapacityAssumption DEF Inv, TypeOK, Places, Failures
    <2>2. error' \in [code : Failures \cup {"OK"}, offset : Nat]
      BY <1>4, <2>1 DEF Inv, TypeOK
    <2> QED BY <1>1, <1>2, <2>1, <2>2 DEF Inv, TypeOK
  <1>6. Fresh' /\ Counting' /\ Outcome' /\ Naming'
    BY <1>1, <1>3, <1>4
    DEF Inv, Fresh, Counting, Outcome, Naming, Early, Scanning, Late
  <1>7. Linking' /\ Walking'
    BY <1>1, <1>4 DEF Inv, Linking, Walking, Early, Scanning
  <1>8. ArenaFits'
    <2>1. arena_capacity' \in Nat
      BY <1>2, LimitsAssumption DEF arena_capacity, token_capacity, AtLeastOne, Lower
    <2> QED BY <1>1, <1>3, <2>1 DEF ArenaFits
  <1>9. LimitMeansLimit'
    BY <1>3, <1>4 DEF LimitMeansLimit
  <1> QED BY <1>5, <1>6, <1>7, <1>8, <1>9 DEF Inv

\* Until the key set is ready the steps change capacities and blocks only.
LEMMA PreparationStep ==
  ASSUME Inv, pc \in {"bound", "allocate", "reserve"},
         UNCHANGED <<call, input, offset, document_vars, stack, keys, key_count,
                     compact_vars, children>>,
         slots' \in Nat, bound' \in Nat, heap' \in [Blocks -> Nat], peak' \in Nat,
         \/ pc' \in {"bound", "allocate", "reserve"} /\ UNCHANGED outcome_vars
         \/ /\ pc' = "done" /\ result' \in {"LIMIT", "MEMORY"}
            /\ error' = [code |-> result', offset |-> 0]
            /\ result' = "LIMIT" => allocation_total(slots)' > SizeMax
         \/ pc' = "finish" /\ result' = "MEMORY" /\ error' = error
  PROVE  Inv'
  <1>1. UNCHANGED <<call, input, offset, tokens, arena_used, arena_peak, duplicate_count,
                    stack, keys, key_count, walk, packed, children>>
    BY DEF document_vars, compact_vars
  <1>2. result = "OK" /\ tokens = <<>> /\ packed.tokens = <<>>
    BY DEF Inv, Outcome, Fresh, Early
  <1>3. \/ pc' \in {"bound", "allocate", "reserve"} /\ result' = result /\ error' = error
        \/ /\ pc' = "done" /\ result' \in {"LIMIT", "MEMORY"}
           /\ error' = [code |-> result', offset |-> 0]
        \/ pc' = "finish" /\ result' = "MEMORY" /\ error' = error
    BY DEF outcome_vars
  <1>4. TypeOK'
    <2>1. pc' \in Places /\ result' \in Failures \cup {"OK"}
      BY <1>2, <1>3 DEF Places, Failures
    <2>2. error' \in [code : Failures \cup {"OK"}, offset : Nat]
      BY <1>3, <2>1 DEF Inv, TypeOK
    <2> QED BY <1>1, <2>1, <2>2 DEF Inv, TypeOK
  <1>5. Fresh' /\ Counting' /\ Outcome' /\ Naming'
    BY <1>1, <1>2, <1>3
    DEF Inv, Fresh, Counting, Outcome, Naming, Early, Scanning, Late
  <1>6. Linking' /\ Walking'
    BY <1>1, <1>2, <1>3 DEF Inv, Linking, Walking, Early, Scanning
  <1>7. ArenaFits'
    BY <1>1 DEF Inv, ArenaFits, arena_capacity, token_capacity
  <1>8. LimitMeansLimit'
    BY <1>2, <1>3 DEF LimitMeansLimit, outcome_vars
  <1> QED BY <1>4, <1>5, <1>6, <1>7, <1>8 DEF Inv

\* One round of the capacity loop.
LEMMA DoubleCapacityStep ==
  ASSUME Inv, DoubleCapacity
  PROVE  Inv'
  <1>1. /\ pc \in {"bound", "reserve"} /\ pc' = pc
        /\ slots' = 2 * slots
        /\ UNCHANGED <<call, input, offset, document_vars, stack, keys, key_count,
                       compact_vars, children, bound, heap, peak, outcome_vars>>
    BY DEF DoubleCapacity, continue, memory_vars
  <1>2. /\ slots \in Nat /\ bound \in Nat /\ heap \in [Blocks -> Nat] /\ peak \in Nat
    BY DEF Inv, TypeOK
  <1> QED BY <1>1, <1>2, PreparationStep

\* The allocation bound, or its overflow.
LEMMA AllocationBoundStep ==
  ASSUME Inv, AllocationBound
  PROVE  Inv'
  <1>1. /\ slots \in Nat /\ bound \in Nat /\ heap \in [Blocks -> Nat] /\ peak \in Nat
        /\ call.size \in Nat
    BY DEF Inv, TypeOK
  <1>2. /\ pc = "bound" /\ heap' = heap /\ peak' = peak
        /\ UNCHANGED <<call, input, offset, document_vars, stack, keys, key_count,
                       compact_vars, children>>
    BY DEF AllocationBound, memory_vars
  <1>3. bound_tokens \in Nat
    BY <1>1, LimitsAssumption DEF bound_tokens, AtLeastOne, Lower
  <1>4. allocation_total(slots) \in Nat
    <2>1. /\ bound_tokens * TokenSize \in Nat /\ slots * WordSize \in Nat
          /\ bound_tokens * WordSize \in Nat /\ DocumentSize \in Nat
      BY <1>1, <1>3, LayoutAssumption
    <2> DEFINE copies == IF call.profile = "LAST_WINS" THEN 2 ELSE 1
               a == bound_tokens * TokenSize
               b == slots * WordSize
               d == bound_tokens * WordSize
    <2>2. copies \in Nat
      OBVIOUS
    <2>3. allocation_total(slots) = DocumentSize + (call.size + 1) + copies * a
            + copies * (call.size + bound_tokens + 1) + b + d
      BY DEF allocation_total
    <2> HIDE DEF copies, a, b, d
    <2>4. copies * a \in Nat /\ copies * (call.size + bound_tokens + 1) \in Nat
      BY <1>1, <1>3, <2>1, <2>2 DEF a
    <2> QED BY <1>1, <1>3, <2>1, <2>2, <2>3, <2>4 DEF b, d
  <1>5. CASE allocation_total(slots) > SizeMax /\ refuse("LIMIT") /\ UNCHANGED <<bound, slots>>
    <2>1. allocation_total(slots)' > SizeMax
      BY <1>2, <1>5 DEF allocation_total, bound_tokens
    <2> QED BY <1>1, <1>2, <1>5, <2>1, PreparationStep DEF refuse
  <1>6. CASE /\ bound' = allocation_total(slots) /\ slots' = 0
             /\ pc' = "allocate" /\ UNCHANGED outcome_vars
    BY <1>1, <1>2, <1>4, <1>6, PreparationStep
  <1> QED BY <1>5, <1>6 DEF AllocationBound

\* Freeing blocks leaves sizes.
LEMMA ReleaseType ==
  ASSUME NEW h \in [Blocks -> Nat]
  PROVE  document_release(h) \in [Blocks -> Nat] /\ keyset_release(h) \in [Blocks -> Nat]
  BY DEF document_release, keyset_release

\* allocate_document, whichever of its blocks are granted.
LEMMA AllocateDocumentStep ==
  ASSUME Inv, AllocateDocument
  PROVE  Inv'
  <1>1. /\ slots \in Nat /\ bound \in Nat /\ heap \in [Blocks -> Nat] /\ peak \in Nat
        /\ call.size \in Nat
    BY DEF Inv, TypeOK
  <1>2. /\ pc = "allocate" /\ bound' = bound
        /\ UNCHANGED <<call, input, offset, document_vars, stack, keys, key_count,
                       compact_vars, children>>
    BY DEF AllocateDocument
  <1>3. /\ DocumentSize \in Nat /\ call.size + 1 \in Nat
        /\ token_capacity * TokenSize \in Nat /\ arena_capacity \in Nat
    <2>1. token_capacity \in Nat /\ arena_capacity = call.size + token_capacity + 1
      BY CapacityFacts DEF Inv
    <2> QED BY <1>1, <2>1, LayoutAssumption
  <1>4. PICK got \in SUBSET {"bytes", "tokens", "arena"} \cup {{NONE}} :
          LET granted == [b \in Blocks |->
                CASE b = "document" /\ got # {NONE} -> DocumentSize
                  [] b = "bytes" /\ b \in got -> call.size + 1
                  [] b = "tokens" /\ b \in got -> token_capacity * TokenSize
                  [] b = "arena" /\ b \in got -> arena_capacity
                  [] OTHER -> 0]
          IN  /\ peak' = Upper(peak, Live(granted))
              /\ \/ /\ got = {"bytes", "tokens", "arena"}
                    /\ heap' = granted
                    /\ slots' = MinimumCapacity
                    /\ pc' = "reserve" /\ UNCHANGED outcome_vars
                 \/ /\ got # {"bytes", "tokens", "arena"}
                    /\ heap' = document_release(granted)
                    /\ refuse("MEMORY") /\ UNCHANGED slots
    BY DEF AllocateDocument
  <1> DEFINE granted == [b \in Blocks |->
                CASE b = "document" /\ got # {NONE} -> DocumentSize
                  [] b = "bytes" /\ b \in got -> call.size + 1
                  [] b = "tokens" /\ b \in got -> token_capacity * TokenSize
                  [] b = "arena" /\ b \in got -> arena_capacity
                  [] OTHER -> 0]
  <1>5. granted \in [Blocks -> Nat]
    BY <1>3
  <1>6. /\ peak' = Upper(peak, Live(granted))
        /\ \/ /\ heap' = granted /\ slots' = MinimumCapacity
              /\ pc' = "reserve" /\ UNCHANGED outcome_vars
           \/ /\ heap' = document_release(granted) /\ slots' = slots
              /\ refuse("MEMORY")
    BY <1>4
  <1> HIDE DEF granted
  <1>7. Live(granted) \in Nat
    BY <1>5, LiveNat
  <1>8. peak' \in Nat /\ heap' \in [Blocks -> Nat] /\ slots' \in Nat
    BY <1>1, <1>5, <1>6, <1>7, ReleaseType, CapacityAssumption DEF Upper
  <1> QED BY <1>1, <1>2, <1>6, <1>8, PreparationStep DEF refuse
\* The table is ready: from here on the counters are related.
LEMMA KeysetInitStep ==
  ASSUME Inv, KeysetInit
  PROVE  Inv'
  <1>1. /\ slots \in Nat /\ bound \in Nat /\ heap \in [Blocks -> Nat] /\ peak \in Nat
        /\ call.size \in Nat
    BY DEF Inv, TypeOK
  <1>2. /\ pc = "reserve" /\ slots >= expected_keys * 2
        /\ UNCHANGED <<call, input, offset, document_vars, stack, keys, key_count, slots,
                       compact_vars, children, bound>>
    BY DEF KeysetInit, keyset_vars
  <1>3. CASE result' = "MEMORY" /\ pc' = "finish" /\ UNCHANGED <<memory_vars, error>>
    BY <1>1, <1>2, <1>3, PreparationStep DEF memory_vars
  <1>4. CASE /\ allocate("keys", slots * WordSize)
             /\ pc' = "root" /\ UNCHANGED outcome_vars
    <2>1. heap' \in [Blocks -> Nat] /\ peak' \in Nat
      <3>1. slots * WordSize \in Nat
        BY <1>1, LayoutAssumption
      <3>2. heap' = [heap EXCEPT !["keys"] = slots * WordSize] /\ peak' = Upper(peak, Live(heap'))
        BY <1>4 DEF allocate
      <3>3. heap' \in [Blocks -> Nat]
        BY <1>1, <3>1, <3>2
      <3>4. Live(heap') \in Nat
        BY <3>3, LiveNat
      <3> QED BY <1>1, <3>2, <3>3, <3>4 DEF Upper
    <2>2. /\ result' = result /\ error' = error
          /\ UNCHANGED <<call, input, offset, tokens, arena_used, arena_peak, duplicate_count,
                         stack, keys, key_count, slots, walk, packed, children, bound>>
      BY <1>2, <1>4 DEF outcome_vars, document_vars, compact_vars
    <2>3. /\ result = "OK" /\ tokens = <<>> /\ packed.tokens = <<>> /\ stack = <<>>
          /\ keys = {} /\ offset = 0 /\ arena_used = 0 /\ arena_peak = 0 /\ key_count = 0
      BY <1>2 DEF Inv, Outcome, Fresh, Early
    <2>4. TypeOK'
      BY <1>4, <2>1, <2>2 DEF Inv, TypeOK, Places, Scanning
    <2>5. Fresh' /\ Outcome' /\ Naming'
      BY <1>4, <2>2, <2>3 DEF Inv, Fresh, Outcome, Naming, Early, Scanning, Late
    <2>6. Counting'
      <3>1. token_capacity \in Nat /\ expected_keys \in Nat
        BY CapacityFacts DEF Inv
      <3>2. token_capacity' = token_capacity /\ expected_keys' = expected_keys
        BY <2>2 DEF token_capacity, expected_keys
      <3>3. Pending' = 1
        BY <1>4 DEF Pending
      <3> QED BY <1>1, <1>2, <2>2, <2>3, <3>1, <3>2, <3>3, LimitsAssumption DEF Counting
    <2>7. Linking' /\ Walking'
      BY <1>2, <1>4, <2>2, <2>3 DEF Inv, Linking, Walking, Early, Scanning
    <2>8. ArenaFits' /\ LimitMeansLimit'
      BY <2>2, <2>3 DEF Inv, ArenaFits, arena_capacity, token_capacity, LimitMeansLimit
    <2> QED BY <2>4, <2>5, <2>6, <2>7, <2>8 DEF Inv
  <1> QED BY <1>3, <1>4 DEF KeysetInit

-----------------------------------------------------------------------------
(* The steps after the last lexeme.                                         *)

\* From the end of the scan on, the invariant is about the arrays, the walk
\* and the outcome.
LEMMA AfterScan ==
  ASSUME Inv, pc \notin Early \cup Scanning,
         pc' \in Late \cup {"failed", "done"}, TypeOK',
         UNCHANGED <<call, arena_peak, stack>>,
         \/ result' = result
         \/ result' = "MEMORY" /\ pc' = "failed",
         result' = "LIMIT" /\ pc' = "failed" => pc = "finish",
         pc' \in Late => result' = "OK",
         pc' \in {"measure", "copy"} => tokens' = tokens /\ pc \in {"finish", "measure", "copy"},
         result' = "LIMIT" => tokens' = tokens /\ pc \in {"finish", "failed"},
         RangeOK(tokens'), RangeOK(packed'.tokens), Walking'
  PROVE  Inv'
  <1>1. Fresh' /\ Counting' /\ Naming'
    BY DEF Fresh, Counting, Naming, Early, Scanning, Late
  <1>2. result' = "LIMIT" => Len(tokens') = MaxTokens \/ Len(stack') = MaxDepth
    BY DEF Inv, Outcome
  <1>3. Outcome'
    BY <1>2 DEF Inv, Outcome, Early, Scanning, Late
  <1>4. Linking'
    BY DEF Inv, Linking, Early, Scanning, Late
  <1>5. ArenaFits'
    BY DEF Inv, ArenaFits, arena_capacity, token_capacity
  <1>6. LimitMeansLimit'
    BY <1>2 DEF LimitMeansLimit
  <1> QED BY <1>1, <1>3, <1>4, <1>5, <1>6 DEF Inv

\* The end of the scan; a walk, if there is one, starts at the root token.
LEMMA FinishStep ==
  ASSUME Inv, Finish
  PROVE  Inv'
  <1>1. /\ pc = "finish" /\ heap' = keyset_release(heap)
        /\ keys' = {} /\ key_count' = 0 /\ slots' = 0
        /\ pc' \in {"failed", "measure", "children"}
        /\ pc' # "failed" => result = "OK"
        /\ walk' = <<[child |-> 1, parent |-> NONE]>>
        /\ UNCHANGED <<call, input, offset, tokens, arena_used, arena_peak, duplicate_count,
                       stack, packed, children, bound, peak, result, error>>
    BY DEF Finish, document_vars, outcome_vars
  <1>2. TypeOK'
    <2>1. heap' \in [Blocks -> Nat]
      BY <1>1, ReleaseType DEF Inv, TypeOK
    <2>2. [child |-> 1, parent |-> NONE] \in Frame
      BY DEF Frame
    <2> QED BY <1>1, <2>1, <2>2 DEF Inv, TypeOK, Places
  <1>3. Walking'
    <2>1. packed.tokens = <<>>
      BY <1>1 DEF Inv, Walking
    <2>2. pc' = "measure" => 1 \in DOMAIN tokens
      <3>1. tokens \in Seq(Token)
        BY DEF Inv, TypeOK
      <3>2. pc' = "measure" => Len(tokens) >= 1
        BY <1>1 DEF Inv, Outcome
      <3> QED BY <3>1, <3>2
    <2>3. DOMAIN walk' = {1} /\ walk'[1] = [child |-> 1, parent |-> NONE]
      BY <1>1
    <2> QED BY <1>1, <2>1, <2>2, <2>3 DEF Walking, Scanning
  <1>4. RangeOK(tokens) /\ RangeOK(packed.tokens)
    BY DEF Inv, Linking
  <1> QED BY <1>1, <1>2, <1>3, <1>4, AfterScan DEF Early, Scanning, Late

\* The frame on top of a nonempty walk, and the walk after it moved on.
LEMMA FrameFacts ==
  ASSUME NEW w \in Seq(Frame), w # <<>>, NEW child \in Nat \cup {NONE}
  PROVE  LET a == [w EXCEPT ![Len(w)].child = child]
         IN  /\ Len(w) \in DOMAIN w /\ w[Len(w)] \in Frame
             /\ a \in Seq(Frame) /\ Len(a) = Len(w)
             /\ a[Len(w)].child = child /\ a[Len(w)].parent = w[Len(w)].parent
             /\ \A i \in DOMAIN w : i # Len(w) => a[i] = w[i]
  <1> DEFINE n == Len(w)
             a == [w EXCEPT ![n].child = child]
  <1>1. n \in DOMAIN w /\ n \in Nat /\ DOMAIN w = 1 .. n
    OBVIOUS
  <1>2. w[n] \in Frame
    BY <1>1
  <1>3. a[n] = [w[n] EXCEPT !.child = child] /\ DOMAIN a = 1 .. n
        /\ \A i \in DOMAIN w : i # n => a[i] = w[i]
    BY <1>1
  <1> HIDE DEF a, n
  <1>4. a[n] \in Frame /\ a[n].child = child /\ a[n].parent = w[n].parent
    BY <1>2, <1>3 DEF Frame
  <1>5. \A i \in 1 .. n : a[i] \in Frame
    BY <1>1, <1>3, <1>4 DEF n
  <1>6. a \in [1 .. n -> Frame]
    <2>1. a = [i \in DOMAIN w |-> a[i]]
      BY DEF a
    <2> QED BY <1>1, <1>5, <2>1
  <1>7. a \in Seq(Frame) /\ Len(a) = n
    BY <1>1, <1>6, FunctionIsSeq
  <1> QED BY <1>1, <1>2, <1>3, <1>4, <1>7 DEF a, n
\* One step of compact_walk keeps its frames on tokens and on packed positions.
LEMMA CompactWalkStep ==
  ASSUME Inv, CompactWalk
  PROVE  Inv'
  <1> DEFINE n == Len(walk)
  <1>1. /\ pc \in {"measure", "copy"} /\ walk # <<>> /\ pc' = pc
        /\ UNCHANGED <<call, input, offset, tokens, arena_used, arena_peak, duplicate_count,
                       stack, keys, key_count, slots, children, bound, heap, peak,
                       result, error>>
    BY DEF CompactWalk, document_vars, keyset_vars, memory_vars, outcome_vars
  <1>2. /\ walk \in Seq(Frame) /\ tokens \in Seq(Token)
        /\ packed \in [tokens : Seq(Token), token_count : Nat, arena_used : Nat,
                       token_capacity : Nat \cup {NONE}, arena_capacity : Nat \cup {NONE}]
    BY DEF Inv, TypeOK
  <1>3. /\ RangeOK(tokens) /\ SupersededOK(tokens) /\ RangeOK(packed.tokens)
    BY <1>1 DEF Inv, Linking
  <1>4. /\ \A i \in DOMAIN walk :
             /\ walk[i].child \in DOMAIN tokens \cup {NONE}
             /\ walk[i].parent \in (1 .. packed.token_count) \cup {NONE}
        /\ pc = "copy" => packed.token_count = Len(packed.tokens)
        /\ pc = "measure" => packed.tokens = <<>>
    BY <1>1 DEF Inv, Walking
  <1>5. n \in DOMAIN walk /\ frame = walk[n] /\ frame \in Frame
    BY <1>1, <1>2, FrameFacts DEF frame
  <1>6. ASSUME walk' \in Seq(Frame),
               packed' \in [tokens : Seq(Token), token_count : Nat, arena_used : Nat,
                       token_capacity : Nat \cup {NONE}, arena_capacity : Nat \cup {NONE}],
               RangeOK(packed'.tokens),
               pc = "copy" => packed'.token_count = Len(packed'.tokens),
               pc = "measure" => packed'.tokens = <<>>,
               \A i \in DOMAIN walk' :
                  /\ walk'[i].child \in DOMAIN tokens \cup {NONE}
                  /\ walk'[i].parent \in (1 .. packed'.token_count) \cup {NONE}
        PROVE  Inv'
    <2>1. TypeOK'
      BY <1>1, <1>6 DEF Inv, TypeOK
    <2>2. Walking'
      BY <1>1, <1>6 DEF Walking, Scanning
    <2>3. result = "OK"
      BY <1>1 DEF Inv, Outcome, Late
    <2> QED BY <1>1, <1>3, <1>6, <2>1, <2>2, <2>3, AfterScan DEF Early, Scanning, Late
  <1>7. ASSUME NEW child \in DOMAIN tokens \cup {NONE}
        PROVE  /\ advance(child) \in Seq(Frame) /\ Len(advance(child)) = n
               /\ \A i \in DOMAIN walk :
                    /\ advance(child)[i].child \in DOMAIN tokens \cup {NONE}
                    /\ advance(child)[i].parent = walk[i].parent
    <2>1. child \in Nat \cup {NONE}
      BY <1>2, <1>7
    <2>2. /\ advance(child) \in Seq(Frame) /\ Len(advance(child)) = n
          /\ advance(child)[n].child = child /\ advance(child)[n].parent = walk[n].parent
          /\ \A i \in DOMAIN walk : i # n => advance(child)[i] = walk[i]
      BY <1>1, <1>2, <2>1, FrameFacts DEF advance
    <2> QED BY <1>4, <1>7, <2>2
  <1>8. CASE frame.child = NONE /\ WalkReturn
    <2>1. walk' = SubSeq(walk, 1, Len(walk) - 1) /\ packed' = packed
      BY <1>8 DEF WalkReturn
    <2>2. walk' \in Seq(Frame) /\ \A i \in DOMAIN walk' : i \in DOMAIN walk /\ walk'[i] = walk[i]
      BY <1>1, <1>2, <2>1, PopSeq
    <2> QED BY <1>2, <1>3, <1>4, <1>6, <2>1, <2>2
  <1>9. ASSUME frame.child # NONE
        PROVE  /\ frame.child \in DOMAIN tokens /\ entry = tokens[frame.child] /\ entry \in Token
               /\ entry.links.next_sibling \in DOMAIN tokens \cup {NONE}
               /\ entry.links.first_child \in DOMAIN tokens \cup {NONE}
    <2>1. frame.child \in DOMAIN tokens
      BY <1>4, <1>5, <1>9
    <2>2. entry = tokens[frame.child] /\ entry \in Token
      BY <1>2, <2>1 DEF entry
    <2> QED BY <1>3, <2>1, <2>2 DEF RangeOK
  <1>10. CASE frame.child # NONE /\ Dropped /\ WalkSkip
    <2>1. /\ walk' = advance(tokens[entry.links.next_sibling].links.next_sibling)
          /\ packed' = packed /\ entry.superseded
      BY <1>10 DEF WalkSkip, Dropped
    <2>2. entry.links.next_sibling \in DOMAIN tokens
      BY <1>3, <1>9, <1>10, <2>1 DEF SupersededOK
    <2>3. tokens[entry.links.next_sibling].links.next_sibling \in DOMAIN tokens \cup {NONE}
      BY <1>3, <2>2 DEF RangeOK
    <2>4. walk' \in Seq(Frame) /\ Len(walk') = n
          /\ \A i \in DOMAIN walk : /\ walk'[i].child \in DOMAIN tokens \cup {NONE}
                                    /\ walk'[i].parent = walk[i].parent
      BY <1>7, <2>1, <2>3
    <2>5. DOMAIN walk' = DOMAIN walk
      BY <1>2, <2>4
    <2> QED BY <1>2, <1>3, <1>4, <1>6, <2>1, <2>4, <2>5
  <1>11. CASE frame.child # NONE /\ WalkVisit
    <2> DEFINE fresh == packed.token_count + 1
               copy  == [entry EXCEPT !.links = links_init(frame.parent)]
               moved == advance(entry.links.next_sibling)
               top   == [child |-> entry.links.first_child, parent |-> fresh]
               grown == IF pc = "copy" THEN attach(packed.tokens, copy) ELSE packed.tokens
    <2>1. /\ walk' = Append(moved, top)
          /\ packed' = [packed EXCEPT !.token_count = fresh,
                          !.arena_used = packed.arena_used + text_bytes(entry),
                          !.tokens = grown]
      BY <1>11 DEF WalkVisit
    <2>2. /\ moved \in Seq(Frame) /\ Len(moved) = n
          /\ \A i \in DOMAIN walk : /\ moved[i].child \in DOMAIN tokens \cup {NONE}
                                    /\ moved[i].parent = walk[i].parent
      BY <1>7, <1>9, <1>11
    <2>3. fresh \in Nat /\ fresh \in 1 .. fresh /\ packed.token_count \in Nat
          /\ 1 .. packed.token_count \subseteq 1 .. fresh
      BY <1>2
    <2>4. top \in Frame /\ top.child \in DOMAIN tokens \cup {NONE} /\ top.parent = fresh
      BY <1>2, <1>9, <1>11, <2>3 DEF Frame
    <2>5. text_bytes(entry) \in Nat
      BY <1>9, <1>11 DEF text_bytes, Token
    <2>6. /\ grown \in Seq(Token) /\ RangeOK(grown)
          /\ pc = "copy" => Len(grown) = fresh
          /\ pc = "measure" => grown = <<>>
      <3>1. CASE pc = "measure"
        BY <1>2, <1>3, <1>4, <3>1
      <3>2. CASE pc = "copy"
        <4>1. packed.tokens \in Seq(Token) /\ Len(packed.tokens) = packed.token_count
          BY <1>2, <1>4, <3>2
        <4>2. frame.parent \in DOMAIN packed.tokens \cup {NONE}
          BY <1>4, <1>5, <4>1
        <4>3. links_init(frame.parent) \in LinksOf(Nat)
          BY <4>1, <4>2 DEF links_init, LinksOf
        <4>4. copy \in Token /\ copy.links = links_init(frame.parent)
          BY <1>9, <1>11, <4>3 DEF Token
        <4> HIDE DEF copy
        <4>5. /\ attach(packed.tokens, copy) \in Seq(Token)
              /\ Len(attach(packed.tokens, copy)) = Len(packed.tokens) + 1
              /\ RangeOK(attach(packed.tokens, copy))
          BY <1>3, <4>1, <4>2, <4>4, AttachOK
        <4> QED BY <3>2, <4>1, <4>5
      <3> QED BY <1>1, <3>1, <3>2
    <2> HIDE DEF moved, top, grown, copy
    <2>7. /\ packed' \in [tokens : Seq(Token), token_count : Nat, arena_used : Nat,
                       token_capacity : Nat \cup {NONE}, arena_capacity : Nat \cup {NONE}]
          /\ packed'.tokens = grown /\ packed'.token_count = fresh
      <3>1. packed.arena_used + text_bytes(entry) \in Nat
        BY <1>2, <2>5
      <3> HIDE DEF fresh
      <3> QED BY <1>2, <2>1, <2>3, <2>6, <3>1
    <2>8. walk' \in Seq(Frame) /\ Len(walk') = n + 1 /\ walk'[n + 1] = top
          /\ \A i \in 1 .. n : walk'[i] = moved[i]
      BY <2>1, <2>2, <2>4
    <2>9. ASSUME NEW i \in DOMAIN walk'
          PROVE  /\ walk'[i].child \in DOMAIN tokens \cup {NONE}
                 /\ walk'[i].parent \in (1 .. packed'.token_count) \cup {NONE}
      <3>1. DOMAIN walk = 1 .. n /\ n \in Nat /\ i \in 1 .. n + 1
        BY <1>2, <2>8, <2>9
      <3>2. CASE i = n + 1
        BY <2>3, <2>4, <2>7, <2>8, <3>2
      <3>3. CASE i \in 1 .. n
        BY <1>4, <2>2, <2>3, <2>7, <2>8, <3>1, <3>3
      <3> QED BY <3>1, <3>2, <3>3
    <2> QED BY <1>6, <2>6, <2>7, <2>8, <2>9
  <1> QED BY <1>8, <1>10, <1>11 DEF CompactWalk
\* The measured sizes become the packed arrays, or the call fails.
LEMMA CompactAllocateStep ==
  ASSUME Inv, CompactAllocate
  PROVE  Inv'
  <1>1. /\ pc = "measure"
        /\ UNCHANGED <<call, input, offset, tokens, arena_used, arena_peak, duplicate_count,
                       stack, keys, key_count, slots, children, bound, error>>
    BY DEF CompactAllocate, document_vars, keyset_vars
  <1>2. /\ walk \in Seq(Frame) /\ heap \in [Blocks -> Nat] /\ peak \in Nat
        /\ packed \in [tokens : Seq(Token), token_count : Nat, arena_used : Nat,
                       token_capacity : Nat \cup {NONE}, arena_capacity : Nat \cup {NONE}]
    BY DEF Inv, TypeOK
  <1>3. RangeOK(tokens) /\ RangeOK(packed.tokens) /\ packed.tokens = <<>> /\ result = "OK"
    BY <1>1 DEF Inv, Linking, Walking, Outcome, Late
  <1> DEFINE arena == AtLeastOne(packed.arena_used)
             granted(got) == [b \in Blocks |->
               CASE b = "packed_tokens" /\ b \in got -> packed.token_count * TokenSize
                 [] b = "packed_arena" /\ b \in got -> arena
                 [] OTHER -> heap[b]]
  <1>4. PICK got \in SUBSET {"packed_tokens", "packed_arena"} :
          /\ peak' = Upper(peak, Live(granted(got)))
          /\ \/ /\ heap' = granted(got)
                /\ packed' = [packed EXCEPT !.token_capacity = packed.token_count,
                                            !.arena_capacity = arena,
                                            !.token_count = 0, !.arena_used = 0]
                /\ walk' = <<[child |-> 1, parent |-> NONE]>>
                /\ pc' = "copy" /\ UNCHANGED result
             \/ /\ heap' = [granted(got) EXCEPT !["packed_tokens"] = 0, !["packed_arena"] = 0]
                /\ result' = "MEMORY" /\ pc' = "failed"
                /\ UNCHANGED compact_vars
    BY DEF CompactAllocate
  <1>5. packed.token_count * TokenSize \in Nat /\ arena \in Nat
    BY <1>2, LayoutAssumption DEF AtLeastOne
  <1>6. granted(got) \in [Blocks -> Nat]
    BY <1>2, <1>5
  <1> HIDE DEF granted
  <1>7. Live(granted(got)) \in Nat
    BY <1>6, LiveNat
  <1>8. peak' \in Nat /\ heap' \in [Blocks -> Nat]
    <2> DEFINE h == granted(got)
    <2>1. h \in [Blocks -> Nat] /\ Live(h) \in Nat /\ peak' = Upper(peak, Live(h))
      BY <1>4, <1>6, <1>7
    <2>2. heap' = h \/ heap' = [h EXCEPT !["packed_tokens"] = 0, !["packed_arena"] = 0]
      BY <1>4
    <2> HIDE DEF h
    <2>3. peak' \in Nat
      BY <1>2, <2>1 DEF Upper
    <2>4. [h EXCEPT !["packed_tokens"] = 0, !["packed_arena"] = 0] \in [Blocks -> Nat]
      BY <2>1
    <2> QED BY <2>1, <2>2, <2>3, <2>4
  <1>9. CASE result' = "MEMORY" /\ pc' = "failed" /\ UNCHANGED compact_vars
    <2>1. TypeOK'
      BY <1>1, <1>8, <1>9 DEF Inv, TypeOK, Places, Failures, compact_vars
    <2>2. Walking'
      BY <1>9 DEF Walking, Scanning
    <2> QED BY <1>1, <1>3, <1>9, <2>1, <2>2, AfterScan
            DEF Early, Scanning, Late, compact_vars
  <1>10. CASE /\ packed' = [packed EXCEPT !.token_capacity = packed.token_count,
                                          !.arena_capacity = arena,
                                          !.token_count = 0, !.arena_used = 0]
              /\ walk' = <<[child |-> 1, parent |-> NONE]>>
              /\ pc' = "copy" /\ UNCHANGED result
    <2>1. /\ packed' \in [tokens : Seq(Token), token_count : Nat, arena_used : Nat,
                       token_capacity : Nat \cup {NONE}, arena_capacity : Nat \cup {NONE}]
          /\ packed'.tokens = <<>> /\ packed'.token_count = 0
      <3> HIDE DEF arena
      <3> QED BY <1>2, <1>3, <1>5, <1>10
    <2>2. [child |-> 1, parent |-> NONE] \in Frame
      BY DEF Frame
    <2>3. TypeOK'
      <3>1. walk' \in Seq(Frame) /\ pc' \in Places /\ result' = result
        BY <1>10, <2>2 DEF Places
      <3> QED BY <1>1, <1>8, <2>1, <3>1 DEF Inv, TypeOK
    <2>4. 1 \in DOMAIN tokens
      <3>1. tokens \in Seq(Token)
        BY DEF Inv, TypeOK
      <3>2. Len(tokens) >= 1
        BY <1>1, <1>3 DEF Inv, Outcome
      <3> QED BY <3>1, <3>2
    <2>5. DOMAIN walk' = {1} /\ walk'[1] = [child |-> 1, parent |-> NONE]
      BY <1>10
    <2>6. Walking'
      BY <1>1, <1>10, <2>1, <2>4, <2>5 DEF Walking, Scanning
    <2>7. RangeOK(packed'.tokens)
      BY <1>3, <2>1
    <2> QED BY <1>1, <1>3, <1>10, <2>3, <2>6, <2>7, AfterScan DEF Early, Scanning, Late
  <1> QED BY <1>4, <1>9, <1>10

\* The packed arrays replace the source arrays.
LEMMA CompactSwapStep ==
  ASSUME Inv, CompactSwap
  PROVE  Inv'
  <1>1. /\ pc = "copy" /\ pc' = "children"
        /\ tokens' = packed.tokens /\ arena_used' = packed.arena_used
        /\ heap' = [heap EXCEPT !["tokens"] = heap["packed_tokens"],
                                !["arena"]  = heap["packed_arena"],
                                !["packed_tokens"] = 0, !["packed_arena"] = 0]
        /\ UNCHANGED <<call, input, offset, arena_peak, duplicate_count, stack, keys,
                       key_count, slots, walk, packed, children, bound, peak, result, error>>
    BY DEF CompactSwap, keyset_vars, compact_vars, outcome_vars
  <1>2. /\ heap \in [Blocks -> Nat]
        /\ packed \in [tokens : Seq(Token), token_count : Nat, arena_used : Nat,
                       token_capacity : Nat \cup {NONE}, arena_capacity : Nat \cup {NONE}]
    BY DEF Inv, TypeOK
  <1>3. heap' \in [Blocks -> Nat]
    BY <1>1, <1>2 DEF Blocks
  <1>4. TypeOK'
    BY <1>1, <1>2, <1>3 DEF Inv, TypeOK, Places
  <1>5. Walking'
    BY <1>1 DEF Walking, Scanning
  <1>6. RangeOK(packed.tokens) /\ result = "OK"
    BY <1>1 DEF Inv, Linking, Outcome, Late
  <1> QED BY <1>1, <1>4, <1>5, <1>6, AfterScan DEF Early, Scanning, Late

\* build_children gets its array, or the call fails.
LEMMA ChildrenAllocateStep ==
  ASSUME Inv, ChildrenAllocate
  PROVE  Inv'
  <1>1. /\ pc = "children"
        /\ UNCHANGED <<call, input, offset, tokens, arena_used, arena_peak, duplicate_count,
                       stack, keys, key_count, slots, packed, children, bound, error>>
    BY DEF ChildrenAllocate, document_vars, keyset_vars
  <1>2. heap \in [Blocks -> Nat] /\ peak \in Nat /\ tokens \in Seq(Token) /\ Len(tokens) \in Nat
    BY DEF Inv, TypeOK
  <1>3. RangeOK(tokens) /\ RangeOK(packed.tokens) /\ result = "OK"
    BY <1>1 DEF Inv, Linking, Outcome, Late
  <1>4. CASE result' = "MEMORY" /\ pc' = "failed" /\ UNCHANGED <<memory_vars, walk>>
    <2>1. TypeOK'
      BY <1>1, <1>4 DEF Inv, TypeOK, Places, Failures, memory_vars
    <2>2. Walking'
      BY <1>4 DEF Walking, Scanning
    <2> QED BY <1>1, <1>3, <1>4, <2>1, <2>2, AfterScan DEF Early, Scanning, Late
  <1>5. CASE /\ allocate("children", Len(tokens) * WordSize)
             /\ walk' = <<[child |-> NONE, parent |-> 0]>>
             /\ pc' = "layout" /\ UNCHANGED result
    <2>1. heap' \in [Blocks -> Nat] /\ peak' \in Nat
      <3>1. Len(tokens) * WordSize \in Nat
        BY <1>2, LayoutAssumption
      <3>2. /\ heap' = [heap EXCEPT !["children"] = Len(tokens) * WordSize]
            /\ peak' = Upper(peak, Live(heap'))
        BY <1>5 DEF allocate
      <3>3. heap' \in [Blocks -> Nat]
        BY <1>2, <3>1, <3>2
      <3>4. Live(heap') \in Nat
        BY <3>3, LiveNat
      <3> QED BY <1>2, <3>2, <3>3, <3>4 DEF Upper
    <2>2. [child |-> NONE, parent |-> 0] \in Frame
      BY DEF Frame
    <2>3. TypeOK'
      BY <1>1, <1>5, <2>1, <2>2 DEF Inv, TypeOK, Places
    <2>4. Len(walk') = 1 /\ walk'[1].child = NONE /\ walk'[1].parent = 0
      BY <1>5
    <2>5. Walking'
      BY <1>1, <1>2, <1>5, <2>4 DEF Walking, Scanning
    <2> QED BY <1>1, <1>3, <1>5, <2>3, <2>5, AfterScan DEF Early, Scanning, Late
  <1> QED BY <1>4, <1>5 DEF ChildrenAllocate

\* build_children: the frame follows sibling links and the array index.
LEMMA BuildChildrenStep ==
  ASSUME Inv, BuildChildren
  PROVE  Inv'
  <1>1. /\ pc = "layout"
        /\ UNCHANGED <<call, input, offset, arena_used, arena_peak, duplicate_count, stack,
                       keys, key_count, slots, packed, bound, heap, peak, result, error>>
    BY DEF BuildChildren, keyset_vars, memory_vars, outcome_vars
  <1>2. /\ walk \in Seq(Frame) /\ tokens \in Seq(Token) /\ children \in Seq(Nat)
        /\ Len(tokens) \in Nat /\ Len(children) \in Nat
    BY DEF Inv, TypeOK
  <1>3. RangeOK(tokens) /\ RangeOK(packed.tokens) /\ result = "OK"
    BY <1>1 DEF Inv, Linking, Outcome, Late
  <1>4. /\ Len(walk) = 1 /\ walk[1].child \in DOMAIN tokens \cup {NONE}
        /\ walk[1].parent \in 0 .. Len(tokens) /\ frame = walk[1] /\ walk # <<>>
    <2>1. /\ Len(walk) = 1 /\ walk[1].child \in DOMAIN tokens \cup {NONE}
          /\ walk[1].parent \in 0 .. Len(tokens)
      BY <1>1 DEF Inv, Walking
    <2>2. frame = walk[1]
      BY <2>1 DEF frame
    <2>3. walk # <<>>
      <3>1. Len(walk) # 0
        BY <2>1
      <3> QED BY <1>2, <3>1, EmptySeq
    <2> QED BY <2>1, <2>2, <2>3
  <1>5. ASSUME pc' = "layout", walk' \in Seq(Frame), children' \in Seq(Nat),
               tokens' \in Seq(Token), RangeOK(tokens'),
               Len(walk') = 1, walk'[1].child \in DOMAIN tokens' \cup {NONE},
               walk'[1].parent \in 0 .. Len(tokens')
        PROVE  Inv'
    <2>1. TypeOK'
      BY <1>1, <1>5 DEF Inv, TypeOK, Places
    <2>2. Walking'
      BY <1>5 DEF Walking, Scanning
    <2> QED BY <1>1, <1>3, <1>5, <2>1, <2>2, AfterScan DEF Early, Scanning, Late
  <1>6. CASE LayoutChild
    <2>1. /\ frame.child # NONE /\ children' = Append(children, frame.child)
          /\ walk' = advance(entry.links.next_sibling) /\ pc' = pc /\ tokens' = tokens
      BY <1>6 DEF LayoutChild
    <2>2. frame.child \in DOMAIN tokens /\ frame.child \in Nat
      BY <1>2, <1>4, <2>1
    <2>3. entry.links.next_sibling \in DOMAIN tokens \cup {NONE}
      BY <1>3, <2>2 DEF RangeOK, entry
    <2>4. entry.links.next_sibling \in Nat \cup {NONE}
      BY <1>2, <2>3
    <2>5. /\ walk' \in Seq(Frame) /\ Len(walk') = 1
          /\ walk'[1].child = entry.links.next_sibling /\ walk'[1].parent = walk[1].parent
      <3> DEFINE next == entry.links.next_sibling
      <3> HIDE DEF next
      <3>1. /\ advance(next) \in Seq(Frame) /\ Len(advance(next)) = Len(walk)
            /\ advance(next)[Len(walk)].child = next
            /\ advance(next)[Len(walk)].parent = walk[Len(walk)].parent
        BY <1>2, <1>4, <2>4, FrameFacts DEF advance, next
      <3> QED BY <1>4, <2>1, <3>1 DEF next
    <2>6. children' \in Seq(Nat)
      BY <1>2, <2>1, <2>2
    <2> QED BY <1>1, <1>2, <1>3, <1>4, <1>5, <2>1, <2>3, <2>5, <2>6
  <1>7. CASE LayoutContainer
    <2> DEFINE next == frame.parent + 1
    <2>1. /\ frame.parent < Len(tokens) /\ pc' = pc /\ children' = children
          /\ \/ /\ walk' = <<[child |-> tokens[next].links.first_child, parent |-> next]>>
                /\ tokens' = [tokens EXCEPT ![next].children_offset = Len(children)]
             \/ walk' = <<[child |-> NONE, parent |-> next]>> /\ tokens' = tokens
      BY <1>7 DEF LayoutContainer
    <2>2. next \in DOMAIN tokens /\ next \in Nat /\ next \in 0 .. Len(tokens)
      BY <1>2, <1>4, <2>1
    <2>3. tokens[next] \in Token /\ tokens[next].links.first_child \in DOMAIN tokens \cup {NONE}
      BY <1>2, <1>3, <2>2 DEF RangeOK
    <2> HIDE DEF next
    <2>4. /\ tokens' \in Seq(Token) /\ Len(tokens') = Len(tokens)
          /\ DOMAIN tokens' = DOMAIN tokens
          /\ \A i \in DOMAIN tokens : tokens'[i].links = tokens[i].links
      <3>1. CASE tokens' = tokens
        BY <1>2, <3>1
      <3>2. CASE tokens' = [tokens EXCEPT ![next].children_offset = Len(children)]
        <4>1. tokens'[next] = [tokens[next] EXCEPT !.children_offset = Len(children)]
              /\ DOMAIN tokens' = DOMAIN tokens
              /\ \A i \in DOMAIN tokens : i # next => tokens'[i] = tokens[i]
          BY <1>2, <2>2, <3>2
        <4>2. tokens'[next] \in Token /\ tokens'[next].links = tokens[next].links
          BY <1>2, <2>3, <4>1 DEF Token
        <4>3. \A i \in 1 .. Len(tokens) :
                tokens'[i] \in Token /\ tokens'[i].links = tokens[i].links
          <5>1. \A i \in 1 .. Len(tokens) : i \in DOMAIN tokens /\ tokens[i] \in Token
            BY <1>2
          <5> QED BY <4>1, <4>2, <5>1
        <4>4. tokens' \in [1 .. Len(tokens) -> Token]
          <5>1. tokens' = [i \in DOMAIN tokens |-> tokens'[i]]
            BY <3>2
          <5> QED BY <1>2, <4>3, <5>1
        <4>5. tokens' \in Seq(Token) /\ Len(tokens') = Len(tokens)
          BY <1>2, <4>4, FunctionIsSeq
        <4> QED BY <1>2, <4>1, <4>3, <4>5
      <3> QED BY <2>1, <3>1, <3>2
    <2>5. RangeOK(tokens')
      BY <1>3, <2>4 DEF RangeOK
    <2>6. PICK child \in DOMAIN tokens \cup {NONE} :
            walk' = <<[child |-> child, parent |-> next]>>
      BY <2>1, <2>3
    <2>7. [child |-> child, parent |-> next] \in Frame
      BY <1>2, <2>2, <2>6 DEF Frame
    <2>8. /\ walk' \in Seq(Frame) /\ Len(walk') = 1
          /\ walk'[1].child = child /\ walk'[1].parent = next
      BY <2>6, <2>7
    <2> QED BY <1>1, <1>2, <1>5, <2>1, <2>2, <2>4, <2>5, <2>6, <2>8
  <1>8. CASE Publish
    <2>1. pc' = "done" /\ UNCHANGED <<walk, tokens, children>>
      BY <1>8 DEF Publish
    <2>2. TypeOK'
      BY <1>1, <2>1 DEF Inv, TypeOK, Places
    <2>3. Walking'
      BY <2>1 DEF Walking, Scanning
    <2> QED BY <1>1, <1>3, <2>1, <2>2, <2>3, AfterScan DEF Early, Scanning, Late
  <1> QED BY <1>6, <1>7, <1>8 DEF BuildChildren

\* The failure path of document_parse.
LEMMA ReturnFailureStep ==
  ASSUME Inv, ReturnFailure
  PROVE  Inv'
  <1>1. /\ pc = "failed" /\ pc' = "done" /\ heap' = document_release(heap)
        /\ error' = IF error.code = "OK" THEN error_set(result, 0) ELSE error
        /\ UNCHANGED <<call, input, offset, tokens, arena_used, arena_peak, duplicate_count,
                       stack, keys, key_count, slots, walk, packed, children, bound, peak,
                       result>>
    BY DEF ReturnFailure, document_vars, keyset_vars, compact_vars
  <1>2. heap' \in [Blocks -> Nat]
    BY <1>1, ReleaseType DEF Inv, TypeOK
  <1>3. error' \in [code : Failures \cup {"OK"}, offset : Nat]
    BY <1>1 DEF Inv, TypeOK, error_set, Lower
  <1>4. TypeOK'
    BY <1>1, <1>2, <1>3 DEF Inv, TypeOK, Places
  <1>5. Walking'
    BY <1>1 DEF Walking, Scanning
  <1>6. RangeOK(tokens) /\ RangeOK(packed.tokens)
    BY DEF Inv, Linking
  <1> QED BY <1>1, <1>4, <1>5, <1>6, AfterScan DEF Early, Scanning, Late
\* The invariant holds before the first call.
LEMMA InitInv ==
  ASSUME Init
  PROVE  Inv
  <1> USE DEF Init
  <1>1. /\ packed.tokens = <<>> /\ packed.token_count = 0
        /\ packed \in [tokens : Seq(Token), token_count : Nat, arena_used : Nat,
                       token_capacity : Nat \cup {NONE}, arena_capacity : Nat \cup {NONE}]
    BY DEF empty_packed
  <1>2. TypeOK
    <2>1. heap \in [Blocks -> Nat]
      BY DEF empty_heap
    <2>2. error \in [code : Failures \cup {"OK"}, offset : Nat] /\ call.size \in Nat
      BY DEF no_error
    <2> QED BY <1>1, <2>1, <2>2 DEF TypeOK, Places
  <1>3. Fresh /\ Counting /\ Outcome /\ Naming
    BY <1>1 DEF Fresh, Counting, Outcome, Naming, Early, Scanning, Late
  <1>4. Linking /\ Walking
    BY <1>1 DEF Linking, Walking, RangeOK, ChainOK, SupersededOK, Scanning
  <1>5. arena_capacity \in Nat
    BY <1>2, CapacityFacts DEF TypeOK
  <1>6. ArenaFits /\ LimitMeansLimit
    BY <1>5 DEF ArenaFits, LimitMeansLimit
  <1> QED BY <1>2, <1>3, <1>4, <1>6 DEF Inv

\* The client releases the document and everything starts over.
LEMMA ReleaseStep ==
  ASSUME Inv, Release
  PROVE  Inv'
  <1>1. heap' \in [Blocks -> Nat]
    BY ReleaseType DEF Inv, TypeOK, Release
  <1> USE DEF Release
  <1>2. /\ packed'.tokens = <<>> /\ packed'.token_count = 0
        /\ packed' \in [tokens : Seq(Token), token_count : Nat, arena_used : Nat,
                        token_capacity : Nat \cup {NONE}, arena_capacity : Nat \cup {NONE}]
    BY DEF empty_packed
  <1>3. TypeOK'
    <2>1. error' \in [code : Failures \cup {"OK"}, offset : Nat] /\ call'.size \in Nat
      BY DEF no_error
    <2> QED BY <1>1, <1>2, <2>1 DEF TypeOK, Places
  <1>4. Fresh' /\ Counting' /\ Outcome' /\ Naming'
    BY <1>2 DEF Fresh, Counting, Outcome, Naming, Early, Scanning, Late
  <1>5. Linking' /\ Walking'
    BY <1>2 DEF Linking, Walking, RangeOK, ChainOK, SupersededOK, Scanning
  <1>6. ArenaFits'
    <2>1. call'.size = 0
      OBVIOUS
    <2>2. arena_capacity' \in Nat
      BY <2>1, LimitsAssumption DEF arena_capacity, token_capacity, AtLeastOne, Lower
    <2> QED BY <2>2 DEF ArenaFits
  <1>7. LimitMeansLimit'
    BY DEF LimitMeansLimit
  <1> QED BY <1>3, <1>4, <1>5, <1>6, <1>7 DEF Inv

\* Every step of every call keeps the invariant, and no step that accepts a key
\* changes the capacity of the table.
LEMMA NextStep ==
  ASSUME Inv, [Next]_vars
  PROVE  /\ Inv'
         /\ pc \in {"first_key", "key"} /\ pc' = "colon" => slots' = slots
  <1>1. CASE UNCHANGED vars
    <2>1. UNCHANGED <<pc, call, input, offset, tokens, arena_used, arena_peak, duplicate_count,
                      stack, keys, key_count, slots, walk, packed, children, bound, heap,
                      peak, result, error>>
      BY <1>1 DEF vars, document_vars, keyset_vars, compact_vars, memory_vars, outcome_vars
    <2>2. TypeOK' /\ Fresh' /\ Outcome' /\ Naming' /\ Linking' /\ Walking'
      BY <2>1 DEF Inv, TypeOK, Fresh, Outcome, Naming, Linking, Walking
    <2>3. Counting' /\ ArenaFits' /\ LimitMeansLimit'
      BY <2>1 DEF Inv, Counting, Pending, ArenaFits, LimitMeansLimit, arena_capacity,
                  token_capacity, expected_keys, allocation_total, bound_tokens
    <2> QED BY <2>1, <2>2, <2>3 DEF Inv
  <1>2. CASE Call
    BY <1>2, CallStep DEF Call
  <1>3. CASE \E l \in Lexemes : Scan(l)
    BY <1>3, ScanStep
  <1>4. CASE DoubleCapacity
    BY <1>4, DoubleCapacityStep DEF DoubleCapacity
  <1>5. CASE AllocationBound
    BY <1>5, AllocationBoundStep DEF AllocationBound
  <1>6. CASE AllocateDocument
    BY <1>6, AllocateDocumentStep DEF AllocateDocument
  <1>7. CASE KeysetInit
    BY <1>7, KeysetInitStep DEF KeysetInit
  <1>8. CASE Finish
    BY <1>8, FinishStep DEF Finish
  <1>9. CASE CompactWalk
    BY <1>9, CompactWalkStep DEF CompactWalk
  <1>10. CASE CompactAllocate
    BY <1>10, CompactAllocateStep DEF CompactAllocate
  <1>11. CASE CompactSwap
    BY <1>11, CompactSwapStep DEF CompactSwap
  <1>12. CASE ChildrenAllocate
    BY <1>12, ChildrenAllocateStep DEF ChildrenAllocate
  <1>13. CASE BuildChildren
    BY <1>13, BuildChildrenStep DEF BuildChildren
  <1>14. CASE ReturnFailure
    BY <1>14, ReturnFailureStep DEF ReturnFailure
  <1>15. CASE Release
    BY <1>15, ReleaseStep DEF Release
  <1> QED
    BY <1>1, <1>2, <1>3, <1>4, <1>5, <1>6, <1>7, <1>8, <1>9, <1>10, <1>11, <1>12, <1>13,
       <1>14, <1>15 DEF Next, Step

-----------------------------------------------------------------------------
(* The theorems.                                                            *)

\* The inductive invariant holds in every state of every sequence of calls.
THEOREM InvHolds == Spec => []Inv
  <1>1. Init => Inv
    BY InitInv
  <1>2. Inv /\ [Next]_vars => Inv'
    BY NextStep
  <1> QED BY <1>1, <1>2, PTL DEF Spec

\* Type correctness: whatever the input, the links, frames and stack entries the
\* parser follows are those of existing tokens, and every field has its type.
THEOREM TypeCorrect == Spec => []TypeOK
  <1>1. Inv => TypeOK
    BY DEF Inv
  <1> QED BY <1>1, InvHolds, PTL

\* The assertion of arena_claim never fails: the arena allocate_document sizes
\* from the input length and the token capacity holds every text of the input.
THEOREM ArenaAlwaysFits == Spec => []ArenaFits
  <1>1. Inv => ArenaFits
    BY DEF Inv
  <1> QED BY <1>1, InvHolds, PTL

\* LIMIT is only returned for a limit the caller set or an overflowing sum: the
\* token array never runs out because it was sized from a short input.
THEOREM LimitIsALimit == Spec => []LimitMeansLimit
  <1>1. Inv => LimitMeansLimit
    BY DEF Inv
  <1> QED BY <1>1, InvHolds, PTL

\* The table keyset_init reserves is never grown by the parser.
THEOREM KeysetCapacitySuffices == Spec => KeysetNeverGrows
  <1>1. Inv /\ [Next]_vars
          => [(pc \in {"first_key", "key"} /\ pc' = "colon") => slots' = slots]_vars
    BY NextStep
  <1> QED BY <1>1, InvHolds, PTL DEF Spec, KeysetNeverGrows

-----------------------------------------------------------------------------
(* The capacities keyset_capacity can return.                               *)

ClosedUnderDoubling(X) == MinimumCapacity \in X /\ \A x \in X : 2 * x \in X

Doublings == {c \in Nat : \A X \in SUBSET Nat : ClosedUnderDoubling(X) => c \in X}

-----------------------------------------------------------------------------
(* The order of the tokens.                                                 *)

\* Links lead from a container to later tokens and between its children.
ForwardAt(nodes, i) ==
  /\ nodes[i].links.parent # NONE => nodes[i].links.parent < i
  /\ nodes[i].links.first_child # NONE =>
       /\ i < nodes[i].links.first_child
       /\ nodes[nodes[i].links.first_child].links.parent = i
  /\ nodes[i].links.last_child # NONE => nodes[nodes[i].links.last_child].links.parent = i
  /\ nodes[i].links.next_sibling # NONE =>
       /\ i < nodes[i].links.next_sibling
       /\ nodes[nodes[i].links.next_sibling].links.parent = nodes[i].links.parent

Forward(nodes) == \A i \in DOMAIN nodes : ForwardAt(nodes, i)

\* No token between i and its next sibling takes p as its parent.
Outside(nodes, i, p) ==
  nodes[i].links.next_sibling # NONE /\ p # NONE
    => p < i \/ p >= nodes[i].links.next_sibling

\* What follows the next sibling of a token is not in the token's subtree.
Preorder(nodes) ==
  /\ Forward(nodes)
  /\ \A i, k \in DOMAIN nodes :
       nodes[i].links.next_sibling # NONE /\ k >= nodes[i].links.next_sibling
         => Outside(nodes, i, nodes[k].links.parent)

\* p lies in the subtree of the token that c follows.
Inside(nodes, c, p) ==
  p # NONE /\ \E b \in DOMAIN nodes : nodes[b].links.next_sibling = c /\ b <= p /\ p < c

\* The open containers were opened in order, and no later sibling closed one.
Opened(nodes, open) ==
  /\ \A i, j \in DOMAIN open : i < j => open[i] < open[j]
  /\ \A i \in DOMAIN open : \A j \in DOMAIN nodes : Outside(nodes, j, open[i])

\* f[i] bytes of the arena hold the texts of the first i tokens.
Sums(nodes, f) ==
  /\ f \in [0 .. Len(nodes) -> Nat]
  /\ \A i \in 1 .. Len(nodes) : f[i] = f[i - 1] + text_bytes(nodes[i])
  /\ \A i, j \in 0 .. Len(nodes) : i <= j => f[i] <= f[j]

\* Every frame of compact_walk stands at a token behind the ones that were
\* visited; an outer frame, behind the whole subtree of an inner one.
Frames(nodes, frames, visited) ==
  /\ \A i \in DOMAIN frames : frames[i].child # NONE => visited < frames[i].child
  /\ \A i, j \in DOMAIN frames :
       i < j /\ frames[i].child # NONE /\ frames[j].child # NONE
         => Inside(nodes, frames[i].child, nodes[frames[j].child].links.parent)

-----------------------------------------------------------------------------
(* The invariant.                                                           *)

Copying  == {"measure", "copy"}
Building == pc \in Early \cup Scanning \cup Copying \/ (pc = "finish" /\ result = "OK")

\* The tokens are in preorder as long as the parser appends to them or walks them.
Ordering ==
  /\ Building => Preorder(tokens)
  /\ pc \in Scanning => Opened(tokens, stack)

\* The texts of the tokens fit in the part of the arena that is used.
Texts ==
  Building => \E f : Sums(tokens, f) /\ f[Len(tokens)] <= arena_used

\* Once everything has been read the arrays are within their capacities.
Sizes ==
  /\ Building \/ pc \in {"children", "layout"} => Len(tokens) <= token_capacity
  /\ Building => arena_used <= call.size + token_capacity
  /\ Building /\ pc \notin Copying => packed = empty_packed
  /\ pc \in Early => duplicate_count = 0
  /\ Building /\ duplicate_count > 0 => call.profile = "LAST_WINS"
  /\ pc \in Copying => call.profile = "LAST_WINS"

\* compact_walk has counted no more than the tokens before every open frame.
Visiting ==
  pc \in Copying =>
    /\ packed.token_count <= Len(tokens)
    /\ Frames(tokens, walk, packed.token_count)
    /\ \E f : /\ Sums(tokens, f) /\ f[Len(tokens)] <= arena_used
              /\ packed.arena_used <= f[Len(tokens)]
              /\ \A i \in DOMAIN walk :
                   walk[i].child # NONE => packed.arena_used <= f[walk[i].child - 1]

\* Which blocks are live where, and how large they are at most.
Held ==
  /\ pc \in {"idle", "bound", "allocate"} \/ (pc = "done" /\ result # "OK") => heap = empty_heap
  /\ heap["document"] <= DocumentSize /\ heap["bytes"] <= call.size + 1
  /\ heap["tokens"] <= token_capacity * TokenSize /\ heap["arena"] <= arena_capacity
  /\ pc \notin Scanning \cup {"finish"} => heap["keys"] = 0
  /\ pc # "copy" => heap["packed_tokens"] = 0 /\ heap["packed_arena"] = 0
  /\ pc = "copy" => /\ heap["packed_tokens"] <= token_capacity * TokenSize
                    /\ heap["packed_arena"] <= arena_capacity
  /\ pc \notin {"layout", "done"} => heap["children"] = 0

\* The bound was computed for a table at least as large as the one reserved.
Bounded ==
  /\ pc \in {"bound", "reserve"} => slots \in Doublings
  /\ pc \in {"idle", "bound", "allocate"} => peak = 0
  /\ pc \notin {"idle", "bound", "done"} =>
       \E c \in Doublings :
         /\ bound = allocation_total(c) /\ 2 * expected_keys <= c
         /\ slots <= c /\ heap["keys"] <= c * WordSize
  /\ peak <= bound

DocumentInv == Ordering /\ Texts /\ Sizes /\ Visiting
MemoryInv   == Held /\ Bounded

-----------------------------------------------------------------------------
(* Doubling.                                                                *)

\* The capacities keyset_capacity goes through are closed under doubling.
LEMMA DoublingsClosed ==
  /\ Doublings \subseteq Nat /\ MinimumCapacity \in Doublings
  /\ \A c \in Doublings : 2 * c \in Doublings
  <1>1. MinimumCapacity \in Doublings
    BY CapacityAssumption DEF Doublings, ClosedUnderDoubling
  <1>2. ASSUME NEW c \in Doublings PROVE 2 * c \in Doublings
    BY DEF Doublings, ClosedUnderDoubling
  <1> QED BY <1>1, <1>2 DEF Doublings

\* A set of doublings that contains the first and is closed contains them all.
LEMMA DoublingInduction ==
  ASSUME NEW X \in SUBSET Doublings, ClosedUnderDoubling(X)
  PROVE  Doublings \subseteq X
  BY DEF Doublings

\* No capacity is below the minimum.
LEMMA DoublingLeast ==
  ASSUME NEW c \in Doublings
  PROVE  MinimumCapacity <= c
  <1> DEFINE X == {x \in Doublings : MinimumCapacity <= x}
  <1>1. ClosedUnderDoubling(X)
    BY DoublingsClosed, CapacityAssumption DEF ClosedUnderDoubling
  <1> HIDE DEF X
  <1>2. X \in SUBSET Doublings
    BY DEF X
  <1>3. Doublings \subseteq X
    BY <1>1, <1>2, DoublingInduction
  <1> QED BY <1>3 DEF X

\* No capacity lies strictly between x and its double.
Gap(x) == \A y \in Doublings : y <= x \/ 2 * x <= y

\* Two different capacities are at least a factor of two apart.
LEMMA DoublingGap ==
  ASSUME NEW s \in Doublings, NEW c \in Doublings, s < c
  PROVE  2 * s <= c
  <1> USE DoublingsClosed
  <1> DEFINE Y == {x \in Doublings : Gap(x)}
             Clear(x) == {y \in Doublings : y <= x \/ 2 * x <= y}
  <1>1. ASSUME NEW x \in Doublings, ClosedUnderDoubling(Clear(x))
        PROVE  Gap(x)
    <2> HIDE DEF Clear
    <2>1. Clear(x) \in SUBSET Doublings
      BY DEF Clear
    <2>2. Doublings \subseteq Clear(x)
      BY <1>1, <2>1, DoublingInduction
    <2> QED BY <2>2 DEF Clear, Gap
  <1>2. MinimumCapacity \in Y
    <2>1. ASSUME NEW y \in Clear(MinimumCapacity)
          PROVE  2 * y \in Clear(MinimumCapacity)
      <3>1. MinimumCapacity <= y
        BY DoublingLeast
      <3> QED BY <3>1, CapacityAssumption
    <2>2. ClosedUnderDoubling(Clear(MinimumCapacity))
      BY <2>1, CapacityAssumption DEF ClosedUnderDoubling
    <2> QED BY <1>1, <2>2
  <1>3. ASSUME NEW x \in Y PROVE 2 * x \in Y
    <2>1. /\ x \in Doublings /\ Gap(x) /\ x \in Nat /\ 2 * x \in Doublings
          /\ MinimumCapacity <= x
      BY DoublingLeast
    <2>2. ASSUME NEW y \in Clear(2 * x)
          PROVE  2 * y \in Clear(2 * x)
      <3>1. y \in Doublings /\ y \in Nat /\ 2 * y \in Doublings
        OBVIOUS
      <3>2. y <= x \/ 2 * x <= y
        BY <2>1, <3>1 DEF Gap
      <3> QED BY <2>1, <3>1, <3>2
    <2>3. MinimumCapacity \in Clear(2 * x)
      BY <2>1
    <2>4. ClosedUnderDoubling(Clear(2 * x))
      BY <2>2, <2>3 DEF ClosedUnderDoubling
    <2>5. Gap(2 * x)
      BY <1>1, <2>1, <2>4
    <2> QED BY <2>1, <2>5
  <1>4. ClosedUnderDoubling(Y) /\ Y \in SUBSET Doublings
    BY <1>2, <1>3 DEF ClosedUnderDoubling
  <1>5. Gap(s)
    <2> HIDE DEF Y
    <2>1. s \in Y
      BY <1>4, DoublingInduction
    <2> QED BY <2>1 DEF Y
  <1> QED BY <1>5 DEF Gap

-----------------------------------------------------------------------------
(* Appending a token keeps the order.                                       *)

\* add_token below the innermost open container, or as the root.
LEMMA AttachOrdered ==
  ASSUME NEW nodes \in Seq(Token), NEW node \in Token, RangeOK(nodes), Preorder(nodes),
         NEW open \in Seq(Nat), \A i \in DOMAIN open : open[i] \in DOMAIN nodes,
         Opened(nodes, open),
         node.links = links_init(IF open = <<>> THEN NONE ELSE open[Len(open)])
  PROVE  Preorder(attach(nodes, node)) /\ Opened(attach(nodes, node), open)
  <1> DEFINE g == attach(nodes, node)
             n == Len(nodes) + 1
             p == IF open = <<>> THEN NONE ELSE open[Len(open)]
  <1>1. /\ node.links.parent = p /\ node.links.next_sibling = NONE
        /\ node.links.first_child = NONE /\ node.links.last_child = NONE
    BY DEF links_init
  <1>2. n \in Nat /\ n # NONE /\ DOMAIN nodes = 1 .. n - 1 /\ Len(nodes) = n - 1
        /\ \A i \in DOMAIN nodes : i # NONE /\ i \in Nat /\ i < n
    BY NoneAssumption
  <1>3. Forward(nodes)
    BY DEF Preorder
  <1>4. CASE open = <<>>
    <2>1. p = NONE
      BY <1>4
    <2>2. /\ g \in Seq(Token) /\ Len(g) = n /\ g[n] = node
          /\ \A i \in DOMAIN nodes : g[i] = nodes[i]
      BY <1>1, <2>1, AttachRoot
    <2>3. DOMAIN g = DOMAIN nodes \cup {n}
      BY <2>2
    <2>4. Opened(g, open)
      BY <1>4 DEF Opened
    <2> HIDE DEF g, n, p
    <2>5. Forward(g)
      <3> SUFFICES ASSUME NEW i \in DOMAIN g
                   PROVE  ForwardAt(g, i)
        BY DEF Forward
      <3>1. CASE i = n
        BY <1>1, <2>1, <2>2, <3>1 DEF ForwardAt
      <3>2. CASE i \in DOMAIN nodes
        <4>1. ForwardAt(nodes, i) /\ g[i] = nodes[i]
          BY <1>3, <2>2, <3>2 DEF Forward
        <4>2. /\ nodes[i].links.first_child \in DOMAIN nodes \cup {NONE}
              /\ nodes[i].links.last_child \in DOMAIN nodes \cup {NONE}
              /\ nodes[i].links.next_sibling \in DOMAIN nodes \cup {NONE}
          BY <3>2 DEF RangeOK
        <4> QED BY <2>2, <4>1, <4>2 DEF ForwardAt
      <3> QED BY <2>3, <3>1, <3>2
    <2>6. ASSUME NEW i \in DOMAIN g, NEW k \in DOMAIN g, g[i].links.next_sibling # NONE,
                 k >= g[i].links.next_sibling
          PROVE  Outside(g, i, g[k].links.parent)
      <3>1. i \in DOMAIN nodes
        BY <1>1, <2>2, <2>3, <2>6
      <3>2. CASE k = n
        BY <1>1, <2>1, <2>2, <3>2 DEF Outside
      <3>3. CASE k \in DOMAIN nodes
        BY <2>2, <2>6, <3>1, <3>3 DEF Outside, Preorder
      <3> QED BY <2>3, <3>2, <3>3
    <2> QED BY <2>4, <2>5, <2>6 DEF Preorder, g
  <1>5. CASE open # <<>>
    <2> DEFINE last == nodes[p].links.last_child
    <2>1. /\ p \in DOMAIN nodes /\ p = open[Len(open)] /\ Len(open) \in DOMAIN open
          /\ \A i \in DOMAIN open : open[i] \in Nat /\ open[i] <= p
      <3>1. Len(open) \in DOMAIN open /\ p = open[Len(open)]
        BY <1>5
      <3>2. \A i \in DOMAIN open : i \in Nat /\ i <= Len(open)
        OBVIOUS
      <3>3. \A i \in DOMAIN open : i < Len(open) => open[i] < p
        BY <3>1 DEF Opened
      <3> QED BY <3>1, <3>2, <3>3
    <2>2. node.links = links_init(p)
      OBVIOUS
    <2> HIDE DEF p
    <2>3. /\ g \in Seq(Token) /\ Len(g) = n /\ g[n] = node
          /\ \A i \in DOMAIN nodes :
               /\ Kept(nodes[i], g[i])
               /\ g[i].links.first_child =
                    IF i = p /\ last = NONE THEN n ELSE nodes[i].links.first_child
               /\ g[i].links.last_child = IF i = p THEN n ELSE nodes[i].links.last_child
               /\ g[i].links.next_sibling =
                    IF i = last THEN n ELSE nodes[i].links.next_sibling
      BY <2>1, <2>2, AttachChild
    <2>4. DOMAIN g = DOMAIN nodes \cup {n}
      BY <2>3
    <2>5. last \in DOMAIN nodes \cup {NONE}
      BY <2>1 DEF RangeOK
    <2>6. last # NONE => nodes[last].links.parent = p /\ p < last
      BY <1>2, <1>3, <2>1, <2>5 DEF Forward, ForwardAt
    <2> HIDE DEF g, n, last
    <2>7. \A i \in DOMAIN nodes : g[i].links.parent = nodes[i].links.parent
      BY <2>3 DEF Kept
    <2>8. ASSUME NEW i \in DOMAIN nodes
          PROVE  ForwardAt(g, i)
      <3>1. ForwardAt(nodes, i)
        BY <1>3 DEF Forward
      <3>2. /\ nodes[i].links.first_child \in DOMAIN nodes \cup {NONE}
            /\ nodes[i].links.last_child \in DOMAIN nodes \cup {NONE}
            /\ nodes[i].links.next_sibling \in DOMAIN nodes \cup {NONE}
        BY DEF RangeOK
      <3>3. g[n].links.parent = p /\ i < n
        BY <1>1, <1>2, <2>3
      <3>4. g[i].links.parent # NONE => g[i].links.parent < i
        BY <2>7, <3>1 DEF ForwardAt
      <3>5. g[i].links.first_child # NONE =>
              /\ i < g[i].links.first_child
              /\ g[g[i].links.first_child].links.parent = i
        BY <2>3, <2>7, <3>1, <3>2, <3>3 DEF ForwardAt
      <3>6. g[i].links.last_child # NONE => g[g[i].links.last_child].links.parent = i
        <4>1. CASE i = p
          BY <2>3, <3>3, <4>1
        <4>2. CASE i # p
          <5>1. g[i].links.last_child = nodes[i].links.last_child
            BY <2>3, <4>2
          <5> QED BY <2>7, <3>1, <3>2, <5>1 DEF ForwardAt
        <4> QED BY <4>1, <4>2
      <3>7. g[i].links.next_sibling # NONE =>
              /\ i < g[i].links.next_sibling
              /\ g[g[i].links.next_sibling].links.parent = g[i].links.parent
        <4>1. CASE i = last
          <5>1. g[i].links.next_sibling = n /\ g[i].links.parent = p
            BY <1>2, <2>3, <2>6, <2>7, <4>1
          <5> QED BY <3>3, <5>1
        <4>2. CASE i # last
          <5>1. g[i].links.next_sibling = nodes[i].links.next_sibling
            BY <2>3, <4>2
          <5> QED BY <2>7, <3>1, <3>2, <5>1 DEF ForwardAt
        <4> QED BY <4>1, <4>2
      <3> QED BY <3>4, <3>5, <3>6, <3>7 DEF ForwardAt
    <2>9. Forward(g)
      <3> SUFFICES ASSUME NEW i \in DOMAIN g
                   PROVE  ForwardAt(g, i)
        BY DEF Forward
      <3>1. CASE i = n
        BY <1>1, <1>2, <2>1, <2>3, <3>1 DEF ForwardAt
      <3> QED BY <2>4, <2>8, <3>1
    <2>10. ASSUME NEW j \in DOMAIN g, NEW q \in DOMAIN nodes, q <= p, Outside(nodes, j, q)
           PROVE  Outside(g, j, q)
      <3>1. CASE j = n
        BY <1>1, <2>3, <3>1 DEF Outside
      <3>2. CASE j = last
        BY <1>2, <2>1, <2>4, <2>5, <2>6, <2>10, <3>1, <3>2 DEF Outside
      <3>3. CASE j \in DOMAIN nodes /\ j # last
        BY <2>3, <2>10, <3>3 DEF Outside
      <3> QED BY <2>4, <3>1, <3>2, <3>3
    <2>11. Opened(g, open)
      <3>1. \A i, j \in DOMAIN open : i < j => open[i] < open[j]
        BY DEF Opened
      <3>2. ASSUME NEW i \in DOMAIN open, NEW j \in DOMAIN g
            PROVE  Outside(g, j, open[i])
        <4>1. CASE j = n
          BY <1>1, <2>3, <4>1 DEF Outside
        <4>2. CASE j \in DOMAIN nodes
          <5>1. Outside(nodes, j, open[i])
            BY <4>2 DEF Opened
          <5> QED BY <2>1, <2>10, <5>1
        <4> QED BY <2>4, <4>1, <4>2
      <3> QED BY <3>1, <3>2 DEF Opened
    <2>12. ASSUME NEW i \in DOMAIN g, NEW k \in DOMAIN g, g[i].links.next_sibling # NONE,
                  k >= g[i].links.next_sibling
           PROVE  Outside(g, i, g[k].links.parent)
      <3>1. i \in DOMAIN nodes
        BY <1>1, <2>3, <2>4, <2>12
      <3>2. CASE k = n
        <4>1. g[k].links.parent = p
          BY <1>1, <2>3, <3>2
        <4>2. Outside(g, i, p)
          BY <2>1, <2>11 DEF Opened
        <4> QED BY <4>1, <4>2
      <3>3. CASE k \in DOMAIN nodes
        <4>1. i # last
          <5>1. k < n
            BY <1>2, <3>3
          <5>2. k \in Nat /\ n \in Nat
            BY <1>2, <3>3
          <5> QED BY <2>3, <2>12, <3>1, <5>1, <5>2
        <4>2. g[i].links.next_sibling = nodes[i].links.next_sibling
          BY <2>3, <3>1, <4>1
        <4>3. Outside(nodes, i, nodes[k].links.parent)
          BY <2>12, <3>1, <3>3, <4>2 DEF Preorder
        <4> QED BY <2>7, <3>3, <4>2, <4>3 DEF Outside
      <3> QED BY <2>4, <3>2, <3>3
    <2> QED BY <2>9, <2>11, <2>12 DEF Preorder, g
  <1> QED BY <1>4, <1>5

\* The new token is opened after all the others.
LEMMA OpenedPush ==
  ASSUME NEW nodes \in Seq(Token), RangeOK(nodes), NEW open \in Seq(Nat),
         Opened(nodes, open), \A i \in DOMAIN open : open[i] < Len(nodes)
  PROVE  Opened(nodes, Append(open, Len(nodes)))
  <1> DEFINE n == Len(nodes)
             s == Append(open, n)
  <1>1. n \in Nat /\ Len(open) \in Nat /\ DOMAIN s = 1 .. Len(open) + 1
        /\ s[Len(open) + 1] = n /\ \A i \in DOMAIN open : s[i] = open[i]
    OBVIOUS
  <1>2. DOMAIN open = 1 .. Len(open)
    OBVIOUS
  <1> HIDE DEF s
  <1>3. ASSUME NEW i \in DOMAIN s, NEW j \in DOMAIN s, i < j PROVE s[i] < s[j]
    <2>1. i \in DOMAIN open
      BY <1>1, <1>2, <1>3
    <2>2. CASE j \in DOMAIN open
      BY <1>1, <1>3, <2>1, <2>2 DEF Opened
    <2>3. CASE j = Len(open) + 1
      BY <1>1, <2>1, <2>3
    <2> QED BY <1>1, <1>2, <2>2, <2>3
  <1>4. ASSUME NEW j \in DOMAIN nodes PROVE Outside(nodes, j, n)
    BY NoneAssumption DEF Outside, RangeOK
  <1>5. ASSUME NEW i \in DOMAIN s, NEW j \in DOMAIN nodes PROVE Outside(nodes, j, s[i])
    <2>1. CASE i \in DOMAIN open
      BY <1>1, <2>1 DEF Opened
    <2>2. CASE i = Len(open) + 1
      BY <1>1, <1>4, <2>2
    <2> QED BY <1>1, <1>2, <2>1, <2>2
  <1> QED BY <1>3, <1>5 DEF Opened, s

\* Closing a container leaves the outer ones as they were.
LEMMA OpenedPop ==
  ASSUME NEW nodes, NEW open \in Seq(Nat), open # <<>>, Opened(nodes, open)
  PROVE  Opened(nodes, SubSeq(open, 1, Len(open) - 1))
  <1> DEFINE s == SubSeq(open, 1, Len(open) - 1)
  <1>1. \A i \in DOMAIN s : i \in DOMAIN open /\ s[i] = open[i]
    BY PopSeq
  <1> HIDE DEF s
  <1> QED BY <1>1 DEF Opened, s

\* The order is a matter of the links alone.
LEMMA SameLinks ==
  ASSUME NEW nodes, NEW other, DOMAIN other = DOMAIN nodes,
         \A i \in DOMAIN nodes : other[i].links = nodes[i].links, RangeOK(nodes),
         NEW open
  PROVE  /\ Preorder(nodes) => Preorder(other)
         /\ Opened(nodes, open) => Opened(other, open)
  <1>1. ASSUME NEW i \in DOMAIN nodes, NEW p
        PROVE  Outside(nodes, i, p) <=> Outside(other, i, p)
    BY DEF Outside
  <1>2. Forward(nodes) => Forward(other)
    BY DEF Forward, ForwardAt, RangeOK
  <1>3. Preorder(nodes) => Preorder(other)
    BY <1>1, <1>2 DEF Preorder
  <1>4. Opened(nodes, open) => Opened(other, open)
    BY <1>1 DEF Opened
  <1> QED BY <1>3, <1>4

-----------------------------------------------------------------------------
(* The bytes of text.                                                       *)

\* A token's text takes a number of bytes.
LEMMA TextBytes ==
  ASSUME NEW t \in Token
  PROVE  text_bytes(t) \in Nat
  BY DEF text_bytes, Token

\* The sums of an array say what the sums of one more token are.
LEMMA SumsAppend ==
  ASSUME NEW nodes \in Seq(Token), NEW other \in Seq(Token), Len(other) = Len(nodes) + 1,
         \A i \in DOMAIN nodes : text_bytes(other[i]) = text_bytes(nodes[i]),
         NEW f, Sums(nodes, f)
  PROVE  \E g : /\ Sums(other, g)
                /\ g[Len(other)] = f[Len(nodes)] + text_bytes(other[Len(nodes) + 1])
  <1> DEFINE n == Len(nodes) + 1
             more == text_bytes(other[n])
             g == [i \in 0 .. n |-> IF i = n THEN f[n - 1] + more ELSE f[i]]
  <1>1. n \in Nat /\ n \in DOMAIN other /\ other[n] \in Token /\ Len(nodes) = n - 1
    OBVIOUS
  <1>2. more \in Nat
    BY <1>1, TextBytes
  <1> HIDE DEF more
  <1>3. /\ f \in [0 .. n - 1 -> Nat]
        /\ \A i \in 1 .. n - 1 : f[i] = f[i - 1] + text_bytes(nodes[i])
        /\ \A i, j \in 0 .. n - 1 : i <= j => f[i] <= f[j]
    BY <1>1 DEF Sums
  <1>4. \A i \in 1 .. n - 1 : text_bytes(other[i]) = text_bytes(nodes[i])
    OBVIOUS
  <1>5. n - 1 \in 0 .. n - 1 /\ f[n - 1] \in Nat
    BY <1>1, <1>3
  <1> HIDE DEF n
  <1>6. /\ g \in [0 .. n -> Nat] /\ g[n] = f[n - 1] + more
        /\ \A i \in 0 .. n - 1 : g[i] = f[i]
    BY <1>1, <1>2, <1>3, <1>5
  <1> HIDE DEF g
  <1>7. ASSUME NEW i \in 1 .. n PROVE g[i] = g[i - 1] + text_bytes(other[i])
    <2>1. CASE i = n
      BY <1>1, <1>5, <1>6, <2>1 DEF more
    <2>2. CASE i # n
      <3>1. i \in 1 .. n - 1 /\ i \in 0 .. n - 1 /\ i - 1 \in 0 .. n - 1
        BY <1>1, <2>2
      <3>2. f[i] = f[i - 1] + text_bytes(nodes[i])
        BY <1>3, <3>1
      <3> QED BY <1>4, <1>6, <3>1, <3>2
    <2> QED BY <2>1, <2>2
  <1>8. ASSUME NEW i \in 0 .. n, NEW j \in 0 .. n, i <= j PROVE g[i] <= g[j]
    <2>1. CASE j # n
      <3>1. i \in 0 .. n - 1 /\ j \in 0 .. n - 1
        BY <1>1, <1>8, <2>1
      <3> QED BY <1>3, <1>6, <1>8, <3>1
    <2>2. CASE i # n /\ j = n
      <3>1. i \in 0 .. n - 1 /\ i <= n - 1
        BY <1>1, <2>2
      <3>2. f[i] <= f[n - 1] /\ f[i] \in Nat
        BY <1>3, <1>5, <3>1
      <3> QED BY <1>2, <1>5, <1>6, <2>2, <3>1, <3>2
    <2>3. CASE i = n /\ j = n
      BY <1>2, <1>5, <1>6, <2>3
    <2> QED BY <2>1, <2>2, <2>3
  <1>9. Sums(other, g) /\ Len(other) = n
    BY <1>1, <1>6, <1>7, <1>8 DEF Sums, n
  <1> QED BY <1>1, <1>6, <1>9 DEF more, n

\* Nothing is known of the arena before a token exists.
LEMMA SumsEmpty ==
  \E f : Sums(<<>>, f) /\ f[0] = 0
  <1> DEFINE f == [i \in 0 .. 0 |-> 0]
  <1>1. Sums(<<>>, f) /\ f[0] = 0
    BY DEF Sums
  <1> QED BY <1>1

-----------------------------------------------------------------------------
(* compact_walk visits every token at most once.                            *)

\* A frame that waits behind the container of a token waits behind the token.
LEMMA BehindSubtree ==
  ASSUME NEW nodes \in Seq(Token), RangeOK(nodes), Preorder(nodes),
         NEW k \in DOMAIN nodes, NEW c \in DOMAIN nodes,
         Inside(nodes, c, nodes[k].links.parent)
  PROVE  k < c /\ Inside(nodes, c, k)
  <1> DEFINE p == nodes[k].links.parent
  <1>1. PICK b \in DOMAIN nodes : p # NONE /\ nodes[b].links.next_sibling = c /\ b <= p /\ p < c
    BY DEF Inside
  <1>2. p \in DOMAIN nodes /\ p < k
    BY <1>1 DEF RangeOK, Preorder, Forward, ForwardAt
  <1>3. c \in Nat /\ c # NONE
    BY NoneAssumption
  <1>4. k \in Nat /\ p \in Nat /\ b \in Nat
    BY <1>2
  <1>5. k < c
    <2>1. SUFFICES ASSUME k >= c PROVE FALSE
      BY <1>3, <1>4
    <2>2. Outside(nodes, b, p)
      BY <1>1, <1>3, <2>1 DEF Preorder
    <2> QED BY <1>1, <1>3, <1>4, <2>2 DEF Outside
  <1>6. k # NONE /\ b <= k
    BY <1>1, <1>2, <1>4, NoneAssumption
  <1> QED BY <1>1, <1>5, <1>6 DEF Inside

\* The frames after compact_walk has handled the entry of the innermost one:
\* the innermost frame moved to `next`, and perhaps a frame for the children.
LEMMA FramesAdvance ==
  ASSUME NEW nodes \in Seq(Token), RangeOK(nodes), Preorder(nodes),
         NEW w \in Seq(Frame), w # <<>>,
         \A i \in DOMAIN w : w[i].child \in DOMAIN nodes \cup {NONE},
         NEW e \in DOMAIN nodes, w[Len(w)].child = e,
         NEW visited \in Nat, Frames(nodes, w, visited),
         NEW next \in DOMAIN nodes \cup {NONE},
         next # NONE => e < next /\ nodes[next].links.parent = nodes[e].links.parent,
         NEW a \in Seq(Frame), Len(a) = Len(w), a[Len(w)].child = next,
         \A i \in DOMAIN w : i # Len(w) => a[i] = w[i]
  PROVE  /\ Frames(nodes, a, visited) /\ visited + 1 <= e
         /\ \A i \in DOMAIN a : a[i].child # NONE =>
              /\ e < a[i].child
              /\ i # Len(w) => Inside(nodes, a[i].child, e)
  <1> DEFINE m == Len(w)
  <1>1. m \in DOMAIN w /\ m \in Nat /\ DOMAIN a = DOMAIN w /\ DOMAIN w = 1 .. m
    OBVIOUS
  <1>2. e \in Nat /\ e # NONE /\ visited < e
    BY <1>1, NoneAssumption DEF Frames
  <1>3. ASSUME NEW i \in DOMAIN w, i # m, w[i].child # NONE
        PROVE  /\ Inside(nodes, w[i].child, nodes[e].links.parent)
               /\ e < w[i].child /\ Inside(nodes, w[i].child, e) /\ a[i].child = w[i].child
    <2>1. i < m /\ w[i].child \in DOMAIN nodes /\ a[i] = w[i]
      BY <1>1, <1>3
    <2>2. Inside(nodes, w[i].child, nodes[e].links.parent)
      BY <1>1, <1>2, <1>3, <2>1 DEF Frames
    <2> QED BY <2>1, <2>2, BehindSubtree
  <1>4. ASSUME NEW i \in DOMAIN a, a[i].child # NONE
        PROVE  e < a[i].child /\ (i # m => Inside(nodes, a[i].child, e))
    <2>1. CASE i = m
      BY <1>4, <2>1
    <2>2. CASE i # m
      <3>1. w[i].child # NONE
        BY <1>1, <1>4, <2>2
      <3> QED BY <1>1, <1>3, <2>2, <3>1
    <2> QED BY <2>1, <2>2
  <1>5. ASSUME NEW i \in DOMAIN a, a[i].child # NONE PROVE visited < a[i].child
    <2>1. a[i].child \in Nat
      <3>1. CASE i = m
        BY <1>5, <3>1
      <3>2. CASE i # m
        BY <1>1, <1>5, <3>2
      <3> QED BY <3>1, <3>2
    <2>2. e < a[i].child
      BY <1>4, <1>5
    <2> QED BY <1>2, <2>1, <2>2
  <1>6. ASSUME NEW i \in DOMAIN a, NEW j \in DOMAIN a, i < j,
               a[i].child # NONE, a[j].child # NONE
        PROVE  Inside(nodes, a[i].child, nodes[a[j].child].links.parent)
    <2>1. i # m /\ a[i] = w[i] /\ i \in DOMAIN w /\ j \in DOMAIN w
      BY <1>1, <1>6
    <2>2. CASE j = m
      BY <1>3, <1>6, <2>1, <2>2
    <2>3. CASE j # m
      <3>1. a[j] = w[j]
        BY <2>1, <2>3
      <3> QED BY <1>6, <2>1, <3>1 DEF Frames
    <2> QED BY <2>2, <2>3
  <1>7. Frames(nodes, a, visited)
    BY <1>5, <1>6 DEF Frames
  <1> QED BY <1>2, <1>4, <1>7

\* A visited token: its children come before everything the outer frames wait for.
LEMMA FramesPush ==
  ASSUME NEW nodes \in Seq(Token), RangeOK(nodes), Preorder(nodes),
         NEW a \in Seq(Frame), a # <<>>, NEW visited \in Nat, Frames(nodes, a, visited),
         \A i \in DOMAIN a : a[i].child \in DOMAIN nodes \cup {NONE},
         NEW e \in DOMAIN nodes, visited + 1 <= e,
         a[Len(a)].child = nodes[e].links.next_sibling,
         \A i \in DOMAIN a : a[i].child # NONE =>
           /\ e < a[i].child
           /\ i # Len(a) => Inside(nodes, a[i].child, e),
         NEW new \in Frame, new.child = nodes[e].links.first_child
  PROVE  /\ Frames(nodes, Append(a, new), visited + 1)
         /\ \A i \in DOMAIN Append(a, new) :
              Append(a, new)[i].child # NONE => e < Append(a, new)[i].child
  <1> DEFINE m == Len(a)
             w == Append(a, new)
  <1>1. /\ m \in Nat /\ m \in DOMAIN a /\ DOMAIN a = 1 .. m /\ DOMAIN w = 1 .. m + 1
        /\ w[m + 1] = new /\ \A i \in DOMAIN a : w[i] = a[i]
    OBVIOUS
  <1> HIDE DEF w
  <1>2. e \in Nat /\ e # NONE
    BY NoneAssumption
  <1>3. new.child \in DOMAIN nodes \cup {NONE}
    BY DEF RangeOK
  <1>4. new.child # NONE => e < new.child /\ nodes[new.child].links.parent = e
    BY DEF Preorder, Forward, ForwardAt
  <1>5. ASSUME NEW i \in DOMAIN w, w[i].child # NONE
        PROVE  e < w[i].child /\ w[i].child \in Nat
    <2>1. CASE i = m + 1
      BY <1>1, <1>3, <1>4, <1>5, <2>1
    <2>2. CASE i \in DOMAIN a
      BY <1>1, <1>5, <2>2
    <2> QED BY <1>1, <2>1, <2>2
  <1>6. ASSUME NEW i \in DOMAIN a, a[i].child # NONE
        PROVE  Inside(nodes, a[i].child, e)
    <2>1. CASE i # m
      BY <1>6, <2>1
    <2>2. CASE i = m
      <3>1. /\ nodes[e].links.next_sibling = a[i].child /\ e < a[i].child /\ e <= e
        BY <1>2, <1>6, <2>2
      <3> QED BY <1>2, <3>1 DEF Inside
    <2> QED BY <2>1, <2>2
  <1>7. ASSUME NEW i \in DOMAIN w, NEW j \in DOMAIN w, i < j,
               w[i].child # NONE, w[j].child # NONE
        PROVE  Inside(nodes, w[i].child, nodes[w[j].child].links.parent)
    <2>1. i \in DOMAIN a /\ w[i] = a[i]
      BY <1>1, <1>7
    <2>2. CASE j = m + 1
      BY <1>1, <1>4, <1>6, <1>7, <2>1, <2>2
    <2>3. CASE j \in DOMAIN a
      BY <1>1, <1>7, <2>1, <2>3 DEF Frames
    <2> QED BY <1>1, <2>2, <2>3
  <1>8. \A i \in DOMAIN w : w[i].child # NONE => visited + 1 < w[i].child
    BY <1>2, <1>5
  <1>9. Frames(nodes, w, visited + 1)
    BY <1>7, <1>8 DEF Frames
  <1> QED BY <1>5, <1>9 DEF w

-----------------------------------------------------------------------------
(* What reading a lexeme does to the document and to the heap.              *)

\* `new` is `old` but for flags that concern neither links nor texts.
Marked(old, new) ==
  /\ DOMAIN new = DOMAIN old
  /\ \A i \in DOMAIN old :
       new[i].links = old[i].links /\ text_bytes(new[i]) = text_bytes(old[i])

Stops ==
  /\ pc' = "finish" /\ result' # "OK"
  /\ UNCHANGED <<heap, peak, slots>>

Passes ==
  /\ pc' \in Scanning \cup {"finish"}
  /\ UNCHANGED <<tokens, arena_used, duplicate_count, heap, peak, slots, result>>
  /\ \/ stack' = stack
     \/ stack # <<>> /\ stack' = SubSeq(stack, 1, Len(stack) - 1)

Adds(t) ==
  /\ pc' \in Scanning
  /\ t.links = links_init(parent) /\ Marked(attach(tokens, t), tokens')
  /\ arena_used' >= arena_used + text_bytes(t)
  /\ stack' = stack \/ stack' = Append(stack, Len(tokens) + 1)
  /\ duplicate_count' = duplicate_count \/ call.profile = "LAST_WINS"
  /\ UNCHANGED <<slots, result>>
  /\ \/ UNCHANGED <<heap, peak>>
     \/ /\ heap' = [heap EXCEPT !["keys"] = slots * WordSize]
        /\ peak' = Upper(peak, Live(heap))

Reads == Stops \/ Passes \/ \E t \in Token : Adds(t)

\* A step that fails leaves the heap to document_parse.
LEMMA FailReads ==
  ASSUME NEW code, NEW position, code # "OK", fail(code, position)
  PROVE  Reads /\ UNCHANGED <<call, bound, walk, packed>>
  BY DEF fail, Reads, Stops, memory_vars, keyset_vars, compact_vars

\* The refusals with the document as it was.
LEMMA FailsReads ==
  ASSUME NEW l, NEW code, NEW position, code # "OK", fails(l, code, position)
  PROVE  Reads /\ UNCHANGED <<call, bound, walk, packed>>
  BY FailReads DEF fails

\* What continue leaves alone.
LEMMA ContinueFacts ==
  ASSUME continue
  PROVE  UNCHANGED <<call, bound, walk, packed, heap, peak, result>>
  BY DEF continue, compact_vars, memory_vars, outcome_vars

\* An array is Marked when it is the same.
LEMMA MarkedSame ==
  ASSUME NEW g PROVE Marked(g, g)
  BY DEF Marked

\* parse_value adds at most one token, whose text is in the arena.
LEMMA ParseValueReads ==
  ASSUME Inv, pc \in {"root", "member", "element", "first_element"},
         NEW l \in Lexemes, Readable(l), parse_value(l)
  PROVE  Reads /\ UNCHANGED <<call, bound, walk, packed>>
  <1>1. pc \in Scanning
    BY DEF Scanning
  <1>2. l.text \in {x.text : x \in Lexemes} \cup {NONE} /\ l.text_size \in Nat
    BY <1>1, ReadFacts DEF Inv
  <1> DEFINE size == l.text_size
  <1>0. size \in Nat /\ arena_used \in Nat
    BY <1>2 DEF Inv, TypeOK
  <1> HIDE DEF size
  <1>a. \A b \in Nat : b <= size + 1 => arena_used + size + 1 >= arena_used + b
    BY <1>0
  <1>3. CASE OpenFails(l) \/ PrimitiveLimit(l) \/ ValueExpected(l)
    BY <1>3, FailsReads DEF OpenFails, PrimitiveLimit, ValueExpected
  <1>4. CASE StringFails(l)
    BY <1>4, FailsReads DEF StringFails
  <1>5. CASE DecodeFails(l, FALSE)
    BY <1>5, FailReads DEF DecodeFails
  <1>6. CASE Open(l)
    <2>1. PICK type \in {"object", "array"} :
            /\ tokens' = attach(tokens, token(type, FALSE, NONE, 0))
            /\ pc' \in {"first_key", "first_element"}
      BY <1>6 DEF Open
    <2> DEFINE t == token(type, FALSE, NONE, 0)
    <2>2. t \in Token /\ t.links = links_init(parent)
      BY <1>1, <2>1, TokenType
    <2>3. text_bytes(t) = 0
      BY DEF text_bytes, token
    <2>4. /\ stack' = Append(stack, Len(tokens) + 1)
          /\ UNCHANGED <<arena_used, duplicate_count, slots>> /\ continue
      BY <1>6 DEF Open, keyset_vars
    <2> HIDE DEF t
    <2>5. Marked(attach(tokens, t), tokens')
      BY <2>1, MarkedSame DEF t
    <2>6. arena_used' >= arena_used + text_bytes(t) /\ pc' \in Scanning
      BY <1>0, <2>1, <2>3, <2>4 DEF Scanning
    <2>7. Adds(t)
      BY <2>2, <2>4, <2>5, <2>6, ContinueFacts DEF Adds
    <2> QED BY <2>2, <2>4, <2>7, ContinueFacts DEF Reads
  <1>7. CASE l.kind = "string" /\ StringValue(l)
    <2> DEFINE t == token("string", FALSE, l.text, l.text_size)
    <2>1. t \in Token /\ t.links = links_init(parent)
      BY <1>1, <1>2, TokenType
    <2>2. text_bytes(t) \in Nat /\ text_bytes(t) <= size + 1
      BY <1>0 DEF text_bytes, token, size
    <2>3. /\ tokens' = attach(tokens, t) /\ arena_used' = arena_used + size + 1
          /\ UNCHANGED <<stack, duplicate_count, slots>> /\ continue
          /\ pc' \in {"end", "delimiter"}
      BY <1>7 DEF StringValue, StringAccepted, arena_claim, keyset_vars, after_value, size
    <2> HIDE DEF t
    <2>4. Marked(attach(tokens, t), tokens')
      BY <2>3, MarkedSame
    <2>5. Adds(t)
      BY <1>a, <2>1, <2>2, <2>3, <2>4, ContinueFacts DEF Adds, Scanning
    <2> QED BY <2>1, <2>3, <2>5, ContinueFacts DEF Reads
  <1>8. CASE Primitive(l)
    <2> DEFINE t == token(l.kind, FALSE, l.text, l.text_size)
    <2>1. t \in Token /\ t.links = links_init(parent)
      <3>1. l.kind \in {"object", "array", "string", "number", "literal"} /\ FALSE \in BOOLEAN
        BY <1>8 DEF Primitive
      <3> QED BY <1>1, <1>2, <3>1, TokenType
    <2>2. /\ text_bytes(t) = IF l.text = NONE THEN 0 ELSE size + 1
          /\ text_bytes(t) \in Nat /\ text_bytes(t) <= size + 1
      BY <1>0 DEF text_bytes, token, size
    <2>3. /\ tokens' = attach(tokens, t)
          /\ UNCHANGED <<stack, duplicate_count, slots>> /\ continue
          /\ pc' \in {"end", "delimiter"}
      BY <1>8 DEF Primitive, keyset_vars, after_value
    <2>4. arena_used' >= arena_used + text_bytes(t)
      <3>1. CASE l.kind = "number"
        <4>1. arena_used' = arena_used + size + 1
          BY <1>8, <3>1 DEF Primitive, arena_claim, size
        <4> HIDE DEF t
        <4> QED BY <1>a, <2>2, <4>1
      <3>2. CASE l.kind = "literal"
        <4>1. arena_used' = arena_used /\ l.text = NONE
          BY <1>8, <3>2, LexemesAssumption DEF Primitive
        <4> HIDE DEF t
        <4> QED BY <1>0, <2>2, <4>1
      <3> QED BY <1>8, <3>1, <3>2 DEF Primitive
    <2> HIDE DEF t
    <2>5. Marked(attach(tokens, t), tokens')
      BY <2>3, MarkedSame
    <2>6. Adds(t)
      BY <2>1, <2>3, <2>4, <2>5, ContinueFacts DEF Adds, Scanning
    <2> QED BY <2>1, <2>3, <2>6, ContinueFacts DEF Reads
  <1> QED BY <1>3, <1>4, <1>5, <1>6, <1>7, <1>8 DEF parse_value

\* parse_key adds one token; the table stays as large as it was.
LEMMA ParseKeyReads ==
  ASSUME Inv, pc \in {"first_key", "key"}, NEW l \in Lexemes, Readable(l), parse_key(l)
  PROVE  Reads /\ UNCHANGED <<call, bound, walk, packed>>
  <1>1. pc \in Scanning
    BY DEF Scanning
  <1>2. l.text \in {x.text : x \in Lexemes} \cup {NONE} /\ l.text_size \in Nat
    BY <1>1, ReadFacts DEF Inv
  <1> DEFINE size == l.text_size
  <1>0. size \in Nat /\ arena_used \in Nat
    BY <1>2 DEF Inv, TypeOK
  <1> HIDE DEF size
  <1>a. \A b \in Nat : b <= size + 1 => arena_used + size + 1 >= arena_used + b
    BY <1>0
  <1>3. pc' = "colon" => slots' = slots
    BY ParseKeyStep
  <1>4. CASE KeyExpected(l) \/ StringFails(l)
    BY <1>4, FailsReads DEF KeyExpected, StringFails
  <1>5. CASE DecodeFails(l, TRUE) \/ DuplicateKey(l)
    BY <1>5, FailReads DEF DecodeFails, DuplicateKey
  <1> DEFINE t == token("string", TRUE, l.text, l.text_size)
             g == attach(tokens, t)
  <1>6. t \in Token /\ t.links = links_init(parent)
    BY <1>1, <1>2, TokenType
  <1>7. text_bytes(t) \in Nat /\ text_bytes(t) <= size + 1
    BY <1>0 DEF text_bytes, token, size
  <1>8. StringAccepted(l) => arena_used' >= arena_used + text_bytes(t)
    <2>1. StringAccepted(l) => arena_used' = arena_used + size + 1
      BY DEF StringAccepted, arena_claim, size
    <2> HIDE DEF t
    <2> QED BY <1>a, <1>7, <2>1
  <1>9. CASE NewKey(l)
    <2>1. /\ tokens' = g /\ StringAccepted(l) /\ pc' = "colon"
          /\ UNCHANGED <<call, stack, duplicate_count, walk, packed, bound, result>>
          /\ slots' = IF grows THEN 2 * slots ELSE slots
          /\ heap' = [heap EXCEPT !["keys"] = slots' * WordSize]
          /\ peak' = Upper(peak, Live(heap) + (IF grows THEN 2 * slots * WordSize ELSE 0))
      BY <1>9 DEF NewKey, compact_vars, outcome_vars
    <2> HIDE DEF t, g
    <2>2. Marked(attach(tokens, t), tokens')
      BY <2>1, MarkedSame DEF g
    <2>3. slots' = slots
      BY <1>3, <2>1
    <2>4. ~grows
      <3>1. slots \in Nat /\ slots >= 1
        <4>1. /\ slots \in Nat /\ expected_keys \in Nat /\ token_capacity \in Nat
              /\ token_capacity < 2 * expected_keys /\ 2 * expected_keys <= slots
          BY <1>1, CapacityFacts DEF Inv, Counting, TypeOK
        <4> QED BY <4>1
      <3> QED BY <2>1, <2>3, <3>1
    <2>5. Live(heap) \in Nat
      BY LiveNat DEF Inv, TypeOK
    <2>6. peak' = Upper(peak, Live(heap)) /\ heap' = [heap EXCEPT !["keys"] = slots * WordSize]
      BY <2>1, <2>3, <2>4, <2>5
    <2>7. Adds(t)
      BY <1>6, <1>8, <2>1, <2>2, <2>3, <2>6 DEF Adds, Scanning
    <2> QED BY <1>6, <2>1, <2>7 DEF Reads
  <1>10. CASE l.kind = "string" /\ RepeatedKey(l)
    <2> DEFINE previous == find_slot(l.text)
    <2>1. /\ tokens' = [i \in DOMAIN g |->
               IF i \in previous THEN [g[i] EXCEPT !.superseded = TRUE] ELSE g[i]]
          /\ StringAccepted(l) /\ pc' = "colon" /\ call.profile = "LAST_WINS"
          /\ UNCHANGED <<stack, slots>> /\ continue
      BY <1>10 DEF RepeatedKey
    <2>2. g \in Seq(Token)
      <3>1. string_outcome(l).code = "OK" /\ Consume(l) /\ l.kind = "string" /\ l.kind # "eof"
        BY <1>10 DEF RepeatedKey, StringAccepted
      <3>2. ~t.superseded
        BY DEF token
      <3> HIDE DEF t
      <3> QED BY <1>1, <1>6, <3>1, <3>2, StringFacts, TokenStep
    <2> HIDE DEF t, g, previous
    <2>3. Marked(g, tokens')
      <3>1. DOMAIN tokens' = DOMAIN g
        BY <2>1
      <3>2. ASSUME NEW i \in DOMAIN g
            PROVE  tokens'[i].links = g[i].links /\ text_bytes(tokens'[i]) = text_bytes(g[i])
        <4>1. g[i] \in Token
          BY <2>2
        <4>2. /\ tokens'[i].links = g[i].links /\ tokens'[i].text = g[i].text
              /\ tokens'[i].text_size = g[i].text_size
          BY <2>1, <4>1 DEF Token
        <4> QED BY <4>2 DEF text_bytes
      <3> QED BY <3>1, <3>2 DEF Marked
    <2>4. Adds(t)
      BY <1>6, <1>8, <2>1, <2>3, ContinueFacts DEF Adds, Scanning, g
    <2> QED BY <1>6, <2>1, <2>4, ContinueFacts DEF Reads
  <1> QED BY <1>4, <1>5, <1>9, <1>10 DEF parse_key

\* A separator, a closing delimiter or the end of the input adds nothing.
LEMMA PassReads ==
  ASSUME Inv, pc \in Scanning, NEW l \in Lexemes,
         \/ pc \in {"first_key", "first_element", "delimiter"} /\ Close(l)
         \/ Colon(l)
         \/ pc = "delimiter" /\ container_delimiter(l)
         \/ TrailingBytes(l)
  PROVE  Reads /\ UNCHANGED <<call, bound, walk, packed>>
  <1>1. CASE fails(l, "SYNTAX", at(l))
    BY <1>1, FailsReads
  <1>2. CASE /\ pc' \in Scanning \cup {"finish"} /\ continue
             /\ UNCHANGED <<document_vars, stack, keyset_vars>>
    BY <1>2, ContinueFacts DEF Reads, Passes, document_vars, keyset_vars
  <1>3. CASE pc \in {"first_key", "first_element", "delimiter"} /\ Close(l)
    <2>1. stack # <<>>
      BY <1>3 DEF Inv, Naming
    <2> QED BY <1>3, <2>1, ContinueFacts
            DEF Close, Reads, Passes, document_vars, keyset_vars, Scanning
  <1> QED BY <1>1, <1>2, <1>3 DEF Colon, container_delimiter, TrailingBytes, Scanning

\* Every lexeme ends the call, passes, or adds one token.
LEMMA ScanReads ==
  ASSUME Inv, NEW l \in Lexemes, Scan(l)
  PROVE  pc \in Scanning /\ Reads /\ UNCHANGED <<call, bound, walk, packed>>
  <1>1. Readable(l) /\ pc \in Scanning
    BY DEF Scan, Scanning
  <1>2. CASE pc \in {"root", "member", "element", "first_element"} /\ parse_value(l)
    BY <1>1, <1>2, ParseValueReads
  <1>3. CASE pc \in {"first_element", "first_key"} /\ Close(l)
    BY <1>1, <1>3, PassReads
  <1>4. CASE pc \in {"first_key", "key"} /\ parse_key(l)
    BY <1>1, <1>4, ParseKeyReads
  <1>5. CASE \/ pc = "colon" /\ Colon(l)
             \/ pc = "delimiter" /\ container_delimiter(l)
             \/ pc = "end" /\ TrailingBytes(l)
    BY <1>1, <1>5, PassReads
  <1> QED BY <1>2, <1>3, <1>4, <1>5 DEF Scan

-----------------------------------------------------------------------------
(* The document while it is built and packed.                               *)

\* The capacities are those of the call.
LEMMA SameCapacities ==
  ASSUME call' = call
  PROVE  /\ token_capacity' = token_capacity /\ arena_capacity' = arena_capacity
         /\ expected_keys' = expected_keys /\ bound_tokens' = bound_tokens
         /\ \A c : allocation_total(c)' = allocation_total(c)
  BY DEF token_capacity, arena_capacity, expected_keys, bound_tokens, allocation_total

\* Before the first lexeme there is nothing to order.
LEMMA EmptyDocument ==
  ASSUME TypeOK', tokens' = <<>>, stack' = <<>>, arena_used' = 0, duplicate_count' = 0,
         packed' = empty_packed, pc' \notin Copying
  PROVE  DocumentInv'
  <1>1. token_capacity' \in Nat /\ token_capacity' >= 1 /\ call'.size \in Nat
    BY LimitsAssumption DEF TypeOK, token_capacity, AtLeastOne, Lower
  <1>2. Ordering'
    BY DEF Ordering, Preorder, Forward, Opened
  <1>3. Texts'
    <2>1. \E f : Sums(<<>>, f) /\ f[0] <= 0
      BY SumsEmpty
    <2>2. Len(tokens') = 0
      OBVIOUS
    <2> QED BY <2>1, <2>2 DEF Texts
  <1>4. Sizes'
    BY <1>1 DEF Sizes
  <1>5. Visiting'
    BY DEF Visiting
  <1> QED BY <1>2, <1>3, <1>4, <1>5 DEF DocumentInv

\* Nothing is required of the document of a call that fails or has returned.
LEMMA AbandonedDocument ==
  ASSUME \/ pc' \in {"failed", "done"}
         \/ pc' = "finish" /\ result' # "OK"
  PROVE  DocumentInv'
  BY DEF DocumentInv, Ordering, Texts, Sizes, Visiting, Building, Early, Scanning, Copying

\* Once the links are no longer walked only the number of tokens matters.
LEMMA LaidOutDocument ==
  ASSUME pc' \in {"children", "layout"}, Len(tokens') <= token_capacity'
  PROVE  DocumentInv'
  BY DEF DocumentInv, Ordering, Texts, Sizes, Visiting, Building, Early, Scanning, Copying

\* What the invariant says while lexemes are read.
LEMMA ScanningDocument ==
  ASSUME Inv, DocumentInv, pc \in Scanning
  PROVE  /\ Preorder(tokens) /\ Opened(tokens, stack)
         /\ \E f : Sums(tokens, f) /\ f[Len(tokens)] <= arena_used
         /\ packed = empty_packed
         /\ duplicate_count > 0 => call.profile = "LAST_WINS"
         /\ tokens \in Seq(Token) /\ stack \in Seq(Nat) /\ RangeOK(tokens)
         /\ \A i \in DOMAIN stack : stack[i] \in DOMAIN tokens
         /\ Len(tokens) <= token_capacity /\ arena_used <= call.size + token_capacity
  <1>1. Building /\ pc \notin Copying
    BY DEF Building, Scanning, Copying
  <1>2. /\ Preorder(tokens) /\ Opened(tokens, stack) /\ packed = empty_packed
        /\ \E f : Sums(tokens, f) /\ f[Len(tokens)] <= arena_used
        /\ duplicate_count > 0 => call.profile = "LAST_WINS"
        /\ Len(tokens) <= token_capacity /\ arena_used <= call.size + token_capacity
    BY <1>1 DEF DocumentInv, Ordering, Texts, Sizes
  <1>3. /\ tokens \in Seq(Token) /\ stack \in Seq(Nat) /\ RangeOK(tokens)
        /\ \A i \in DOMAIN stack : stack[i] \in DOMAIN tokens
    BY DEF Inv, TypeOK, Linking, Naming
  <1> QED BY <1>2, <1>3

\* What Counting makes of the arrays while lexemes are read.
LEMMA ScanningSizes ==
  ASSUME Inv', pc' \in Scanning
  PROVE  Len(tokens') <= token_capacity' /\ arena_used' <= call'.size + token_capacity'
  <1>1. /\ offset' <= call'.size /\ Len(tokens') <= token_capacity'
        /\ arena_used' <= offset' + Len(tokens')
    BY DEF Inv, Counting
  <1>2. /\ offset' \in Nat /\ call'.size \in Nat /\ arena_used' \in Nat /\ Len(tokens') \in Nat
        /\ token_capacity' \in Nat
    BY LimitsAssumption DEF Inv, TypeOK, token_capacity, AtLeastOne, Lower
  <1> QED BY <1>1, <1>2

\* A lexeme is read.
LEMMA ScanDocument ==
  ASSUME Inv, Inv', DocumentInv, NEW l \in Lexemes, Scan(l)
  PROVE  DocumentInv'
  <1>1. pc \in Scanning /\ Reads /\ UNCHANGED <<call, bound, walk, packed>>
    BY ScanReads
  <1>2. /\ Preorder(tokens) /\ Opened(tokens, stack)
        /\ \E f : Sums(tokens, f) /\ f[Len(tokens)] <= arena_used
        /\ packed = empty_packed
        /\ duplicate_count > 0 => call.profile = "LAST_WINS"
        /\ tokens \in Seq(Token) /\ stack \in Seq(Nat) /\ RangeOK(tokens)
        /\ \A i \in DOMAIN stack : stack[i] \in DOMAIN tokens
        /\ Len(tokens) <= token_capacity /\ arena_used <= call.size + token_capacity
    BY <1>1, ScanningDocument
  <1>3. /\ tokens' \in Seq(Token) /\ arena_used \in Nat /\ arena_used' \in Nat
        /\ duplicate_count' \in Nat
    BY DEF Inv, TypeOK
  <1>4. CASE Stops
    BY <1>4, AbandonedDocument DEF Stops
  <1>5. ASSUME pc' \in Scanning \cup {"finish"}, Preorder(tokens'), Opened(tokens', stack'),
               \E f : Sums(tokens', f) /\ f[Len(tokens')] <= arena_used',
               duplicate_count' > 0 => call'.profile = "LAST_WINS",
               Len(tokens') <= token_capacity', arena_used' <= call'.size + token_capacity'
        PROVE  DocumentInv'
    <2>1. pc' \notin Copying \cup Early /\ packed' = empty_packed
      BY <1>1, <1>2, <1>5 DEF Scanning, Copying, Early
    <2> QED BY <1>5, <2>1 DEF DocumentInv, Ordering, Texts, Sizes, Visiting
  <1>6. CASE Passes
    <2>1. pc' \in Scanning \cup {"finish"} /\ UNCHANGED <<tokens, arena_used, duplicate_count>>
      BY <1>6 DEF Passes
    <2>2. Opened(tokens, stack')
      BY <1>2, <1>6, OpenedPop DEF Passes
    <2>3. token_capacity' = token_capacity
      BY <1>1, SameCapacities
    <2> QED BY <1>1, <1>2, <1>5, <2>1, <2>2, <2>3
  <1>7. ASSUME NEW t \in Token, Adds(t) PROVE DocumentInv'
    <2> DEFINE g == attach(tokens, t)
    <2>1. /\ pc' \in Scanning /\ t.links = links_init(parent) /\ Marked(g, tokens')
          /\ arena_used' >= arena_used + text_bytes(t)
          /\ stack' = stack \/ stack' = Append(stack, Len(tokens) + 1)
          /\ duplicate_count' = duplicate_count \/ call.profile = "LAST_WINS"
      BY <1>7 DEF Adds
    <2>2. Preorder(g) /\ Opened(g, stack)
      BY <1>2, <2>1, AttachOrdered DEF parent
    <2>3. parent \in DOMAIN tokens \cup {NONE}
      BY <1>2 DEF parent
    <2>4. g \in Seq(Token) /\ Len(g) = Len(tokens) + 1 /\ RangeOK(g) /\ g[Len(tokens) + 1] = t
      BY <1>2, <2>1, <2>3, AttachOK
    <2>5. \A i \in DOMAIN tokens : text_bytes(g[i]) = text_bytes(tokens[i])
      <3>1. CASE parent = NONE
        <4>1. t.links.parent = NONE
          BY <2>1, <3>1 DEF links_init
        <4> QED BY <1>2, <4>1, AttachRoot
      <3>2. CASE parent \in DOMAIN tokens
        <4>1. \A i \in DOMAIN tokens : Kept(tokens[i], g[i])
          BY <1>2, <2>1, <3>2, AttachChild
        <4> QED BY <4>1 DEF Kept, text_bytes
      <3> QED BY <2>3, <3>1, <3>2
    <2> HIDE DEF g
    <2>6. Opened(g, stack')
      <3>1. CASE stack' = stack
        BY <2>2, <3>1
      <3>2. CASE stack' = Append(stack, Len(tokens) + 1)
        <4>1. \A i \in DOMAIN stack : stack[i] < Len(g)
          BY <1>2, <2>4
        <4> QED BY <1>2, <2>2, <2>4, <3>2, <4>1, OpenedPush
      <3> QED BY <2>1, <3>1, <3>2
    <2>7. /\ DOMAIN tokens' = DOMAIN g
          /\ \A i \in DOMAIN g : /\ tokens'[i].links = g[i].links
                                 /\ text_bytes(tokens'[i]) = text_bytes(g[i])
      BY <2>1 DEF Marked
    <2>8. Preorder(tokens') /\ Opened(tokens', stack')
      BY <2>2, <2>4, <2>6, <2>7, SameLinks
    <2>9. Len(tokens') = Len(tokens) + 1
      BY <1>3, <2>4, <2>7
    <2>10. \E f : Sums(tokens', f) /\ f[Len(tokens')] <= arena_used'
      <3>1. PICK f : Sums(tokens, f) /\ f[Len(tokens)] <= arena_used
        BY <1>2
      <3>2. \A i \in DOMAIN tokens : text_bytes(tokens'[i]) = text_bytes(tokens[i])
        BY <1>2, <2>4, <2>5, <2>7
      <3>3. text_bytes(tokens'[Len(tokens) + 1]) = text_bytes(t)
        BY <1>2, <2>4, <2>7
      <3>4. PICK h : Sums(tokens', h)
                     /\ h[Len(tokens')] = f[Len(tokens)] + text_bytes(tokens'[Len(tokens) + 1])
        BY <1>2, <1>3, <2>9, <3>1, <3>2, SumsAppend
      <3>5. f[Len(tokens)] \in Nat /\ text_bytes(t) \in Nat
        <4>1. f \in [0 .. Len(tokens) -> Nat] /\ Len(tokens) \in 0 .. Len(tokens)
          BY <1>2, <3>1 DEF Sums
        <4>2. text_bytes(t) \in Nat
          BY <1>7, TextBytes
        <4> QED BY <4>1, <4>2
      <3>6. h[Len(tokens')] <= arena_used'
        <4>1. h[Len(tokens')] = f[Len(tokens)] + text_bytes(t)
          BY <3>3, <3>4
        <4>2. \A x, b, a, r \in Nat : x <= a /\ r >= a + b => x + b <= r
          OBVIOUS
        <4> QED BY <1>3, <2>1, <3>1, <3>5, <4>1, <4>2
      <3> QED BY <3>4, <3>6
    <2>11. duplicate_count' > 0 => call'.profile = "LAST_WINS"
      BY <1>1, <1>2, <2>1
    <2>12. Len(tokens') <= token_capacity' /\ arena_used' <= call'.size + token_capacity'
      BY <2>1, ScanningSizes
    <2> QED BY <1>5, <2>1, <2>8, <2>10, <2>11, <2>12
  <1> QED BY <1>1, <1>4, <1>6, <1>7 DEF Reads

\* What the invariant says while compact_walk runs.
LEMMA CopyingDocument ==
  ASSUME Inv, DocumentInv, pc \in Copying
  PROVE  /\ Preorder(tokens) /\ call.profile = "LAST_WINS"
         /\ tokens \in Seq(Token) /\ RangeOK(tokens) /\ SupersededOK(tokens)
         /\ walk \in Seq(Frame)
         /\ \A i \in DOMAIN walk : walk[i].child \in DOMAIN tokens \cup {NONE}
         /\ packed.token_count \in Nat /\ packed.arena_used \in Nat /\ arena_used \in Nat
         /\ packed.token_count <= Len(tokens) /\ Frames(tokens, walk, packed.token_count)
         /\ Len(tokens) <= token_capacity /\ arena_used <= call.size + token_capacity
         /\ \E f : /\ Sums(tokens, f) /\ f[Len(tokens)] <= arena_used
                   /\ packed.arena_used <= f[Len(tokens)]
                   /\ \A i \in DOMAIN walk :
                        walk[i].child # NONE => packed.arena_used <= f[walk[i].child - 1]
  <1>1. Building
    BY DEF Building
  <1>2. /\ tokens \in Seq(Token) /\ RangeOK(tokens) /\ SupersededOK(tokens)
        /\ walk \in Seq(Frame)
        /\ \A i \in DOMAIN walk : walk[i].child \in DOMAIN tokens \cup {NONE}
        /\ packed.token_count \in Nat /\ packed.arena_used \in Nat /\ arena_used \in Nat
    BY DEF Inv, TypeOK, Linking, Walking, Copying
  <1> QED BY <1>1, <1>2 DEF DocumentInv, Ordering, Sizes, Visiting

\* The parts that a step of compact_walk has to re-establish.
LEMMA WalkDocument ==
  ASSUME Inv, DocumentInv, pc \in Copying, pc' \in Copying,
         UNCHANGED <<call, tokens, arena_used, duplicate_count>>, Visiting'
  PROVE  DocumentInv'
  <1>1. /\ Preorder(tokens) /\ call.profile = "LAST_WINS"
        /\ Len(tokens) <= token_capacity /\ arena_used <= call.size + token_capacity
        /\ \E f : Sums(tokens, f) /\ f[Len(tokens)] <= arena_used
    BY CopyingDocument
  <1>2. token_capacity' = token_capacity
    BY SameCapacities
  <1>3. Ordering'
    BY <1>1 DEF Ordering, Copying, Scanning
  <1>4. Texts'
    BY <1>1 DEF Texts
  <1>5. Sizes'
    BY <1>1, <1>2 DEF Sizes, Copying, Early
  <1> QED BY <1>3, <1>4, <1>5 DEF DocumentInv

\* The walk starts at the root with nothing counted.
LEMMA WalkStarts ==
  ASSUME Inv, NEW f, Sums(tokens, f), f[Len(tokens)] <= arena_used, Len(tokens) >= 1,
         tokens' = tokens, arena_used' = arena_used,
         walk' = <<[child |-> 1, parent |-> NONE]>>,
         packed'.token_count = 0, packed'.arena_used = 0
  PROVE  Visiting'
  <1>1. Len(tokens) \in Nat
    BY DEF Inv, TypeOK
  <1>2. DOMAIN walk' = {1} /\ walk'[1].child = 1
    OBVIOUS
  <1>3. f[0] \in Nat /\ f[Len(tokens)] \in Nat
    <2>1. f \in [0 .. Len(tokens) -> Nat]
      BY DEF Sums
    <2> QED BY <1>1, <2>1
  <1>4. Frames(tokens, walk', 0)
    BY <1>2 DEF Frames
  <1>5. \A i \in DOMAIN walk' : walk'[i].child # NONE => 0 <= f[walk'[i].child - 1]
    BY <1>2, <1>3
  <1> QED BY <1>1, <1>3, <1>4, <1>5 DEF Visiting

\* One step of compact_walk.
LEMMA CompactWalkDocument ==
  ASSUME Inv, Inv', DocumentInv, CompactWalk
  PROVE  DocumentInv'
  <1>1. /\ pc \in Copying /\ pc' = pc /\ walk # <<>>
        /\ UNCHANGED <<call, tokens, arena_used, duplicate_count>>
    BY DEF CompactWalk, Copying, document_vars
  <1>2. /\ Preorder(tokens)
        /\ tokens \in Seq(Token) /\ RangeOK(tokens) /\ SupersededOK(tokens)
        /\ walk \in Seq(Frame)
        /\ \A i \in DOMAIN walk : walk[i].child \in DOMAIN tokens \cup {NONE}
        /\ packed.token_count \in Nat /\ packed.arena_used \in Nat /\ arena_used \in Nat
        /\ packed.token_count <= Len(tokens) /\ Frames(tokens, walk, packed.token_count)
    BY <1>1, CopyingDocument
  <1>3. PICK f : /\ Sums(tokens, f) /\ f[Len(tokens)] <= arena_used
                 /\ packed.arena_used <= f[Len(tokens)]
                 /\ \A i \in DOMAIN walk :
                      walk[i].child # NONE => packed.arena_used <= f[walk[i].child - 1]
    BY <1>1, CopyingDocument
  <1>4. /\ Len(tokens) \in Nat /\ f \in [0 .. Len(tokens) -> Nat]
        /\ \A i \in 1 .. Len(tokens) : f[i] = f[i - 1] + text_bytes(tokens[i])
        /\ \A i, j \in 0 .. Len(tokens) : i <= j => f[i] <= f[j]
    BY <1>2, <1>3 DEF Sums
  <1> SUFFICES /\ packed'.token_count <= Len(tokens)
               /\ Frames(tokens, walk', packed'.token_count)
               /\ packed'.arena_used <= f[Len(tokens)]
               /\ \A i \in DOMAIN walk' :
                    walk'[i].child # NONE => packed'.arena_used <= f[walk'[i].child - 1]
    <2>1. ASSUME /\ packed'.token_count <= Len(tokens)
                 /\ Frames(tokens, walk', packed'.token_count)
                 /\ packed'.arena_used <= f[Len(tokens)]
                 /\ \A i \in DOMAIN walk' :
                      walk'[i].child # NONE => packed'.arena_used <= f[walk'[i].child - 1]
          PROVE  Visiting'
      BY <1>1, <1>3, <2>1 DEF Visiting
    <2> QED BY <1>1, <2>1, WalkDocument
  <1>5. CASE WalkReturn
    <2>1. packed' = packed /\ walk' = SubSeq(walk, 1, Len(walk) - 1)
      BY <1>5 DEF WalkReturn
    <2>2. \A i \in DOMAIN walk' : i \in DOMAIN walk /\ walk'[i] = walk[i]
      BY <1>1, <1>2, <2>1, PopSeq
    <2>3. Frames(tokens, walk', packed.token_count)
      BY <1>2, <2>2 DEF Frames
    <2> QED BY <1>2, <1>3, <2>1, <2>2, <2>3
  <1> DEFINE e == frame.child
             next == entry.links.next_sibling
  <1>6. Len(walk) \in DOMAIN walk /\ frame = walk[Len(walk)]
    BY <1>1, <1>2 DEF frame
  <1>7. ASSUME e # NONE
        PROVE  /\ e \in DOMAIN tokens /\ e \in 1 .. Len(tokens) /\ walk[Len(walk)].child = e
               /\ entry = tokens[e] /\ next \in DOMAIN tokens \cup {NONE}
               /\ next # NONE => e < next /\ tokens[next].links.parent = tokens[e].links.parent
               /\ packed.arena_used <= f[e - 1]
    <2>1. e \in DOMAIN tokens /\ walk[Len(walk)].child = e /\ entry = tokens[e]
      BY <1>2, <1>6, <1>7 DEF entry
    <2>2. next \in DOMAIN tokens \cup {NONE}
      BY <1>2, <2>1 DEF RangeOK
    <2>3. next # NONE => e < next /\ tokens[next].links.parent = tokens[e].links.parent
      BY <1>2, <2>1 DEF Preorder, Forward, ForwardAt
    <2>4. packed.arena_used <= f[e - 1]
      BY <1>3, <1>6, <1>7, <2>1
    <2> QED BY <1>2, <2>1, <2>2, <2>3, <2>4
  <1> HIDE DEF e, next
  <1>8. ASSUME e # NONE, NEW to \in DOMAIN tokens \cup {NONE},
               to # NONE => e < to /\ tokens[to].links.parent = tokens[e].links.parent
        PROVE  /\ advance(to) \in Seq(Frame) /\ Len(advance(to)) = Len(walk)
               /\ advance(to)[Len(walk)].child = to
               /\ \A i \in DOMAIN advance(to) :
                    advance(to)[i].child \in DOMAIN tokens \cup {NONE}
               /\ Frames(tokens, advance(to), packed.token_count)
               /\ packed.token_count + 1 <= e
               /\ \A i \in DOMAIN advance(to) : advance(to)[i].child # NONE =>
                    /\ e < advance(to)[i].child
                    /\ i # Len(walk) => Inside(tokens, advance(to)[i].child, e)
    <2>1. to \in Nat \cup {NONE}
      BY <1>2
    <2>2. /\ advance(to) \in Seq(Frame) /\ Len(advance(to)) = Len(walk)
          /\ advance(to)[Len(walk)].child = to
          /\ \A i \in DOMAIN walk : i # Len(walk) => advance(to)[i] = walk[i]
      BY <1>1, <1>2, <2>1, FrameFacts DEF advance
    <2> DEFINE a == advance(to)
    <2> HIDE DEF a
    <2>3. /\ a \in Seq(Frame) /\ Len(a) = Len(walk) /\ a[Len(walk)].child = to
          /\ \A i \in DOMAIN walk : i # Len(walk) => a[i] = walk[i]
      BY <2>2 DEF a
    <2>4. \A i \in DOMAIN a : a[i].child \in DOMAIN tokens \cup {NONE}
      <3>1. DOMAIN a = DOMAIN walk
        BY <1>2, <2>3
      <3> QED BY <1>2, <2>3, <3>1
    <2>5. /\ Frames(tokens, a, packed.token_count) /\ packed.token_count + 1 <= e
          /\ \A i \in DOMAIN a : a[i].child # NONE =>
               /\ e < a[i].child
               /\ i # Len(walk) => Inside(tokens, a[i].child, e)
      BY <1>1, <1>2, <1>7, <1>8, <2>3, FramesAdvance
    <2> QED BY <2>3, <2>4, <2>5 DEF a
  <1>9. CASE e # NONE /\ Dropped /\ WalkSkip
    <2> DEFINE to == tokens[next].links.next_sibling
               a == advance(to)
    <2>1. packed' = packed /\ walk' = a
      BY <1>9 DEF WalkSkip, next
    <2>2. next \in DOMAIN tokens
      BY <1>2, <1>7, <1>9 DEF SupersededOK, Dropped, next
    <2>3. /\ to \in DOMAIN tokens \cup {NONE}
          /\ to # NONE => next < to /\ tokens[to].links.parent = tokens[next].links.parent
      BY <1>2, <2>2 DEF RangeOK, Preorder, Forward, ForwardAt
    <2> HIDE DEF to
    <2>4. next # NONE /\ e \in Nat /\ next \in Nat
      BY <1>2, <1>7, <1>9, <2>2, NoneAssumption
    <2>5. to # NONE => e < to /\ tokens[to].links.parent = tokens[e].links.parent
      <3>1. e < next /\ tokens[next].links.parent = tokens[e].links.parent
        BY <1>7, <1>9, <2>4
      <3> QED BY <1>2, <2>3, <2>4, <3>1
    <2> HIDE DEF a
    <2>6. /\ Frames(tokens, a, packed.token_count)
          /\ \A i \in DOMAIN a : a[i].child \in DOMAIN tokens \cup {NONE}
          /\ \A i \in DOMAIN a : a[i].child # NONE => e < a[i].child
      BY <1>8, <1>9, <2>3, <2>5 DEF a
    <2>7. ASSUME NEW i \in DOMAIN a, a[i].child # NONE
          PROVE  packed.arena_used <= f[a[i].child - 1]
      <3> DEFINE c == a[i].child
      <3>1. c \in DOMAIN tokens /\ e < c
        BY <2>6, <2>7
      <3> HIDE DEF c
      <3>2. c - 1 \in 0 .. Len(tokens) /\ e - 1 \in 0 .. Len(tokens) /\ e - 1 <= c - 1
        BY <1>2, <1>4, <1>7, <1>9, <3>1
      <3>3. f[e - 1] <= f[c - 1] /\ f[e - 1] \in Nat /\ f[c - 1] \in Nat
        BY <1>4, <3>2
      <3> QED BY <1>2, <1>7, <1>9, <3>3 DEF c
    <2> QED BY <1>2, <1>3, <2>1, <2>6, <2>7
  <1>10. CASE e # NONE /\ WalkVisit
    <2> DEFINE a == advance(next)
               fresh == packed.token_count + 1
               new == [child |-> entry.links.first_child, parent |-> fresh]
    <2>1. /\ walk' = Append(a, new) /\ packed'.token_count = fresh
          /\ packed'.arena_used = packed.arena_used + text_bytes(entry)
      <3>1. packed \in [tokens : Seq(Token), token_count : Nat, arena_used : Nat,
                 token_capacity : Nat \cup {NONE}, arena_capacity : Nat \cup {NONE}]
        BY DEF Inv, TypeOK
      <3> QED BY <1>10, <3>1 DEF WalkVisit, next
    <2>2. new \in Frame /\ new.child = tokens[e].links.first_child
      <3>1. entry.links.first_child \in DOMAIN tokens \cup {NONE} /\ entry = tokens[e]
        BY <1>2, <1>7, <1>10 DEF RangeOK
      <3>2. entry.links.first_child \in Nat \cup {NONE} /\ fresh \in Nat
        BY <1>2, <3>1
      <3> QED BY <3>1, <3>2 DEF Frame
    <2>3. next = tokens[e].links.next_sibling
      BY <1>7, <1>10 DEF next
    <2> HIDE DEF a, new
    <2>4. /\ a \in Seq(Frame) /\ Len(a) = Len(walk) /\ a[Len(walk)].child = next
          /\ \A i \in DOMAIN a : a[i].child \in DOMAIN tokens \cup {NONE}
          /\ Frames(tokens, a, packed.token_count) /\ packed.token_count + 1 <= e
          /\ \A i \in DOMAIN a : a[i].child # NONE =>
               /\ e < a[i].child
               /\ i # Len(walk) => Inside(tokens, a[i].child, e)
      BY <1>7, <1>8, <1>10 DEF a
    <2>5. a # <<>>
      BY <1>1, <1>2, <2>4
    <2>6. /\ Frames(tokens, walk', fresh)
          /\ \A i \in DOMAIN walk' : walk'[i].child # NONE => e < walk'[i].child
      <3>1. /\ Frames(tokens, Append(a, new), packed.token_count + 1)
            /\ \A i \in DOMAIN Append(a, new) :
                 Append(a, new)[i].child # NONE => e < Append(a, new)[i].child
        BY <1>2, <1>7, <1>10, <2>2, <2>3, <2>4, <2>5, FramesPush
      <3> QED BY <2>1, <3>1
    <2>7. e \in 1 .. Len(tokens) /\ e - 1 \in 0 .. Len(tokens) /\ e \in 0 .. Len(tokens)
      BY <1>4, <1>7, <1>10
    <2>8. packed'.arena_used <= f[e] /\ packed'.arena_used \in Nat /\ f[e] \in Nat
      <3>1. f[e] = f[e - 1] + text_bytes(tokens[e]) /\ f[e - 1] \in Nat /\ f[e] \in Nat
        BY <1>4, <2>7
      <3>2. text_bytes(tokens[e]) \in Nat /\ entry = tokens[e]
        BY <1>2, <1>7, <1>10, TextBytes
      <3>3. packed.arena_used <= f[e - 1]
        BY <1>7, <1>10
      <3> QED BY <1>2, <2>1, <3>1, <3>2, <3>3
    <2>9. packed'.arena_used <= f[Len(tokens)]
      <3>1. Len(tokens) \in 0 .. Len(tokens) /\ e <= Len(tokens)
        BY <1>4, <2>7
      <3>2. f[e] <= f[Len(tokens)] /\ f[Len(tokens)] \in Nat
        BY <1>4, <2>7, <3>1
      <3> QED BY <2>8, <3>2
    <2>10. \A i \in DOMAIN walk' : walk'[i].child \in DOMAIN tokens \cup {NONE}
      BY <1>1 DEF Inv, Walking, Copying
    <2>11. ASSUME NEW i \in DOMAIN walk', walk'[i].child # NONE
           PROVE  packed'.arena_used <= f[walk'[i].child - 1]
      <3> DEFINE c == walk'[i].child
      <3>1. c \in DOMAIN tokens /\ e < c
        BY <2>6, <2>10, <2>11
      <3> HIDE DEF c
      <3>2. c - 1 \in 0 .. Len(tokens) /\ e <= c - 1
        BY <1>2, <1>4, <2>7, <3>1
      <3>3. f[e] <= f[c - 1] /\ f[c - 1] \in Nat
        BY <1>4, <2>7, <3>2
      <3> QED BY <2>8, <3>3 DEF c
    <2>12. packed'.token_count <= Len(tokens)
      BY <1>2, <1>4, <2>1, <2>4, <2>7
    <2> QED BY <2>1, <2>6, <2>9, <2>11, <2>12
  <1> QED BY <1>5, <1>9, <1>10 DEF CompactWalk, e

\* The steps before the first lexeme do not touch the document.
LEMMA PreparationDocument ==
  ASSUME Inv, Inv', DocumentInv, pc \in Early,
         \/ pc' \in Early \cup {"root", "done"}
         \/ pc' = "finish" /\ result' # "OK",
         UNCHANGED <<document_vars, stack, compact_vars>>
  PROVE  DocumentInv'
  <1>1. CASE pc' = "done" \/ (pc' = "finish" /\ result' # "OK")
    BY <1>1, AbandonedDocument
  <1>2. CASE pc' \in Early \cup {"root"}
    <2>1. tokens = <<>> /\ stack = <<>> /\ arena_used = 0
      BY DEF Inv, Fresh
    <2>2. duplicate_count = 0 /\ packed = empty_packed
      BY DEF DocumentInv, Sizes, Building, Early, Copying
    <2>3. pc' \notin Copying
      BY <1>2 DEF Early, Copying
    <2>4. TypeOK'
      BY DEF Inv
    <2> QED BY <2>1, <2>2, <2>3, <2>4, EmptyDocument DEF document_vars, compact_vars
  <1> QED BY <1>1, <1>2

\* The key set is released, and the walk starts if a key was repeated.
LEMMA FinishDocument ==
  ASSUME Inv, Inv', DocumentInv, Finish
  PROVE  DocumentInv'
  <1>1. /\ pc = "finish" /\ UNCHANGED <<call, tokens, arena_used, duplicate_count, packed, result>>
        /\ walk' = <<[child |-> 1, parent |-> NONE]>>
        /\ pc' = IF result # "OK" THEN "failed"
                 ELSE IF duplicate_count > 0 THEN "measure" ELSE "children"
    BY DEF Finish, document_vars, outcome_vars
  <1>2. CASE result # "OK"
    BY <1>1, <1>2, AbandonedDocument
  <1>3. CASE result = "OK"
    <2>1. Building /\ pc \notin Copying \cup Early
      BY <1>1, <1>3 DEF Building, Copying, Early
    <2>2. /\ Preorder(tokens) /\ packed = empty_packed
          /\ \E f : Sums(tokens, f) /\ f[Len(tokens)] <= arena_used
          /\ duplicate_count > 0 => call.profile = "LAST_WINS"
          /\ Len(tokens) <= token_capacity /\ arena_used <= call.size + token_capacity
      BY <2>1 DEF DocumentInv, Ordering, Texts, Sizes
    <2>3. token_capacity' = token_capacity
      BY <1>1, SameCapacities
    <2>4. CASE duplicate_count > 0
      <3>1. pc' = "measure"
        BY <1>1, <1>3, <2>4
      <3>2. Len(tokens) >= 1
        BY <1>1, <1>3 DEF Inv, Outcome
      <3>3. packed'.token_count = 0 /\ packed'.arena_used = 0
        BY <1>1, <2>2 DEF empty_packed
      <3>4. Visiting'
        BY <1>1, <2>2, <3>2, <3>3, WalkStarts
      <3>5. Ordering' /\ Texts'
        BY <1>1, <2>2, <3>1 DEF Ordering, Texts, Scanning
      <3>6. Sizes'
        BY <1>1, <2>2, <2>3, <2>4, <3>1 DEF Sizes, Copying, Early
      <3> QED BY <3>4, <3>5, <3>6 DEF DocumentInv
    <2>5. CASE ~(duplicate_count > 0)
      BY <1>1, <1>3, <2>2, <2>3, <2>5, LaidOutDocument
    <2> QED BY <2>4, <2>5
  <1> QED BY <1>2, <1>3

\* The second walk starts when the packed arrays exist.
LEMMA CompactAllocateDocument ==
  ASSUME Inv, Inv', DocumentInv, CompactAllocate
  PROVE  DocumentInv'
  <1>1. CASE pc' = "failed"
    BY <1>1, AbandonedDocument
  <1>2. CASE pc' # "failed"
    <2>1. /\ pc = "measure" /\ pc' = "copy"
          /\ walk' = <<[child |-> 1, parent |-> NONE]>>
          /\ packed' = [packed EXCEPT !.token_capacity = packed.token_count,
                                      !.arena_capacity = AtLeastOne(packed.arena_used),
                                      !.token_count = 0, !.arena_used = 0]
          /\ UNCHANGED <<call, tokens, arena_used, duplicate_count>>
      BY <1>2 DEF CompactAllocate, document_vars
    <2>2. packed'.token_count = 0 /\ packed'.arena_used = 0
      <3>1. packed \in [tokens : Seq(Token), token_count : Nat, arena_used : Nat,
                 token_capacity : Nat \cup {NONE}, arena_capacity : Nat \cup {NONE}]
        BY DEF Inv, TypeOK
      <3> QED BY <2>1, <3>1
    <2>3. pc \in Copying /\ pc' \in Copying
      BY <2>1 DEF Copying
    <2>4. \E f : Sums(tokens, f) /\ f[Len(tokens)] <= arena_used
      BY <2>3, CopyingDocument
    <2>5. Len(tokens) >= 1
      BY <2>1 DEF Inv, Outcome, Late
    <2>6. Visiting'
      BY <2>1, <2>2, <2>4, <2>5, WalkStarts
    <2> QED BY <2>1, <2>3, <2>6, WalkDocument
  <1> QED BY <1>1, <1>2

\* The packed document has no more tokens than the one it replaces.
LEMMA CompactSwapDocument ==
  ASSUME Inv, Inv', DocumentInv, CompactSwap
  PROVE  DocumentInv'
  <1>1. pc = "copy" /\ pc' = "children" /\ tokens' = packed.tokens /\ call' = call
    BY DEF CompactSwap
  <1>2. packed.token_count = Len(packed.tokens)
    BY <1>1 DEF Inv, Walking
  <1>3. packed.token_count <= Len(tokens) /\ Len(tokens) <= token_capacity
        /\ packed.token_count \in Nat /\ tokens \in Seq(Token)
    BY <1>1, CopyingDocument DEF Copying
  <1>4. token_capacity' = token_capacity /\ token_capacity \in Nat
    BY <1>1, SameCapacities, CapacityFacts DEF Inv
  <1>5. Len(tokens') <= token_capacity'
    BY <1>1, <1>2, <1>3, <1>4
  <1> QED BY <1>1, <1>5, LaidOutDocument

\* build_children adds no token.
LEMMA ChildrenDocument ==
  ASSUME Inv, Inv', DocumentInv, ChildrenAllocate \/ BuildChildren
  PROVE  DocumentInv'
  <1>1. pc \in {"children", "layout"} /\ call' = call /\ pc' \in {"layout", "failed", "done"}
    BY DEF ChildrenAllocate, BuildChildren, LayoutChild, LayoutContainer, Publish
  <1>2. Len(tokens) <= token_capacity /\ token_capacity' = token_capacity
    BY <1>1, SameCapacities DEF DocumentInv, Sizes
  <1>3. Len(tokens') = Len(tokens)
    <2>1. CASE tokens' = tokens
      BY <2>1
    <2>2. CASE tokens' # tokens
      <3>1. tokens' = [tokens EXCEPT ![frame.parent + 1].children_offset = Len(children)]
        BY <2>2 DEF ChildrenAllocate, BuildChildren, LayoutChild, LayoutContainer, Publish,
                    document_vars
      <3>2. tokens \in Seq(Token) /\ tokens' \in Seq(Token) /\ DOMAIN tokens' = DOMAIN tokens
        BY <3>1 DEF Inv, TypeOK
      <3> QED BY <3>2
    <2> QED BY <2>1, <2>2
  <1>4. CASE pc' \in {"failed", "done"}
    BY <1>4, AbandonedDocument
  <1>5. CASE pc' = "layout"
    BY <1>2, <1>3, <1>5, LaidOutDocument
  <1> QED BY <1>1, <1>4, <1>5

\* Every step keeps the order, the texts and the sizes.
LEMMA DocumentStep ==
  ASSUME Inv, Inv', DocumentInv, [Next]_vars
  PROVE  DocumentInv'
  <1>1. CASE UNCHANGED vars
    <2>1. UNCHANGED <<pc, call, tokens, arena_used, duplicate_count, stack, walk, packed, result>>
      BY <1>1 DEF vars, document_vars, compact_vars, outcome_vars
    <2>2. token_capacity' = token_capacity
      BY <2>1, SameCapacities
    <2> QED BY <2>1, <2>2 DEF DocumentInv, Ordering, Texts, Sizes, Visiting, Building
  <1>2. CASE Call
    <2>1. /\ pc \in Early /\ pc' \in Early \cup {"root", "done"}
          /\ UNCHANGED <<document_vars, stack, compact_vars>>
      BY <1>2 DEF Call, refuse, Early
    <2> QED BY <2>1, PreparationDocument
  <1>3. CASE DoubleCapacity
    <2>1. /\ pc \in Early /\ pc' \in Early \cup {"root", "done"}
          /\ UNCHANGED <<document_vars, stack, compact_vars>>
      BY <1>3 DEF DoubleCapacity, Early, continue
    <2> QED BY <2>1, PreparationDocument
  <1>4. CASE AllocationBound
    <2>1. /\ pc \in Early /\ pc' \in Early \cup {"root", "done"}
          /\ UNCHANGED <<document_vars, stack, compact_vars>>
      BY <1>4 DEF AllocationBound, refuse, Early
    <2> QED BY <2>1, PreparationDocument
  <1>5. CASE AllocateDocument
    <2>1. /\ pc \in Early /\ pc' \in Early \cup {"root", "done"}
          /\ UNCHANGED <<document_vars, stack, compact_vars>>
      BY <1>5 DEF AllocateDocument, refuse, Early
    <2> QED BY <2>1, PreparationDocument
  <1>6. CASE KeysetInit
    <2>1. /\ pc \in Early /\ (pc' = "root" \/ (pc' = "finish" /\ result' # "OK"))
          /\ UNCHANGED <<document_vars, stack, compact_vars>>
      BY <1>6 DEF KeysetInit, Early
    <2> QED BY <2>1, PreparationDocument
  <1>7. CASE \E l \in Lexemes : Scan(l)
    BY <1>7, ScanDocument
  <1>8. CASE Finish
    BY <1>8, FinishDocument
  <1>9. CASE CompactWalk
    BY <1>9, CompactWalkDocument
  <1>10. CASE CompactAllocate
    BY <1>10, CompactAllocateDocument
  <1>11. CASE CompactSwap
    BY <1>11, CompactSwapDocument
  <1>12. CASE ChildrenAllocate \/ BuildChildren
    BY <1>12, ChildrenDocument
  <1>13. CASE ReturnFailure
    BY <1>13, AbandonedDocument DEF ReturnFailure
  <1>14. CASE Release
    <2>1. TypeOK'
      BY DEF Inv
    <2> QED BY <1>14, <2>1, EmptyDocument DEF Release, Copying
  <1> QED BY <1>1, <1>2, <1>3, <1>4, <1>5, <1>6, <1>7, <1>8, <1>9, <1>10, <1>11, <1>12,
             <1>13, <1>14 DEF Next, Step

-----------------------------------------------------------------------------
(* The heap.                                                                *)

\* More elements of the same size take more bytes.
LEMMA Product ==
  ASSUME NEW a \in Nat, NEW b \in Nat, NEW k \in Nat, a <= b
  PROVE  a * k \in Nat /\ b * k \in Nat /\ a * k <= b * k
  <1>1. PICK d \in Nat : b = a + d
    <2>1. b - a \in Nat /\ b = a + (b - a)
      OBVIOUS
    <2> QED BY <2>1
  <1>2. b * k = a * k + d * k /\ a * k \in Nat /\ d * k \in Nat
    BY <1>1
  <1> QED BY <1>2

\* Blocks of at most the sizes the allocation bound adds up, for a table of c slots.
Fits(h, c) ==
  /\ h["document"] <= DocumentSize /\ h["bytes"] <= call.size + 1
  /\ h["tokens"] <= token_capacity * TokenSize /\ h["arena"] <= arena_capacity
  /\ h["keys"] <= c * WordSize /\ h["children"] <= token_capacity * WordSize
  /\ \/ h["packed_tokens"] = 0 /\ h["packed_arena"] = 0
     \/ /\ call.profile = "LAST_WINS"
        /\ h["packed_tokens"] <= token_capacity * TokenSize
        /\ h["packed_arena"] <= arena_capacity

\* What fits is within the bound.
LEMMA FitsWithinBound ==
  ASSUME TypeOK, NEW h \in [Blocks -> Nat], NEW c \in Nat, Fits(h, c)
  PROVE  Live(h) \in Nat /\ Live(h) <= allocation_total(c)
  <1> DEFINE T == token_capacity * TokenSize
             A == call.size + token_capacity + 1
             K == c * WordSize
             W == token_capacity * WordSize
             D == DocumentSize
             B == call.size + 1
  <1>1. /\ T \in Nat /\ A \in Nat /\ K \in Nat /\ W \in Nat /\ D \in Nat /\ B \in Nat
        /\ arena_capacity = A
    <2>1. /\ token_capacity \in Nat /\ TokenSize \in Nat /\ WordSize \in Nat
          /\ DocumentSize \in Nat /\ call.size \in Nat
          /\ arena_capacity = call.size + token_capacity + 1
      BY CapacityFacts, LayoutAssumption DEF TypeOK
    <2>2. \A x, y \in Nat : x * y \in Nat
      OBVIOUS
    <2> QED BY <2>1, <2>2
  <1>2. bound_tokens = token_capacity
    BY DEF bound_tokens, token_capacity
  <1>3. allocation_total(c) = D + B + (IF call.profile = "LAST_WINS" THEN 2 ELSE 1) * T
          + (IF call.profile = "LAST_WINS" THEN 2 ELSE 1) * A + K + W
    BY <1>2 DEF allocation_total
  <1>4. /\ h["document"] \in Nat /\ h["bytes"] \in Nat /\ h["tokens"] \in Nat
        /\ h["arena"] \in Nat /\ h["keys"] \in Nat /\ h["packed_tokens"] \in Nat
        /\ h["packed_arena"] \in Nat /\ h["children"] \in Nat
    BY DEF Blocks
  <1>5. /\ h["document"] <= D /\ h["bytes"] <= B /\ h["tokens"] <= T /\ h["arena"] <= A
        /\ h["keys"] <= K /\ h["children"] <= W
        /\ \/ h["packed_tokens"] = 0 /\ h["packed_arena"] = 0
           \/ call.profile = "LAST_WINS" /\ h["packed_tokens"] <= T /\ h["packed_arena"] <= A
    BY <1>1 DEF Fits
  <1> HIDE DEF T, A, K, W, D, B
  <1>6. CASE call.profile = "LAST_WINS"
    <2>1. allocation_total(c) = D + B + 2 * T + 2 * A + K + W
      BY <1>3, <1>6
    <2> QED BY <1>1, <1>4, <1>5, <2>1 DEF Live
  <1>7. CASE call.profile # "LAST_WINS"
    <2>1. allocation_total(c) = D + B + T + A + K + W
      BY <1>1, <1>3, <1>7
    <2> QED BY <1>1, <1>4, <1>5, <1>7, <2>1 DEF Live
  <1> QED BY <1>6, <1>7

\* The high-water mark after an allocation that fits.
LEMMA PeakWithinBound ==
  ASSUME Inv, peak <= bound, NEW c \in Nat, bound = allocation_total(c),
         NEW h \in [Blocks -> Nat], Fits(h, c)
  PROVE  Upper(peak, Live(h)) <= bound
  <1>1. Live(h) \in Nat /\ Live(h) <= bound
    BY FitsWithinBound DEF Inv
  <1> QED BY <1>1 DEF Upper

\* Nothing is held.
LEMMA EmptyHeap ==
  ASSUME TypeOK', heap' = empty_heap
  PROVE  Held' /\ \A b \in Blocks : heap'[b] = 0
  <1>1. \A b \in Blocks : heap'[b] = 0
    BY DEF empty_heap
  <1>2. /\ heap'["document"] = 0 /\ heap'["bytes"] = 0 /\ heap'["tokens"] = 0
        /\ heap'["arena"] = 0 /\ heap'["keys"] = 0 /\ heap'["packed_tokens"] = 0
        /\ heap'["packed_arena"] = 0 /\ heap'["children"] = 0
    BY <1>1 DEF Blocks
  <1>3. token_capacity' \in Nat /\ call'.size \in Nat
    BY LimitsAssumption DEF TypeOK, token_capacity, AtLeastOne, Lower
  <1>4. arena_capacity' \in Nat
    BY <1>3 DEF arena_capacity
  <1>5. token_capacity' * TokenSize \in Nat /\ DocumentSize \in Nat
    <2>1. \A x, y \in Nat : x * y \in Nat
      OBVIOUS
    <2> QED BY <1>3, <2>1, LayoutAssumption
  <1>6. Held'
    <2> DEFINE T == token_capacity' * TokenSize
    <2> HIDE DEF T
    <2>1. /\ heap'["document"] <= DocumentSize /\ heap'["bytes"] <= call'.size + 1
          /\ heap'["tokens"] <= T /\ heap'["arena"] <= arena_capacity'
          /\ heap'["packed_tokens"] <= T /\ heap'["packed_arena"] <= arena_capacity'
      BY <1>2, <1>3, <1>4, <1>5 DEF T
    <2> QED BY <1>2, <2>1 DEF Held, T
  <1> QED BY <1>1, <1>6

\* What document_release leaves when only the document is held.
LEMMA ReleasedHeap ==
  ASSUME NEW h \in [Blocks -> Nat], h["keys"] = 0, h["packed_tokens"] = 0,
         h["packed_arena"] = 0
  PROVE  document_release(h) = empty_heap
  BY DEF document_release, empty_heap, document_blocks, Blocks

\* The table for which the bound was computed, once it has been computed.
LEMMA BoundFacts ==
  ASSUME Inv, MemoryInv, pc \notin {"idle", "bound", "done"}
  PROVE  \E c \in Doublings :
           /\ c \in Nat /\ bound = allocation_total(c) /\ 2 * expected_keys <= c
           /\ slots <= c /\ heap["keys"] <= c * WordSize
  BY DoublingsClosed DEF MemoryInv, Bounded

\* Steps that neither allocate nor release.
LEMMA MemoryKept ==
  ASSUME Inv, Inv', MemoryInv, UNCHANGED <<call, bound, heap, peak>>,
         slots' = slots \/ slots' = 0,
         pc \notin {"idle", "bound", "allocate", "done"},
         pc' \notin {"idle", "bound", "allocate", "reserve"},
         pc' = "done" => result' = "OK",
         pc' \notin Scanning \cup {"finish"} => pc \notin Scanning \cup {"finish"},
         pc' = "copy" <=> pc = "copy",
         pc' \notin {"layout", "done"} => pc \notin {"layout", "done"}
  PROVE  MemoryInv'
  <1>1. PICK c \in Doublings :
          /\ c \in Nat /\ bound = allocation_total(c) /\ 2 * expected_keys <= c
          /\ slots <= c /\ heap["keys"] <= c * WordSize
    BY BoundFacts
  <1>2. /\ token_capacity' = token_capacity /\ arena_capacity' = arena_capacity
        /\ expected_keys' = expected_keys /\ allocation_total(c)' = allocation_total(c)
    BY SameCapacities
  <1>3. Held'
    BY <1>2 DEF MemoryInv, Held
  <1>4. Bounded'
    BY <1>1, <1>2 DEF MemoryInv, Bounded
  <1> QED BY <1>3, <1>4 DEF MemoryInv

\* A call is checked, or refused before anything is held.
LEMMA CallMemory ==
  ASSUME Inv, Inv', MemoryInv, Call
  PROVE  MemoryInv'
  <1>1. /\ pc = "idle" /\ UNCHANGED <<bound, heap, peak>>
        /\ \/ pc' = "done"
           \/ pc' = "bound" /\ slots' = MinimumCapacity
    BY DEF Call, refuse, memory_vars
  <1>2. heap' = empty_heap /\ peak' = 0 /\ bound' \in Nat
    BY <1>1 DEF MemoryInv, Held, Bounded, Inv, TypeOK
  <1>3. Held'
    BY <1>2, EmptyHeap DEF Inv
  <1>4. Bounded'
    BY <1>1, <1>2, DoublingsClosed DEF Bounded
  <1> QED BY <1>3, <1>4 DEF MemoryInv

\* One round of keyset_capacity: the table reserved never overtakes the one the
\* bound was computed for.
LEMMA DoubleCapacityMemory ==
  ASSUME Inv, Inv', MemoryInv, DoubleCapacity
  PROVE  MemoryInv'
  <1>1. /\ pc' = pc /\ slots' = 2 * slots /\ UNCHANGED <<call, bound, heap, peak, result>>
        /\ \/ pc = "bound"
           \/ pc = "reserve" /\ slots < expected_keys * 2
    BY DEF DoubleCapacity, continue, memory_vars, outcome_vars
  <1>2. slots \in Doublings /\ slots' \in Doublings
    BY <1>1, DoublingsClosed DEF MemoryInv, Bounded
  <1>3. /\ token_capacity' = token_capacity /\ arena_capacity' = arena_capacity
        /\ expected_keys' = expected_keys /\ \A c : allocation_total(c)' = allocation_total(c)
    BY <1>1, SameCapacities
  <1>4. Held'
    BY <1>1, <1>3 DEF MemoryInv, Held
  <1>5. CASE pc = "bound"
    BY <1>1, <1>2, <1>4, <1>5 DEF MemoryInv, Bounded
  <1>6. CASE pc = "reserve" /\ slots < expected_keys * 2
    <2>1. PICK c \in Doublings :
            /\ c \in Nat /\ bound = allocation_total(c) /\ 2 * expected_keys <= c
            /\ slots <= c /\ heap["keys"] <= c * WordSize
      BY <1>6, BoundFacts
    <2>2. slots < c
      <3>1. slots \in Nat /\ expected_keys \in Nat
        BY CapacityFacts DEF Inv, TypeOK
      <3> QED BY <1>6, <2>1, <3>1
    <2>3. slots' <= c
      BY <1>1, <1>2, <2>1, <2>2, DoublingGap
    <2> QED BY <1>1, <1>2, <1>3, <1>4, <1>6, <2>1, <2>3 DEF MemoryInv, Bounded
  <1> QED BY <1>1, <1>5, <1>6

\* The bound is the sum for the table that keyset_capacity has just sized.
LEMMA AllocationBoundMemory ==
  ASSUME Inv, Inv', MemoryInv, AllocationBound
  PROVE  MemoryInv'
  <1>1. /\ pc = "bound" /\ slots >= (bound_tokens \div 2 + 1) * 2
        /\ UNCHANGED <<call, heap, peak>>
        /\ \/ pc' = "done" /\ bound' = bound
           \/ pc' = "allocate" /\ bound' = allocation_total(slots) /\ slots' = 0
    BY DEF AllocationBound, refuse, memory_vars
  <1>2. /\ heap' = empty_heap /\ peak' = 0 /\ bound' \in Nat /\ slots \in Doublings
        /\ slots \in Nat
    BY <1>1 DEF MemoryInv, Held, Bounded, Inv, TypeOK
  <1>3. Held' /\ heap'["keys"] = 0
    BY <1>2, EmptyHeap DEF Inv, Blocks
  <1>4. CASE pc' = "done"
    BY <1>2, <1>3, <1>4 DEF MemoryInv, Bounded
  <1>5. CASE pc' = "allocate" /\ bound' = allocation_total(slots) /\ slots' = 0
    <2>1. 2 * expected_keys <= slots
      <3>1. expected_keys = bound_tokens \div 2 + 1
        BY DEF expected_keys, bound_tokens, token_capacity
      <3>2. expected_keys \in Nat
        BY CapacityFacts DEF Inv
      <3> HIDE DEF bound_tokens, expected_keys
      <3> QED BY <1>1, <1>2, <3>1, <3>2
    <2>2. expected_keys' = expected_keys
      BY <1>1, SameCapacities
    <2>3. bound_tokens' = bound_tokens
      BY <1>1, SameCapacities
    <2> DEFINE c == slots
    <2>4. bound' = DocumentSize + (call'.size + 1)
             + (IF call'.profile = "LAST_WINS" THEN 2 ELSE 1) * (bound_tokens' * TokenSize)
             + (IF call'.profile = "LAST_WINS" THEN 2 ELSE 1) * (call'.size + bound_tokens' + 1)
             + c * WordSize + bound_tokens' * WordSize
      BY <1>1, <1>5, <2>3 DEF allocation_total
    <2>5. 0 <= c * WordSize
      BY <1>2, Product, LayoutAssumption
    <2> HIDE DEF c
    <2>6. /\ c \in Doublings /\ 2 * expected_keys' <= c /\ 0 <= c
      BY <1>2, <2>1, <2>2 DEF c
    <2>7. Bounded'
      BY <1>2, <1>3, <1>5, <2>4, <2>5, <2>6 DEF Bounded, allocation_total
    <2> QED BY <1>3, <2>7 DEF MemoryInv
  <1> QED BY <1>1, <1>4, <1>5

\* Whatever blocks allocate_document gets, they fit, and it returns them all
\* when one is missing.
LEMMA AllocateDocumentMemory ==
  ASSUME Inv, Inv', MemoryInv, AllocateDocument
  PROVE  MemoryInv'
  <1>1. pc = "allocate" /\ UNCHANGED <<call, bound>>
    BY DEF AllocateDocument
  <1>2. PICK c \in Doublings :
          /\ c \in Nat /\ bound = allocation_total(c) /\ 2 * expected_keys <= c
          /\ slots <= c /\ heap["keys"] <= c * WordSize
    BY <1>1, BoundFacts
  <1>3. PICK got \in SUBSET {"bytes", "tokens", "arena"} \cup {{NONE}} :
       LET granted == [b \in Blocks |->
             CASE b = "document" /\ got # {NONE} -> DocumentSize
               [] b = "bytes" /\ b \in got -> call.size + 1
               [] b = "tokens" /\ b \in got -> token_capacity * TokenSize
               [] b = "arena" /\ b \in got -> arena_capacity
               [] OTHER -> 0]
       IN  /\ peak' = Upper(peak, Live(granted))
           /\ \/ /\ got = {"bytes", "tokens", "arena"}
                 /\ heap' = granted
                 /\ slots' = MinimumCapacity
                 /\ pc' = "reserve" /\ UNCHANGED outcome_vars
              \/ /\ got # {"bytes", "tokens", "arena"}
                 /\ heap' = document_release(granted)
                 /\ refuse("MEMORY") /\ UNCHANGED slots
    BY DEF AllocateDocument
  <1> DEFINE T == token_capacity * TokenSize
             granted == [b \in Blocks |->
               CASE b = "document" /\ got # {NONE} -> DocumentSize
                 [] b = "bytes" /\ b \in got -> call.size + 1
                 [] b = "tokens" /\ b \in got -> T
                 [] b = "arena" /\ b \in got -> arena_capacity
                 [] OTHER -> 0]
  <1>4. /\ peak' = Upper(peak, Live(granted))
        /\ \/ heap' = granted /\ slots' = MinimumCapacity /\ pc' = "reserve"
           \/ heap' = document_release(granted) /\ pc' = "done"
    BY <1>3 DEF refuse
  <1>5. /\ DocumentSize \in Nat /\ call.size \in Nat /\ T \in Nat /\ arena_capacity \in Nat
        /\ 0 <= c * WordSize /\ 0 <= token_capacity * WordSize
    <2>1. /\ token_capacity \in Nat /\ call.size \in Nat
          /\ arena_capacity = call.size + token_capacity + 1
      BY CapacityFacts DEF Inv, TypeOK
    <2>2. DocumentSize \in Nat /\ TokenSize \in Nat /\ WordSize \in Nat
      BY LayoutAssumption
    <2>3. \A x, y \in Nat : x * y \in Nat /\ 0 <= x * y
      OBVIOUS
    <2> QED BY <1>2, <2>1, <2>2, <2>3
  <1> HIDE DEF T
  <1>6. /\ granted["document"] \in {0, DocumentSize} /\ granted["bytes"] \in {0, call.size + 1}
        /\ granted["tokens"] \in {0, T} /\ granted["arena"] \in {0, arena_capacity}
        /\ granted["keys"] = 0 /\ granted["packed_tokens"] = 0
        /\ granted["packed_arena"] = 0 /\ granted["children"] = 0
    BY DEF Blocks
  <1>7. granted \in [Blocks -> Nat]
    BY <1>5, <1>6 DEF Blocks
  <1> HIDE DEF granted
  <1>8. /\ granted["document"] <= DocumentSize /\ granted["bytes"] <= call.size + 1
        /\ granted["tokens"] <= T /\ granted["arena"] <= arena_capacity
    BY <1>5, <1>6
  <1>9. Fits(granted, c)
    BY <1>5, <1>6, <1>8 DEF Fits, T
  <1>10. peak' <= bound'
    <2>1. peak <= bound
      BY DEF MemoryInv, Bounded
    <2> QED BY <1>1, <1>2, <1>4, <1>7, <1>9, <2>1, PeakWithinBound
  <1>11. /\ token_capacity' = token_capacity /\ arena_capacity' = arena_capacity
         /\ expected_keys' = expected_keys /\ allocation_total(c)' = allocation_total(c)
    BY <1>1, SameCapacities
  <1>12. CASE heap' = granted /\ slots' = MinimumCapacity /\ pc' = "reserve"
    <2>1. Held'
      BY <1>1, <1>6, <1>8, <1>11, <1>12 DEF Held, Scanning, T
    <2>2. MinimumCapacity <= c
      BY <1>2, DoublingLeast
    <2>3. Bounded'
      BY <1>1, <1>2, <1>5, <1>6, <1>10, <1>11, <1>12, <2>2, DoublingsClosed DEF Bounded
    <2> QED BY <2>1, <2>3 DEF MemoryInv
  <1>13. CASE heap' = document_release(granted) /\ pc' = "done"
    <2>1. heap' = empty_heap
      BY <1>6, <1>7, <1>13, ReleasedHeap
    <2>2. Held'
      BY <2>1, EmptyHeap DEF Inv
    <2>3. Bounded'
      BY <1>10, <1>13 DEF Bounded
    <2> QED BY <2>2, <2>3 DEF MemoryInv
  <1> QED BY <1>4, <1>12, <1>13

\* The heap fits as long as nothing but the document and the table is held.
LEMMA HeldFits ==
  ASSUME Inv, MemoryInv, pc \notin {"copy", "layout", "done"}, NEW c \in Nat,
         heap["keys"] <= c * WordSize
  PROVE  Fits(heap, c)
  <1>1. /\ heap["document"] <= DocumentSize /\ heap["bytes"] <= call.size + 1
        /\ heap["tokens"] <= token_capacity * TokenSize /\ heap["arena"] <= arena_capacity
        /\ heap["packed_tokens"] = 0 /\ heap["packed_arena"] = 0 /\ heap["children"] = 0
    BY DEF MemoryInv, Held
  <1>2. 0 <= token_capacity * WordSize
    <2>1. token_capacity \in Nat /\ WordSize \in Nat
      BY CapacityFacts, LayoutAssumption DEF Inv
    <2>2. \A x, y \in Nat : 0 <= x * y
      OBVIOUS
    <2> QED BY <2>1, <2>2
  <1> QED BY <1>1, <1>2 DEF Fits

\* The table is allocated, as small as the bound allows.
LEMMA KeysMemory ==
  ASSUME Inv, Inv', MemoryInv, UNCHANGED <<call, bound, slots>>,
         pc \in Scanning \cup {"reserve"}, pc' \in Scanning,
         heap' = [heap EXCEPT !["keys"] = slots * WordSize],
         peak' = Upper(peak, Live(heap)) \/ peak' = Upper(peak, Live(heap'))
  PROVE  MemoryInv'
  <1>1. pc \notin {"idle", "bound", "allocate", "copy", "layout", "done"}
        /\ pc' \notin {"idle", "bound", "allocate", "reserve", "copy", "layout", "done", "finish"}
    BY DEF Scanning
  <1>2. PICK c \in Doublings :
          /\ c \in Nat /\ bound = allocation_total(c) /\ 2 * expected_keys <= c
          /\ slots <= c /\ heap["keys"] <= c * WordSize
    BY <1>1, BoundFacts
  <1>3. /\ token_capacity' = token_capacity /\ arena_capacity' = arena_capacity
        /\ expected_keys' = expected_keys /\ allocation_total(c)' = allocation_total(c)
    BY SameCapacities
  <1>4. slots * WordSize <= c * WordSize /\ slots * WordSize \in Nat
    <2>1. slots \in Nat /\ WordSize \in Nat
      BY LayoutAssumption DEF Inv, TypeOK
    <2> QED BY <1>2, <2>1, Product
  <1>5. heap \in [Blocks -> Nat] /\ heap' \in [Blocks -> Nat] /\ peak \in Nat
    BY DEF Inv, TypeOK
  <1>6. /\ heap'["keys"] = slots * WordSize
        /\ \A b \in Blocks : b # "keys" => heap'[b] = heap[b]
    BY <1>5 DEF Blocks
  <1>7. /\ heap'["document"] = heap["document"] /\ heap'["bytes"] = heap["bytes"]
        /\ heap'["tokens"] = heap["tokens"] /\ heap'["arena"] = heap["arena"]
        /\ heap'["packed_tokens"] = heap["packed_tokens"]
        /\ heap'["packed_arena"] = heap["packed_arena"]
        /\ heap'["children"] = heap["children"]
    BY <1>6 DEF Blocks
  <1>8. Fits(heap, c)
    BY <1>1, <1>2, HeldFits
  <1>9. Fits(heap', c)
    BY <1>4, <1>6, <1>7, <1>8 DEF Fits
  <1>10. peak' <= bound'
    <2>1. peak <= bound
      BY DEF MemoryInv, Bounded
    <2>2. Upper(peak, Live(heap)) <= bound /\ Upper(peak, Live(heap')) <= bound
      BY <1>2, <1>5, <1>8, <1>9, <2>1, PeakWithinBound
    <2> QED BY <2>2
  <1>11. Held'
    BY <1>1, <1>3, <1>7 DEF MemoryInv, Held
  <1>12. Bounded'
    BY <1>1, <1>2, <1>3, <1>4, <1>6, <1>10 DEF Bounded
  <1> QED BY <1>11, <1>12 DEF MemoryInv

\* keyset_init gets its slots, or the call fails with the document held.
LEMMA KeysetInitMemory ==
  ASSUME Inv, Inv', MemoryInv, KeysetInit
  PROVE  MemoryInv'
  <1>1. pc = "reserve" /\ UNCHANGED <<call, bound, slots>>
    BY DEF KeysetInit, keyset_vars
  <1>2. CASE allocate("keys", slots * WordSize) /\ pc' = "root"
    <2>1. /\ heap' = [heap EXCEPT !["keys"] = slots * WordSize]
          /\ peak' = Upper(peak, Live(heap'))
      BY <1>2 DEF allocate
    <2>2. pc' \in Scanning
      BY <1>2 DEF Scanning
    <2> QED BY <1>1, <2>1, <2>2, KeysMemory
  <1>3. CASE pc' = "finish" /\ UNCHANGED memory_vars
    BY <1>1, <1>3, MemoryKept DEF memory_vars
  <1> QED BY <1>2, <1>3 DEF KeysetInit

\* Reading a lexeme allocates nothing but the table the key set already has.
LEMMA ScanMemory ==
  ASSUME Inv, Inv', MemoryInv, NEW l \in Lexemes, Scan(l)
  PROVE  MemoryInv'
  <1>1. pc \in Scanning /\ Reads /\ UNCHANGED <<call, bound>>
    BY ScanReads
  <1>2. pc \notin {"idle", "bound", "allocate", "done", "copy", "layout"}
    BY <1>1 DEF Scanning
  <1>3. CASE pc' \in Scanning \cup {"finish"} /\ UNCHANGED <<heap, peak, slots>>
    <2>1. pc' \notin {"idle", "bound", "allocate", "reserve", "done", "copy", "layout"}
      BY <1>3 DEF Scanning
    <2> QED BY <1>1, <1>2, <1>3, <2>1, MemoryKept
  <1>4. CASE /\ pc' \in Scanning /\ slots' = slots
             /\ heap' = [heap EXCEPT !["keys"] = slots * WordSize]
             /\ peak' = Upper(peak, Live(heap))
    BY <1>1, <1>4, KeysMemory
  <1> QED BY <1>1, <1>3, <1>4 DEF Reads, Stops, Passes, Adds

\* The key set is released on every path.
LEMMA FinishMemory ==
  ASSUME Inv, Inv', MemoryInv, Finish
  PROVE  MemoryInv'
  <1>1. /\ pc = "finish" /\ pc' \in {"failed", "measure", "children"} /\ slots' = 0
        /\ heap' = [heap EXCEPT !["keys"] = 0] /\ UNCHANGED <<call, bound, peak>>
    BY DEF Finish, keyset_release
  <1>2. PICK c \in Doublings :
          /\ c \in Nat /\ bound = allocation_total(c) /\ 2 * expected_keys <= c
          /\ slots <= c /\ heap["keys"] <= c * WordSize
    BY <1>1, BoundFacts
  <1>3. /\ token_capacity' = token_capacity /\ arena_capacity' = arena_capacity
        /\ expected_keys' = expected_keys /\ allocation_total(c)' = allocation_total(c)
    BY <1>1, SameCapacities
  <1>4. /\ heap'["keys"] = 0
        /\ heap'["document"] = heap["document"] /\ heap'["bytes"] = heap["bytes"]
        /\ heap'["tokens"] = heap["tokens"] /\ heap'["arena"] = heap["arena"]
        /\ heap'["packed_tokens"] = heap["packed_tokens"]
        /\ heap'["packed_arena"] = heap["packed_arena"]
        /\ heap'["children"] = heap["children"]
    <2>1. heap \in [Blocks -> Nat]
      BY DEF Inv, TypeOK
    <2> QED BY <1>1, <2>1 DEF Blocks
  <1>5. 0 <= c * WordSize
    BY <1>2, Product, LayoutAssumption
  <1>6. Held'
    BY <1>1, <1>3, <1>4 DEF MemoryInv, Held
  <1>7. Bounded'
    BY <1>1, <1>2, <1>3, <1>4, <1>5 DEF MemoryInv, Bounded
  <1> QED BY <1>6, <1>7 DEF MemoryInv

\* The packed copy is at most as large as the arrays the bound counts twice.
LEMMA CompactAllocateMemory ==
  ASSUME Inv, Inv', DocumentInv, MemoryInv, CompactAllocate
  PROVE  MemoryInv'
  <1>1. pc = "measure" /\ UNCHANGED <<call, bound, slots>>
    BY DEF CompactAllocate, keyset_vars
  <1>2. PICK c \in Doublings :
          /\ c \in Nat /\ bound = allocation_total(c) /\ 2 * expected_keys <= c
          /\ slots <= c /\ heap["keys"] <= c * WordSize
    BY <1>1, BoundFacts
  <1>3. /\ token_capacity' = token_capacity /\ arena_capacity' = arena_capacity
        /\ expected_keys' = expected_keys /\ allocation_total(c)' = allocation_total(c)
    BY <1>1, SameCapacities
  <1> DEFINE P == packed.token_count * TokenSize
             A == AtLeastOne(packed.arena_used)
             T == token_capacity * TokenSize
  <1>4. /\ P \in Nat /\ A \in Nat /\ P <= T /\ A <= arena_capacity /\ T \in Nat
        /\ arena_capacity \in Nat /\ call.profile = "LAST_WINS"
    <2>1. /\ packed.token_count \in Nat /\ packed.arena_used \in Nat /\ arena_used \in Nat
          /\ packed.token_count <= Len(tokens) /\ Len(tokens) <= token_capacity
          /\ arena_used <= call.size + token_capacity /\ call.profile = "LAST_WINS"
          /\ tokens \in Seq(Token)
          /\ \E f : /\ Sums(tokens, f) /\ f[Len(tokens)] <= arena_used
                    /\ packed.arena_used <= f[Len(tokens)]
      BY <1>1, CopyingDocument DEF Copying
    <2>2. /\ token_capacity \in Nat /\ call.size \in Nat
          /\ arena_capacity = call.size + token_capacity + 1
      BY CapacityFacts DEF Inv, TypeOK
    <2>3. packed.arena_used <= arena_used
      <3>1. PICK f : /\ Sums(tokens, f) /\ f[Len(tokens)] <= arena_used
                     /\ packed.arena_used <= f[Len(tokens)]
        BY <2>1
      <3>2. f \in [0 .. Len(tokens) -> Nat] /\ Len(tokens) \in 0 .. Len(tokens)
        BY <2>1, <3>1 DEF Sums
      <3>3. f[Len(tokens)] \in Nat
        BY <3>2
      <3> QED BY <2>1, <3>1, <3>3
    <2>4. packed.token_count <= token_capacity
      BY <2>1, <2>2
    <2>5. P \in Nat /\ T \in Nat /\ P <= T
      BY <2>1, <2>2, <2>4, Product, LayoutAssumption
    <2>6. A \in Nat /\ A <= arena_capacity
      BY <2>1, <2>2, <2>3 DEF AtLeastOne
    <2> QED BY <2>1, <2>2, <2>5, <2>6
  <1>5. PICK got \in SUBSET {"packed_tokens", "packed_arena"} :
       LET arena   == AtLeastOne(packed.arena_used)
           granted == [b \in Blocks |->
             CASE b = "packed_tokens" /\ b \in got -> packed.token_count * TokenSize
               [] b = "packed_arena" /\ b \in got -> arena
               [] OTHER -> heap[b]]
       IN  /\ peak' = Upper(peak, Live(granted))
           /\ \/ heap' = granted /\ pc' = "copy"
              \/ /\ heap' = [granted EXCEPT !["packed_tokens"] = 0, !["packed_arena"] = 0]
                 /\ pc' = "failed"
    BY DEF CompactAllocate
  <1> DEFINE granted == [b \in Blocks |->
               CASE b = "packed_tokens" /\ b \in got -> P
                 [] b = "packed_arena" /\ b \in got -> A
                 [] OTHER -> heap[b]]
  <1>6. /\ peak' = Upper(peak, Live(granted))
        /\ \/ heap' = granted /\ pc' = "copy"
           \/ /\ heap' = [granted EXCEPT !["packed_tokens"] = 0, !["packed_arena"] = 0]
              /\ pc' = "failed"
    BY <1>5
  <1> HIDE DEF P, A, T
  <1>7. /\ heap["document"] <= DocumentSize /\ heap["bytes"] <= call.size + 1
        /\ heap["tokens"] <= T /\ heap["arena"] <= arena_capacity
        /\ heap["packed_tokens"] = 0 /\ heap["packed_arena"] = 0
        /\ heap["keys"] = 0 /\ heap["children"] = 0 /\ peak <= bound
    BY <1>1 DEF MemoryInv, Held, Bounded, Scanning, T
  <1>8. /\ granted["document"] = heap["document"] /\ granted["bytes"] = heap["bytes"]
        /\ granted["tokens"] = heap["tokens"] /\ granted["arena"] = heap["arena"]
        /\ granted["keys"] = 0 /\ granted["children"] = 0
        /\ granted["packed_tokens"] \in {0, P} /\ granted["packed_arena"] \in {0, A}
    BY <1>7 DEF Blocks
  <1>9. granted \in [Blocks -> Nat]
    <2>1. heap \in [Blocks -> Nat]
      BY DEF Inv, TypeOK
    <2> QED BY <1>4, <2>1
  <1> HIDE DEF granted
  <1>10. /\ granted["packed_tokens"] <= T /\ granted["packed_arena"] <= arena_capacity
    BY <1>4, <1>8
  <1>11. 0 <= c * WordSize /\ 0 <= token_capacity * WordSize
    <2>1. token_capacity \in Nat
      BY CapacityFacts DEF Inv
    <2> QED BY <1>2, <2>1, Product, LayoutAssumption
  <1>12. Fits(granted, c)
    BY <1>4, <1>7, <1>8, <1>10, <1>11 DEF Fits, T
  <1>13. peak' <= bound'
    BY <1>1, <1>2, <1>6, <1>7, <1>9, <1>12, PeakWithinBound
  <1>14. CASE heap' = granted /\ pc' = "copy"
    <2>1. Held'
      BY <1>1, <1>3, <1>7, <1>8, <1>10, <1>14 DEF Held, Scanning, T
    <2>2. Bounded'
      BY <1>1, <1>2, <1>3, <1>8, <1>11, <1>13, <1>14 DEF Bounded
    <2> QED BY <2>1, <2>2 DEF MemoryInv
  <1>15. CASE /\ heap' = [granted EXCEPT !["packed_tokens"] = 0, !["packed_arena"] = 0]
              /\ pc' = "failed"
    <2>1. /\ heap'["document"] = heap["document"] /\ heap'["bytes"] = heap["bytes"]
          /\ heap'["tokens"] = heap["tokens"] /\ heap'["arena"] = heap["arena"]
          /\ heap'["keys"] = 0 /\ heap'["children"] = 0
          /\ heap'["packed_tokens"] = 0 /\ heap'["packed_arena"] = 0
      BY <1>8, <1>9, <1>15 DEF Blocks
    <2>2. Held'
      BY <1>1, <1>3, <1>7, <1>15, <2>1 DEF Held, Scanning, T
    <2>3. Bounded'
      BY <1>1, <1>2, <1>3, <1>11, <1>13, <1>15, <2>1 DEF Bounded
    <2> QED BY <2>2, <2>3 DEF MemoryInv
  <1> QED BY <1>6, <1>14, <1>15

\* The packed arrays take the place of the source ones.
LEMMA CompactSwapMemory ==
  ASSUME Inv, Inv', MemoryInv, CompactSwap
  PROVE  MemoryInv'
  <1>1. /\ pc = "copy" /\ pc' = "children" /\ UNCHANGED <<call, bound, slots, peak>>
        /\ heap' = [heap EXCEPT !["tokens"] = heap["packed_tokens"],
                                !["arena"]  = heap["packed_arena"],
                                !["packed_tokens"] = 0, !["packed_arena"] = 0]
    BY DEF CompactSwap, keyset_vars
  <1>2. PICK c \in Doublings :
          /\ c \in Nat /\ bound = allocation_total(c) /\ 2 * expected_keys <= c
          /\ slots <= c /\ heap["keys"] <= c * WordSize
    BY <1>1, BoundFacts
  <1>3. /\ token_capacity' = token_capacity /\ arena_capacity' = arena_capacity
        /\ expected_keys' = expected_keys /\ allocation_total(c)' = allocation_total(c)
    BY <1>1, SameCapacities
  <1>4. /\ heap'["document"] = heap["document"] /\ heap'["bytes"] = heap["bytes"]
        /\ heap'["tokens"] = heap["packed_tokens"] /\ heap'["arena"] = heap["packed_arena"]
        /\ heap'["keys"] = heap["keys"] /\ heap'["children"] = heap["children"]
        /\ heap'["packed_tokens"] = 0 /\ heap'["packed_arena"] = 0
    <2>1. heap \in [Blocks -> Nat]
      BY DEF Inv, TypeOK
    <2> QED BY <1>1, <2>1 DEF Blocks
  <1>5. Held'
    BY <1>1, <1>3, <1>4 DEF MemoryInv, Held, Scanning
  <1>6. Bounded'
    BY <1>1, <1>2, <1>3, <1>4 DEF MemoryInv, Bounded
  <1> QED BY <1>5, <1>6 DEF MemoryInv

\* The children array has one word for each token.
LEMMA ChildrenAllocateMemory ==
  ASSUME Inv, Inv', DocumentInv, MemoryInv, ChildrenAllocate
  PROVE  MemoryInv'
  <1>1. pc = "children" /\ UNCHANGED <<call, bound, slots>>
    BY DEF ChildrenAllocate, keyset_vars
  <1>2. CASE pc' = "failed" /\ UNCHANGED memory_vars
    BY <1>1, <1>2, MemoryKept DEF memory_vars, Scanning
  <1>3. CASE allocate("children", Len(tokens) * WordSize) /\ pc' = "layout"
    <2>1. /\ heap' = [heap EXCEPT !["children"] = Len(tokens) * WordSize]
          /\ peak' = Upper(peak, Live(heap'))
      BY <1>3 DEF allocate
    <2>2. PICK c \in Doublings :
            /\ c \in Nat /\ bound = allocation_total(c) /\ 2 * expected_keys <= c
            /\ slots <= c /\ heap["keys"] <= c * WordSize
      BY <1>1, BoundFacts
    <2>3. /\ token_capacity' = token_capacity /\ arena_capacity' = arena_capacity
          /\ expected_keys' = expected_keys /\ allocation_total(c)' = allocation_total(c)
      BY <1>1, SameCapacities
    <2>4. heap \in [Blocks -> Nat] /\ heap' \in [Blocks -> Nat]
      BY DEF Inv, TypeOK
    <2>5. /\ heap'["children"] = Len(tokens) * WordSize
          /\ heap'["document"] = heap["document"] /\ heap'["bytes"] = heap["bytes"]
          /\ heap'["tokens"] = heap["tokens"] /\ heap'["arena"] = heap["arena"]
          /\ heap'["keys"] = heap["keys"]
          /\ heap'["packed_tokens"] = heap["packed_tokens"]
          /\ heap'["packed_arena"] = heap["packed_arena"]
      BY <2>1, <2>4 DEF Blocks
    <2>6. Len(tokens) * WordSize <= token_capacity * WordSize
      <3>1. token_capacity \in Nat
        BY CapacityFacts DEF Inv
      <3>2. Len(tokens) \in Nat
        BY DEF Inv, TypeOK
      <3>3. Len(tokens) <= token_capacity
        BY <1>1 DEF DocumentInv, Sizes
      <3> QED BY <3>1, <3>2, <3>3, Product, LayoutAssumption
    <2>7. Fits(heap, c) /\ peak <= bound
      BY <1>1, <2>2, HeldFits DEF MemoryInv, Bounded
    <2>8. Fits(heap', c)
      BY <2>5, <2>6, <2>7 DEF Fits
    <2>9. peak' <= bound'
      BY <1>1, <2>1, <2>2, <2>4, <2>7, <2>8, PeakWithinBound
    <2>10. Held'
      BY <1>1, <1>3, <2>3, <2>5 DEF MemoryInv, Held, Scanning
    <2>11. Bounded'
      BY <1>1, <1>3, <2>2, <2>3, <2>5, <2>9 DEF Bounded
    <2> QED BY <2>10, <2>11 DEF MemoryInv
  <1> QED BY <1>2, <1>3 DEF ChildrenAllocate

\* A failed call gives back all that is left; so does the client's release.
LEMMA ReleaseMemory ==
  ASSUME Inv, Inv', MemoryInv, ReturnFailure \/ Release
  PROVE  MemoryInv'
  <1>1. /\ pc \in {"failed", "done"} /\ (pc' = "done" \/ (pc' = "idle" /\ peak' = 0))
        /\ pc' = "done" => peak' = peak /\ bound' = bound
        /\ \/ heap' = document_release(heap)
           \/ pc = "done" /\ result # "OK" /\ heap' = heap
    BY DEF ReturnFailure, Release
  <1>2. heap["keys"] = 0 /\ heap["packed_tokens"] = 0 /\ heap["packed_arena"] = 0
    BY <1>1 DEF MemoryInv, Held, Scanning
  <1>3. heap' = empty_heap
    <2>1. CASE heap' = document_release(heap)
      BY <1>2, <2>1, ReleasedHeap DEF Inv, TypeOK
    <2>2. CASE pc = "done" /\ result # "OK" /\ heap' = heap
      BY <2>2 DEF MemoryInv, Held
    <2> QED BY <1>1, <2>1, <2>2
  <1>4. Held'
    BY <1>3, EmptyHeap DEF Inv
  <1>5. peak' <= bound'
    BY <1>1 DEF MemoryInv, Bounded, Inv, TypeOK
  <1>6. Bounded'
    BY <1>1, <1>5 DEF Bounded
  <1> QED BY <1>4, <1>6 DEF MemoryInv

\* Every step stays within the bound.
LEMMA MemoryStep ==
  ASSUME Inv, Inv', DocumentInv, MemoryInv, [Next]_vars
  PROVE  MemoryInv'
  <1>1. CASE UNCHANGED vars
    <2>1. UNCHANGED <<pc, call, slots, bound, heap, peak, result>>
      BY <1>1 DEF vars, keyset_vars, memory_vars, outcome_vars
    <2>2. /\ token_capacity' = token_capacity /\ arena_capacity' = arena_capacity
          /\ expected_keys' = expected_keys
      BY <2>1, SameCapacities
    <2>3. Held'
      BY <2>1, <2>2 DEF MemoryInv, Held
    <2>4. Bounded'
      BY <2>1, <2>2 DEF MemoryInv, Bounded, allocation_total, bound_tokens
    <2> QED BY <2>3, <2>4 DEF MemoryInv
  <1>2. CASE Call
    BY <1>2, CallMemory
  <1>3. CASE DoubleCapacity
    BY <1>3, DoubleCapacityMemory
  <1>4. CASE AllocationBound
    BY <1>4, AllocationBoundMemory
  <1>5. CASE AllocateDocument
    BY <1>5, AllocateDocumentMemory
  <1>6. CASE KeysetInit
    BY <1>6, KeysetInitMemory
  <1>7. CASE \E l \in Lexemes : Scan(l)
    BY <1>7, ScanMemory
  <1>8. CASE Finish
    BY <1>8, FinishMemory
  <1>9. CASE CompactWalk
    <2>1. pc \in Copying /\ pc' = pc /\ UNCHANGED <<call, bound, heap, peak, slots>>
      BY <1>9 DEF CompactWalk, Copying, memory_vars, keyset_vars
    <2> QED BY <2>1, MemoryKept DEF Copying, Scanning
  <1>10. CASE CompactAllocate
    BY <1>10, CompactAllocateMemory
  <1>11. CASE CompactSwap
    BY <1>11, CompactSwapMemory
  <1>12. CASE ChildrenAllocate
    BY <1>12, ChildrenAllocateMemory
  <1>13. CASE BuildChildren
    <2>1. /\ pc = "layout" /\ pc' \in {"layout", "done"}
          /\ UNCHANGED <<call, bound, heap, peak, slots, result>>
      BY <1>13 DEF BuildChildren, LayoutChild, LayoutContainer, Publish, memory_vars,
                   keyset_vars, outcome_vars
    <2>2. result = "OK"
      BY <2>1 DEF Inv, Outcome, Late
    <2> QED BY <2>1, <2>2, MemoryKept DEF Scanning
  <1>14. CASE ReturnFailure \/ Release
    BY <1>14, ReleaseMemory
  <1> QED BY <1>1, <1>2, <1>3, <1>4, <1>5, <1>6, <1>7, <1>8, <1>9, <1>10, <1>11, <1>12,
             <1>13, <1>14 DEF Next, Step

-----------------------------------------------------------------------------
(* The theorems.                                                            *)

\* Nothing has been allocated before the first call.
LEMMA InitHeap ==
  ASSUME Init
  PROVE  DocumentInv /\ MemoryInv
  <1>1. Inv
    BY InitInv
  <1>2. /\ pc = "idle" /\ tokens = <<>> /\ stack = <<>> /\ arena_used = 0
        /\ duplicate_count = 0 /\ packed = empty_packed /\ heap = empty_heap
        /\ peak = 0 /\ bound = 0 /\ slots = 0
    BY DEF Init
  <1>3. token_capacity \in Nat /\ token_capacity >= 1 /\ call.size \in Nat
        /\ arena_capacity = call.size + token_capacity + 1
    BY <1>1, CapacityFacts DEF Inv, TypeOK
  <1>4. Ordering /\ Visiting
    BY <1>2 DEF Ordering, Visiting, Preorder, Forward, Opened, Copying
  <1>5. Texts
    <2>1. \E f : Sums(<<>>, f) /\ f[0] <= 0
      BY SumsEmpty
    <2>2. Len(tokens) = 0
      BY <1>2
    <2> QED BY <1>2, <2>1, <2>2 DEF Texts
  <1>6. Sizes
    BY <1>2, <1>3 DEF Sizes, Copying
  <1>7. Held
    <2>1. /\ heap["document"] = 0 /\ heap["bytes"] = 0 /\ heap["tokens"] = 0
          /\ heap["arena"] = 0 /\ heap["keys"] = 0 /\ heap["packed_tokens"] = 0
          /\ heap["packed_arena"] = 0 /\ heap["children"] = 0
      BY <1>2 DEF empty_heap, Blocks
    <2>2. token_capacity * TokenSize \in Nat /\ DocumentSize \in Nat
      <3>1. \A x, y \in Nat : x * y \in Nat
        OBVIOUS
      <3> QED BY <1>3, <3>1, LayoutAssumption
    <2> DEFINE T == token_capacity * TokenSize
    <2> HIDE DEF T
    <2>3. /\ heap["document"] <= DocumentSize /\ heap["bytes"] <= call.size + 1
          /\ heap["tokens"] <= T /\ heap["arena"] <= arena_capacity
      BY <1>3, <2>1, <2>2 DEF T
    <2> QED BY <1>2, <2>1, <2>3 DEF Held, T
  <1>8. Bounded
    BY <1>2 DEF Bounded
  <1> QED BY <1>4, <1>5, <1>6, <1>7, <1>8 DEF DocumentInv, MemoryInv

\* The order of the tokens, the positions of the walk and the sizes of the
\* blocks hold in every state of every sequence of calls.
THEOREM HeapInvHolds == Spec => [](DocumentInv /\ MemoryInv)
  <1>1. Init => DocumentInv /\ MemoryInv
    BY InitHeap
  <1>2. Inv /\ Inv' /\ DocumentInv /\ MemoryInv /\ [Next]_vars => DocumentInv' /\ MemoryInv'
    BY DocumentStep, MemoryStep
  <1> QED BY <1>1, <1>2, InvHolds, PTL DEF Spec

\* maelys_json_document_parse_allocation_bound is an upper bound of what the call
\* holds at any moment, whatever the input and whichever allocations fail.
THEOREM BoundIsUpper == Spec => []HeapWithinBound
  <1>1. MemoryInv => HeapWithinBound
    BY DEF MemoryInv, Bounded, HeapWithinBound
  <1> QED BY <1>1, HeapInvHolds, PTL

\* A call that fails, at whatever step, and a document that is released leave
\* no block behind.
THEOREM NothingIsLeaked == Spec => []NothingLeaks
  <1>1. MemoryInv => NothingLeaks
    BY DEF MemoryInv, Held, NothingLeaks
  <1> QED BY <1>1, HeapInvHolds, PTL

\* compact_walk never counts more tokens or more bytes of text than the document
\* it packs, so the second copy is never larger than the first.
PackedNeverLarger ==
  pc \in {"measure", "copy"} =>
    packed.token_count <= Len(tokens) /\ packed.arena_used <= arena_used

\* Compaction never needs more tokens or text than the parse produced: what
\* compact_walk measures is within the source document, so the copy fits the bound.
THEOREM PackedIsNeverLarger == Spec => []PackedNeverLarger
  <1>1. Inv /\ DocumentInv => PackedNeverLarger
    <2> SUFFICES ASSUME Inv, DocumentInv, pc \in Copying
                 PROVE  packed.token_count <= Len(tokens) /\ packed.arena_used <= arena_used
      BY DEF PackedNeverLarger, Copying
    <2>1. /\ packed.token_count <= Len(tokens) /\ packed.arena_used \in Nat
          /\ arena_used \in Nat /\ tokens \in Seq(Token)
      BY CopyingDocument
    <2>2. PICK f : /\ Sums(tokens, f) /\ f[Len(tokens)] <= arena_used
                   /\ packed.arena_used <= f[Len(tokens)]
      BY CopyingDocument
    <2>3. f \in [0 .. Len(tokens) -> Nat] /\ Len(tokens) \in 0 .. Len(tokens)
      BY <2>1, <2>2 DEF Sums
    <2>4. f[Len(tokens)] \in Nat
      BY <2>3
    <2> QED BY <2>1, <2>2, <2>4
  <1> QED BY <1>1, InvHolds, HeapInvHolds, PTL
=============================================================================
