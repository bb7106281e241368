-------------------------------- MODULE Links --------------------------------
(***************************************************************************)
(* Parent and sibling links shared by the parser's tokens and the writer's *)
(* nodes (src/src/internal.h).  An array of tokens or nodes is a sequence  *)
(* whose elements carry a `links` record; position i stands for the C      *)
(* index i - 1 and NONE for MAELYS_JSON_VALUE_NONE.                        *)
(***************************************************************************)
EXTENDS Naturals, Sequences, FiniteSets

CONSTANT NONE

ASSUME NoneAssumption == NONE \notin Nat

LinksOf(Index) ==
  [parent : Index \cup {NONE}, first_child : Index \cup {NONE},
   last_child : Index \cup {NONE}, next_sibling : Index \cup {NONE},
   child_count : Nat]

links_init(parent) ==
  [parent |-> parent, first_child |-> NONE, last_child |-> NONE,
   next_sibling |-> NONE, child_count |-> 0]

\* Mutant: the previous child is not chained to the new one.
links_after_unchained(links, i, container, last, index) ==
  [parent       |-> links.parent,
   first_child  |-> IF i = container /\ last = NONE THEN index ELSE links.first_child,
   last_child   |-> IF i = container THEN index ELSE links.last_child,
   next_sibling |-> links.next_sibling,
   child_count  |-> IF i = container THEN links.child_count + 1 ELSE links.child_count]

\* The links of element i after `index` has been appended to `container`,
\* whose last child was `last`.
links_after(links, i, container, last, index) ==
  [parent       |-> links.parent,
   first_child  |-> IF i = container /\ last = NONE THEN index ELSE links.first_child,
   last_child   |-> IF i = container THEN index ELSE links.last_child,
   next_sibling |-> IF i = last THEN index ELSE links.next_sibling,
   child_count  |-> IF i = container THEN links.child_count + 1 ELSE links.child_count]

links_append(nodes, container, index) ==
  LET last == nodes[container].links.last_child
  IN  [i \in DOMAIN nodes |-> [nodes[i] EXCEPT
         !.links = links_after(nodes[i].links, i, container, last, index)]]

\* A fresh element, appended to the array and to its parent when it has one.
attach(nodes, node) ==
  LET grown  == Append(nodes, node)
      parent == node.links.parent
  IN  IF parent = NONE THEN grown
      ELSE links_append(grown, parent, Len(grown))

\* What a loop over first_child and next_sibling visits, in its order.
chain(nodes, container) ==
  LET walk[k \in 1 .. Len(nodes)] ==
        IF k = 1 THEN nodes[container].links.first_child
        ELSE IF walk[k - 1] = NONE THEN NONE
        ELSE nodes[walk[k - 1]].links.next_sibling
      length == CHOOSE n \in 0 .. Len(nodes) :
                  /\ \A k \in 1 .. n : walk[k] # NONE
                  /\ n < Len(nodes) => walk[n + 1] = NONE
  IN  [k \in 1 .. length |-> walk[k]]

-----------------------------------------------------------------------------
ChildrenOf(nodes, container) ==
  {i \in DOMAIN nodes : nodes[i].links.parent = container}

Least(S)    == IF S = {} THEN NONE ELSE CHOOSE i \in S : \A j \in S : i <= j
Greatest(S) == IF S = {} THEN NONE ELSE CHOOSE i \in S : \A j \in S : j <= i

(***************************************************************************)
(* The links describe one ordered forest: the children of a container are  *)
(* exactly the elements that name it as their parent, chained in the order *)
(* in which they were appended, and every parent precedes its children.    *)
(***************************************************************************)
WellLinked(nodes) ==
  \A i \in DOMAIN nodes :
    LET links    == nodes[i].links
        children == ChildrenOf(nodes, i)
        later    == {j \in ChildrenOf(nodes, links.parent) : j > i}
    IN  /\ links.parent # NONE => links.parent \in 1 .. i - 1
        /\ links.first_child = Least(children)
        /\ links.last_child = Greatest(children)
        /\ links.child_count = Cardinality(children)
        /\ links.next_sibling = IF links.parent = NONE THEN NONE ELSE Least(later)
=============================================================================
