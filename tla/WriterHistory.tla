---------------------------- MODULE WriterHistory ----------------------------
(***************************************************************************)
(* The writer with a record of the calls it accepted: what the tree, and   *)
(* what a copy, must be the record of.                                     *)
(***************************************************************************)
EXTENDS Writer

\* A document is finite, and its members, not its elements, have keys.
ASSUME DocumentIsFinite ==
  /\ IsFiniteSet(DOMAIN Document)
  /\ \A v \in DOMAIN Document : \A i \in DOMAIN Document[v].kids :
       Document[v].kids[i].key # NONE <=> Document[v].type = "object"

VARIABLES
  events,      \* accepted calls since create: [op, arg]
  copied       \* the copy under way: where its events begin, and what it copies

hvars == <<vars, events, copied>>

event(op, arg) == [op |-> op, arg |-> arg]
no_copy == [from |-> 0, value |-> 0, kind |-> "none", excluded |-> {}]

\* Only a call that is accepted changes the tree.
Recorded ==
  events' = IF profile' = NONE THEN <<>>
            ELSE IF profile = NONE \/ returned'.code # "OK" \/ UNCHANGED tree_vars THEN events
            ELSE Append(events, event(returned'.op, returned'.arg))

Begins == Idle /\ job'.kind # "none"

CopyRecorded ==
  copied' = IF job'.kind = "none" THEN no_copy
            ELSE IF ~Begins THEN copied
            ELSE [from |-> Len(events), kind |-> job'.kind, excluded |-> job'.excluded,
                  value |-> IF job'.kind = "value" THEN job'.todo ELSE job'.frames[1].value]

HistoryInit == Init /\ events = <<>> /\ copied = no_copy
HistoryNext == Next /\ Recorded /\ CopyRecorded
HistorySpec == HistoryInit /\ [][HistoryNext]_hvars
FairHistorySpec == HistorySpec /\ WF_hvars(CopyStep /\ Recorded /\ CopyRecorded)

-----------------------------------------------------------------------------
(* The tree and the calls.                                                  *)

Containers == {"object", "array"}

opens(type)  == event("begin", type)
closes(type) == event("end", type)
named(key)   == IF key = NONE THEN <<>> ELSE <<event("key", key.name)>>

\* The call that builds a node without members.
leaf(type, content) ==
  IF content = NONE THEN <<event("scalar", type)>>
  ELSE IF type = "string" THEN <<event("string", content.name)>>
  ELSE <<event("lexeme", content.name)>>

\* The elements of a sequence of sequences, in order.
Strung(parts) ==
  LET upto[k \in 0 .. Len(parts)] == IF k = 0 THEN <<>> ELSE upto[k - 1] \o parts[k]
  IN  upto[Len(parts)]

\* The calls that build one node, once those of its members are known.
node_calls(s, open, members, calls, i) ==
  IF s[i].type \notin Containers THEN leaf(s[i].type, s[i].value)
  ELSE <<opens(s[i].type)>>
         \o Strung([k \in DOMAIN members |-> named(s[members[k]].key) \o calls[members[k]]])
         \o (IF i \in open THEN <<>> ELSE <<closes(s[i].type)>>)

tree_events ==
  LET open == {stack[d] : d \in DOMAIN stack}
      calls[i \in DOMAIN nodes] == node_calls(nodes, open, chain(nodes, i), calls, i)
  IN  (IF nodes = <<>> THEN <<>> ELSE calls[1]) \o named(pending)

\* A tree without failure is exactly what the accepted calls said, in their order:
\* nothing dropped, doubled, moved to another container or given another's key.
TreeDenotesCalls == failure = "OK" => tree_events = events

-----------------------------------------------------------------------------
(* The copies.                                                              *)

\* What a copied leaf is written with, if not by its type alone.
written_with(v) ==
  IF \/ Document[v].type = "string"
     \/ Document[v].type = "number" /\ Document[v].integer = "NOT_INTEGER"
  THEN Document[v].text ELSE NONE

member_calls(calls, k) == named(k.key) \o calls[k.value]

value_calls(calls, v) ==
  IF Document[v].type \notin Containers THEN leaf(Document[v].type, written_with(v))
  ELSE <<opens(Document[v].type)>>
         \o Strung([i \in DOMAIN kids(v) |-> member_calls(calls, kids(v)[i])])
         \o <<closes(Document[v].type)>>

\* The calls that write a value of the document; at the outer level of
\* object_begin_except the excluded keys are left out and the object stays open.
document_events(kind, v, excluded) ==
  LET calls[w \in DOMAIN Document] == value_calls(calls, w)
  IN  IF kind = "value" THEN calls[v]
      ELSE <<opens("object")>>
             \o Strung([i \in DOMAIN kids(v) |->
                          IF kids(v)[i].key \in excluded THEN <<>>
                          ELSE member_calls(calls, kids(v)[i])])

\* A copy that succeeds has added the value and nothing else, "as if the matching
\* writer calls had been made"; exclusion concerns the outer object's members only.
CopyIsFaithful ==
  [][copy_returns => SubSeq(events, copied.from + 1, Len(events))
                       = document_events(copied.kind, copied.value, copied.excluded)]_hvars
=============================================================================
