-------------------------------- MODULE Writer --------------------------------
(***************************************************************************)
(* The tree builder of src/src/writer.c: the calls of a client between     *)
(* create and release, and the copy of a parsed value, which makes the     *)
(* same calls one by one.  An allocation may fail wherever the code makes  *)
(* one.  A text is a record of what the writer asks of its bytes; a node   *)
(* at position i stands for the C index i - 1.  The key set is the map     *)
(* from keys to nodes that KeySet implements.                              *)
(***************************************************************************)
EXTENDS Links, Integers

CONSTANTS
  Texts,              \* [name, size, utf8, ascii, number]: keys, strings, lexemes
  ClientTexts,        \* those clients pass themselves
  ClientScalars,      \* the scalar types clients write themselves
  Profiles,           \* what clients pass as the profile
  Document,           \* a parsed document: the values a client may copy
  Exclusions,         \* sets of keys for object_begin_except
  MaxBytes, MaxDepth, MaxTokens,    \* the resolved limits
  MaximumNumberText,                \* MAELYS_JSON_MAXIMUM_NUMBER_TEXT
  InitialNodes,                     \* WRITER_INITIAL_NODES
  InitialSlots                      \* keyset_capacity(WRITER_INITIAL_KEYS)

Types == {"object", "array", "string", "number", "boolean", "null"}

ASSUME TextsAssumption ==
  /\ ClientTexts \subseteq Texts /\ ClientScalars \subseteq {"number", "boolean", "null"}
  /\ NONE \notin Texts
  /\ \A t \in Texts :
       /\ t.size \in Nat
       /\ t.utf8 \in BOOLEAN /\ t.ascii \in BOOLEAN /\ t.number \in BOOLEAN

\* A value of the document: `kids` are its members or elements, in order, each
\* later than its container; `integer` says what the integer readers answer.
ASSUME DocumentAssumption ==
  /\ DOMAIN Document \subseteq Nat
  /\ \A v \in DOMAIN Document :
       /\ Document[v].type \in Types
       /\ Document[v].text \in Texts \cup {NONE}
       /\ Document[v].type \in {"string", "number"} => Document[v].text # NONE
       /\ Document[v].integer \in {"OK", "RANGE", "NOT_INTEGER"}
       /\ Document[v].kids \in Seq([key : Texts \cup {NONE},
                                    value : {w \in DOMAIN Document : w > v}])
       /\ Document[v].type = "object" =>
            \A i \in DOMAIN Document[v].kids : Document[v].kids[i].key # NONE

ASSUME WriterAssumption ==
  /\ MaxBytes \in Nat \ {0} /\ MaxDepth \in Nat \ {0} /\ MaxTokens \in Nat \ {0}
  /\ MaximumNumberText \in Nat /\ InitialNodes \in Nat \ {0} /\ InitialSlots \in Nat \ {0}
  /\ NONE \notin {"RFC8259", "CONTRACT_ASCII"}

VARIABLES
  profile,                      \* NONE when there is no writer
  nodes, node_capacity,         \* the tree
  keys, key_slots,              \* nodes in the key set, capacity of its table
  stack,                        \* open containers, outermost first
  pending,                      \* pending_key
  finished, failure,
  texts,                        \* live copies of keys, strings and lexemes
  job,                          \* the copy under way, if any
  returned                      \* last call: [op, arg, code], arg of the accepted ones

tree_vars   == <<nodes, node_capacity, keys, key_slots, stack, pending, texts>>
writer_vars == <<profile, tree_vars, finished, failure>>
vars == <<writer_vars, job, returned>>

no_job == [kind |-> "none", todo |-> NONE, frames |-> <<>>, excluded |-> {}]
answer(op, arg, code) == [op |-> op, arg |-> arg, code |-> code]

-----------------------------------------------------------------------------
(* The failure model.                                                       *)

writer_fail(result) == failure' = IF failure = "OK" THEN result ELSE failure

writer_ready == ~finished /\ failure = "OK"

\* Returns without touching the writer.
Refuse(op, code) == returned' = answer(op, NONE, code) /\ UNCHANGED writer_vars

NotReady(op) == ~writer_ready /\ Refuse(op, "STATE")

\* Fails before anything is built.
Fail(op, code) ==
  /\ writer_fail(code)
  /\ returned' = answer(op, NONE, code)
  /\ UNCHANGED <<profile, tree_vars, finished>>

valid_text(t) == IF profile = "RFC8259" THEN t.utf8 ELSE t.ascii

-----------------------------------------------------------------------------
(* attach_node.                                                             *)

container == IF stack = <<>> THEN NONE ELSE stack[Len(stack)]
in_object == container # NONE /\ nodes[container].type = "object"

misplaced ==
  \/ container = NONE /\ nodes # <<>>
  \/ in_object # (pending # NONE)

\* The capacity grow_nodes leaves.
grow_nodes ==
  LET doubled == IF node_capacity = 0 THEN InitialNodes ELSE 2 * node_capacity
  IN  IF Len(nodes) < node_capacity THEN node_capacity
      ELSE IF doubled > MaxTokens THEN MaxTokens ELSE doubled

node(type, value, owned) ==
  [links |-> links_init(container), type |-> type, value |-> value, owned |-> owned,
   key |-> IF in_object THEN pending ELSE NONE]

\* What attach_node refuses before it takes a node.
attach_refuses(code) ==
  \/ misplaced /\ code = "STATE"
  \/ ~misplaced /\ Len(nodes) >= MaxTokens /\ code = "LIMIT"
  \/ /\ ~misplaced /\ Len(nodes) < MaxTokens
     /\ Len(nodes) >= node_capacity /\ code = "MEMORY"

has_room == ~misplaced /\ Len(nodes) < MaxTokens

keyset_full == (Cardinality(keys) + 1) * 2 > key_slots

\* The key set cannot grow: the node is counted, so that release frees its key,
\* but it is neither linked nor in the set.
KeyLost(op, type) ==
  /\ has_room /\ in_object /\ keyset_full
  /\ nodes' = Append(nodes, node(type, NONE, FALSE))
  /\ node_capacity' = grow_nodes
  /\ pending' = NONE
  /\ writer_fail("MEMORY")
  /\ returned' = answer(op, NONE, "MEMORY")
  /\ UNCHANGED <<profile, keys, key_slots, stack, texts, finished>>

Attached(op, arg, type, value, owned) ==
  /\ has_room
  /\ nodes' = attach(nodes, node(type, value, owned))
  /\ node_capacity' = grow_nodes
  /\ keys' = IF in_object THEN keys \cup {Len(nodes')} ELSE keys
  /\ key_slots' = IF in_object /\ keyset_full THEN 2 * key_slots ELSE key_slots
  /\ pending' = NONE
  /\ returned' = answer(op, arg, "OK")
  /\ UNCHANGED <<profile, finished, failure>>

AttachFails(op, type) ==
  \/ \E code \in {"STATE", "LIMIT", "MEMORY"} : attach_refuses(code) /\ Fail(op, code)
  \/ KeyLost(op, type)

-----------------------------------------------------------------------------
(* The calls that build.                                                    *)

depth_reached == Len(stack) >= MaxDepth

container_begin(type) ==
  \/ NotReady("begin")
  \/ writer_ready /\ depth_reached /\ Fail("begin", "LIMIT")
  \/ writer_ready /\ ~depth_reached /\ AttachFails("begin", type)
  \/ /\ writer_ready /\ ~depth_reached
     /\ Attached("begin", type, type, NONE, FALSE)
     /\ stack' = Append(stack, Len(nodes'))
     /\ UNCHANGED texts

\* Mutant: a key without a value is forgotten when the object ends.
may_end_early(type) == container # NONE /\ nodes[container].type = type
may_end(type) ==
  container # NONE /\ nodes[container].type = type /\ pending = NONE

container_end(type) ==
  \/ NotReady("end")
  \/ writer_ready /\ ~may_end(type) /\ Fail("end", "STATE")
  \/ /\ writer_ready /\ may_end(type)
     /\ stack' = SubSeq(stack, 1, Len(stack) - 1)
     /\ returned' = answer("end", type, "OK")
     /\ UNCHANGED <<profile, nodes, node_capacity, keys, key_slots, pending, texts,
                    finished, failure>>

\* Mutant: keys are looked up without their object.
keyset_contains_anywhere(key) == \E i \in keys : nodes[i].key = key
\* Mutant: the set is not asked.
keyset_contains_never(key) == FALSE
keyset_contains(key) ==
  \E i \in keys : nodes[i].links.parent = container /\ nodes[i].key = key

\* What writer_key answers once the writer is ready.
key_outcomes(key) ==
  IF ~in_object \/ pending # NONE THEN {"STATE"}
  ELSE IF key.size > MaxBytes THEN {"LIMIT"}
  ELSE IF keyset_contains(key) THEN {"DUPLICATE_KEY"}
  ELSE {"OK", "MEMORY"}

writer_key(key) ==
  \/ ~valid_text(key) /\ Refuse("key", "ARGUMENT")
  \/ valid_text(key) /\ NotReady("key")
  \/ /\ valid_text(key) /\ writer_ready
     /\ \E code \in key_outcomes(key) \ {"OK"} : Fail("key", code)
  \/ /\ valid_text(key) /\ writer_ready /\ "OK" \in key_outcomes(key)
     /\ pending' = key
     /\ texts' = texts + 1
     /\ returned' = answer("key", key.name, "OK")
     /\ UNCHANGED <<profile, nodes, node_capacity, keys, key_slots, stack, finished, failure>>

\* Mutant: the copy is lost when the node is refused.
OwnText_leaked(op, text, type) ==
  \/ Fail(op, "MEMORY")
  \/ \E code \in {"STATE", "LIMIT"} :
       /\ attach_refuses(code) /\ writer_fail(code) /\ texts' = texts + 1
       /\ returned' = answer(op, NONE, code)
       /\ UNCHANGED <<profile, nodes, node_capacity, keys, key_slots, stack, pending, finished>>
  \/ /\ Attached(op, text.name, type, text, TRUE)
     /\ texts' = texts + 1
     /\ UNCHANGED stack

\* The bytes are copied before the node is attached, and freed if it is not.
OwnText(op, text, type) ==
  \/ Fail(op, "MEMORY")
  \/ AttachFails(op, type)
  \/ /\ Attached(op, text.name, type, text, TRUE)
     /\ texts' = texts + 1
     /\ UNCHANGED stack

writer_string(text) ==
  \/ ~valid_text(text) /\ Refuse("string", "ARGUMENT")
  \/ valid_text(text) /\ NotReady("string")
  \/ /\ valid_text(text) /\ writer_ready /\ text.size > MaxBytes
     /\ Fail("string", "LIMIT")
  \/ /\ valid_text(text) /\ writer_ready /\ text.size <= MaxBytes
     /\ OwnText("string", text, "string")

write_number_lexeme(text, maximum) ==
  LET accepted == text.size <= maximum /\ text.number
  IN  \/ ~accepted /\ Refuse("lexeme", "ARGUMENT")
      \/ accepted /\ NotReady("lexeme")
      \/ accepted /\ writer_ready /\ text.size > MaxBytes /\ Fail("lexeme", "LIMIT")
      \/ accepted /\ writer_ready /\ text.size <= MaxBytes /\ OwnText("lexeme", text, "number")

\* u64, i64, boolean and null: the node holds the value itself.
attach_scalar(type) ==
  \/ NotReady("scalar")
  \/ writer_ready /\ AttachFails("scalar", type)
  \/ writer_ready /\ Attached("scalar", type, type, NONE, FALSE) /\ UNCHANGED <<stack, texts>>

-----------------------------------------------------------------------------
(* Copying a parsed value.                                                  *)

value_type(v) == IF v \in DOMAIN Document THEN Document[v].type ELSE "none"

top == job.frames[Len(job.frames)]
kids(v) == Document[v].kids

Copying == job.kind \in {"value", "except"}

\* The outermost frame of object_begin_except, which stays open.
Outer == job.kind = "except" /\ Len(job.frames) = 1

next_kid == kids(top.value)[top.next]

\* Mutant: the loop stays at a member it is done with.
visited_again == job.frames
visited == [job.frames EXCEPT ![Len(job.frames)].next = @ + 1]

\* After a call made on behalf of the copy: go on, or give up.
Then(frames, todo) ==
  job' = IF returned'.code = "OK" THEN [job EXCEPT !.frames = frames, !.todo = todo]
         ELSE [job EXCEPT !.kind = "failed"]

copy_number(v) ==
  \/ Document[v].integer = "OK" /\ attach_scalar("number")
  \/ Document[v].integer = "RANGE" /\ Refuse("integer", "RANGE")
  \/ Document[v].integer = "NOT_INTEGER" /\ write_number_lexeme(Document[v].text, MaxBytes)

\* copy_value, and the first call of copy_object and copy_array.
copy_value ==
  LET v    == job.todo
      type == value_type(v)
  IN  /\ Copying /\ v # NONE
      /\ \/ type = "string" /\ writer_string(Document[v].text) /\ Then(job.frames, NONE)
         \/ type = "number" /\ copy_number(v) /\ Then(job.frames, NONE)
         \/ type \in {"boolean", "null"} /\ attach_scalar(type) /\ Then(job.frames, NONE)
         \/ /\ type \in {"object", "array"} /\ container_begin(type)
            /\ Then(Append(job.frames, [value |-> v, next |-> 1]), NONE)

InFrame == Copying /\ job.todo = NONE /\ job.frames # <<>>
HasNext == top.next <= Len(kids(top.value))

\* Mutant: exclusion reaches into nested objects.
key_excluded_deep == next_kid.key \in job.excluded
key_excluded == Outer /\ next_kid.key \in job.excluded

copy_member ==
  /\ InFrame /\ HasNext /\ value_type(top.value) = "object"
  /\ \/ /\ key_excluded
        /\ job' = [job EXCEPT !.frames = visited]
        /\ UNCHANGED <<writer_vars, returned>>
     \/ /\ ~key_excluded
        /\ writer_key(next_kid.key)
        /\ Then(visited, next_kid.value)

copy_element ==
  /\ InFrame /\ HasNext /\ value_type(top.value) = "array"
  /\ job' = [job EXCEPT !.frames = visited, !.todo = next_kid.value]
  /\ UNCHANGED <<writer_vars, returned>>

copy_end ==
  /\ InFrame /\ ~HasNext /\ ~Outer
  /\ container_end(value_type(top.value))
  /\ Then(SubSeq(job.frames, 1, Len(job.frames) - 1), NONE)

copy_returns ==
  /\ Copying /\ job.todo = NONE
  /\ job.frames = <<>> \/ (Outer /\ ~HasNext)
  /\ returned' = answer(job.kind, NONE, "OK")
  /\ job' = no_job
  /\ UNCHANGED writer_vars

\* Mutant: an invalid text leaves the half-built tree usable.
copy_failed_argument ==
  /\ job.kind = "failed"
  /\ IF returned.code = "ARGUMENT" THEN UNCHANGED failure ELSE writer_fail(returned.code)
  /\ returned' = answer("copy", NONE, returned.code)
  /\ job' = no_job
  /\ UNCHANGED <<profile, tree_vars, finished>>

copy_failed ==
  /\ job.kind = "failed"
  /\ writer_fail(IF returned.code = "ARGUMENT" THEN "STATE" ELSE returned.code)
  /\ returned' = answer("copy", NONE, returned.code)
  /\ job' = no_job
  /\ UNCHANGED <<profile, tree_vars, finished>>

writer_value(v) ==
  \/ value_type(v) = "none" /\ Refuse("value", "ARGUMENT") /\ UNCHANGED job
  \/ value_type(v) # "none" /\ NotReady("value") /\ UNCHANGED job
  \/ /\ value_type(v) # "none" /\ writer_ready
     /\ job' = [no_job EXCEPT !.kind = "value", !.todo = v]
     /\ UNCHANGED <<writer_vars, returned>>

object_begin_except(v, excluded) ==
  \/ value_type(v) # "object" /\ Refuse("except", "ARGUMENT") /\ UNCHANGED job
  \/ value_type(v) = "object" /\ NotReady("except") /\ UNCHANGED job
  \/ /\ value_type(v) = "object" /\ writer_ready
     /\ container_begin("object")
     /\ job' = IF returned'.code # "OK" THEN no_job
               ELSE [kind |-> "except", todo |-> NONE, excluded |-> excluded,
                     frames |-> <<[value |-> v, next |-> 1]>>]

CopyStep ==
  \/ copy_value \/ copy_member \/ copy_element \/ copy_end \/ copy_returns \/ copy_failed

-----------------------------------------------------------------------------
(* The life of a writer.                                                    *)

Idle == job.kind = "none"

\* The structures of a new writer are freed again if one of them is refused.
writer_create ==
  /\ profile = NONE
  /\ \E p \in Profiles :
       \/ /\ p \in {"RFC8259", "CONTRACT_ASCII"}
          /\ profile' = p /\ key_slots' = InitialSlots
          /\ returned' = answer("create", p, "OK")
       \/ /\ p \in {"RFC8259", "CONTRACT_ASCII"}
          /\ returned' = answer("create", p, "MEMORY")
          /\ UNCHANGED <<profile, key_slots>>
       \/ /\ p \notin {"RFC8259", "CONTRACT_ASCII"}
          /\ returned' = answer("create", p, "ARGUMENT")
          /\ UNCHANGED <<profile, key_slots>>
  /\ UNCHANGED <<nodes, node_capacity, keys, stack, pending, texts, finished, failure, job>>

\* The copies release frees: the keys and texts of every counted node and the
\* pending key.
reachable == Cardinality({i \in DOMAIN nodes : nodes[i].key # NONE})
               + Cardinality({i \in DOMAIN nodes : nodes[i].owned})
               + (IF pending = NONE THEN 0 ELSE 1)

writer_release ==
  /\ profile # NONE /\ Idle
  /\ profile' = NONE
  /\ texts' = texts - reachable
  /\ nodes' = <<>> /\ node_capacity' = 0 /\ keys' = {} /\ key_slots' = 0
  /\ stack' = <<>> /\ pending' = NONE /\ finished' = FALSE /\ failure' = "OK"
  /\ returned' = answer("release", NONE, "OK")
  /\ UNCHANGED job

complete == stack = <<>> /\ pending = NONE /\ nodes # <<>>

\* maelys_json_serialize only reads the tree; its output may be too long or not
\* fit in memory.
serialize == {"OK", "LIMIT", "MEMORY"}

Finishes(code) == finished' = TRUE /\ returned' = answer("finish", NONE, code)

writer_finish ==
  \/ NotReady("finish")
  \/ writer_ready /\ ~complete /\ Fail("finish", "STATE")
  \/ /\ writer_ready /\ complete
     /\ \E code \in serialize \ {"OK"} : Fail("finish", code)
  \/ /\ writer_ready /\ complete
     /\ Finishes("OK")
     /\ UNCHANGED <<profile, tree_vars, failure>>

\* finish_file: the bytes are written after the writer is finished.
StreamFails ==
  /\ writer_ready /\ complete
  /\ Finishes("IO")
  /\ UNCHANGED <<profile, tree_vars, failure>>

Client ==
  /\ profile # NONE /\ Idle
  /\ \/ UNCHANGED job /\ (\/ \E type \in {"object", "array"} :
                                container_begin(type) \/ container_end(type)
                          \/ \E type \in ClientScalars : attach_scalar(type)
                          \/ \E t \in ClientTexts :
                               \/ writer_key(t) \/ writer_string(t)
                               \/ write_number_lexeme(t, MaximumNumberText)
                          \/ writer_finish \/ StreamFails)
     \/ \E v \in DOMAIN Document \cup {0} :
          \/ writer_value(v)
          \/ \E excluded \in Exclusions : object_begin_except(v, excluded)

Init ==
  /\ profile = NONE
  /\ nodes = <<>> /\ node_capacity = 0 /\ keys = {} /\ key_slots = 0
  /\ stack = <<>> /\ pending = NONE /\ finished = FALSE /\ failure = "OK"
  /\ texts = 0 /\ job = no_job /\ returned = answer("none", NONE, "OK")

Next == writer_create \/ writer_release \/ Client \/ CopyStep

Spec == Init /\ [][Next]_vars

\* A copy runs to its end: nothing in it waits for anybody.
FairSpec == Spec /\ WF_vars(CopyStep)

-----------------------------------------------------------------------------
(* Properties.                                                              *)

Codes == {"OK", "ARGUMENT", "MEMORY", "LIMIT", "STATE", "DUPLICATE_KEY", "RANGE", "IO"}

Node == [links : LinksOf(Nat), type : Types, key : Texts \cup {NONE},
         value : Texts \cup {NONE}, owned : BOOLEAN]

\* Every field of the writer has its type; a failure is never ARGUMENT, which is
\* the assertion of writer_fail.
TypeOK ==
  /\ nodes \in Seq(Node) /\ node_capacity \in Nat
  /\ keys \subseteq DOMAIN nodes /\ key_slots \in Nat
  /\ stack \in Seq(DOMAIN nodes)
  /\ pending \in Texts \cup {NONE} /\ texts \in Nat
  /\ finished \in BOOLEAN /\ failure \in Codes \ {"ARGUMENT", "IO"}
  /\ job.kind \in {"none", "value", "except", "failed"}
  /\ returned.code \in Codes

\* The open containers fit in the stack create allocated for maximum_depth, and
\* the nodes in the array grow_nodes doubles up to maximum_tokens.
ArraysFit ==
  /\ Len(stack) <= MaxDepth
  /\ Len(nodes) <= node_capacity /\ node_capacity <= MaxTokens

\* Every live copy of a key, string or lexeme is one release will free, on every
\* failure path of every call; after release none is left.
NoTextLost == texts = reachable

\* As long as no call has failed, the nodes are one tree whose links agree.
TreeWellLinked == failure = "OK" => WellLinked(nodes)

\* What every call relies on: the fields have their types, the arrays hold what is in
\* them, and the nodes of a writer that has not failed are one tree.
WriterOK == TypeOK /\ ArraysFit /\ TreeWellLinked

\* No object ever holds two members of the same key, and the assertion of
\* attach_node holds: a pending key is not in its object.
UniqueKeys ==
  /\ \A i, j \in DOMAIN nodes :
       i # j /\ nodes[i].key # NONE /\ nodes[i].links.parent = nodes[j].links.parent
         => nodes[i].key # nodes[j].key
  /\ pending # NONE => ~keyset_contains(pending)

\* A copy that stops midway leaves a tree the client did not ask for, and the
\* writer refuses to go on with it: "Any failure marks the writer failed".
FailedCopyIsSticky == returned.op = "copy" => failure # "OK"

\* writer_value and object_begin_except return.
CopyReturns == ~Idle ~> Idle

-----------------------------------------------------------------------------
(* The contract.                                                            *)

\* What the contract sees of the open containers: their types and the keys the key
\* set holds for them.
open_containers ==
  [d \in DOMAIN stack |->
     [type |-> nodes[stack[d]].type,
      keys |-> {nodes[i].key : i \in {j \in keys : nodes[j].links.parent = stack[d]}}]]

Contract == INSTANCE Builder WITH
  Keys <- Texts, active <- profile # NONE, open <- open_containers, rooted <- nodes # <<>>

\* Every call of the writer, and every step of a copy, is one the contract allows.
ImplementsContract == Contract!Spec
=============================================================================
