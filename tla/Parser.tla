------------------------------- MODULE Parser -------------------------------
(***************************************************************************)
(* maelys_json_document_parse (src/src/parser.c): one call at a time, from *)
(* the allocation bound to the published document, and its release.        *)
(*                                                                         *)
(* The input is revealed lazily.  A lexeme is what the scanner meets after *)
(* skip_space: its leading blanks, its width in bytes and what the byte    *)
(* loops of the scanner and the decoder find in it.  The recursion of      *)
(* parse_value is the sequence `stack` of the open containers, and `pc` is *)
(* the place in the innermost frame.  An allocation may fail wherever the  *)
(* code makes one.                                                         *)
(***************************************************************************)
EXTENDS Links, Integers

CONSTANTS
  Lexemes,      \* what the input may be made of
  Calls,        \* [size, profile] of the calls the client may make
  MaxBytes, MaxDepth, MaxTokens,         \* the resolved limits
  SizeMax,                               \* SIZE_MAX
  DocumentSize, TokenSize, WordSize,     \* sizeof the structures, in bytes
  MinimumCapacity                        \* KEYSET_MINIMUM_CAPACITY

Profiles   == {"RFC8259", "CONTRACT_ASCII", "LAST_WINS"}
Primitives == {"number", "literal", "junk"}
Kinds      == Primitives \cup {"{", "}", "[", "]", ",", ":", "string", "eof"}
Failures   == {"ARGUMENT", "MEMORY", "LIMIT", "SYNTAX", "UTF8", "DUPLICATE_KEY"}

\* A token or the end of the input; `text_size` counts decoded bytes, which
\* are never more than the bytes between the quotes.
ASSUME LexemesAssumption ==
  \A l \in Lexemes :
    /\ l.kind \in Kinds
    /\ l.lead \in Nat /\ l.width \in Nat /\ l.text_size \in Nat
    /\ l.width = 0 <=> l.kind = "eof"
    /\ l.closed \in BOOLEAN /\ l.decoded \in {"OK", "SYNTAX", "UTF8"}
    /\ l.control \in Nat \cup {NONE} /\ l.exotic \in Nat \cup {NONE} /\ l.bad \in Nat
    /\ l.kind = "string" /\ l.closed => l.text_size + 2 <= l.width
    /\ l.kind = "number" => l.text_size = l.width /\ l.text # NONE
    /\ l.kind = "literal" => l.text_size = 0 /\ l.text = NONE

ASSUME CallsAssumption == \A c \in Calls : c.size \in Nat

ASSUME LimitsAssumption ==
  /\ MaxBytes \in Nat /\ SizeMax \in Nat
  /\ MaxDepth \in Nat \ {0} /\ MaxTokens \in Nat \ {0}

ASSUME LayoutAssumption ==
  DocumentSize \in Nat \ {0} /\ TokenSize \in Nat \ {0} /\ WordSize \in Nat \ {0}

ASSUME CapacityAssumption == MinimumCapacity \in Nat \ {0}

VARIABLES
  pc, call,                    \* where the call is, and its arguments
  input, offset,               \* lexemes read so far, bytes consumed
  tokens, stack,               \* token array, open containers (outermost first)
  arena_used, arena_peak,      \* bytes of text kept, end of the furthest claim
  keys, key_count, slots,      \* the key set: indices held, count and capacity
  duplicate_count,
  walk, packed,                \* compact_walk's frames and the packed document
  children,                    \* document->children
  bound, heap, peak,           \* allocation bound, live blocks, high-water mark
  result, error                \* what the call returns and *out_error

document_vars == <<tokens, arena_used, arena_peak, duplicate_count>>
keyset_vars   == <<keys, key_count, slots>>
memory_vars   == <<heap, peak>>
compact_vars  == <<walk, packed>>
outcome_vars  == <<result, error>>
vars == <<pc, call, input, offset, document_vars, stack, keyset_vars,
          compact_vars, children, bound, memory_vars, outcome_vars>>

-----------------------------------------------------------------------------
(* Derived capacities.                                                      *)

AtLeastOne(n) == IF n = 0 THEN 1 ELSE n
Lower(m, n)   == IF m < n THEN m ELSE n
Upper(m, n)   == IF m < n THEN n ELSE m

\* Mutant: two bytes of input for each token.
token_capacity_halved == AtLeastOne(Lower(call.size \div 2, MaxTokens))
token_capacity == AtLeastOne(Lower(call.size, MaxTokens))
\* Mutant: no room for the terminating NULs.
arena_capacity_tight == call.size
arena_capacity == call.size + token_capacity + 1
\* Mutant: the table starts at its minimum and relies on growing.
expected_keys_few == 1
expected_keys  == token_capacity \div 2 + 1

\* The token count maelys_json_document_parse_allocation_bound assumes.
bound_tokens == AtLeastOne(Lower(call.size, MaxTokens))

\* Mutant: the second copy that compaction makes is forgotten.
allocation_total_single(capacity) ==
  DocumentSize + (call.size + 1) + bound_tokens * TokenSize
    + (call.size + bound_tokens + 1) + capacity * WordSize + bound_tokens * WordSize

allocation_total(capacity) ==
  LET copies == IF call.profile = "LAST_WINS" THEN 2 ELSE 1
  IN  DocumentSize + (call.size + 1) + copies * (bound_tokens * TokenSize)
        + copies * (call.size + bound_tokens + 1)
        + capacity * WordSize + bound_tokens * WordSize

-----------------------------------------------------------------------------
(* The heap: one entry for each block a call may hold.                      *)

Blocks == {"document", "bytes", "tokens", "arena", "keys",
           "packed_tokens", "packed_arena", "children"}

Live(h) == h["document"] + h["bytes"] + h["tokens"] + h["arena"] + h["keys"]
             + h["packed_tokens"] + h["packed_arena"] + h["children"]

empty_heap == [b \in Blocks |-> 0]

allocate(b, bytes) ==
  /\ heap' = [heap EXCEPT ![b] = bytes]
  /\ peak' = Upper(peak, Live(heap'))

document_blocks == {"document", "bytes", "tokens", "arena", "children"}

document_release(h) == [b \in Blocks |-> IF b \in document_blocks THEN 0 ELSE h[b]]

\* Mutant: the slots stay allocated.
keyset_release_nothing(h) == h
keyset_release(h) == [h EXCEPT !["keys"] = 0]

-----------------------------------------------------------------------------
(* Scanning.                                                                *)

\* A primitive runs up to a blank, ',', '}' or ']'.
Follows(l) ==
  input # <<>> /\ input[Len(input)].kind \in Primitives
    => l.lead > 0 \/ l.kind \in {",", "}", "]", "eof"}

\* `l` can be what skip_space stops at in an input of call.size bytes.
Readable(l) ==
  /\ Follows(l)
  /\ offset + l.lead + l.width <= call.size
  /\ l.kind = "eof" <=> offset + l.lead = call.size
  /\ l.kind = "string" /\ ~l.closed => offset + l.lead + l.width = call.size

at(l)  == offset + l.lead
end(l) == offset + l.lead + l.width

Consume(l) == input' = Append(input, l) /\ offset' = end(l)

error_set(code, position) ==
  [code |-> code, offset |-> Lower(position, call.size)]

\* fail(), and the returns of every open frame.
fail(code, position) ==
  /\ result' = code
  /\ error'  = error_set(code, position)
  /\ pc' = "finish"
  /\ UNCHANGED <<call, stack, keyset_vars, compact_vars, children, bound,
                 memory_vars>>

fails(l, code, position) ==
  Consume(l) /\ fail(code, position) /\ UNCHANGED document_vars

-----------------------------------------------------------------------------
(* Tokens.                                                                  *)

parent == IF stack = <<>> THEN NONE ELSE stack[Len(stack)]

token(type, object_key, text, text_size) ==
  [links |-> links_init(parent), type |-> type, object_key |-> object_key,
   text |-> text, text_size |-> text_size, superseded |-> FALSE,
   children_offset |-> NONE]

token_limit == Len(tokens) >= token_capacity

\* arena_claim(capacity) followed by the text of `used` bytes and its NUL.
arena_claim(capacity, used) ==
  /\ arena_peak' = Upper(arena_peak, arena_used + capacity)
  /\ arena_used' = arena_used + used + 1

after_value == pc' = IF stack = <<>> THEN "end" ELSE "delimiter"

\* What happens to everything add_token and its caller leave alone.
continue ==
  UNCHANGED <<call, compact_vars, children, bound, memory_vars, outcome_vars>>

-----------------------------------------------------------------------------
(* parse_string.                                                            *)

\* Bytes scan_string_body refuses before the closing quote.
refused(l) ==
  ({l.control} \cup (IF call.profile = "CONTRACT_ASCII" THEN {l.exotic} ELSE {}))
    \ {NONE}

\* How far parse_string gets before it decodes the text.
string_outcome(l) ==
  IF refused(l) # {} THEN [code |-> "SYNTAX", offset |-> at(l) + Least(refused(l))]
  ELSE IF ~l.closed THEN [code |-> "SYNTAX", offset |-> at(l)]
  ELSE IF token_limit THEN [code |-> "LIMIT", offset |-> at(l) + 1]
  ELSE [code |-> "OK", offset |-> at(l)]

StringFails(l) ==
  LET outcome == string_outcome(l)
  IN  /\ outcome.code # "OK"
      /\ fails(l, outcome.code, outcome.offset)

\* maelys_json_decode_string refuses an escape or an encoding.
DecodeFails(l, object_key) ==
  /\ string_outcome(l).code = "OK" /\ l.decoded # "OK"
  /\ Consume(l)
  /\ tokens' = attach(tokens, token("string", object_key, NONE, 0))
  /\ arena_peak' = Upper(arena_peak, arena_used + (l.width - 1))
  /\ fail(l.decoded, at(l) + 1 + l.bad)
  /\ UNCHANGED <<arena_used, duplicate_count>>

StringAccepted(l) ==
  /\ string_outcome(l).code = "OK" /\ l.decoded = "OK"
  /\ Consume(l)
  /\ arena_claim(l.width - 1, l.text_size)

StringValue(l) ==
  /\ StringAccepted(l)
  /\ tokens' = attach(tokens, token("string", FALSE, l.text, l.text_size))
  /\ after_value
  /\ UNCHANGED <<stack, keyset_vars, duplicate_count>>
  /\ continue

\* Mutant: keys are compared without their object.
find_slot_anywhere(text) == {i \in keys : tokens[i].text = text}

\* The stored key of the same object with the same decoded text.
find_slot(text) ==
  {i \in keys : tokens[i].links.parent = parent /\ tokens[i].text = text}

grows == (key_count + 1) * 2 > slots

\* Insertion of a key its object does not have yet.  grow() holds both tables
\* while it rehashes; that it fails for want of memory is left out, because it
\* is never called (KeysetNeverGrows).
NewKey(l) ==
  LET index == Len(tokens) + 1
  IN  /\ StringAccepted(l)
      /\ find_slot(l.text) = {}
      /\ tokens' = attach(tokens, token("string", TRUE, l.text, l.text_size))
      /\ keys' = keys \cup {index}
      /\ key_count' = key_count + 1
      /\ slots' = IF grows THEN 2 * slots ELSE slots
      /\ heap' = [heap EXCEPT !["keys"] = slots' * WordSize]
      /\ peak' = Upper(peak, Live(heap) + (IF grows THEN 2 * slots * WordSize ELSE 0))
      /\ pc' = "colon"
      /\ UNCHANGED <<call, stack, duplicate_count, compact_vars, children,
                     bound, outcome_vars>>

\* keyset_insert_last: the new occurrence replaces the stored one.
RepeatedKey(l) ==
  LET index    == Len(tokens) + 1
      previous == find_slot(l.text)
      grown    == attach(tokens, token("string", TRUE, l.text, l.text_size))
  IN  /\ call.profile = "LAST_WINS"
      /\ StringAccepted(l)
      /\ previous # {}
      /\ tokens' = [i \in DOMAIN grown |->
                      IF i \in previous THEN [grown[i] EXCEPT !.superseded = TRUE]
                                        ELSE grown[i]]
      /\ keys' = (keys \ previous) \cup {index}
      /\ duplicate_count' = duplicate_count + 1
      /\ pc' = "colon"
      /\ UNCHANGED <<stack, key_count, slots>>
      /\ continue

DuplicateKey(l) ==
  /\ call.profile # "LAST_WINS"
  /\ StringAccepted(l)
  /\ find_slot(l.text) # {}
  /\ tokens' = attach(tokens, token("string", TRUE, l.text, l.text_size))
  /\ fail("DUPLICATE_KEY", at(l))
  /\ UNCHANGED duplicate_count

KeyExpected(l) ==
  /\ l.kind # "string"
  /\ fails(l, "SYNTAX", at(l))

parse_key(l) ==
  \/ KeyExpected(l)
  \/ l.kind = "string" /\ (\/ StringFails(l) \/ DecodeFails(l, TRUE)
                          \/ NewKey(l) \/ RepeatedKey(l) \/ DuplicateKey(l))

-----------------------------------------------------------------------------
(* parse_object, parse_array, parse_primitive and parse_value.              *)

Open(l) ==
  /\ l.kind \in {"{", "["}
  /\ Len(stack) < MaxDepth /\ ~token_limit
  /\ Consume(l)
  /\ stack' = Append(stack, Len(tokens) + 1)
  /\ \/ /\ l.kind = "{" /\ pc' = "first_key"
        /\ tokens' = attach(tokens, token("object", FALSE, NONE, 0))
     \/ /\ l.kind = "[" /\ pc' = "first_element"
        /\ tokens' = attach(tokens, token("array", FALSE, NONE, 0))
  /\ UNCHANGED <<arena_used, arena_peak, duplicate_count, keyset_vars>>
  /\ continue

OpenFails(l) ==
  /\ l.kind \in {"{", "["}
  /\ Len(stack) >= MaxDepth \/ token_limit
  /\ fails(l, "LIMIT", at(l))

Close(l) ==
  /\ Consume(l)
  /\ stack' = SubSeq(stack, 1, Len(stack) - 1)
  /\ pc' = IF Len(stack) = 1 THEN "end" ELSE "delimiter"
  /\ UNCHANGED <<document_vars, keyset_vars>>
  /\ continue

\* A literal keeps no text; a number keeps its lexeme.
Primitive(l) ==
  /\ l.kind \in {"number", "literal"} /\ ~token_limit
  /\ Consume(l)
  /\ tokens' = attach(tokens, token(l.kind, FALSE, l.text, l.text_size))
  /\ IF l.kind = "number" THEN arena_claim(l.text_size + 1, l.text_size)
                          ELSE UNCHANGED <<arena_used, arena_peak>>
  /\ after_value
  /\ UNCHANGED <<stack, keyset_vars, duplicate_count>>
  /\ continue

PrimitiveLimit(l) ==
  /\ l.kind \in {"number", "literal"} /\ token_limit
  /\ fails(l, "LIMIT", at(l))

\* The end of the input, or bytes that are neither a literal nor a number.
ValueExpected(l) ==
  /\ l.kind \in {"eof", "junk", ",", ":", "}", "]"}
  /\ fails(l, "SYNTAX", at(l))

parse_value(l) ==
  \/ Open(l) \/ OpenFails(l)
  \/ l.kind = "string" /\ (StringFails(l) \/ DecodeFails(l, FALSE) \/ StringValue(l))
  \/ Primitive(l) \/ PrimitiveLimit(l)
  \/ ValueExpected(l)

Colon(l) ==
  \/ /\ l.kind = ":"
     /\ Consume(l)
     /\ pc' = "member"
     /\ UNCHANGED <<document_vars, stack, keyset_vars>>
     /\ continue
  \/ l.kind # ":" /\ fails(l, "SYNTAX", at(l))

in_object == tokens[parent].type = "object"
closing   == IF in_object THEN "}" ELSE "]"

\* Mutant: a comma may be followed by the closing delimiter.
container_delimiter_trailing(l) ==
  \/ l.kind = closing /\ Close(l)
  \/ /\ l.kind = ","
     /\ Consume(l)
     /\ pc' = IF in_object THEN "first_key" ELSE "first_element"
     /\ UNCHANGED <<document_vars, stack, keyset_vars>>
     /\ continue
  \/ l.kind \notin {closing, ","} /\ fails(l, "SYNTAX", at(l))

container_delimiter(l) ==
  \/ l.kind = closing /\ Close(l)
  \/ /\ l.kind = ","
     /\ Consume(l)
     /\ pc' = IF in_object THEN "key" ELSE "element"
     /\ UNCHANGED <<document_vars, stack, keyset_vars>>
     /\ continue
  \/ l.kind \notin {closing, ","} /\ fails(l, "SYNTAX", at(l))

TrailingBytes(l) ==
  \/ /\ l.kind = "eof"
     /\ Consume(l)
     /\ pc' = "finish"
     /\ UNCHANGED <<document_vars, stack, keyset_vars>>
     /\ continue
  \/ l.kind # "eof" /\ fails(l, "SYNTAX", at(l))

\* One lexeme, read where the parser stands.
Scan(l) ==
  /\ Readable(l)
  /\ \/ pc \in {"root", "member", "element"} /\ parse_value(l)
     \/ pc = "first_element" /\ l.kind # "]" /\ parse_value(l)
     \/ pc = "first_element" /\ l.kind = "]" /\ Close(l)
     \/ pc = "first_key" /\ l.kind # "}" /\ parse_key(l)
     \/ pc = "first_key" /\ l.kind = "}" /\ Close(l)
     \/ pc = "key" /\ parse_key(l)
     \/ pc = "colon" /\ Colon(l)
     \/ pc = "delimiter" /\ container_delimiter(l)
     \/ pc = "end" /\ TrailingBytes(l)

-----------------------------------------------------------------------------
(* Before the first byte: arguments, allocation bound, document, key set.   *)

no_error == [code |-> "OK", offset |-> 0]

empty_packed == [tokens |-> <<>>, token_count |-> 0, arena_used |-> 0,
                 token_capacity |-> NONE, arena_capacity |-> NONE]

\* A call that returns before it holds anything.
refuse(code) ==
  /\ result' = code
  /\ error' = [code |-> code, offset |-> 0]
  /\ pc' = "done"

Call ==
  /\ pc = "idle"
  /\ \E c \in Calls :
       /\ call' = c
       /\ \/ c.profile \notin Profiles /\ refuse("ARGUMENT") /\ UNCHANGED slots
          \/ c.profile \in Profiles /\ c.size > MaxBytes /\ refuse("LIMIT") /\ UNCHANGED slots
          \/ /\ c.profile \in Profiles /\ c.size <= MaxBytes
             /\ slots' = MinimumCapacity
             /\ pc' = "bound"
             /\ UNCHANGED outcome_vars
  /\ UNCHANGED <<input, offset, document_vars, stack, keys, key_count,
                 compact_vars, children, bound, memory_vars>>

\* Mutant: the shift is missing.
DoubleCapacity_never ==
  /\ \/ pc = "bound" /\ slots < (bound_tokens \div 2 + 1) * 2
     \/ pc = "reserve" /\ slots < expected_keys * 2
  /\ UNCHANGED vars

\* One round of the loop of maelys_json_keyset_capacity.
DoubleCapacity ==
  /\ \/ pc = "bound" /\ slots < (bound_tokens \div 2 + 1) * 2
     \/ pc = "reserve" /\ slots < expected_keys * 2
  /\ slots' = 2 * slots
  /\ UNCHANGED <<pc, input, offset, document_vars, stack, keys, key_count>>
  /\ continue

\* The sum may exceed SIZE_MAX, and then the call is refused.
AllocationBound ==
  /\ pc = "bound" /\ slots >= (bound_tokens \div 2 + 1) * 2
  /\ \/ /\ allocation_total(slots) > SizeMax
        /\ refuse("LIMIT") /\ UNCHANGED <<bound, slots>>
     \/ /\ allocation_total(slots) <= SizeMax
        /\ bound' = allocation_total(slots) /\ slots' = 0
        /\ pc' = "allocate" /\ UNCHANGED outcome_vars
  /\ UNCHANGED <<call, input, offset, document_vars, stack, keys, key_count,
                 compact_vars, children, memory_vars>>

\* `got` are the blocks malloc grants; without the document nothing is asked.
AllocateDocument ==
  /\ pc = "allocate"
  /\ \E got \in SUBSET {"bytes", "tokens", "arena"} \cup {{NONE}} :
       LET granted == [b \in Blocks |->
             CASE b = "document" /\ got # {NONE} -> DocumentSize
               [] b = "bytes" /\ b \in got -> call.size + 1
               [] b = "tokens" /\ b \in got -> token_capacity * TokenSize
               [] b = "arena" /\ b \in got -> arena_capacity
               [] OTHER -> 0]
       IN  /\ peak' = Upper(peak, Live(granted))
           /\ \/ /\ got = {"bytes", "tokens", "arena"}
                 /\ heap' = granted
                 /\ slots' = MinimumCapacity
                 /\ pc' = "reserve" /\ UNCHANGED outcome_vars
              \/ /\ got # {"bytes", "tokens", "arena"}
                 /\ heap' = document_release(granted)
                 /\ refuse("MEMORY") /\ UNCHANGED slots
  /\ UNCHANGED <<call, input, offset, document_vars, stack, keys, key_count,
                 compact_vars, children, bound>>

KeysetInit ==
  /\ pc = "reserve" /\ slots >= expected_keys * 2
  /\ \/ /\ allocate("keys", slots * WordSize)
        /\ pc' = "root" /\ UNCHANGED outcome_vars
     \/ /\ result' = "MEMORY" /\ pc' = "finish"
        /\ UNCHANGED <<memory_vars, error>>
  /\ UNCHANGED <<call, input, offset, document_vars, stack, keyset_vars,
                 compact_vars, children, bound>>

-----------------------------------------------------------------------------
(* After the last byte: release the key set, compact, lay out the children. *)

\* Mutant: repeated keys stay in the document.
Finish_uncompacted ==
  /\ pc = "finish"
  /\ heap' = keyset_release(heap)
  /\ keys' = {} /\ key_count' = 0 /\ slots' = 0
  /\ pc' = IF result # "OK" THEN "failed" ELSE "children"
  /\ UNCHANGED <<call, input, offset, document_vars, stack, compact_vars, children,
                 bound, peak, outcome_vars>>

\* The key set is released on every path; the others depend on the outcome.
Finish ==
  /\ pc = "finish"
  /\ heap' = keyset_release(heap)
  /\ keys' = {} /\ key_count' = 0 /\ slots' = 0
  /\ pc' = IF result # "OK" THEN "failed"
           ELSE IF duplicate_count > 0 THEN "measure" ELSE "children"
  /\ walk' = <<[child |-> 1, parent |-> NONE]>>
  /\ UNCHANGED <<call, input, offset, document_vars, stack, packed, children,
                 bound, peak, outcome_vars>>

text_bytes(t) == IF t.text = NONE THEN 0 ELSE t.text_size + 1

\* The loop of compact_walk over the children of the innermost frame.
frame == walk[Len(walk)]
entry == tokens[frame.child]
advance(child) == [walk EXCEPT ![Len(walk)].child = child]

Dropped == entry.object_key /\ entry.superseded

\* A superseded key and the value that follows it.
WalkSkip ==
  /\ walk' = advance(tokens[entry.links.next_sibling].links.next_sibling)
  /\ UNCHANGED packed

WalkVisit ==
  LET fresh == packed.token_count + 1
      copy  == [entry EXCEPT !.links = links_init(frame.parent)]
  IN  /\ walk' = Append(advance(entry.links.next_sibling),
                        [child |-> entry.links.first_child, parent |-> fresh])
      /\ packed' = [packed EXCEPT
            !.token_count = fresh,
            !.arena_used = @ + text_bytes(entry),
            !.tokens = IF pc = "copy" THEN attach(@, copy) ELSE @]

WalkReturn ==
  /\ walk' = SubSeq(walk, 1, Len(walk) - 1)
  /\ UNCHANGED packed

\* compact_walk, first without a target (measure) and then with one (copy).
CompactWalk ==
  /\ pc \in {"measure", "copy"} /\ walk # <<>>
  /\ \/ frame.child = NONE /\ WalkReturn
     \/ frame.child # NONE /\ Dropped /\ WalkSkip
     \/ frame.child # NONE /\ ~Dropped /\ WalkVisit
  /\ UNCHANGED <<pc, call, input, offset, document_vars, stack, keyset_vars,
                 children, bound, memory_vars, outcome_vars>>

CompactAllocate ==
  /\ pc = "measure" /\ walk = <<>>
  /\ \E got \in SUBSET {"packed_tokens", "packed_arena"} :
       LET arena   == AtLeastOne(packed.arena_used)
           granted == [b \in Blocks |->
             CASE b = "packed_tokens" /\ b \in got -> packed.token_count * TokenSize
               [] b = "packed_arena" /\ b \in got -> arena
               [] OTHER -> heap[b]]
       IN  /\ peak' = Upper(peak, Live(granted))
           /\ \/ /\ got = {"packed_tokens", "packed_arena"}
                 /\ heap' = granted
                 /\ packed' = [packed EXCEPT !.token_capacity = packed.token_count,
                                             !.arena_capacity = arena,
                                             !.token_count = 0, !.arena_used = 0]
                 /\ walk' = <<[child |-> 1, parent |-> NONE]>>
                 /\ pc' = "copy" /\ UNCHANGED result
              \/ /\ got # {"packed_tokens", "packed_arena"}
                 /\ heap' = [granted EXCEPT !["packed_tokens"] = 0, !["packed_arena"] = 0]
                 /\ result' = "MEMORY" /\ pc' = "failed"
                 /\ UNCHANGED compact_vars
  /\ UNCHANGED <<call, input, offset, document_vars, stack, keyset_vars,
                 children, bound, error>>

\* The packed arrays take the place of the source ones.
CompactSwap ==
  /\ pc = "copy" /\ walk = <<>>
  /\ tokens' = packed.tokens
  /\ arena_used' = packed.arena_used
  /\ heap' = [heap EXCEPT !["tokens"] = heap["packed_tokens"],
                          !["arena"]  = heap["packed_arena"],
                          !["packed_tokens"] = 0, !["packed_arena"] = 0]
  /\ pc' = "children"
  /\ UNCHANGED <<call, input, offset, arena_peak, duplicate_count, stack,
                 keyset_vars, compact_vars, children, bound, peak, outcome_vars>>

is_container(t) == t.type \in {"object", "array"}

\* build_children: its loop over the tokens is one frame, whose parent is the
\* last token it looked at.
ChildrenAllocate ==
  /\ pc = "children"
  /\ \/ /\ allocate("children", Len(tokens) * WordSize)
        /\ walk' = <<[child |-> NONE, parent |-> 0]>>
        /\ pc' = "layout" /\ UNCHANGED result
     \/ /\ result' = "MEMORY" /\ pc' = "failed"
        /\ UNCHANGED <<memory_vars, walk>>
  /\ UNCHANGED <<call, input, offset, document_vars, stack, keyset_vars, packed,
                 children, bound, error>>

LayoutChild ==
  /\ frame.child # NONE
  /\ children' = Append(children, frame.child)
  /\ walk' = advance(entry.links.next_sibling)
  /\ UNCHANGED <<pc, tokens>>

LayoutContainer ==
  LET next == frame.parent + 1
  IN  /\ frame.child = NONE /\ frame.parent < Len(tokens)
      /\ IF is_container(tokens[next])
           THEN /\ walk' = <<[child |-> tokens[next].links.first_child, parent |-> next]>>
                /\ tokens' = [tokens EXCEPT ![next].children_offset = Len(children)]
           ELSE /\ walk' = <<[child |-> NONE, parent |-> next]>>
                /\ UNCHANGED tokens
      /\ UNCHANGED <<pc, children>>

Publish ==
  /\ frame.child = NONE /\ frame.parent = Len(tokens)
  /\ pc' = "done"
  /\ UNCHANGED <<walk, tokens, children>>

BuildChildren ==
  /\ pc = "layout"
  /\ LayoutChild \/ LayoutContainer \/ Publish
  /\ UNCHANGED <<call, input, offset, arena_used, arena_peak, duplicate_count,
                 stack, keyset_vars, packed, bound, memory_vars, outcome_vars>>

\* Errors without a position get offset 0; the document never escapes.
ReturnFailure ==
  /\ pc = "failed"
  /\ error' = IF error.code = "OK" THEN error_set(result, 0) ELSE error
  /\ heap' = document_release(heap)
  /\ pc' = "done"
  /\ UNCHANGED <<call, input, offset, document_vars, stack, keyset_vars,
                 compact_vars, children, bound, peak, result>>

-----------------------------------------------------------------------------
Init ==
  /\ pc = "idle" /\ call = [size |-> 0, profile |-> NONE]
  /\ input = <<>> /\ offset = 0
  /\ tokens = <<>> /\ stack = <<>>
  /\ arena_used = 0 /\ arena_peak = 0
  /\ keys = {} /\ key_count = 0 /\ slots = 0
  /\ duplicate_count = 0
  /\ walk = <<>> /\ packed = empty_packed
  /\ children = <<>>
  /\ bound = 0 /\ heap = empty_heap /\ peak = 0
  /\ result = "OK" /\ error = no_error

\* The client releases what the call gave it and may call again.
Release ==
  /\ pc = "done"
  /\ heap' = IF result = "OK" THEN document_release(heap) ELSE heap
  /\ pc' = "idle" /\ call' = [size |-> 0, profile |-> NONE]
  /\ input' = <<>> /\ offset' = 0
  /\ tokens' = <<>> /\ stack' = <<>>
  /\ arena_used' = 0 /\ arena_peak' = 0
  /\ keys' = {} /\ key_count' = 0 /\ slots' = 0
  /\ duplicate_count' = 0
  /\ walk' = <<>> /\ packed' = empty_packed
  /\ children' = <<>>
  /\ bound' = 0 /\ peak' = 0
  /\ result' = "OK" /\ error' = no_error

\* The steps of one call.
Step ==
  \/ DoubleCapacity \/ AllocationBound \/ AllocateDocument \/ KeysetInit
  \/ \E l \in Lexemes : Scan(l)
  \/ Finish \/ CompactWalk \/ CompactAllocate \/ CompactSwap
  \/ ChildrenAllocate \/ BuildChildren \/ ReturnFailure

Next == Call \/ Step \/ Release

Spec == Init /\ [][Next]_vars

\* A call runs to its end: nothing in it waits for anybody.
FairSpec == Spec /\ WF_vars(Step)

-----------------------------------------------------------------------------
(* Properties.                                                              *)

Token ==
  [links : LinksOf(Nat), type : {"object", "array", "string", "number", "literal"},
   object_key : BOOLEAN, text : {l.text : l \in Lexemes} \cup {NONE},
   text_size : Nat, superseded : BOOLEAN, children_offset : Nat \cup {NONE}]

Frame == [child : Nat \cup {NONE}, parent : Nat \cup {NONE}]

Scanning == {"root", "first_key", "key", "colon", "member", "first_element",
             "element", "delimiter", "end"}
Places   == Scanning \cup {"idle", "bound", "allocate", "reserve", "finish",
             "measure", "copy", "children", "layout", "failed", "done"}

\* Every variable keeps its type: the state parser_t, the document and
\* compact_walk's frames may hold.
TypeOK ==
  /\ pc \in Places
  /\ call.size \in Nat
  /\ input \in Seq(Lexemes) /\ offset \in Nat
  /\ tokens \in Seq(Token) /\ stack \in Seq(Nat)
  /\ arena_used \in Nat /\ arena_peak \in Nat
  /\ keys \subseteq Nat /\ key_count \in Nat /\ slots \in Nat
  /\ duplicate_count \in Nat
  /\ walk \in Seq(Frame)
  /\ packed \in [tokens : Seq(Token), token_count : Nat, arena_used : Nat,
                 token_capacity : Nat \cup {NONE}, arena_capacity : Nat \cup {NONE}]
  /\ children \in Seq(Nat)
  /\ bound \in Nat /\ heap \in [Blocks -> Nat] /\ peak \in Nat
  /\ result \in Failures \cup {"OK"}
  /\ error \in [code : Failures \cup {"OK"}, offset : Nat]

\* The assertion of arena_claim: every decoded text and number lexeme, with its
\* NUL, fits in the arena that allocate_document sized from the input alone.
ArenaFits == arena_peak <= arena_capacity

\* LIMIT means a limit of the caller: token_capacity is the smaller of the input
\* size and maximum_tokens, but running out of tokens for want of input bytes
\* never happens, so add_token's refusal always is maximum_tokens.
LimitMeansLimit ==
  result = "LIMIT" =>
    \/ call.size > MaxBytes
    \/ Len(tokens) = MaxTokens
    \/ Len(stack) = MaxDepth
    \/ allocation_total(slots) > SizeMax

\* keyset_init reserves for token_capacity / 2 + 1 keys, and insert never has to
\* grow the table while parsing: a key is always followed by its value's token.
KeysetNeverGrows ==
  [][(pc \in {"first_key", "key"} /\ pc' = "colon") => slots' = slots]_vars

\* maelys_json_document_parse_allocation_bound is an upper bound of what the
\* call ever holds at once, the compaction and the children included.
HeapWithinBound == peak <= bound

\* A call that fails keeps nothing, wherever it fails, and a released document
\* leaves nothing behind.
NothingLeaks ==
  /\ pc = "idle" => heap = empty_heap
  /\ pc = "done" /\ result # "OK" => heap = empty_heap

\* Every failure is reported in *out_error under the code that is returned, at
\* an offset that lies in the lexeme the parser was reading.
ErrorLocatesLastLexeme ==
  pc = "done" /\ result # "OK" =>
    /\ error.code = result
    /\ \/ error.offset = 0 /\ (input = <<>> \/ result = "MEMORY")
       \/ /\ input # <<>>
          /\ error.offset >= offset - input[Len(input)].width
          /\ error.offset <= offset
          /\ error.offset <= call.size

\* Every parse call returns.
CallReturns == pc = "bound" ~> pc = "done"
=============================================================================
