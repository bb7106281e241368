----------------------------- MODULE Serializer -----------------------------
(***************************************************************************)
(* maelys_json_serialize (src/src/serialize.c): a finished tree is written *)
(* to a buffer that grows by doubling.  `todo` is the rest of the calls of *)
(* the open frames; after a failure only the releases on the way out are   *)
(* left of them.  An allocation may fail wherever the code makes one.      *)
(***************************************************************************)
EXTENDS Layout

CONSTANTS
  Trees,               \* node arrays of complete writers
  Flags, Maxima,       \* the flags and maximum_bytes of a writer
  InitialCapacity      \* 128

\* What the writer's checks let through as a key or a string.
IsText(s) == s \in Seq(Byte) /\ utf8_valid_prefix(s) = Len(s)

\* A node array finish() accepts: one tree, the root first, whose nodes have what
\* their types call for.
IsTree(t) ==
  /\ t \in Seq({t[i] : i \in DOMAIN t}) /\ t # <<>> /\ WellLinked(t)
  /\ \A i \in DOMAIN t :
       LET node == t[i]
       IN  /\ node.type \in {"object", "array", "string", "number", "boolean", "null"}
           /\ node.type = "string" => IsText(node.text)
           /\ node.type = "number" => IF node.text = NONE THEN node.value \in Int
                                      ELSE node.text \in Seq(Byte) /\ node.text # <<>>
           /\ node.type = "boolean" => node.value \in BOOLEAN
           /\ node.links.parent # NONE /\ t[node.links.parent].type = "object"
                => IsText(node.key)

ASSUME SerializerAssumption ==
  /\ \A t \in Trees : IsTree(t)
  /\ Flags \subseteq [indent : BOOLEAN, ascii : BOOLEAN, newline : BOOLEAN]
  /\ Maxima \subseteq Nat \ {0} /\ InitialCapacity \in Nat \ {0}
  /\ NONE \notin Seq(Nat)

VARIABLES
  nodes, flags, maximum,       \* of the writer
  todo,                        \* calls still to make
  bytes, capacity,             \* the buffer, NONE before its first allocation
  wanted,                      \* the capacity reserve() is looking for, 0 outside it
  arrays,                      \* arrays of open objects that are allocated
  result, returned

writer_vars == <<nodes, flags, maximum>>
buffer_vars == <<bytes, capacity, wanted>>
vars == <<writer_vars, todo, buffer_vars, arrays, result, returned>>

Init ==
  /\ nodes \in Trees /\ flags \in Flags /\ maximum \in Maxima
  /\ todo = <<visit(1, 0)>> \o (IF flags.newline THEN <<chunk(<<10>>)>> ELSE <<>>)
  /\ bytes = NONE /\ capacity = 0 /\ wanted = 0 /\ arrays = 0
  /\ result = "OK" /\ returned = FALSE

size == IF bytes = NONE THEN 0 ELSE Len(bytes)
content == IF bytes = NONE THEN <<>> ELSE bytes

Calling(what) == ~returned /\ todo # <<>> /\ Head(todo).do = what
needed == size + Len(Head(todo).bytes)

\* Mutant: an early return forgets the arrays of the enclosing objects.
unwind_at_once(calls) == <<>>
\* What the frames still do once a call has failed.
unwind(calls) ==
  [i \in 1 .. Cardinality({k \in DOMAIN calls : calls[k].do = "free"}) |-> release_arrays]

Fail(code) == result' = code /\ todo' = unwind(Tail(todo)) /\ wanted' = 0

-----------------------------------------------------------------------------
(* append and reserve.                                                      *)

\* Mutant: the limit is only looked at when the buffer grows.
over_limit_growing == needed > capacity /\ needed > maximum
\* Mutant: an output of exactly maximum_bytes is refused.
over_limit_strict == Len(Head(todo).bytes) >= maximum - size
over_limit == Len(Head(todo).bytes) > maximum - size

\* An empty append leaves even a buffer that is not there alone.
Copy ==
  /\ bytes' = IF Head(todo).bytes = <<>> THEN bytes ELSE content \o Head(todo).bytes
  /\ todo' = Tail(todo) /\ wanted' = 0

Append_fits ==
  /\ Calling("append") /\ ~over_limit /\ needed <= capacity
  /\ Copy
  /\ UNCHANGED <<writer_vars, capacity, arrays, result, returned>>

Append_limit ==
  /\ Calling("append") /\ wanted = 0 /\ over_limit
  /\ Fail("LIMIT")
  /\ UNCHANGED <<writer_vars, bytes, capacity, arrays, returned>>

StartGrowing ==
  /\ Calling("append") /\ wanted = 0 /\ ~over_limit /\ needed > capacity
  /\ wanted' = IF capacity # 0 THEN capacity ELSE InitialCapacity
  /\ UNCHANGED <<writer_vars, todo, bytes, capacity, arrays, result, returned>>

\* Mutant: half of the maximum is where doubling stops.
doubled_half == IF wanted > maximum \div 2 THEN maximum \div 2 ELSE wanted * 2
doubled == IF wanted > maximum \div 2 THEN maximum ELSE wanted * 2

Double ==
  /\ Calling("append") /\ wanted # 0 /\ wanted < needed
  /\ wanted' = doubled
  /\ UNCHANGED <<writer_vars, todo, bytes, capacity, arrays, result, returned>>

Reallocate ==
  /\ Calling("append") /\ wanted # 0 /\ wanted >= needed
  /\ capacity' = wanted
  /\ Copy
  /\ UNCHANGED <<writer_vars, arrays, result, returned>>

ReallocateFails ==
  /\ Calling("append") /\ wanted # 0 /\ wanted >= needed
  /\ Fail("MEMORY")
  /\ UNCHANGED <<writer_vars, bytes, capacity, arrays, returned>>

-----------------------------------------------------------------------------
(* serialize_node.                                                          *)

sorts ==
  LET node == nodes[Head(todo).node]
  IN  node.type = "object" /\ node.links.child_count # 0

Descend ==
  /\ Calling("node")
  /\ todo' = serialize_node(nodes, flags, Head(todo).node, Head(todo).level) \o Tail(todo)
  /\ arrays' = IF sorts THEN arrays + 2 ELSE arrays
  /\ UNCHANGED <<writer_vars, buffer_vars, result, returned>>

\* One of the two arrays is not to be had; the other is freed.
ArraysFail ==
  /\ Calling("node") /\ sorts
  /\ Fail("MEMORY")
  /\ UNCHANGED <<writer_vars, bytes, capacity, arrays, returned>>

FreeArrays ==
  /\ Calling("free")
  /\ arrays' = arrays - 2 /\ todo' = Tail(todo)
  /\ UNCHANGED <<writer_vars, buffer_vars, result, returned>>

\* The buffer goes to the caller, or is freed.
Return ==
  /\ ~returned /\ todo = <<>>
  /\ returned' = TRUE
  /\ bytes' = IF result = "OK" THEN bytes ELSE NONE
  /\ UNCHANGED <<writer_vars, todo, capacity, wanted, arrays, result>>

Next ==
  \/ Append_fits \/ Append_limit \/ StartGrowing \/ Double \/ Reallocate
  \/ ReallocateFails \/ Descend \/ ArraysFail \/ FreeArrays \/ Return

Spec == Init /\ [][Next]_vars /\ WF_vars(Next)

-----------------------------------------------------------------------------
(* Properties.                                                              *)

\* The bytes and the NUL after them are inside the buffer, which never grows beyond
\* maximum_bytes once that is more than its first 128 bytes; the output respects
\* maximum_bytes even inside a larger buffer; and a successful call has a buffer to
\* hand over (the assertion at the end of maelys_json_serialize).
BufferFits ==
  /\ size <= capacity /\ size <= maximum
  /\ capacity <= InitialCapacity \/ capacity <= maximum
  /\ returned /\ result = "OK" => bytes # NONE

\* The arrays of every open object and the buffer are released whichever call fails.
NothingLeaks == returned => arrays = 0 /\ (result # "OK" => bytes = NONE)

\* maelys_json_serialize writes the whole text or fails, and it fails with LIMIT only
\* when the text is longer than maximum_bytes, whatever the buffer went through.
LimitIsExact ==
  returned => /\ result = "OK" => bytes = Written(nodes, flags)
              /\ result = "LIMIT" => Len(Written(nodes, flags)) > maximum

\* Every call returns: doubling ends and no frame is left waiting.
SerializeReturns == <>returned
=============================================================================
