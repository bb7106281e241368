------------------------------- MODULE Layout -------------------------------
(***************************************************************************)
(* What src/src/serialize.c writes for a node, as the sequence of calls it *)
(* makes: appends of bytes, the nodes it descends into, and the release of *)
(* the two arrays an object is sorted with.  Nodes are those of the writer *)
(* with their bytes; flags are [indent, ascii, newline].                   *)
(***************************************************************************)
EXTENDS Utf8, Links

chunk(bytes)       == [do |-> "append", bytes |-> bytes, node |-> NONE, level |-> 0]
visit(node, level) == [do |-> "node", bytes |-> <<>>, node |-> node, level |-> level]
release_arrays     == [do |-> "free", bytes |-> <<>>, node |-> NONE, level |-> 0]

\* INDENT_WIDTH spaces a level, one append each; nothing in compact mode.
append_break(flags, level) ==
  IF ~flags.indent THEN <<>>
  ELSE <<chunk(<<10>>)>> \o [i \in 1 .. 2 * level |-> chunk(<<32>>)]

\* The one or two escapes of a code point.
unit_escapes(point) ==
  LET units == point_units(point) IN [k \in DOMAIN units |-> chunk(u16_escape(units[k]))]

append_string(flags, bytes) ==
  LET from[i \in 1 .. Len(bytes) + 4] ==
        IF i > Len(bytes) THEN <<>>
        ELSE IF bytes[i] >= 128 /\ flags.ascii
        THEN LET d == utf8_decode(bytes, i) IN unit_escapes(d.point) \o from[i + d.size]
        ELSE <<chunk(canonical_escape(bytes[i]))>> \o from[i + 1]
  IN  <<chunk(<<quote>>)>> \o from[1] \o <<chunk(<<quote>>)>>

digits[n \in Nat] == IF n < 10 THEN <<48 + n>> ELSE digits[n \div 10] \o <<48 + (n % 10)>>
decimal(n) == IF n < 0 THEN <<45>> \o digits[-n] ELSE digits[n]

\* A number written from its lexeme keeps its bytes.
append_number(node) ==
  <<chunk(IF node.text # NONE THEN node.text ELSE decimal(node.value))>>

-----------------------------------------------------------------------------
(* The merge sort of the members of an object.                              *)

key_compare(nodes, left, right) == utf16_compare(nodes[left].key, nodes[right].key)

\* What is still to come once l and r elements of the two halves are merged.
merge_keys(nodes, left, right) ==
  LET merged[at \in (0 .. Len(left)) \X (0 .. Len(right))] ==
        LET l == at[1]
            r == at[2]
        IN  IF l = Len(left) /\ r = Len(right) THEN <<>>
            ELSE IF \/ r = Len(right)
                    \/ l < Len(left) /\ key_compare(nodes, left[l + 1], right[r + 1]) <= 0
            THEN <<left[l + 1]>> \o merged[<<l + 1, r>>]
            ELSE <<right[r + 1]>> \o merged[<<l, r + 1>>]
  IN  merged[<<0, 0>>]

sort_keys(nodes, values) ==
  LET merge[halves \in Seq(DOMAIN nodes) \X Seq(DOMAIN nodes)] ==
        merge_keys(nodes, halves[1], halves[2])
      sorted[run \in (0 .. Len(values)) \X (0 .. Len(values))] ==
        LET b == run[1]
            e == run[2]
            middle == b + (e - b) \div 2
        IN  IF e - b < 2 THEN SubSeq(values, b + 1, e)
            ELSE merge[<<sorted[<<b, middle>>], sorted[<<middle, e>>]>>]
  IN  sorted[<<0, Len(values)>>]

-----------------------------------------------------------------------------
\* The elements of a sequence of sequences, in order.
Joined(pieces) ==
  LET upto[i \in 0 .. Len(pieces)] == IF i = 0 THEN <<>> ELSE upto[i - 1] \o pieces[i]
  IN  upto[Len(pieces)]

comma(i) == IF i > 1 THEN <<chunk(<<44>>)>> ELSE <<>>

serialize_object(nodes, flags, index, level) ==
  LET member(i, value) ==
        comma(i) \o append_break(flags, level + 1) \o append_string(flags, nodes[value].key)
          \o <<chunk(IF flags.indent THEN <<58, 32>> ELSE <<58>>), visit(value, level + 1)>>
      members[values \in Seq(DOMAIN nodes)] ==
        LET upto[i \in 0 .. Len(values)] ==
              IF i = 0 THEN <<>> ELSE upto[i - 1] \o member(i, values[i])
        IN  upto[Len(values)]
  IN  IF nodes[index].links.child_count = 0 THEN <<chunk(<<123, 125>>)>>
      ELSE <<chunk(<<123>>)>> \o members[sort_keys(nodes, chain(nodes, index))]
             \o append_break(flags, level) \o <<chunk(<<125>>), release_arrays>>

serialize_array(nodes, flags, index, level) ==
  LET item(i, value) ==
        comma(i) \o append_break(flags, level + 1) \o <<visit(value, level + 1)>>
      items[values \in Seq(DOMAIN nodes)] ==
        LET upto[i \in 0 .. Len(values)] ==
              IF i = 0 THEN <<>> ELSE upto[i - 1] \o item(i, values[i])
        IN  upto[Len(values)]
  IN  IF nodes[index].links.child_count = 0 THEN <<chunk(<<91, 93>>)>>
      ELSE <<chunk(<<91>>)>> \o items[chain(nodes, index)]
             \o append_break(flags, level) \o <<chunk(<<93>>)>>

text_true  == <<116, 114, 117, 101>>
text_false == <<102, 97, 108, 115, 101>>
text_null  == <<110, 117, 108, 108>>

serialize_node(nodes, flags, index, level) ==
  LET node == nodes[index]
  IN  CASE node.type = "object" -> serialize_object(nodes, flags, index, level)
        [] node.type = "array"  -> serialize_array(nodes, flags, index, level)
        [] node.type = "string" -> append_string(flags, node.text)
        [] node.type = "number" -> append_number(node)
        [] node.type = "boolean" -> <<chunk(IF node.value THEN text_true ELSE text_false)>>
        [] node.type = "null" -> <<chunk(text_null)>>

\* Everything the calls of serialize_node write in the end, were no limit in the way.
Written(nodes, flags) ==
  LET text[at \in (DOMAIN nodes) \X Nat] ==
        LET calls == serialize_node(nodes, flags, at[1], at[2])
        IN  Joined([i \in DOMAIN calls |->
              IF calls[i].do = "node" THEN text[<<calls[i].node, calls[i].level>>]
              ELSE calls[i].bytes])
  IN  text[<<1, 0>>] \o (IF flags.newline THEN <<10>> ELSE <<>>)
=============================================================================
