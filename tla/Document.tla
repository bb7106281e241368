------------------------------ MODULE Document ------------------------------
(***************************************************************************)
(* The read accessors of a published document (src/src/document.c).  A     *)
(* handle is a position of `tokens`; positions in a container count from 0 *)
(* as in the code.  An accessor answers [code, value].                     *)
(***************************************************************************)
EXTENDS Parser

answer(code, value) == [code |-> code, value |-> value]
refusal(code)       == [code |-> code, value |-> NONE]

document_root == IF tokens = <<>> THEN NONE ELSE 1

token_of(value, expected) ==
  IF value \notin DOMAIN tokens THEN "ARGUMENT"
  ELSE IF tokens[value].type # expected THEN "TYPE"
  ELSE "OK"

child_at(container, position) ==
  children[tokens[container].children_offset + position + 1]

object_size(object) ==
  IF token_of(object, "object") # "OK" THEN refusal(token_of(object, "object"))
  ELSE answer("OK", tokens[object].links.child_count \div 2)

object_member_at(object, index) ==
  IF token_of(object, "object") # "OK" THEN refusal(token_of(object, "object"))
  ELSE IF index >= tokens[object].links.child_count \div 2 THEN refusal("RANGE")
  ELSE answer("OK", [key   |-> tokens[child_at(object, 2 * index)].text,
                     value |-> child_at(object, 2 * index + 1)])

\* The linear search stops at the first member whose key matches.
object_get(object, key) ==
  LET members == tokens[object].links.child_count \div 2
      matches == {i \in 0 .. members - 1 : tokens[child_at(object, 2 * i)].text = key}
  IN  IF token_of(object, "object") # "OK" THEN refusal(token_of(object, "object"))
      ELSE IF matches = {} THEN refusal("NOT_FOUND")
      ELSE answer("OK", child_at(object, 2 * Least(matches) + 1))

array_size(array) ==
  IF token_of(array, "array") # "OK" THEN refusal(token_of(array, "array"))
  ELSE answer("OK", tokens[array].links.child_count)

array_get(array, index) ==
  IF token_of(array, "array") # "OK" THEN refusal(token_of(array, "array"))
  ELSE IF index >= tokens[array].links.child_count THEN refusal("RANGE")
  ELSE answer("OK", child_at(array, index))

\* The text of a string or the lexeme of a number.
text_view(value, expected) ==
  IF token_of(value, expected) # "OK" THEN refusal(token_of(value, expected))
  ELSE answer("OK", tokens[value].text)

value_string(value)      == text_view(value, "string")
value_number_text(value) == text_view(value, "number")

object_get_string(object, key) ==
  LET found == object_get(object, key)
  IN  IF found.code = "OK" THEN value_string(found.value) ELSE found
=============================================================================
