-------------------------------- MODULE KeyMap --------------------------------
(***************************************************************************)
(* What the key set promises its owners (src/src/keyset.h): a map from the *)
(* keys met so far to the index of the element that carries each.  An      *)
(* owner numbers its elements 1, 2, 3...; a key is a (parent, bytes) pair. *)
(***************************************************************************)
EXTENDS Naturals

CONSTANTS Keys, NONE

VARIABLES
  open,        \* the set has been initialised and not released
  map,         \* key |-> index, for the keys it holds
  elements,    \* how many elements the owner has offered
  returned     \* what the last call returned, and the index it replaced

vars == <<open, map, elements, returned>>

Extend(k, i) == [x \in DOMAIN map \cup {k} |-> IF x = k THEN i ELSE map[x]]

answer(code, previous) == [code |-> code, previous |-> previous]

Init ==
  open = FALSE /\ map = <<>> /\ elements = 0 /\ returned = answer("none", NONE)

Create ==
  /\ ~open
  /\ \/ open' = TRUE /\ returned' = answer("OK", NONE)
     \/ open' = FALSE /\ returned' = answer("MEMORY", NONE)
  /\ UNCHANGED <<map, elements>>

Contains(k) ==
  /\ open
  /\ returned' = answer(IF k \in DOMAIN map THEN "found" ELSE "absent", NONE)
  /\ UNCHANGED <<open, map, elements>>

\* A new key is stored, unless there is no memory for it.
InsertNew(k) ==
  /\ open /\ k \notin DOMAIN map
  /\ elements' = elements + 1
  /\ \/ map' = Extend(k, elements') /\ returned' = answer("OK", NONE)
     \/ UNCHANGED map /\ returned' = answer("MEMORY", NONE)
  /\ UNCHANGED open

\* insert refuses a key it holds, insert_last names the new element instead
\* and reports the one it replaces.
InsertAgain(k) ==
  /\ open /\ k \in DOMAIN map
  /\ elements' = elements + 1
  /\ \/ UNCHANGED map /\ returned' = answer("DUPLICATE_KEY", NONE)
     \/ map' = Extend(k, elements') /\ returned' = answer("OK", map[k])
  /\ UNCHANGED open

Release ==
  /\ open
  /\ open' = FALSE /\ map' = <<>> /\ elements' = 0 /\ returned' = answer("none", NONE)

Next ==
  \/ Create \/ Release
  \/ \E k \in Keys : Contains(k) \/ InsertNew(k) \/ InsertAgain(k)

Spec == Init /\ [][Next]_vars
=============================================================================
