-------------------------------- MODULE KeySet --------------------------------
(***************************************************************************)
(* The open-addressing table of src/src/keyset.c.  The table holds indices *)
(* of its owner's elements and asks the owner for the key of an index, so  *)
(* `owner[i]` stands for key_of(context, i): a (parent, bytes) pair, with  *)
(* the hash hash_key gives it.  Indices start at 1, slots at 0.  grow()    *)
(* rehashes one slot a step; allocations may fail.                         *)
(***************************************************************************)
EXTENDS Naturals, Sequences, FiniteSets

CONSTANTS
  Keys, Hash,          \* the keys, and hash_key of each
  NONE,                \* MAELYS_JSON_VALUE_NONE
  MinimumCapacity,     \* KEYSET_MINIMUM_CAPACITY
  SizeMax, WordSize,   \* SIZE_MAX and sizeof(size_t)
  Expected,            \* what owners pass to keyset_init
  MaxElements          \* bound on the elements an owner offers

ASSUME KeysAssumption == Hash \in [Keys -> Nat] /\ NONE \notin Nat
ASSUME TableAssumption ==
  /\ MinimumCapacity \in Nat \ {0, 1}
  /\ Expected \subseteq Nat /\ \A n \in Expected : n <= SizeMax \div 4
  /\ SizeMax \in Nat /\ WordSize \in Nat \ {0} /\ MaxElements \in Nat

VARIABLES
  pc,                        \* released, sizing, ready, or growing
  owner,                     \* the keys of the owner's elements
  expected,                  \* what keyset_init was told to expect
  slots, capacity, count,    \* the table
  fresh, cursor,             \* grow(): the new table, the next slot to move
  returned

vars == <<pc, owner, expected, slots, capacity, count, fresh, cursor, returned>>

answer(code, previous) == [code |-> code, previous |-> previous]

allocate_slots(n) == [s \in 0 .. n - 1 |-> NONE]

\* The d-th slot find_slot looks at: capacity is a power of two, so the mask is
\* a remainder, and each step moves on by one and wraps around.
probe(n, k, d) ==
  LET home == Hash[k] % n
  IN  IF home + d < n THEN home + d ELSE home + d - n

\* Where the loop of find_slot would leave: at an empty slot or at the key.
stops(table, n, k) ==
  {d \in 0 .. n - 1 : LET stored == table[probe(n, k, d)]
                      IN  stored = NONE \/ owner[stored] = k}

find_slot(table, n, k) ==
  probe(n, k, CHOOSE d \in stops(table, n, k) : \A e \in stops(table, n, k) : d <= e)

found(table, n, k) == table[find_slot(table, n, k)] # NONE

-----------------------------------------------------------------------------
keyset_init ==
  /\ pc = "released" /\ pc' = "sizing"
  /\ expected' \in Expected
  /\ capacity' = MinimumCapacity
  /\ UNCHANGED <<owner, slots, count, fresh, cursor, returned>>

\* One round of the loop of keyset_capacity.
DoubleCapacity ==
  /\ pc = "sizing" /\ capacity < 2 * expected
  /\ capacity' = 2 * capacity
  /\ UNCHANGED <<pc, owner, expected, slots, count, fresh, cursor, returned>>

\* The rest of keyset_init, once the capacity is known.
AllocateTable ==
  /\ pc = "sizing" /\ capacity >= 2 * expected
  /\ \/ /\ slots' = allocate_slots(capacity)
        /\ pc' = "ready" /\ returned' = answer("OK", NONE)
     \/ /\ pc' = "released" /\ returned' = answer("MEMORY", NONE)
        /\ UNCHANGED slots
  /\ expected' = 0
  /\ UNCHANGED <<owner, capacity, count, fresh, cursor>>

keyset_release ==
  /\ pc = "ready"
  /\ pc' = "released" /\ slots' = <<>> /\ capacity' = 0 /\ count' = 0
  /\ owner' = <<>> /\ returned' = answer("none", NONE)
  /\ UNCHANGED <<expected, fresh, cursor>>

keyset_contains(k) ==
  /\ pc = "ready"
  /\ returned' = answer(IF found(slots, capacity, k) THEN "found" ELSE "absent", NONE)
  /\ UNCHANGED <<pc, owner, expected, slots, capacity, count, fresh, cursor>>

\* The owner's new element, which insert looks up first.
Offer(k) ==
  /\ pc = "ready" /\ Len(owner) < MaxElements
  /\ owner' = Append(owner, k)
  /\ UNCHANGED expected

Refuse(k) ==
  /\ Offer(k) /\ found(slots, capacity, k)
  /\ returned' = answer("DUPLICATE_KEY", NONE)
  /\ UNCHANGED <<pc, slots, capacity, count, fresh, cursor>>

\* Mutant: the slot keeps the index it had.
Replace_kept(k) ==
  LET slot == find_slot(slots, capacity, k)
  IN  /\ Offer(k) /\ found(slots, capacity, k)
      /\ returned' = answer("OK", slots[slot])
      /\ UNCHANGED <<pc, slots, capacity, count, fresh, cursor>>

\* insert_last: the new index takes the slot of the one it reports.
Replace(k) ==
  LET slot == find_slot(slots, capacity, k)
  IN  /\ Offer(k) /\ found(slots, capacity, k)
      /\ slots' = [slots EXCEPT ![slot] = Len(owner')]
      /\ returned' = answer("OK", slots[slot])
      /\ UNCHANGED <<pc, capacity, count, fresh, cursor>>

\* Mutant: the table grows only when every slot is taken.
full_late == count + 1 > capacity
full == (count + 1) * 2 > capacity

Store(k) ==
  /\ Offer(k) /\ ~found(slots, capacity, k) /\ ~full
  /\ slots' = [slots EXCEPT ![find_slot(slots, capacity, k)] = Len(owner')]
  /\ count' = count + 1
  /\ returned' = answer("OK", NONE)
  /\ UNCHANGED <<pc, capacity, fresh, cursor>>

too_large == capacity > (SizeMax \div 2) \div WordSize

GrowFails(k) ==
  /\ Offer(k) /\ ~found(slots, capacity, k) /\ full
  /\ returned' = answer("MEMORY", NONE)
  /\ UNCHANGED <<pc, slots, capacity, count, fresh, cursor>>

Grow(k) ==
  /\ Offer(k) /\ ~found(slots, capacity, k) /\ full /\ ~too_large
  /\ fresh' = allocate_slots(2 * capacity) /\ cursor' = 0
  /\ pc' = "growing"
  /\ UNCHANGED <<slots, capacity, count, returned>>

insert(k) == Refuse(k) \/ Replace(k) \/ Store(k) \/ GrowFails(k) \/ Grow(k)

\* One round of the loop of grow().
Rehash ==
  /\ pc = "growing" /\ cursor < capacity
  /\ \/ slots[cursor] = NONE /\ UNCHANGED fresh
     \/ /\ slots[cursor] # NONE
        /\ fresh' = [fresh EXCEPT
             ![find_slot(fresh, 2 * capacity, owner[slots[cursor]])] = slots[cursor]]
  /\ cursor' = cursor + 1
  /\ UNCHANGED <<pc, owner, expected, slots, capacity, count, returned>>

\* Mutant: the slot found before the growth is used after it.
StoreGrown_stale ==
  LET index == Len(owner)
  IN  /\ pc = "growing" /\ cursor = capacity
      /\ capacity' = 2 * capacity
      /\ slots' = [fresh EXCEPT ![find_slot(slots, capacity, owner[index])] = index]
      /\ count' = count + 1
      /\ pc' = "ready" /\ returned' = answer("OK", NONE)
      /\ fresh' = <<>> /\ cursor' = 0
      /\ UNCHANGED <<owner, expected>>

\* The new table replaces the old one, and insert looks for its slot again.
StoreGrown ==
  LET index == Len(owner)
  IN  /\ pc = "growing" /\ cursor = capacity
      /\ capacity' = 2 * capacity
      /\ slots' = [fresh EXCEPT ![find_slot(fresh, 2 * capacity, owner[index])] = index]
      /\ count' = count + 1
      /\ pc' = "ready" /\ returned' = answer("OK", NONE)
      /\ fresh' = <<>> /\ cursor' = 0
      /\ UNCHANGED <<owner, expected>>

Init ==
  /\ pc = "released" /\ owner = <<>> /\ expected = 0
  /\ slots = <<>> /\ capacity = 0 /\ count = 0
  /\ fresh = <<>> /\ cursor = 0
  /\ returned = answer("none", NONE)

Next ==
  \/ keyset_init \/ DoubleCapacity \/ AllocateTable \/ keyset_release \/ Rehash \/ StoreGrown
  \/ \E k \in Keys : keyset_contains(k) \/ insert(k)

Spec == Init /\ [][Next]_vars

-----------------------------------------------------------------------------
(* Properties.                                                              *)

Index == 1 .. Len(owner)
open == pc \in {"ready", "growing"}
Occupied(table) == {s \in DOMAIN table : table[s] # NONE}

\* The table's fields have their types, and a table is as long as its capacity.
TypeOK ==
  /\ pc \in {"released", "sizing", "ready", "growing"}
  /\ owner \in Seq(Keys) /\ expected \in Nat
  /\ capacity \in Nat /\ count \in Nat /\ cursor \in 0 .. capacity
  /\ ~open => slots = <<>>
  /\ open => slots \in [0 .. capacity - 1 -> Index \cup {NONE}]
  /\ pc = "growing"  => fresh \in [0 .. 2 * capacity - 1 -> Index \cup {NONE}]
  /\ returned.previous \in Index \cup {NONE}

\* find_slot's loop has no bound of its own: it ends because some slot is empty
\* on the way of every key, in the table in use and in the one being filled.
ProbeEnds ==
  /\ open => \A k \in Keys : stops(slots, capacity, k) # {}
  /\ pc = "growing" => \A k \in Keys : stops(fresh, 2 * capacity, k) # {}

\* `count` is what the table holds and at most half of the capacity: what the
\* growth test of insert maintains.
HalfEmpty ==
  open => /\ count = Cardinality(Occupied(slots))
          /\ 2 * count <= capacity

\* Every stored index is found under its own key, whatever collided with it and
\* however often the table has grown; no key is stored twice.
StoredIsFound ==
  open =>
    \A s \in Occupied(slots) : find_slot(slots, capacity, owner[slots[s]]) = s

\* The assertions of grow() and insert(): a key that is moved, or stored after a
\* growth, is not in the new table yet.
RehashMeetsNoDuplicate ==
  pc = "growing" =>
    /\ cursor < capacity /\ slots[cursor] # NONE
         => ~found(fresh, 2 * capacity, owner[slots[cursor]])
    /\ cursor = capacity => ~found(fresh, 2 * capacity, owner[Len(owner)])

\* What the table relies on between two calls and while it grows: its fields agree, half of
\* it is free, every stored index is found under its key, and the assertions hold.
TableOK == TypeOK /\ HalfEmpty /\ StoredIsFound /\ RehashMeetsNoDuplicate

\* The refinement mapping.  The element of an insertion that is still growing
\* the table has not been offered yet as far as the caller can see.
held == {owner[slots[s]] : s \in Occupied(slots)}

map == [k \in held |-> slots[CHOOSE s \in Occupied(slots) : owner[slots[s]] = k]]
elements == IF pc = "growing" THEN Len(owner) - 1 ELSE Len(owner)

Map == INSTANCE KeyMap

\* The table is a map from keys to indices.
ImplementsKeyMap == Map!Spec
=============================================================================
