----------------------------- MODULE KeySetProofs -----------------------------
(***************************************************************************)
(* Proofs about the open-addressing table of KeySet, for every set of keys *)
(* and every hash function.                                                *)
(***************************************************************************)
EXTENDS KeySet, FiniteSetTheorems, TLAPS

-----------------------------------------------------------------------------
(* The probe sequence and the lookup, with the owner's keys as a parameter. *)

Stops(own, table, n, k) ==
  {d \in 0 .. n - 1 : \/ table[probe(n, k, d)] = NONE
                      \/ own[table[probe(n, k, d)]] = k}

Slot(own, table, n, k) ==
  probe(n, k, CHOOSE d \in Stops(own, table, n, k) :
                \A e \in Stops(own, table, n, k) : d <= e)

IsTable(own, table, n) ==
  /\ own \in Seq(Keys) /\ n \in Nat \ {0}
  /\ table \in [0 .. n - 1 -> (1 .. Len(own)) \cup {NONE}]

WellPlaced(own, table, n) ==
  \A s \in Occupied(table) : Slot(own, table, n, own[table[s]]) = s

\* `stored` is the table with index i put into slot s.
IsStore(own, table, n, s, i, stored) ==
  /\ stored \in [0 .. n - 1 -> (1 .. Len(own)) \cup {NONE}]
  /\ \A t \in 0 .. n - 1 : stored[t] = IF t = s THEN i ELSE table[t]

KeysIn(own, table) == {own[table[s]] : s \in Occupied(table)}

\* A probe is a slot of the table.
LEMMA ProbeType ==
  ASSUME NEW n \in Nat \ {0}, NEW k \in Keys, NEW d \in 0 .. n - 1
  PROVE  probe(n, k, d) \in 0 .. n - 1
  <1>1. Hash[k] \in Nat BY KeysAssumption
  <1>2. Hash[k] % n \in 0 .. n - 1 BY <1>1
  <1> QED BY <1>2 DEF probe

\* Within one turn around the table the probes of a key are distinct slots.
LEMMA ProbeInjective ==
  ASSUME NEW n \in Nat \ {0}, NEW k \in Keys, NEW d \in 0 .. n - 1, NEW e \in 0 .. n - 1,
         probe(n, k, d) = probe(n, k, e)
  PROVE  d = e
  <1>1. Hash[k] \in Nat BY KeysAssumption
  <1>2. Hash[k] % n \in 0 .. n - 1 BY <1>1
  <1> QED BY <1>2 DEF probe

\* Every slot is a probe of every key.
LEMMA ProbeOnto ==
  ASSUME NEW n \in Nat \ {0}, NEW k \in Keys, NEW s \in 0 .. n - 1
  PROVE  \E d \in 0 .. n - 1 : probe(n, k, d) = s
  <1>1. Hash[k] \in Nat BY KeysAssumption
  <1>2. Hash[k] % n \in 0 .. n - 1 BY <1>1
  <1>3. PICK h \in 0 .. n - 1 : h = Hash[k] % n BY <1>2
  <1>4. CASE s >= h
    <2>1. s - h \in 0 .. n - 1 BY <1>4
    <2>2. probe(n, k, s - h) = s BY <1>3, <1>4 DEF probe
    <2> QED BY <2>1, <2>2
  <1>5. CASE s < h
    <2>1. s - h + n \in 0 .. n - 1 BY <1>5
    <2>2. probe(n, k, s - h + n) = s BY <1>3, <1>5 DEF probe
    <2> QED BY <2>1, <2>2
  <1> QED BY <1>4, <1>5

\* A nonempty set of numbers has a least one.
LEMMA Least ==
  ASSUME NEW S \in SUBSET Nat, S # {}
  PROVE  \E d \in S : \A e \in S : d <= e
  <1> PICK m \in S : TRUE OBVIOUS
  <1> DEFINE T == {0 .. d : d \in {x \in S : x <= m}}
             W == FiniteSubsetsOf(0 .. m)
             R == StrictSubsetOrdering(0 .. m)
  <1>1. T \subseteq W
    <2> SUFFICES ASSUME NEW d \in S, d <= m PROVE 0 .. d \in W OBVIOUS
    <2>1. IsFiniteSet(0 .. d) BY FS_Interval
    <2> QED BY <2>1 DEF FiniteSubsetsOf
  <1>2. T # {} OBVIOUS
  <1>3. IsWellFoundedOn(R, W) BY FS_StrictSubsetOrderingWellFounded
  <1> HIDE DEF W, R
  <1>4. PICK I \in T : \A J \in T : ~ (<<J, I>> \in R) BY <1>1, <1>2, <1>3, WFMin
  <1>5. PICK d \in S : d <= m /\ I = 0 .. d OBVIOUS
  <1>6. \A e \in S : d <= e
    <2> SUFFICES ASSUME NEW e \in S, e < d PROVE FALSE OBVIOUS
    <2>1. 0 .. e \in T BY <1>5
    <2>2. (0 .. e) \subseteq (0 .. d) /\ d \in 0 .. d /\ d \notin 0 .. e OBVIOUS
    <2>3. (0 .. d) \subseteq 0 .. m BY <1>5
    <2>4. <<0 .. e, 0 .. d>> \in R BY <2>2, <2>3 DEF R, StrictSubsetOrdering
    <2> QED BY <1>4, <1>5, <2>1, <2>4
  <1> QED BY <1>6

-----------------------------------------------------------------------------
(* What a lookup returns.                                                   *)

\* A lookup that can stop stops at the first distance at which it can.
LEMMA LookupStops ==
  ASSUME NEW own, NEW table, NEW n, IsTable(own, table, n), NEW k \in Keys,
         Stops(own, table, n, k) # {}
  PROVE  \E d \in Stops(own, table, n, k) :
           /\ \A e \in Stops(own, table, n, k) : d <= e
           /\ Slot(own, table, n, k) = probe(n, k, d)
  <1> DEFINE S == Stops(own, table, n, k)
  <1>1. S \in SUBSET Nat BY DEF Stops, IsTable
  <1> HIDE DEF S
  <1>2. \E d \in S : \A e \in S : d <= e BY <1>1, Least DEF S
  <1>3. /\ (CHOOSE d \in S : \A e \in S : d <= e) \in S
        /\ \A e \in S : (CHOOSE d \in S : \A e2 \in S : d <= e2) <= e
    BY <1>2
  <1>4. Slot(own, table, n, k) = probe(n, k, CHOOSE d \in S : \A e \in S : d <= e)
    BY DEF Slot, S
  <1> QED BY <1>3, <1>4 DEF S

\* A stop no other stop precedes is where the lookup ends.
LEMMA LookupAt ==
  ASSUME NEW own, NEW table, NEW n, IsTable(own, table, n), NEW k \in Keys,
         NEW d \in Stops(own, table, n, k),
         \A e \in Stops(own, table, n, k) : d <= e
  PROVE  Slot(own, table, n, k) = probe(n, k, d)
  <1>1. PICK c \in Stops(own, table, n, k) :
          /\ \A e \in Stops(own, table, n, k) : c <= e
          /\ Slot(own, table, n, k) = probe(n, k, c)
    BY LookupStops
  <1>2. c \in Nat /\ d \in Nat BY DEF Stops, IsTable
  <1>3. c <= d /\ d <= c BY <1>1
  <1>4. c = d BY <1>2, <1>3
  <1> QED BY <1>1, <1>4

\* The lookup ends at an empty slot or at the key it looks for.
LEMMA LookupResult ==
  ASSUME NEW own, NEW table, NEW n, IsTable(own, table, n), NEW k \in Keys,
         Stops(own, table, n, k) # {}
  PROVE  /\ Slot(own, table, n, k) \in 0 .. n - 1
         /\ \/ table[Slot(own, table, n, k)] = NONE
            \/ own[table[Slot(own, table, n, k)]] = k
  <1>1. PICK d \in Stops(own, table, n, k) : Slot(own, table, n, k) = probe(n, k, d)
    BY LookupStops
  <1>2. d \in 0 .. n - 1 /\ n \in Nat \ {0} BY DEF Stops, IsTable
  <1>3. probe(n, k, d) \in 0 .. n - 1 BY <1>2, ProbeType
  <1> QED BY <1>1, <1>3 DEF Stops

\* One empty slot ends every lookup: the probe sequence reaches every slot.
LEMMA EmptySlotStops ==
  ASSUME NEW own, NEW table, NEW n, IsTable(own, table, n), NEW k \in Keys,
         NEW s \in 0 .. n - 1, table[s] = NONE
  PROVE  Stops(own, table, n, k) # {}
  <1>1. PICK d \in 0 .. n - 1 : probe(n, k, d) = s BY ProbeOnto DEF IsTable
  <1> QED BY <1>1 DEF Stops

\* A table with fewer entries than slots has an empty one.
LEMMA RoomLeft ==
  ASSUME NEW own, NEW table, NEW n, IsTable(own, table, n),
         Cardinality(Occupied(table)) < n
  PROVE  \E s \in 0 .. n - 1 : table[s] = NONE
  <1> SUFFICES ASSUME \A s \in 0 .. n - 1 : table[s] # NONE PROVE FALSE
    OBVIOUS
  <1>1. Occupied(table) = 0 .. n - 1 BY DEF Occupied, IsTable
  <1>2. n \in Nat \ {0} BY DEF IsTable
  <1>3. Cardinality(0 .. n - 1) = n BY <1>2, FS_Interval
  <1> QED BY <1>1, <1>2, <1>3

\* A table has finitely many entries, all in its slots.
LEMMA OccupiedFinite ==
  ASSUME NEW own, NEW table, NEW n, IsTable(own, table, n)
  PROVE  /\ IsFiniteSet(Occupied(table)) /\ Cardinality(Occupied(table)) \in Nat
         /\ Occupied(table) \subseteq 0 .. n - 1
  <1>1. Occupied(table) \subseteq 0 .. n - 1 BY DEF Occupied, IsTable
  <1>2. IsFiniteSet(0 .. n - 1) BY FS_Interval DEF IsTable
  <1>3. IsFiniteSet(Occupied(table)) BY <1>1, <1>2, FS_Subset
  <1> QED BY <1>1, <1>3, FS_CardinalityType

\* In a well-placed table a lookup succeeds for the stored keys and no other.
LEMMA FoundIsHeld ==
  ASSUME NEW own, NEW table, NEW n, IsTable(own, table, n), NEW k \in Keys,
         Stops(own, table, n, k) # {}, WellPlaced(own, table, n)
  PROVE  /\ table[Slot(own, table, n, k)] # NONE <=> k \in KeysIn(own, table)
         /\ \A s \in Occupied(table) : own[table[s]] = k => s = Slot(own, table, n, k)
  <1>1. \A s \in Occupied(table) : own[table[s]] = k => s = Slot(own, table, n, k)
    BY DEF WellPlaced
  <1>2. ASSUME k \in KeysIn(own, table) PROVE table[Slot(own, table, n, k)] # NONE
    BY <1>1, <1>2 DEF KeysIn, Occupied
  <1>3. ASSUME table[Slot(own, table, n, k)] # NONE PROVE k \in KeysIn(own, table)
    BY <1>3, LookupResult DEF KeysIn, Occupied, IsTable
  <1> QED BY <1>1, <1>2, <1>3

\* Two tables with the same keys in the same slots answer alike, whatever
\* indices they hold.
LEMMA SameKeysSameLookup ==
  ASSUME NEW own, NEW table, NEW n, NEW own2, NEW table2,
         IsTable(own, table, n), IsTable(own2, table2, n),
         \A s \in 0 .. n - 1 : table[s] = NONE <=> table2[s] = NONE,
         \A s \in 0 .. n - 1 : table[s] # NONE => own[table[s]] = own2[table2[s]],
         NEW k \in Keys
  PROVE  /\ Stops(own, table, n, k) = Stops(own2, table2, n, k)
         /\ Slot(own, table, n, k) = Slot(own2, table2, n, k)
  <1>1. \A d \in 0 .. n - 1 : probe(n, k, d) \in 0 .. n - 1 BY ProbeType DEF IsTable
  <1>2. Stops(own, table, n, k) = Stops(own2, table2, n, k) BY <1>1 DEF Stops
  <1> QED BY <1>2 DEF Slot

\* Tables with the same keys in the same slots are well placed together.
LEMMA SameKeysWellPlaced ==
  ASSUME NEW own, NEW table, NEW n, NEW own2, NEW table2,
         IsTable(own, table, n), IsTable(own2, table2, n),
         \A s \in 0 .. n - 1 : table[s] = NONE <=> table2[s] = NONE,
         \A s \in 0 .. n - 1 : table[s] # NONE => own[table[s]] = own2[table2[s]],
         WellPlaced(own, table, n)
  PROVE  WellPlaced(own2, table2, n) /\ Occupied(table2) = Occupied(table)
  <1>1. Occupied(table2) = Occupied(table) BY DEF Occupied, IsTable
  <1>2. ASSUME NEW s \in Occupied(table) PROVE Slot(own2, table2, n, own2[table2[s]]) = s
    <2>1. s \in 0 .. n - 1 /\ table[s] # NONE BY <1>2 DEF Occupied, IsTable
    <2>2. own[table[s]] \in Keys BY <2>1 DEF IsTable
    <2>3. Slot(own, table, n, own[table[s]]) = Slot(own2, table2, n, own[table[s]])
      BY <2>2, SameKeysSameLookup
    <2> QED BY <1>2, <2>1, <2>3 DEF WellPlaced
  <1> QED BY <1>1, <1>2 DEF WellPlaced

\* Storing a key that is not there where its lookup ended keeps the table well
\* placed.
LEMMA StoreWellPlaced ==
  ASSUME NEW own, NEW table, NEW n, IsTable(own, table, n), WellPlaced(own, table, n),
         NEW k \in Keys, Stops(own, table, n, k) # {},
         NEW s, s = Slot(own, table, n, k), table[s] = NONE,
         NEW i \in 1 .. Len(own), own[i] = k,
         NEW stored, IsStore(own, table, n, s, i, stored)
  PROVE  /\ IsTable(own, stored, n) /\ WellPlaced(own, stored, n)
         /\ s \in 0 .. n - 1 /\ s \notin Occupied(table)
         /\ Occupied(stored) = Occupied(table) \cup {s}
         /\ Cardinality(Occupied(stored)) = Cardinality(Occupied(table)) + 1
  <1>1. k \in Keys /\ n \in Nat \ {0} BY DEF IsTable
  <1>2. s \in 0 .. n - 1 /\ table[s] = NONE BY <1>1, LookupResult
  <1>3. PICK d0 \in Stops(own, table, n, k) :
          /\ \A e \in Stops(own, table, n, k) : d0 <= e
          /\ s = probe(n, k, d0)
    BY <1>1, LookupStops
  <1>4. IsTable(own, stored, n) BY DEF IsTable, IsStore
  <1>5. i # NONE BY KeysAssumption DEF IsTable
  <1>6. /\ s \notin Occupied(table)
        /\ Occupied(stored) = Occupied(table) \cup {s}
    BY <1>2, <1>5 DEF Occupied, IsTable, IsStore
  <1>7. \A t \in 0 .. n - 1 : stored[t] = IF t = s THEN i ELSE table[t]
    BY DEF IsStore
  <1>8. Slot(own, stored, n, k) = s
    <2>1. d0 \in 0 .. n - 1 BY DEF Stops
    <2>2. d0 \in Stops(own, stored, n, k)
      BY <1>2, <1>3, <1>7, <2>1 DEF Stops
    <2>3. ASSUME NEW e \in Stops(own, stored, n, k) PROVE d0 <= e
      <3>1. e \in 0 .. n - 1 /\ probe(n, k, e) \in 0 .. n - 1
        BY <1>1, ProbeType DEF Stops
      <3>2. CASE probe(n, k, e) = s
        BY <1>1, <1>3, <2>1, <3>1, <3>2, ProbeInjective
      <3>3. CASE probe(n, k, e) # s
        <4>1. e \in Stops(own, table, n, k) BY <1>7, <3>1, <3>3 DEF Stops
        <4> QED BY <1>3, <4>1
      <3> QED BY <3>2, <3>3
    <2> QED BY <1>1, <1>3, <1>4, <2>2, <2>3, LookupAt
  <1>9. ASSUME NEW t \in Occupied(table) PROVE Slot(own, stored, n, own[table[t]]) = t
    <2> DEFINE j == own[table[t]]
    <2>1. t \in 0 .. n - 1 /\ table[t] # NONE BY DEF Occupied, IsTable
    <2>2. j \in Keys BY <2>1 DEF IsTable
    <2>3. Slot(own, table, n, j) = t BY DEF WellPlaced
    <2>4. t # s BY <1>2, <2>1
    <2>5. j # k BY <2>3, <2>4
    <2>6. Stops(own, table, n, j) # {}
      <3>1. PICK d \in 0 .. n - 1 : probe(n, j, d) = t BY <1>1, <2>1, <2>2, ProbeOnto
      <3> QED BY <3>1 DEF Stops
    <2> HIDE DEF j
    <2>7. PICK d \in Stops(own, table, n, j) :
            /\ \A e \in Stops(own, table, n, j) : d <= e
            /\ t = probe(n, j, d)
      BY <2>2, <2>3, <2>6, LookupStops
    <2>8. d \in Stops(own, stored, n, j) BY <1>7, <2>1, <2>4, <2>7 DEF Stops, j
    <2>9. ASSUME NEW e \in Stops(own, stored, n, j) PROVE d <= e
      <3>1. e \in 0 .. n - 1 /\ probe(n, j, e) \in 0 .. n - 1
        BY <1>1, <2>2, ProbeType DEF Stops
      <3>2. probe(n, j, e) # s BY <1>2, <1>5, <1>7, <2>5, <3>1 DEF Stops
      <3>3. e \in Stops(own, table, n, j) BY <1>7, <3>1, <3>2 DEF Stops
      <3> QED BY <2>7, <3>3
    <2> QED BY <1>4, <2>2, <2>7, <2>8, <2>9, LookupAt DEF j
  <1>10. WellPlaced(own, stored, n)
    <2> SUFFICES ASSUME NEW t \in Occupied(stored)
                 PROVE  Slot(own, stored, n, own[stored[t]]) = t
      BY DEF WellPlaced
    <2>1. CASE t = s BY <1>2, <1>7, <1>8, <2>1
    <2>2. CASE t # s
      <3>1. t \in Occupied(table) BY <1>6, <2>2
      <3>2. stored[t] = table[t] BY <1>7, <2>2, <3>1 DEF Occupied, IsTable
      <3> QED BY <1>9, <3>1, <3>2
    <2> QED BY <2>1, <2>2
  <1>11. Cardinality(Occupied(stored)) = Cardinality(Occupied(table)) + 1
    <2>1. IsFiniteSet(Occupied(table)) BY OccupiedFinite
    <2>2. Cardinality(Occupied(table) \cup {s}) = Cardinality(Occupied(table)) + 1
      BY <1>6, <2>1, FS_AddElement
    <2> QED BY <1>6, <2>2
  <1> QED BY <1>2, <1>4, <1>6, <1>10, <1>11

\* A new element of the owner changes no entry and no lookup.
LEMMA OwnerGrows ==
  ASSUME NEW own, NEW table, NEW n, IsTable(own, table, n), NEW k \in Keys,
         NEW longer \in Seq(Keys), Len(longer) = Len(own) + 1, longer[Len(longer)] = k,
         \A i \in 1 .. Len(own) : longer[i] = own[i]
  PROVE  /\ IsTable(longer, table, n)
         /\ \A s \in 0 .. n - 1 : table[s] # NONE => longer[table[s]] = own[table[s]]
         /\ KeysIn(longer, table) = KeysIn(own, table)
         /\ WellPlaced(own, table, n) => WellPlaced(longer, table, n)
         /\ \A j \in Keys : /\ Slot(longer, table, n, j) = Slot(own, table, n, j)
                            /\ Stops(longer, table, n, j) = Stops(own, table, n, j)
  <1>1. Len(own) \in Nat BY DEF IsTable
  <1>2. IsTable(longer, table, n) BY <1>1 DEF IsTable
  <1>3. \A s \in 0 .. n - 1 : table[s] # NONE => longer[table[s]] = own[table[s]]
    BY <1>1 DEF IsTable
  <1>4. KeysIn(longer, table) = KeysIn(own, table)
    BY <1>3 DEF KeysIn, Occupied, IsTable
  <1>5. WellPlaced(own, table, n) => WellPlaced(longer, table, n)
    BY <1>2, <1>3, SameKeysWellPlaced
  <1>6. \A j \in Keys : /\ Slot(longer, table, n, j) = Slot(own, table, n, j)
                        /\ Stops(longer, table, n, j) = Stops(own, table, n, j)
    BY <1>2, <1>3, SameKeysSameLookup
  <1> QED BY <1>1, <1>2, <1>3, <1>4, <1>5, <1>6

-----------------------------------------------------------------------------
(* The inductive invariant.                                                 *)

\* The table in use: half of it is free, and every entry is where the lookup of
\* its key ends.
InUse ==
  open => /\ IsTable(owner, slots, capacity) /\ WellPlaced(owner, slots, capacity)
          /\ count = Cardinality(Occupied(slots))
          /\ 2 * count <= capacity /\ capacity >= 2

\* No table: nothing is counted, and a capacity being worked out is positive.
Closed ==
  ~open => /\ slots = <<>> /\ count = 0
           /\ pc = "sizing" => capacity >= 2

\* The slots that grow() has moved so far.
Moved == {s \in Occupied(slots) : s < cursor}

\* A growing table: the new one holds exactly the indices already moved, each
\* where its lookup ends there; the element being inserted is in neither.
Growing ==
  pc = "growing" =>
    /\ IsTable(owner, fresh, 2 * capacity) /\ WellPlaced(owner, fresh, 2 * capacity)
    /\ {fresh[s] : s \in Occupied(fresh)} = {slots[s] : s \in Moved}
    /\ Cardinality(Occupied(fresh)) = Cardinality(Moved)
    /\ owner # <<>> /\ owner[Len(owner)] \notin KeysIn(owner, slots)

Types ==
  /\ pc \in {"released", "sizing", "ready", "growing"}
  /\ owner \in Seq(Keys) /\ expected \in Nat
  /\ capacity \in Nat /\ count \in Nat /\ cursor \in 0 .. capacity
  /\ pc # "growing" => cursor = 0
  /\ returned.previous \in Index \cup {NONE}

Inv == Types /\ InUse /\ Closed /\ Growing

-----------------------------------------------------------------------------
(* The model's lookups are the ones of the lemmas.                          *)

\* find_slot and found of the model are the lookups the lemmas speak of.
LEMMA ModelLookup ==
  /\ \A table, n, k : stops(table, n, k) = Stops(owner, table, n, k)
  /\ \A table, n, k : find_slot(table, n, k) = Slot(owner, table, n, k)
  /\ \A table, n, k : found(table, n, k) <=> table[Slot(owner, table, n, k)] # NONE
  <1>1. \A table, n, k : stops(table, n, k) = Stops(owner, table, n, k)
    BY DEF stops, Stops
  <1>2. \A table, n, k : find_slot(table, n, k) = Slot(owner, table, n, k)
    BY <1>1 DEF find_slot, Slot
  <1> QED BY <1>1, <1>2 DEF found

\* Every lookup in the table in use ends.
LEMMA LookupEnds ==
  ASSUME Types, InUse, open, NEW k \in Keys
  PROVE  Stops(owner, slots, capacity, k) # {}
  <1>1. Cardinality(Occupied(slots)) < capacity BY DEF Types, InUse
  <1>2. PICK s \in 0 .. capacity - 1 : slots[s] = NONE BY <1>1, RoomLeft DEF InUse
  <1> QED BY <1>2, EmptySlotStops DEF InUse

\* The entries moved so far are some of the table's.
LEMMA MovedFinite ==
  ASSUME Types, InUse, open
  PROVE  /\ IsFiniteSet(Moved) /\ Cardinality(Moved) \in Nat
         /\ Cardinality(Moved) <= Cardinality(Occupied(slots))
  <1>1. IsFiniteSet(Occupied(slots)) BY OccupiedFinite DEF InUse
  <1>2. Moved \subseteq Occupied(slots) BY DEF Moved
  <1>3. IsFiniteSet(Moved) /\ Cardinality(Moved) <= Cardinality(Occupied(slots))
    BY <1>1, <1>2, FS_Subset
  <1> QED BY <1>3, FS_CardinalityType

\* So does every lookup in the new table of grow().
LEMMA FreshLookupEnds ==
  ASSUME Inv, pc = "growing", NEW k \in Keys
  PROVE  Stops(owner, fresh, 2 * capacity, k) # {}
  <1>1. open BY DEF open
  <1>2. Cardinality(Occupied(fresh)) < 2 * capacity
    BY <1>1, MovedFinite DEF Inv, Types, InUse, Growing
  <1>3. PICK s \in 0 .. 2 * capacity - 1 : fresh[s] = NONE
    BY <1>2, RoomLeft DEF Inv, Growing
  <1> QED BY <1>3, EmptySlotStops DEF Inv, Growing

\* A table no index was stored in.
LEMMA FreshTable ==
  ASSUME NEW own \in Seq(Keys), NEW n \in Nat \ {0}
  PROVE  /\ IsTable(own, allocate_slots(n), n) /\ WellPlaced(own, allocate_slots(n), n)
         /\ Occupied(allocate_slots(n)) = {} /\ Cardinality(Occupied(allocate_slots(n))) = 0
  <1>1. IsTable(own, allocate_slots(n), n) BY DEF IsTable, allocate_slots
  <1>2. Occupied(allocate_slots(n)) = {} BY DEF Occupied, allocate_slots
  <1> QED BY <1>1, <1>2, FS_EmptySet DEF WellPlaced

\* The invariant holds before the first call.
LEMMA InitStep == Init => Inv
  <1> SUFFICES ASSUME Init PROVE Inv OBVIOUS
  <1>1. Types BY DEF Init, Types, Index, answer
  <1>2. InUse /\ Closed /\ Growing BY DEF Init, InUse, Closed, Growing, open
  <1> QED BY <1>1, <1>2 DEF Inv

\* keyset_init keeps the invariant.
LEMMA keyset_initStep == ASSUME Inv, keyset_init PROVE Inv'
  <1>1. Types' BY TableAssumption DEF Inv, Types, Index, keyset_init
  <1>2. InUse' /\ Closed' /\ Growing'
    BY TableAssumption DEF Inv, InUse, Closed, Growing, open, keyset_init
  <1> QED BY <1>1, <1>2 DEF Inv

\* A round of the sizing loop keeps the invariant.
LEMMA DoubleCapacityStep == ASSUME Inv, DoubleCapacity PROVE Inv'
  <1>1. Types' BY DEF Inv, Types, Index, DoubleCapacity
  <1>2. InUse' /\ Closed' /\ Growing'
    BY DEF Inv, Types, InUse, Closed, Growing, open, DoubleCapacity
  <1> QED BY <1>1, <1>2 DEF Inv

\* The allocation of the table keeps the invariant.
LEMMA AllocateTableStep == ASSUME Inv, AllocateTable PROVE Inv'
  <1>1. Types' BY DEF Inv, Types, Index, AllocateTable, answer
  <1>2. CASE pc' = "ready"
    <2>1. /\ slots' = allocate_slots(capacity) /\ count' = 0 /\ capacity >= 2
          /\ capacity' = capacity /\ owner' = owner
      BY <1>2 DEF Inv, Types, Closed, open, AllocateTable
    <2>2. owner \in Seq(Keys) /\ capacity \in Nat \ {0} BY <2>1 DEF Inv, Types
    <2>3. InUse' BY <2>1, <2>2, FreshTable DEF InUse
    <2> QED BY <1>1, <1>2, <2>3 DEF Inv, Closed, Growing, open
  <1>3. CASE pc' = "released"
    <2>1. InUse' /\ Closed' /\ Growing'
      BY <1>3 DEF Inv, Types, InUse, Closed, Growing, open, AllocateTable
    <2> QED BY <1>1, <2>1 DEF Inv
  <1> QED BY <1>2, <1>3 DEF AllocateTable

\* keyset_release keeps the invariant.
LEMMA keyset_releaseStep == ASSUME Inv, keyset_release PROVE Inv'
  <1>1. Types' BY DEF Inv, Types, Index, keyset_release, answer
  <1>2. InUse' /\ Closed' /\ Growing'
    BY DEF Inv, InUse, Closed, Growing, open, keyset_release
  <1> QED BY <1>1, <1>2 DEF Inv

\* keyset_contains keeps the invariant.
LEMMA keyset_containsStep ==
  ASSUME Inv, NEW k \in Keys, keyset_contains(k) PROVE Inv'
  <1>1. Types' BY DEF Inv, Types, Index, keyset_contains, answer
  <1>2. InUse' /\ Closed' /\ Growing'
    BY DEF Inv, InUse, Closed, Growing, Moved, open, keyset_contains
  <1> QED BY <1>1, <1>2 DEF Inv

\* What insert knows once it has looked the new element's key up.
LEMMA Offered ==
  ASSUME Inv, NEW k \in Keys, Offer(k)
  PROVE  /\ open /\ owner' = Append(owner, k) /\ expected' = expected
         /\ IsTable(owner, slots, capacity) /\ IsTable(owner', slots, capacity)
         /\ WellPlaced(owner', slots, capacity)
         /\ KeysIn(owner', slots) = KeysIn(owner, slots)
         /\ owner' \in Seq(Keys) /\ Len(owner') = Len(owner) + 1 /\ Len(owner) \in Nat
         /\ owner'[Len(owner')] = k
         /\ \A s \in 0 .. capacity - 1 : slots[s] # NONE => owner'[slots[s]] = owner[slots[s]]
         /\ Slot(owner', slots, capacity, k) = Slot(owner, slots, capacity, k)
         /\ Stops(owner', slots, capacity, k) # {}
         /\ Stops(owner, slots, capacity, k) # {}
         /\ found(slots, capacity, k) <=> k \in KeysIn(owner, slots)
         /\ find_slot(slots, capacity, k) = Slot(owner, slots, capacity, k)
  <1>1. /\ open /\ owner' = Append(owner, k) /\ expected' = expected BY DEF Offer, open
  <1>2. IsTable(owner, slots, capacity) /\ WellPlaced(owner, slots, capacity)
    BY <1>1 DEF Inv, InUse
  <1>3. Stops(owner, slots, capacity, k) # {} BY <1>1, LookupEnds DEF Inv
  <1>4. found(slots, capacity, k) <=> k \in KeysIn(owner, slots)
    BY <1>2, <1>3, FoundIsHeld, ModelLookup
  <1>6. /\ owner' \in Seq(Keys) /\ Len(owner') = Len(owner) + 1 /\ Len(owner) \in Nat
        /\ owner'[Len(owner')] = k
        /\ \A i \in 1 .. Len(owner) : owner'[i] = owner[i]
    BY <1>1, <1>2 DEF IsTable
  <1>5. /\ IsTable(owner', slots, capacity) /\ WellPlaced(owner', slots, capacity)
        /\ KeysIn(owner', slots) = KeysIn(owner, slots)
        /\ \A s \in 0 .. capacity - 1 : slots[s] # NONE => owner'[slots[s]] = owner[slots[s]]
        /\ Slot(owner', slots, capacity, k) = Slot(owner, slots, capacity, k)
        /\ Stops(owner', slots, capacity, k) = Stops(owner, slots, capacity, k)
    BY <1>2, <1>6, OwnerGrows
  <1>7. find_slot(slots, capacity, k) = Slot(owner, slots, capacity, k) BY ModelLookup
  <1> QED BY <1>1, <1>2, <1>3, <1>4, <1>5, <1>6, <1>7

\* An insert that meets its key keeps the invariant.
LEMMA RefuseStep == ASSUME Inv, NEW k \in Keys, Refuse(k) PROVE Inv'
  <1>1. Offer(k) /\ pc = "ready" /\ UNCHANGED <<pc, slots, capacity, count, fresh, cursor>>
    BY DEF Refuse, Offer
  <1>2. Types'
    BY <1>1, Offered DEF Inv, Types, Index, Refuse, answer
  <1>3. InUse' BY <1>1, Offered DEF Inv, InUse
  <1> QED BY <1>1, <1>2, <1>3 DEF Inv, Closed, Growing, open

\* An insert that cannot grow keeps the invariant.
LEMMA GrowFailsStep == ASSUME Inv, NEW k \in Keys, GrowFails(k) PROVE Inv'
  <1>1. Offer(k) /\ pc = "ready" /\ UNCHANGED <<pc, slots, capacity, count, fresh, cursor>>
    BY DEF GrowFails, Offer
  <1>2. Types'
    BY <1>1, Offered DEF Inv, Types, Index, GrowFails, answer
  <1>3. InUse' BY <1>1, Offered DEF Inv, InUse
  <1> QED BY <1>1, <1>2, <1>3 DEF Inv, Closed, Growing, open

\* An insert_last that meets its key keeps the invariant.
LEMMA ReplaceStep == ASSUME Inv, NEW k \in Keys, Replace(k) PROVE Inv'
  <1> DEFINE s == Slot(owner, slots, capacity, k)
  <1>1. /\ Offer(k) /\ pc = "ready" /\ UNCHANGED <<pc, capacity, count, fresh, cursor>>
        /\ slots' = [slots EXCEPT ![s] = Len(owner')]
        /\ k \in KeysIn(owner, slots)
        /\ returned' = answer("OK", slots[s])
    BY Offered DEF Replace, Offer
  <1>2. /\ IsTable(owner, slots, capacity) /\ Len(owner') = Len(owner) + 1 /\ Len(owner) \in Nat
        /\ owner' \in Seq(Keys) /\ owner'[Len(owner')] = k
        /\ Stops(owner, slots, capacity, k) # {}
        /\ open /\ expected' = expected
        /\ IsTable(owner', slots, capacity) /\ WellPlaced(owner', slots, capacity)
        /\ \A t \in 0 .. capacity - 1 : slots[t] # NONE => owner'[slots[t]] = owner[slots[t]]
    BY <1>1, Offered
  <1>3. s \in 0 .. capacity - 1 /\ slots[s] # NONE /\ owner[slots[s]] = k
    BY <1>1, <1>2, LookupResult, FoundIsHeld DEF Inv, InUse
  <1> HIDE DEF s
  <1>4. Len(owner') \in 1 .. Len(owner') /\ Len(owner') # NONE
    BY <1>2, KeysAssumption
  <1>5. IsTable(owner', slots', capacity) BY <1>1, <1>2, <1>3, <1>4 DEF IsTable
  <1>6. \A t \in 0 .. capacity - 1 : slots'[t] = IF t = s THEN Len(owner') ELSE slots[t]
    BY <1>1, <1>2 DEF IsTable
  <1>7. \A t \in 0 .. capacity - 1 : /\ slots[t] = NONE <=> slots'[t] = NONE
                                     /\ slots[t] # NONE => owner'[slots[t]] = owner'[slots'[t]]
    BY <1>2, <1>3, <1>4, <1>6
  <1>8. WellPlaced(owner', slots', capacity) /\ Occupied(slots') = Occupied(slots)
    BY <1>2, <1>5, <1>7, SameKeysWellPlaced
  <1>9. InUse' BY <1>1, <1>2, <1>5, <1>8 DEF Inv, InUse
  <1>10. Types'
    <2>1. slots[s] \in 1 .. Len(owner') BY <1>2, <1>3 DEF IsTable
    <2> QED BY <1>1, <1>2, <2>1 DEF Inv, Types, Index, answer
  <1> QED BY <1>1, <1>9, <1>10 DEF Inv, Closed, Growing, open

\* An insert into a table with room keeps the invariant.
LEMMA StoreStep == ASSUME Inv, NEW k \in Keys, Store(k) PROVE Inv'
  <1> DEFINE s == Slot(owner', slots, capacity, k)
  <1>1. /\ Offer(k) /\ pc = "ready" /\ UNCHANGED <<pc, capacity, fresh, cursor>>
        /\ slots' = [slots EXCEPT ![s] = Len(owner')]
        /\ ~full /\ count' = count + 1 /\ slots[s] = NONE
        /\ returned' = answer("OK", NONE)
    BY Offered, ModelLookup DEF Store, Offer
  <1>2. /\ Len(owner') = Len(owner) + 1 /\ Len(owner) \in Nat
        /\ owner' \in Seq(Keys) /\ owner'[Len(owner')] = k
        /\ Stops(owner', slots, capacity, k) # {}
        /\ open /\ expected' = expected
        /\ IsTable(owner', slots, capacity) /\ WellPlaced(owner', slots, capacity)
    BY <1>1, Offered
  <1>3. /\ IsTable(owner', slots', capacity) /\ WellPlaced(owner', slots', capacity)
        /\ Cardinality(Occupied(slots')) = Cardinality(Occupied(slots)) + 1
    <2>1. Len(owner') \in 1 .. Len(owner') BY <1>2
    <2>2. s \in 0 .. capacity - 1 BY <1>2, LookupResult
    <2>3. slots[s] = NONE BY <1>1
    <2> HIDE DEF s
    <2>4. IsStore(owner', slots, capacity, s, Len(owner'), slots')
      BY <1>1, <1>2, <2>1, <2>2 DEF IsTable, IsStore
    <2>5. s = Slot(owner', slots, capacity, k) BY <1>2 DEF s
    <2> QED BY <1>2, <2>1, <2>3, <2>4, <2>5, StoreWellPlaced
  <1>4. InUse' BY <1>1, <1>2, <1>3 DEF Inv, InUse, Types, full
  <1>5. Types' BY <1>1, <1>2 DEF Inv, Types, Index, answer
  <1> QED BY <1>1, <1>4, <1>5 DEF Inv, Closed, Growing, open

\* The start of grow() keeps the invariant.
LEMMA GrowStep == ASSUME Inv, NEW k \in Keys, Grow(k) PROVE Inv'
  <1>1. /\ Offer(k) /\ pc = "ready" /\ pc' = "growing"
        /\ UNCHANGED <<slots, capacity, count, returned>>
        /\ fresh' = allocate_slots(2 * capacity) /\ cursor' = 0
        /\ k \notin KeysIn(owner, slots)
    BY Offered DEF Grow, Offer
  <1>2. /\ Len(owner') = Len(owner) + 1 /\ Len(owner) \in Nat
        /\ owner' \in Seq(Keys) /\ owner'[Len(owner')] = k
        /\ open /\ expected' = expected
        /\ IsTable(owner', slots, capacity) /\ WellPlaced(owner', slots, capacity)
        /\ KeysIn(owner', slots) = KeysIn(owner, slots)
    BY <1>1, Offered
  <1>3. Types' BY <1>1, <1>2 DEF Inv, Types, Index
  <1>4. InUse' BY <1>1, <1>2 DEF Inv, InUse
  <1>5. 2 * capacity \in Nat \ {0} BY <1>2 DEF Inv, Types, InUse
  <1>6. Moved' = {}
    <2>1. Occupied(slots) \subseteq 0 .. capacity - 1 BY <1>2, OccupiedFinite
    <2> QED BY <1>1, <2>1 DEF Moved, Inv, Types
  <1>7. Growing'
    <2>1. /\ IsTable(owner', fresh', 2 * capacity) /\ WellPlaced(owner', fresh', 2 * capacity)
          /\ Occupied(fresh') = {} /\ Cardinality(Occupied(fresh')) = 0
      BY <1>1, <1>2, <1>5, FreshTable
    <2>2. owner' # <<>> BY <1>2
    <2>3. {fresh'[t] : t \in Occupied(fresh')} = {slots'[t] : t \in Moved'}
      BY <1>6, <2>1
    <2>4. Cardinality(Occupied(fresh')) = Cardinality(Moved') BY <1>6, <2>1
    <2> QED BY <1>1, <1>2, <2>1, <2>2, <2>3, <2>4 DEF Growing
  <1>8. Closed' BY <1>1 DEF Closed, open
  <1> QED BY <1>3, <1>4, <1>7, <1>8 DEF Inv

\* A key none of the moved entries carries is not in the new table.
LEMMA NotMoved ==
  ASSUME Inv, pc = "growing", NEW k \in Keys, \A t \in Moved : owner[slots[t]] # k
  PROVE  fresh[Slot(owner, fresh, 2 * capacity, k)] = NONE
  <1>1. k \notin KeysIn(owner, fresh)
    <2> SUFFICES ASSUME NEW s \in Occupied(fresh), owner[fresh[s]] = k PROVE FALSE
      BY DEF KeysIn
    <2>1. fresh[s] \in {slots[t] : t \in Moved} BY DEF Inv, Growing
    <2> QED BY <2>1
  <1> QED BY <1>1, FreshLookupEnds, FoundIsHeld DEF Inv, Growing

\* The entry that grow() moves next is not in the new table yet: no other entry
\* has its key.
LEMMA NextNotMoved ==
  ASSUME Inv, pc = "growing", cursor < capacity, slots[cursor] # NONE
  PROVE  /\ owner[slots[cursor]] \in Keys
         /\ cursor \in Occupied(slots)
         /\ fresh[Slot(owner, fresh, 2 * capacity, owner[slots[cursor]])] = NONE
  <1>1. IsTable(owner, slots, capacity) /\ WellPlaced(owner, slots, capacity)
    BY DEF Inv, InUse, open
  <1>2. cursor \in 0 .. capacity - 1 BY DEF Inv, Types
  <1>3. cursor \in Occupied(slots) BY <1>1, <1>2 DEF Occupied, IsTable
  <1>4. owner[slots[cursor]] \in Keys BY <1>1, <1>2 DEF IsTable
  <1>5. \A t \in Moved : owner[slots[t]] # owner[slots[cursor]]
    <2> SUFFICES ASSUME NEW t \in Moved, owner[slots[t]] = owner[slots[cursor]] PROVE FALSE
      OBVIOUS
    <2>1. t \in Occupied(slots) /\ t < cursor BY DEF Moved
    <2>2. t = cursor BY <1>1, <1>3, <2>1 DEF WellPlaced
    <2> QED BY <1>2, <2>1, <2>2
  <1> QED BY <1>3, <1>4, <1>5, NotMoved

\* A round of the loop of grow() keeps the invariant.
LEMMA RehashStep == ASSUME Inv, Rehash PROVE Inv'
  <1>1. /\ pc = "growing" /\ cursor < capacity /\ cursor' = cursor + 1
        /\ UNCHANGED <<pc, owner, expected, slots, capacity, count, returned>>
    BY DEF Rehash
  <1>2. Types' BY <1>1 DEF Inv, Types, Index
  <1>3. InUse' /\ Closed' BY <1>1 DEF Inv, InUse, Closed, open
  <1>4. /\ IsTable(owner, slots, capacity) /\ capacity \in Nat
        /\ Occupied(slots) \subseteq 0 .. capacity - 1 /\ cursor \in 0 .. capacity - 1
        /\ open
    BY <1>1, OccupiedFinite DEF Inv, Types, InUse, open
  <1>5. Moved' = {s \in Occupied(slots) : s < cursor + 1} BY <1>1 DEF Moved
  <1>6. CASE slots[cursor] = NONE
    <2>1. fresh' = fresh BY <1>6 DEF Rehash
    <2>2. Moved' = Moved BY <1>4, <1>5, <1>6 DEF Moved, Occupied
    <2>3. Growing' BY <1>1, <2>1, <2>2 DEF Inv, Growing
    <2> QED BY <1>2, <1>3, <2>3 DEF Inv
  <1>7. CASE slots[cursor] # NONE
    <2> DEFINE i == slots[cursor]
               k == owner[i]
               s == Slot(owner, fresh, 2 * capacity, k)
    <2>1. k \in Keys /\ cursor \in Occupied(slots) /\ fresh[s] = NONE
      BY <1>1, <1>7, NextNotMoved
    <2>2. fresh' = [fresh EXCEPT ![s] = i] BY <1>7, ModelLookup DEF Rehash
    <2>3. i \in 1 .. Len(owner) BY <1>4, <1>7 DEF IsTable
    <2>4. /\ IsTable(owner, fresh, 2 * capacity) /\ WellPlaced(owner, fresh, 2 * capacity)
          /\ Stops(owner, fresh, 2 * capacity, k) # {}
      BY <1>1, <2>1, FreshLookupEnds DEF Inv, Growing
    <2>5. s \in 0 .. 2 * capacity - 1 BY <2>1, <2>4, LookupResult
    <2>6. owner[i] = k /\ s = Slot(owner, fresh, 2 * capacity, k) OBVIOUS
    <2> HIDE DEF i, k, s
    <2>7. IsStore(owner, fresh, 2 * capacity, s, i, fresh')
      BY <2>2, <2>3, <2>4, <2>5 DEF IsTable, IsStore
    <2>8. /\ IsTable(owner, fresh', 2 * capacity) /\ WellPlaced(owner, fresh', 2 * capacity)
          /\ s \notin Occupied(fresh) /\ Occupied(fresh') = Occupied(fresh) \cup {s}
          /\ Cardinality(Occupied(fresh')) = Cardinality(Occupied(fresh)) + 1
      BY <2>1, <2>3, <2>4, <2>6, <2>7, StoreWellPlaced
    <2>9. Moved' = Moved \cup {cursor} /\ cursor \notin Moved
      BY <1>4, <1>5, <2>1 DEF Moved
    <2>10. Cardinality(Moved') = Cardinality(Moved) + 1
      <3>1. IsFiniteSet(Moved) BY <1>4, MovedFinite DEF Inv
      <3>2. Cardinality(Moved \cup {cursor}) = Cardinality(Moved) + 1
        BY <2>9, <3>1, FS_AddElement
      <3> QED BY <2>9, <3>2
    <2>11. {fresh'[t] : t \in Occupied(fresh')} = {slots'[t] : t \in Moved'}
      <3>1. \A t \in Occupied(fresh) : fresh'[t] = fresh[t]
        BY <2>4, <2>7, <2>8 DEF IsStore, IsTable, Occupied
      <3>2. fresh'[s] = i BY <2>5, <2>7 DEF IsStore
      <3>3. {fresh'[t] : t \in Occupied(fresh')} = {fresh[t] : t \in Occupied(fresh)} \cup {i}
        BY <2>8, <3>1, <3>2
      <3>4. {slots[t] : t \in Moved \cup {cursor}} = {slots[t] : t \in Moved} \cup {i}
        BY DEF i
      <3>5. {fresh[t] : t \in Occupied(fresh)} = {slots[t] : t \in Moved}
        BY <1>1 DEF Inv, Growing
      <3> QED BY <1>1, <2>9, <3>3, <3>4, <3>5
    <2>12. Cardinality(Occupied(fresh)) = Cardinality(Moved) BY <1>1 DEF Inv, Growing
    <2>13. Growing'
      BY <1>1, <2>8, <2>10, <2>11, <2>12 DEF Inv, Growing
    <2> QED BY <1>2, <1>3, <2>13 DEF Inv
  <1> QED BY <1>6, <1>7

\* When grow() has moved every slot, the key that made it grow is still not in the new table.
LEMMA LastNotMoved ==
  ASSUME Inv, pc = "growing", cursor = capacity
  PROVE  /\ Moved = Occupied(slots)
         /\ Len(owner) \in 1 .. Len(owner) /\ owner[Len(owner)] \in Keys
         /\ fresh[Slot(owner, fresh, 2 * capacity, owner[Len(owner)])] = NONE
  <1>1. IsTable(owner, slots, capacity) BY DEF Inv, InUse, open
  <1>2. Moved = Occupied(slots)
    <2>1. Occupied(slots) \subseteq 0 .. capacity - 1 BY <1>1, OccupiedFinite
    <2> QED BY <2>1 DEF Moved, Inv, Types
  <1>3. Len(owner) \in 1 .. Len(owner) /\ owner[Len(owner)] \in Keys
    BY DEF Inv, Types, Growing
  <1>4. \A t \in Moved : owner[slots[t]] # owner[Len(owner)]
    BY <1>2 DEF Inv, Growing, KeysIn
  <1> QED BY <1>2, <1>3, <1>4, NotMoved

\* The insert after grow() keeps the invariant.
LEMMA StoreGrownStep == ASSUME Inv, StoreGrown PROVE Inv'
  <1> DEFINE i == Len(owner)
             k == owner[i]
             s == Slot(owner, fresh, 2 * capacity, k)
  <1>1. /\ pc = "growing" /\ cursor = capacity /\ pc' = "ready"
        /\ capacity' = 2 * capacity /\ count' = count + 1 /\ cursor' = 0
        /\ slots' = [fresh EXCEPT ![s] = i]
        /\ returned' = answer("OK", NONE) /\ UNCHANGED <<owner, expected>>
    BY ModelLookup DEF StoreGrown
  <1>2. i \in 1 .. Len(owner) /\ k \in Keys /\ fresh[s] = NONE /\ Moved = Occupied(slots)
    BY <1>1, LastNotMoved
  <1>3. /\ IsTable(owner, fresh, 2 * capacity) /\ WellPlaced(owner, fresh, 2 * capacity)
        /\ Stops(owner, fresh, 2 * capacity, k) # {}
    BY <1>1, <1>2, FreshLookupEnds DEF Inv, Growing
  <1>4. s \in 0 .. 2 * capacity - 1 BY <1>2, <1>3, LookupResult
  <1>5. owner[i] = k /\ s = Slot(owner, fresh, 2 * capacity, k) OBVIOUS
  <1> HIDE DEF i, k, s
  <1>6. IsStore(owner, fresh, 2 * capacity, s, i, slots')
    BY <1>1, <1>2, <1>3, <1>4 DEF IsTable, IsStore
  <1>7. /\ IsTable(owner, slots', 2 * capacity) /\ WellPlaced(owner, slots', 2 * capacity)
        /\ Cardinality(Occupied(slots')) = Cardinality(Occupied(fresh)) + 1
    BY <1>2, <1>3, <1>5, <1>6, StoreWellPlaced
  <1>8. /\ Cardinality(Occupied(fresh)) = count /\ capacity >= 2 /\ 2 * count <= capacity
        /\ capacity \in Nat /\ count \in Nat
    BY <1>1, <1>2 DEF Inv, InUse, Growing, Types, open
  <1>9. InUse' BY <1>1, <1>7, <1>8 DEF InUse
  <1>10. Types' BY <1>1 DEF Inv, Types, Index, answer
  <1> QED BY <1>1, <1>9, <1>10 DEF Inv, Closed, Growing, open

\* Every step keeps the invariant.
LEMMA NextStep == Inv /\ [Next]_vars => Inv'
  <1> SUFFICES ASSUME Inv, [Next]_vars PROVE Inv' OBVIOUS
  <1>1. CASE keyset_init BY <1>1, keyset_initStep
  <1>2. CASE DoubleCapacity BY <1>2, DoubleCapacityStep
  <1>3. CASE AllocateTable BY <1>3, AllocateTableStep
  <1>4. CASE keyset_release BY <1>4, keyset_releaseStep
  <1>5. CASE Rehash BY <1>5, RehashStep
  <1>6. CASE StoreGrown BY <1>6, StoreGrownStep
  <1>7. ASSUME NEW k \in Keys, keyset_contains(k) PROVE Inv'
    BY <1>7, keyset_containsStep
  <1>8. ASSUME NEW k \in Keys, insert(k) PROVE Inv'
    BY <1>8, RefuseStep, ReplaceStep, StoreStep, GrowFailsStep, GrowStep DEF insert
  <1>9. CASE UNCHANGED vars
    BY <1>9 DEF vars, Inv, Types, Index, InUse, Closed, Growing, Moved, open
  <1> QED BY <1>1, <1>2, <1>3, <1>4, <1>5, <1>6, <1>7, <1>8, <1>9 DEF Next

\* The inductive invariant holds in every reachable state.
THEOREM InvHolds == Spec => []Inv
  BY InitStep, NextStep, PTL DEF Spec

\* Every lookup ends: find_slot meets an empty slot or its key, in the table in
\* use and in the one grow() fills.
THEOREM ProbeEndsHolds == Spec => []ProbeEnds
  <1>1. Inv => ProbeEnds
    BY LookupEnds, FreshLookupEnds, ModelLookup DEF ProbeEnds, Inv
  <1> QED BY <1>1, InvHolds, PTL

\* The table's fields agree, half of it stays free, every stored index is found
\* under its own key, and the assertions of grow() and insert() hold.
THEOREM TableOKHolds == Spec => []TableOK
  <1>1. ASSUME Inv PROVE TableOK
    <2>1. TypeOK
      BY <1>1 DEF Inv, Types, InUse, Closed, Growing, TypeOK, IsTable, Index, open
    <2>2. HalfEmpty BY <1>1 DEF Inv, InUse, HalfEmpty
    <2>3. StoredIsFound
      BY <1>1, ModelLookup DEF Inv, InUse, StoredIsFound, WellPlaced
    <2>4. RehashMeetsNoDuplicate
      BY <1>1, NextNotMoved, LastNotMoved, ModelLookup DEF RehashMeetsNoDuplicate
    <2> QED BY <2>1, <2>2, <2>3, <2>4 DEF TableOK
  <1> QED BY <1>1, InvHolds, PTL

-----------------------------------------------------------------------------
(* The refinement of KeyMap.  A table stands for a map through its entries  *)
(* alone, wherever they are stored.                                         *)

Entries(table) == {table[s] : s \in Occupied(table)}

MapOf(own, table) ==
  [k \in KeysIn(own, table) |-> table[CHOOSE s \in Occupied(table) : own[table[s]] = k]]

\* Index i replaces whatever index had key k.
Supersedes(own, before, i, k, after) ==
  \A j : j \in after <=> j = i \/ (j \in before /\ own[j] # k)

\* What KeyMap calls extending a map.
Extends(before, k, i, after) ==
  after = [x \in DOMAIN before \cup {k} |-> IF x = k THEN i ELSE before[x]]

\* A well-placed table maps the key of each entry to that entry.
LEMMA MapByEntries ==
  ASSUME NEW own, NEW table, NEW n, IsTable(own, table, n), WellPlaced(own, table, n)
  PROVE  /\ DOMAIN MapOf(own, table) = KeysIn(own, table)
         /\ \A k \in KeysIn(own, table) : \E i \in Entries(table) : own[i] = k
         /\ \A i \in Entries(table) : /\ own[i] \in KeysIn(own, table)
                                       /\ MapOf(own, table)[own[i]] = i
  <1>1. DOMAIN MapOf(own, table) = KeysIn(own, table) BY DEF MapOf
  <1>2. \A k \in KeysIn(own, table) : \E i \in Entries(table) : own[i] = k
    BY DEF KeysIn, Entries
  <1>3. ASSUME NEW i \in Entries(table)
        PROVE  own[i] \in KeysIn(own, table) /\ MapOf(own, table)[own[i]] = i
    <2>1. PICK s \in Occupied(table) : table[s] = i BY DEF Entries
    <2>2. own[i] \in KeysIn(own, table) BY <2>1 DEF KeysIn
    <2> DEFINE t == CHOOSE t \in Occupied(table) : own[table[t]] = own[i]
    <2>3. t \in Occupied(table) /\ own[table[t]] = own[i] BY <2>1
    <2>4. MapOf(own, table)[own[i]] = table[t] BY <2>2 DEF MapOf
    <2> HIDE DEF t
    <2>5. t = s BY <2>1, <2>3 DEF WellPlaced
    <2> QED BY <2>1, <2>2, <2>4, <2>5
  <1> QED BY <1>1, <1>2, <1>3

\* Tables with the same entries under the same keys stand for the same map.
LEMMA SameMap ==
  ASSUME NEW own, NEW table, NEW n, IsTable(own, table, n), WellPlaced(own, table, n),
         NEW own2, NEW table2, NEW n2, IsTable(own2, table2, n2), WellPlaced(own2, table2, n2),
         Entries(table2) = Entries(table), \A i \in Entries(table) : own2[i] = own[i]
  PROVE  MapOf(own2, table2) = MapOf(own, table)
  <1>1. KeysIn(own2, table2) = KeysIn(own, table)
    <2>1. KeysIn(own, table) = {own[i] : i \in Entries(table)} BY DEF KeysIn, Entries
    <2>2. KeysIn(own2, table2) = {own2[i] : i \in Entries(table2)} BY DEF KeysIn, Entries
    <2> QED BY <2>1, <2>2
  <1>2. ASSUME NEW k \in KeysIn(own, table)
        PROVE  MapOf(own2, table2)[k] = MapOf(own, table)[k]
    <2>1. PICK i \in Entries(table) : own[i] = k BY MapByEntries
    <2>2. MapOf(own, table)[own[i]] = i BY MapByEntries
    <2>3. MapOf(own2, table2)[own2[i]] = i BY MapByEntries
    <2> QED BY <2>1, <2>2, <2>3
  <1>3. /\ MapOf(own, table) = [k \in KeysIn(own, table) |-> MapOf(own, table)[k]]
        /\ MapOf(own2, table2) = [k \in KeysIn(own2, table2) |-> MapOf(own2, table2)[k]]
    BY DEF MapOf
  <1> QED BY <1>1, <1>2, <1>3

\* Index i under key k added, any other index under k dropped: the map is
\* extended by k.
LEMMA ExtendedMap ==
  ASSUME NEW own, NEW table, NEW n, IsTable(own, table, n), WellPlaced(own, table, n),
         NEW table2, NEW n2, IsTable(own, table2, n2), WellPlaced(own, table2, n2),
         NEW i, NEW k, own[i] = k, Supersedes(own, Entries(table), i, k, Entries(table2))
  PROVE  Extends(MapOf(own, table), k, i, MapOf(own, table2))
  <1>1. KeysIn(own, table2) = KeysIn(own, table) \cup {k}
    <2>1. KeysIn(own, table) = {own[j] : j \in Entries(table)} BY DEF KeysIn, Entries
    <2>2. KeysIn(own, table2) = {own[j] : j \in Entries(table2)} BY DEF KeysIn, Entries
    <2>3. ASSUME NEW x \in KeysIn(own, table2) PROVE x \in KeysIn(own, table) \cup {k}
      <3>1. PICK j \in Entries(table2) : own[j] = x BY <2>2
      <3>2. CASE j = i BY <3>1, <3>2
      <3>3. CASE j \in Entries(table) BY <2>1, <3>1, <3>3
      <3> QED BY <3>2, <3>3 DEF Supersedes
    <2>4. ASSUME NEW x \in KeysIn(own, table), x # k PROVE x \in KeysIn(own, table2)
      <3>1. PICK j \in Entries(table) : own[j] = x BY <2>1
      <3>2. j \in Entries(table2) BY <2>4, <3>1 DEF Supersedes
      <3> QED BY <2>2, <3>1, <3>2
    <2>5. k \in KeysIn(own, table2) BY <2>2 DEF Supersedes
    <2> QED BY <2>3, <2>4, <2>5
  <1>2. ASSUME NEW x \in KeysIn(own, table2)
        PROVE  MapOf(own, table2)[x] = IF x = k THEN i ELSE MapOf(own, table)[x]
    <2>1. CASE x = k BY <2>1, MapByEntries DEF Supersedes
    <2>2. CASE x # k
      <3>1. PICK j \in Entries(table2) : own[j] = x BY MapByEntries
      <3>2. j \in Entries(table) /\ own[j] = x BY <2>2, <3>1 DEF Supersedes
      <3>3. MapOf(own, table2)[x] = j BY <3>1, MapByEntries
      <3>4. MapOf(own, table)[x] = j BY <3>2, MapByEntries
      <3> QED BY <2>2, <3>3, <3>4
    <2> QED BY <2>1, <2>2
  <1>3. MapOf(own, table2) = [x \in KeysIn(own, table2) |-> MapOf(own, table2)[x]]
    BY DEF MapOf
  <1>4. DOMAIN MapOf(own, table) = KeysIn(own, table) BY MapByEntries
  <1> QED BY <1>1, <1>2, <1>3, <1>4 DEF Extends

\* The map of the refinement is the one the lemmas speak of.
LEMMA MapIsMapOf == map = MapOf(owner, slots) /\ map' = MapOf(owner', slots')
  BY DEF map, MapOf, held, KeysIn

\* A table without entries is the empty map.
LEMMA EmptyMap ==
  ASSUME NEW own, NEW table, Occupied(table) = {}
  PROVE  MapOf(own, table) = <<>>
  <1>1. KeysIn(own, table) = {} BY DEF KeysIn
  <1>2. MapOf(own, table) = [k \in {} |-> table[CHOOSE s \in Occupied(table) : own[table[s]] = k]]
    BY <1>1 DEF MapOf
  <1> QED BY <1>2

\* A released table is the empty map.
LEMMA ClosedMap ==
  /\ slots = <<>> => Occupied(slots) = {} /\ map = <<>>
  /\ slots' = <<>> => Occupied(slots') = {} /\ map' = <<>>
  <1>1. Occupied(<<>>) = {} BY DEF Occupied
  <1> QED BY <1>1, EmptyMap, MapIsMapOf

\* The initial states are initial states of KeyMap.
LEMMA InitRefines == Init => Map!Init
  BY ClosedMap DEF Init, Map!Init, Map!answer, answer, open, elements

\* keyset_init is no step of the map.
LEMMA keyset_initRefines == ASSUME Inv, keyset_init PROVE UNCHANGED Map!vars
  <1>1. open' = open /\ returned' = returned /\ elements' = elements
    BY DEF keyset_init, open, elements
  <1>2. map' = map BY MapIsMapOf DEF keyset_init
  <1> QED BY <1>1, <1>2 DEF Map!vars

\* A round of the sizing loop is no step of the map.
LEMMA DoubleCapacityRefines == ASSUME Inv, DoubleCapacity PROVE UNCHANGED Map!vars
  <1>1. open' = open /\ returned' = returned /\ elements' = elements
    BY DEF DoubleCapacity, open, elements
  <1>2. map' = map BY MapIsMapOf DEF DoubleCapacity
  <1> QED BY <1>1, <1>2 DEF Map!vars

\* The allocation of the table creates the empty map, or none.
LEMMA AllocateTableRefines == ASSUME Inv, AllocateTable PROVE Map!Create
  <1>1. ~open /\ slots = <<>> /\ elements' = elements
    BY DEF AllocateTable, open, elements, Inv, Closed
  <1>2. CASE pc' = "ready"
    <2>1. open' = TRUE /\ returned' = answer("OK", NONE) BY <1>2 DEF AllocateTable, open
    <2>2. slots' = allocate_slots(capacity) BY <1>2 DEF AllocateTable
    <2>3. Occupied(slots') = {} BY <2>2 DEF Occupied, allocate_slots
    <2>4. map' = map BY <1>1, <2>3, ClosedMap, EmptyMap, MapIsMapOf
    <2> QED BY <1>1, <2>1, <2>4 DEF Map!Create, Map!answer, answer
  <1>3. CASE pc' = "released"
    <2>1. open' = FALSE /\ returned' = answer("MEMORY", NONE) /\ slots' = slots
      BY <1>3 DEF AllocateTable, open
    <2>2. map' = map BY <1>1, <2>1, ClosedMap
    <2> QED BY <1>1, <2>1, <2>2 DEF Map!Create, Map!answer, answer
  <1> QED BY <1>2, <1>3 DEF AllocateTable

\* keyset_release releases the map.
LEMMA keyset_releaseRefines == ASSUME Inv, keyset_release PROVE Map!Release
  <1>1. open /\ open' = FALSE /\ elements' = 0 /\ returned' = answer("none", NONE)
    BY DEF keyset_release, open, elements
  <1>2. map' = <<>> BY ClosedMap DEF keyset_release
  <1> QED BY <1>1, <1>2 DEF Map!Release, Map!answer, answer

\* What the table holds, as the map sees it.
LEMMA MapDomain ==
  ASSUME Inv, open
  PROVE  /\ IsTable(owner, slots, capacity) /\ WellPlaced(owner, slots, capacity)
         /\ DOMAIN map = KeysIn(owner, slots)
         /\ \A k \in Keys : found(slots, capacity, k) <=> k \in DOMAIN map
  <1>1. IsTable(owner, slots, capacity) /\ WellPlaced(owner, slots, capacity)
    BY DEF Inv, InUse
  <1>2. DOMAIN map = KeysIn(owner, slots) BY <1>1, MapIsMapOf, MapByEntries
  <1>3. \A k \in Keys : found(slots, capacity, k) <=> k \in KeysIn(owner, slots)
    BY <1>1, LookupEnds, FoundIsHeld, ModelLookup DEF Inv
  <1> QED BY <1>1, <1>2, <1>3

\* keyset_contains answers as the map does.
LEMMA keyset_containsRefines ==
  ASSUME Inv, NEW k \in Keys, keyset_contains(k) PROVE Map!Contains(k)
  <1>1. open /\ open' = open /\ elements' = elements
    BY DEF keyset_contains, open, elements
  <1>2. map' = map BY MapIsMapOf DEF keyset_contains
  <1>3. returned' = answer(IF k \in DOMAIN map THEN "found" ELSE "absent", NONE)
    BY <1>1, MapDomain DEF keyset_contains
  <1> QED BY <1>1, <1>2, <1>3 DEF Map!Contains, Map!answer, answer

\* An element that is offered and leaves the slots alone leaves the map alone.
LEMMA OfferedMap ==
  ASSUME Inv, NEW k \in Keys, Offer(k)
  PROVE  /\ MapOf(owner', slots) = map
         /\ \A j \in Entries(slots) : owner'[j] = owner[j] /\ j \in 1 .. Len(owner)
         /\ found(slots, capacity, k) <=> k \in DOMAIN map
         /\ elements = Len(owner) /\ Len(owner') = elements + 1
  <1>1. /\ IsTable(owner, slots, capacity) /\ WellPlaced(owner, slots, capacity)
        /\ IsTable(owner', slots, capacity) /\ WellPlaced(owner', slots, capacity)
        /\ \A s \in 0 .. capacity - 1 : slots[s] # NONE => owner'[slots[s]] = owner[slots[s]]
        /\ Len(owner') = Len(owner) + 1
    BY Offered DEF Inv, InUse
  <1>2. \A j \in Entries(slots) : owner'[j] = owner[j] /\ j \in 1 .. Len(owner)
    BY <1>1 DEF Entries, Occupied, IsTable
  <1>3. MapOf(owner', slots) = map BY <1>1, <1>2, SameMap, MapIsMapOf
  <1>4. found(slots, capacity, k) <=> k \in DOMAIN map BY Offered, MapDomain
  <1>5. elements = Len(owner) BY DEF Offer, elements
  <1> QED BY <1>1, <1>2, <1>3, <1>4, <1>5

\* An insert that meets its key is refused by the map too.
LEMMA RefuseRefines ==
  ASSUME Inv, NEW k \in Keys, Refuse(k) PROVE Map!InsertAgain(k)
  <1>1. /\ Offer(k) /\ open /\ open' = open /\ slots' = slots /\ pc' = "ready"
        /\ found(slots, capacity, k) /\ returned' = answer("DUPLICATE_KEY", NONE)
    BY DEF Refuse, Offer, open
  <1>2. map' = map /\ k \in DOMAIN map /\ elements' = elements + 1
    BY <1>1, OfferedMap, MapIsMapOf DEF elements
  <1> QED BY <1>1, <1>2 DEF Map!InsertAgain, Map!answer, answer

\* An insert that cannot grow leaves the map as it was.
LEMMA GrowFailsRefines ==
  ASSUME Inv, NEW k \in Keys, GrowFails(k) PROVE Map!InsertNew(k)
  <1>1. /\ Offer(k) /\ open /\ open' = open /\ slots' = slots /\ pc' = "ready"
        /\ ~found(slots, capacity, k) /\ returned' = answer("MEMORY", NONE)
    BY DEF GrowFails, Offer, open
  <1>2. map' = map /\ k \notin DOMAIN map /\ elements' = elements + 1
    BY <1>1, OfferedMap, MapIsMapOf DEF elements
  <1> QED BY <1>1, <1>2 DEF Map!InsertNew, Map!answer, answer

\* The start of grow() is no step of the map.
LEMMA GrowRefines == ASSUME Inv, NEW k \in Keys, Grow(k) PROVE UNCHANGED Map!vars
  <1>1. /\ Offer(k) /\ open /\ open' = open /\ slots' = slots /\ pc' = "growing"
        /\ returned' = returned
    BY DEF Grow, Offer, open
  <1>2. map' = map /\ elements' = elements
    <2>1. Len(owner) \in Nat BY <1>1, Offered
    <2> QED BY <1>1, <2>1, OfferedMap, MapIsMapOf DEF elements
  <1> QED BY <1>1, <1>2 DEF Map!vars

\* A round of the loop of grow() is no step of the map.
LEMMA RehashRefines == ASSUME Inv, Rehash PROVE UNCHANGED Map!vars
  <1>1. open' = open /\ returned' = returned /\ elements' = elements
    BY DEF Rehash, open, elements
  <1>2. map' = map BY MapIsMapOf DEF Rehash
  <1> QED BY <1>1, <1>2 DEF Map!vars

\* Storing an index where the lookup of its key ended supersedes the index the
\* key had, if it had one.
LEMMA StoreSupersedes ==
  ASSUME NEW own, NEW table, NEW n, IsTable(own, table, n), WellPlaced(own, table, n),
         NEW k \in Keys, Stops(own, table, n, k) # {}, NEW s, s = Slot(own, table, n, k),
         NEW i \in 1 .. Len(own), own[i] = k,
         NEW stored, IsStore(own, table, n, s, i, stored)
  PROVE  Supersedes(own, Entries(table), i, k, Entries(stored))
  <1>1. s \in 0 .. n - 1 /\ (table[s] = NONE \/ own[table[s]] = k) BY LookupResult
  <1>2. i # NONE BY KeysAssumption DEF IsTable
  <1>3. /\ DOMAIN stored = 0 .. n - 1 /\ DOMAIN table = 0 .. n - 1
        /\ \A t \in 0 .. n - 1 : stored[t] = IF t = s THEN i ELSE table[t]
    BY DEF IsStore, IsTable
  <1>4. i \in Entries(stored) BY <1>1, <1>2, <1>3 DEF Entries, Occupied
  <1>5. ASSUME NEW j \in Entries(stored), j # i PROVE j \in Entries(table) /\ own[j] # k
    <2>1. PICK t \in Occupied(stored) : stored[t] = j BY DEF Entries
    <2>2. t # s /\ t \in Occupied(table) /\ table[t] = j BY <1>1, <1>3, <1>5, <2>1 DEF Occupied
    <2>3. Slot(own, table, n, own[j]) = t BY <2>2 DEF WellPlaced
    <2> QED BY <2>2, <2>3 DEF Entries
  <1>6. ASSUME NEW j \in Entries(table), own[j] # k PROVE j \in Entries(stored)
    <2>1. PICK t \in Occupied(table) : table[t] = j BY DEF Entries
    <2>2. t # s BY <1>1, <1>6, <2>1 DEF Occupied
    <2>3. t \in Occupied(stored) /\ stored[t] = j BY <1>3, <2>1, <2>2 DEF Occupied
    <2> QED BY <2>3 DEF Entries
  <1> QED BY <1>4, <1>5, <1>6 DEF Supersedes

\* What storing the offered element at its slot does to the map.
LEMMA OfferStored ==
  ASSUME Inv, Inv', NEW k \in Keys, Offer(k), open', capacity' = capacity,
         NEW s, s = Slot(owner', slots, capacity, k),
         IsStore(owner', slots, capacity, s, Len(owner'), slots')
  PROVE  Extends(map, k, Len(owner'), map')
  <1>1. /\ IsTable(owner', slots, capacity) /\ WellPlaced(owner', slots, capacity)
        /\ Stops(owner', slots, capacity, k) # {} /\ owner'[Len(owner')] = k
        /\ Len(owner') = Len(owner) + 1 /\ Len(owner) \in Nat
    BY Offered
  <1>2. IsTable(owner', slots', capacity) /\ WellPlaced(owner', slots', capacity)
    BY DEF Inv, InUse
  <1>4. Len(owner') \in 1 .. Len(owner') BY <1>1
  <1>6. Supersedes(owner', Entries(slots), Len(owner'), k, Entries(slots'))
    BY <1>1, <1>4, StoreSupersedes
  <1>7. Extends(MapOf(owner', slots), k, Len(owner'), MapOf(owner', slots'))
    BY <1>1, <1>2, <1>6, ExtendedMap
  <1>8. MapOf(owner', slots) = map BY OfferedMap
  <1> QED BY <1>7, <1>8, MapIsMapOf

\* An insert_last that meets its key replaces the key's element in the map.
LEMMA ReplaceRefines ==
  ASSUME Inv, Inv', NEW k \in Keys, Replace(k) PROVE Map!InsertAgain(k)
  <1> DEFINE s == Slot(owner, slots, capacity, k)
  <1>1. /\ Offer(k) /\ open /\ open' = open /\ pc' = "ready" /\ capacity' = capacity
        /\ found(slots, capacity, k) /\ returned' = answer("OK", slots[s])
        /\ slots' = [slots EXCEPT ![s] = Len(owner')]
    BY ModelLookup DEF Replace, Offer, open
  <1>2. k \in DOMAIN map /\ elements' = elements + 1 /\ elements' = Len(owner')
    BY <1>1, OfferedMap DEF elements
  <1>3. s = Slot(owner', slots, capacity, k) BY <1>1, Offered
  <1>4. Extends(map, k, Len(owner'), map')
    <2>1. /\ IsTable(owner', slots, capacity) /\ Stops(owner', slots, capacity, k) # {}
          /\ Len(owner') = Len(owner) + 1 /\ Len(owner) \in Nat
      BY <1>1, Offered
    <2>2. s \in 0 .. capacity - 1 BY <1>3, <2>1, LookupResult
    <2>3. Len(owner') \in 1 .. Len(owner') BY <2>1
    <2> HIDE DEF s
    <2>4. IsStore(owner', slots, capacity, s, Len(owner'), slots')
      BY <1>1, <2>1, <2>2, <2>3 DEF IsStore, IsTable
    <2> QED BY <1>1, <1>3, <2>4, OfferStored
  <1>5. map[k] = slots[s]
    <2>1. /\ IsTable(owner, slots, capacity) /\ WellPlaced(owner, slots, capacity)
          /\ Stops(owner, slots, capacity, k) # {}
      BY <1>1, Offered, MapDomain
    <2>2. s \in 0 .. capacity - 1 /\ slots[s] # NONE /\ owner[slots[s]] = k
      BY <1>1, <2>1, LookupResult, ModelLookup
    <2>3. slots[s] \in Entries(slots) BY <2>1, <2>2 DEF Entries, Occupied, IsTable
    <2> QED BY <2>1, <2>2, <2>3, MapByEntries, MapIsMapOf
  <1> HIDE DEF s
  <1> QED BY <1>1, <1>2, <1>4, <1>5 DEF Extends, Map!InsertAgain, Map!Extend, Map!answer, answer

\* An insert into a table with room adds the key to the map.
LEMMA StoreRefines ==
  ASSUME Inv, Inv', NEW k \in Keys, Store(k) PROVE Map!InsertNew(k)
  <1> DEFINE s == Slot(owner, slots, capacity, k)
  <1>1. /\ Offer(k) /\ open /\ open' = open /\ pc' = "ready" /\ capacity' = capacity
        /\ ~found(slots, capacity, k) /\ returned' = answer("OK", NONE)
        /\ slots' = [slots EXCEPT ![s] = Len(owner')]
    BY ModelLookup DEF Store, Offer, open
  <1>2. k \notin DOMAIN map /\ elements' = elements + 1 /\ elements' = Len(owner')
    BY <1>1, OfferedMap DEF elements
  <1>3. s = Slot(owner', slots, capacity, k) BY <1>1, Offered
  <1>4. Extends(map, k, Len(owner'), map')
    <2>1. /\ IsTable(owner', slots, capacity) /\ Stops(owner', slots, capacity, k) # {}
          /\ Len(owner') = Len(owner) + 1 /\ Len(owner) \in Nat
      BY <1>1, Offered
    <2>2. s \in 0 .. capacity - 1 BY <1>3, <2>1, LookupResult
    <2>3. Len(owner') \in 1 .. Len(owner') BY <2>1
    <2> HIDE DEF s
    <2>4. IsStore(owner', slots, capacity, s, Len(owner'), slots')
      BY <1>1, <2>1, <2>2, <2>3 DEF IsStore, IsTable
    <2> QED BY <1>1, <1>3, <2>4, OfferStored
  <1> HIDE DEF s
  <1> QED BY <1>1, <1>2, <1>4 DEF Extends, Map!InsertNew, Map!Extend, Map!answer, answer

\* The insert after grow() adds the key to the map.
LEMMA StoreGrownRefines ==
  ASSUME Inv, Inv', StoreGrown PROVE Map!InsertNew(owner[Len(owner)])
  <1> DEFINE i == Len(owner)
             k == owner[i]
             s == Slot(owner, fresh, 2 * capacity, k)
  <1>1. /\ pc = "growing" /\ cursor = capacity /\ pc' = "ready" /\ open /\ open' = open
        /\ capacity' = 2 * capacity /\ returned' = answer("OK", NONE) /\ owner' = owner
        /\ slots' = [fresh EXCEPT ![s] = i]
    <2>1. /\ pc = "growing" /\ cursor = capacity /\ pc' = "ready" /\ capacity' = 2 * capacity
          /\ returned' = answer("OK", NONE) /\ owner' = owner
          /\ slots' = [fresh EXCEPT ![find_slot(fresh, 2 * capacity, owner[Len(owner)])] = Len(owner)]
      BY DEF StoreGrown
    <2>2. open /\ open' = open BY <2>1 DEF open
    <2>3. find_slot(fresh, 2 * capacity, owner[Len(owner)]) = s BY ModelLookup
    <2> QED BY <2>1, <2>2, <2>3
  <1>2. i \in 1 .. Len(owner) /\ k \in Keys /\ Moved = Occupied(slots)
    BY <1>1, LastNotMoved
  <1>3. /\ IsTable(owner, fresh, 2 * capacity) /\ WellPlaced(owner, fresh, 2 * capacity)
        /\ Stops(owner, fresh, 2 * capacity, k) # {}
        /\ Entries(fresh) = Entries(slots) /\ k \notin KeysIn(owner, slots)
    BY <1>1, <1>2, FreshLookupEnds DEF Inv, Growing, Entries
  <1>4. s \in 0 .. 2 * capacity - 1 BY <1>2, <1>3, LookupResult
  <1>5. owner[i] = k /\ s = Slot(owner, fresh, 2 * capacity, k) OBVIOUS
  <1>6. elements' = elements + 1 /\ elements' = i
    BY <1>1, <1>2 DEF elements
  <1>7. /\ IsTable(owner, slots, capacity) /\ WellPlaced(owner, slots, capacity)
        /\ IsTable(owner, slots', 2 * capacity) /\ WellPlaced(owner, slots', 2 * capacity)
        /\ k \notin DOMAIN map
    BY <1>1, <1>3, MapDomain DEF Inv, InUse
  <1>8. k = owner[Len(owner)] OBVIOUS
  <1> HIDE DEF i, k, s
  <1>9. IsStore(owner, fresh, 2 * capacity, s, i, slots')
    BY <1>1, <1>2, <1>3, <1>4 DEF IsTable, IsStore
  <1>10. Supersedes(owner, Entries(slots), i, k, Entries(slots'))
    BY <1>2, <1>3, <1>5, <1>9, StoreSupersedes
  <1>11. Extends(MapOf(owner, slots), k, i, MapOf(owner, slots'))
    BY <1>5, <1>7, <1>10, ExtendedMap
  <1>12. Extends(map, k, i, map')
    BY <1>1, <1>11, MapIsMapOf
  <1>13. Map!InsertNew(k)
    BY <1>1, <1>6, <1>7, <1>12 DEF Extends, Map!InsertNew, Map!Extend, Map!answer, answer
  <1> QED BY <1>8, <1>13

\* Every step of the table is a step of the map, or none.
LEMMA StepRefines == Inv /\ Inv' /\ [Next]_vars => [Map!Next]_(Map!vars)
  <1> SUFFICES ASSUME Inv, Inv', [Next]_vars PROVE [Map!Next]_(Map!vars) OBVIOUS
  <1>1. CASE keyset_init BY <1>1, keyset_initRefines
  <1>2. CASE DoubleCapacity BY <1>2, DoubleCapacityRefines
  <1>3. CASE AllocateTable BY <1>3, AllocateTableRefines DEF Map!Next
  <1>4. CASE keyset_release BY <1>4, keyset_releaseRefines DEF Map!Next
  <1>5. CASE Rehash BY <1>5, RehashRefines
  <1>6. CASE StoreGrown
    <2>1. owner[Len(owner)] \in Keys BY <1>6, LastNotMoved DEF StoreGrown
    <2> QED BY <1>6, <2>1, StoreGrownRefines DEF Map!Next
  <1>7. ASSUME NEW k \in Keys, keyset_contains(k) PROVE Map!Next
    BY <1>7, keyset_containsRefines DEF Map!Next
  <1>8. ASSUME NEW k \in Keys, insert(k) PROVE Map!Next \/ UNCHANGED Map!vars
    <2>1. CASE Refuse(k) BY <2>1, RefuseRefines DEF Map!Next
    <2>2. CASE Replace(k) BY <2>2, ReplaceRefines DEF Map!Next
    <2>3. CASE Store(k) BY <2>3, StoreRefines DEF Map!Next
    <2>4. CASE GrowFails(k) BY <2>4, GrowFailsRefines DEF Map!Next
    <2>5. CASE Grow(k) BY <2>5, GrowRefines
    <2> QED BY <1>8, <2>1, <2>2, <2>3, <2>4, <2>5 DEF insert
  <1>9. CASE UNCHANGED vars
    <2>1. open' = open /\ returned' = returned /\ elements' = elements
      BY <1>9 DEF vars, open, elements
    <2>2. map' = map BY <1>9, MapIsMapOf DEF vars
    <2> QED BY <2>1, <2>2 DEF Map!vars
  <1> QED BY <1>1, <1>2, <1>3, <1>4, <1>5, <1>6, <1>7, <1>8, <1>9 DEF Next

\* The open-addressing table implements a map from keys to indices: whatever
\* collides, wraps around or is moved, each call answers as the map would.
THEOREM Refinement == Spec => ImplementsKeyMap
  BY InitRefines, StepRefines, InvHolds, PTL DEF Spec, Map!Spec, ImplementsKeyMap
=============================================================================
