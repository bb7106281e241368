--------------------------- MODULE StreamsProofs ---------------------------
(***************************************************************************)
(* parse_file for every file, every request, every width of size_t and     *)
(* every way the C library may fail: the parser gets the whole file or is  *)
(* not called, and nothing stays open or allocated.                        *)
(***************************************************************************)
EXTENDS Streams, SequenceTheorems, TLAPS

\* Limits that were resolved: within the ceilings, no field zero.
Resolved(l) ==
  /\ l \in LimitsType /\ limits_accepted(l)
  /\ l.maximum_bytes > 0 /\ l.maximum_depth > 0 /\ l.maximum_tokens > 0

\* limits_resolve refuses a request or makes resolved limits of it.
LEMMA ResolveResolves ==
  ASSUME NEW r \in LimitsType \cup {NONE}
  PROVE  limits_resolve(r) = NONE \/ Resolved(limits_resolve(r))
<1>1. limits_merged(r) \in LimitsType /\ limits_merged(r).maximum_bytes > 0
      /\ limits_merged(r).maximum_depth > 0 /\ limits_merged(r).maximum_tokens > 0
  BY DefaultsAssumption DEF limits_merged, LimitsType, unless_zero
<1> QED
  BY <1>1 DEF limits_resolve, Resolved

\* Resolved limits, as a request, resolve to themselves.
LEMMA ResolveAgain ==
  ASSUME NEW l, Resolved(l), l # NONE
  PROVE  limits_resolve(l) = l
<1>1. limits_merged(l) = l
  BY DEF limits_merged, Resolved, LimitsType, unless_zero
<1> QED
  BY <1>1 DEF limits_resolve, Resolved

\* The ceilings keep every size the parser computes within a size_t.
LEMMA ResolvedExact ==
  ASSUME NEW l, Resolved(l), NEW size \in Nat, size <= l.maximum_bytes,
         NEW count \in Nat, count <= size, count <= l.maximum_tokens
  PROVE  sizes_exact(size, count)
<1>1. l.maximum_bytes \in Nat /\ l.maximum_bytes < SizeMax \div 2
      /\ l.maximum_tokens \in Nat /\ l.maximum_tokens <= SizeMax \div 256
  BY DEF Resolved, LimitsType, limits_accepted
<1>2. size + count + 1 <= SizeMax /\ size + 1 <= SizeMax
  BY <1>1, CeilingAssumption
<1>3. count * 256 <= SizeMax
  BY <1>1, CeilingAssumption
<1>4. count * TokenSize <= count * 256
  <2>1. \A k \in Nat : k <= 256 => count * k <= count * 256
    BY Z3
  <2> QED BY <2>1, TokenSizeAssumption
<1> QED
  BY <1>2, <1>3, <1>4, TokenSizeAssumption, CeilingAssumption DEF sizes_exact

\* malloc(capacity) does not wrap.
LEMMA CapacityExact ==
  ASSUME Resolved(limits)
  PROVE  capacity = limits.maximum_bytes + 1 /\ limits.maximum_bytes \in Nat
<1>1. limits.maximum_bytes \in Nat /\ limits.maximum_bytes + 1 <= SizeMax
  BY CeilingAssumption DEF Resolved, LimitsType, limits_accepted
<1> QED
  BY <1>1, CeilingAssumption DEF capacity

-----------------------------------------------------------------------------
(* The inductive invariant: what the call holds and knows in each place.    *)

\* Nothing is held between the calls of the C library that hold something.
Free == stream = NONE /\ buffer = NONE

\* The call is under way and the parser has not been called.
Underway == Resolved(limits) /\ limits # NONE /\ parsed = <<>> /\ ~document

\* The buffer is what the stream has delivered.
Delivered ==
  /\ stream \in 0 .. Len(file) /\ stream <= limits.maximum_bytes + 1
  /\ buffer = SubSeq(file, 1, stream)
  /\ eof => stream = Len(file)

Judged ==
  /\ stream = NONE /\ buffer \in Seq(Nat) /\ Len(buffer) <= limits.maximum_bytes + 1
  /\ result = "OK" => buffer = file /\ Len(file) <= limits.maximum_bytes
  /\ result = "LIMIT" => Len(file) > limits.maximum_bytes

Places ==
  /\ pc = "idle" => Free /\ ~document
  /\ pc = "open" => Free /\ Underway
  /\ pc = "allocate" => stream = 0 /\ buffer = NONE /\ ~eof /\ ~failed /\ Underway
  /\ pc = "read" => Underway /\ Delivered
  /\ pc = "close" => /\ Underway /\ Delivered /\ ~reading
                     /\ result = IF failed THEN "IO" ELSE "OK"
  /\ pc = "judge" => Underway /\ Judged

LimitsInv == limits # NONE => Resolved(limits)

IInv == TypeOK /\ LimitsInv /\ Places /\ OneResolution /\ ParsesWholeFile /\ NothingHeld

-----------------------------------------------------------------------------
\* The initial state, before any call.
LEMMA InitIInv == Init => IInv
<1> SUFFICES ASSUME Init PROVE IInv OBVIOUS
<1> USE DEF Init
<1>1. TypeOK
  <2>1. <<>> \in Seq(Nat)
    OBVIOUS
  <2> QED BY <2>1, Zenon DEF TypeOK, Results
<1>2. LimitsInv /\ OneResolution
  BY DEF LimitsInv, OneResolution
<1>3. Places
  BY DEF Places, Free
<1>4. ParsesWholeFile /\ NothingHeld
  BY DEF ParsesWholeFile, NothingHeld
<1> QED BY <1>1, <1>2, <1>3, <1>4 DEF IInv

\* What fread appends continues the prefix that was read before.
LEMMA PrefixGrows ==
  ASSUME NEW s \in Seq(Nat), NEW m \in 0 .. Len(s), NEW n \in Nat, m + n <= Len(s)
  PROVE  /\ SubSeq(s, 1, m) \o SubSeq(s, m + 1, m + n) = SubSeq(s, 1, m + n)
         /\ SubSeq(s, 1, m) \in Seq(Nat) /\ Len(SubSeq(s, 1, m)) = m
         /\ SubSeq(s, 1, m + n) \in Seq(Nat) /\ Len(SubSeq(s, 1, m + n)) = m + n
<1>1. SubSeq(s, 1, m) \in Seq(Nat) /\ Len(SubSeq(s, 1, m)) = m
  BY SubSeqProperties
<1>2. SubSeq(s, 1, m + n) \in Seq(Nat) /\ Len(SubSeq(s, 1, m + n)) = m + n
  BY SubSeqProperties
<1> QED BY <1>1, <1>2, ConcatAdjacentSubSeq

\* However fread returns, the buffer goes on being what the stream delivered.
LEMMA ReadDelivers ==
  ASSUME Resolved(limits), file \in Seq(Nat), Delivered, reading,
         Fread(capacity - Len(buffer)), UNCHANGED <<file, limits>>
  PROVE  /\ Delivered' /\ buffer' \in Seq(Nat) /\ Len(buffer') <= capacity
         /\ stream' \in 0 .. Len(file)
<1>1. capacity = limits.maximum_bytes + 1 /\ limits.maximum_bytes \in Nat /\ capacity \in Nat
  BY CapacityExact
<1>10. capacity \in Nat
  BY <1>1
<1>2. Len(buffer) = stream
  BY PrefixGrows DEF Delivered
<1>3. stream \in Nat /\ Len(file) \in Nat /\ stream <= Len(file) /\ stream <= capacity
  BY <1>1, <1>2 DEF Delivered, reading
<1>9. buffer = SubSeq(file, 1, stream) /\ ~eof
  BY DEF Delivered, reading
<1> DEFINE Copied(n) == /\ stream' = stream + n
                        /\ buffer' = buffer \o SubSeq(file, stream + 1, stream + n)
           Count(n) == n \in Nat /\ stream + n <= Len(file) /\ stream + n <= capacity
           Goal == \E n : Count(n) /\ Copied(n) /\ (eof' => stream + n = Len(file))
<1>4. Goal
  <2>1. \A l, c, m \in Nat : m <= l /\ m <= c =>
          /\ c - m <= l - m => c - m \in Nat /\ m + (c - m) <= l /\ m + (c - m) <= c
          /\ c - m > l - m => l - m \in Nat /\ m + (l - m) <= c /\ m + (l - m) = l
          /\ \A n \in 0 .. l - m : n < c - m => n \in Nat /\ m + n <= l /\ m + n <= c
    OBVIOUS
  <2>2. capacity - stream > Len(file) - stream =>
          Count(Len(file) - stream) /\ stream + (Len(file) - stream) = Len(file)
    BY <1>10, <1>3, <2>1
  <2>3. \A n \in 0 .. Len(file) - stream : n < capacity - stream => Count(n)
    BY <1>10, <1>3, <2>1
  <2>4. capacity - stream <= Len(file) - stream => Count(capacity - stream)
    BY <1>10, <1>3, <2>1
  <2>5. \/ /\ capacity - stream <= Len(file) - stream
           /\ Copied(capacity - stream) /\ eof' = eof
        \/ /\ capacity - stream > Len(file) - stream
           /\ Copied(Len(file) - stream)
        \/ \E n \in 0 .. Len(file) - stream :
             n < capacity - stream /\ Copied(n) /\ eof' = eof
    BY <1>2 DEF Fread
  <2> HIDE DEF Copied, Count
  <2>6. CASE /\ capacity - stream <= Len(file) - stream
             /\ Copied(capacity - stream) /\ eof' = eof
    BY <1>9, <2>4, <2>6, Zenon
  <2>7. CASE /\ capacity - stream > Len(file) - stream
             /\ Copied(Len(file) - stream)
    BY <2>2, <2>7, Zenon
  <2>8. CASE \E n \in 0 .. Len(file) - stream :
               n < capacity - stream /\ Copied(n) /\ eof' = eof
    <3>1. PICK n \in 0 .. Len(file) - stream :
            n < capacity - stream /\ Copied(n) /\ eof' = eof
      BY <2>8
    <3>2. Count(n)
      BY <2>3, <3>1
    <3> QED BY <1>9, <3>1, <3>2, Zenon
  <2> QED BY <2>5, <2>6, <2>7, <2>8, Zenon
<1>5. PICK n : Count(n) /\ Copied(n) /\ (eof' => stream + n = Len(file))
  BY <1>4
<1>6. buffer' = SubSeq(file, 1, stream + n) /\ buffer' \in Seq(Nat) /\ Len(buffer') = stream + n
  <2>1. stream \in 0 .. Len(file)
    BY <1>3
  <2>2. n \in Nat /\ stream + n <= Len(file)
        /\ buffer' = SubSeq(file, 1, stream) \o SubSeq(file, stream + 1, stream + n)
    BY <1>5, <1>9
  <2> HIDE DEF Count, Copied
  <2>3. SubSeq(file, 1, stream) \o SubSeq(file, stream + 1, stream + n) = SubSeq(file, 1, stream + n)
        /\ SubSeq(file, 1, stream + n) \in Seq(Nat) /\ Len(SubSeq(file, 1, stream + n)) = stream + n
    BY <2>1, <2>2, PrefixGrows, Zenon
  <2> QED BY <2>2, <2>3, Zenon
<1>7. stream' = stream + n /\ stream' \in 0 .. Len(file) /\ stream' <= limits.maximum_bytes + 1
  BY <1>1, <1>3, <1>5
<1>8. Delivered'
  BY <1>5, <1>6, <1>7 DEF Delivered
<1> QED BY <1>1, <1>6, <1>7, <1>8

\* The flags and codes of a call, of which every action assigns constants.
Codes ==
  /\ eof \in BOOLEAN /\ failed \in BOOLEAN /\ document \in BOOLEAN
  /\ result \in Results /\ error \in Results

\* Every step keeps the flags and codes typed.
LEMMA StepCodes == IInv /\ [Next]_vars => Codes'
<1> SUFFICES ASSUME IInv, [Next]_vars PROVE Codes'
  OBVIOUS
<1>1. Codes
  BY Zenon DEF IInv, TypeOK, Codes
<1> USE <1>1 DEF Codes, Results, Return, error_set
<1>2. CASE Call
  BY <1>2, Zenon DEF Call, stream_vars
<1>3. CASE Open
  BY <1>3, Zenon DEF Open
<1>4. CASE Allocate
  BY <1>4, Zenon DEF Allocate
<1>5. CASE Read
  BY <1>5, Zenon DEF Read, Fread
<1>6. CASE ReadEnds
  BY <1>6, Zenon DEF ReadEnds, stream_vars
<1>7. CASE Close
  BY <1>7, Zenon DEF Close
<1>8. CASE Refuse
  BY <1>8, Zenon DEF Refuse, stream_vars
<1>9. CASE Parse
  BY <1>9, Zenon DEF Parse, stream_vars
<1>10. CASE Release
  BY <1>10, Zenon DEF Release, stream_vars
<1>11. CASE UNCHANGED vars
  BY <1>11, Zenon DEF vars, stream_vars
<1> QED
  BY <1>2, <1>3, <1>4, <1>5, <1>6, <1>7, <1>8, <1>9, <1>10, <1>11 DEF Next

\* The rest of the type invariant.
Shapes ==
  /\ pc \in {"idle", "open", "allocate", "read", "close", "judge", "done"}
  /\ file \in Seq(Nat) /\ limits \in LimitsType \cup {NONE}
  /\ stream \in 0 .. Len(file) \cup {NONE}
  /\ buffer # NONE => limits # NONE /\ buffer \in Seq(Nat) /\ Len(buffer) <= capacity

Rest == Shapes /\ LimitsInv /\ Places /\ OneResolution /\ ParsesWholeFile /\ NothingHeld

\* Every step keeps the rest of the invariant.
LEMMA StepRest == IInv /\ Codes' /\ [Next]_vars => Rest'
<1> SUFFICES ASSUME IInv, Codes', [Next]_vars PROVE Rest'
  OBVIOUS
<1> USE DEF IInv, TypeOK, Rest, Shapes, LimitsInv, Places, OneResolution, ParsesWholeFile,
            NothingHeld, Free, Underway, Return, error_set
<1>2. CASE Call
  <2> PICK n \in FileSizes, requested \in Requests : limits' = limits_resolve(requested) /\ file' = [i \in 1 .. n |-> i]
    BY <1>2 DEF Call
  <2>1. file' \in Seq(Nat)
    BY FilesAssumption
  <2>2. limits' = NONE \/ Resolved(limits')
    BY ResolveResolves, FilesAssumption
  <2> QED BY <1>2, <2>1, <2>2 DEF Call, stream_vars, Resolved
<1>3. CASE Open
  BY <1>3 DEF Open
<1>4. CASE Allocate
  <2>1. Underway /\ Resolved(limits) /\ pc = "allocate" /\ stream = 0 /\ buffer = NONE
    BY <1>4 DEF Allocate
  <2>2. capacity = limits.maximum_bytes + 1 /\ limits.maximum_bytes \in Nat
    BY <2>1, CapacityExact
  <2>3. CASE buffer' = <<>> /\ pc' = "read" /\ UNCHANGED <<stream, result, error>>
    <3>1. Delivered'
      BY <1>4, <2>1, <2>2, <2>3, SubSeqEmpty DEF Allocate, Delivered
    <3>2. Shapes'
      BY <1>4, <2>1, <2>2, <2>3 DEF Allocate, capacity
    <3>3. Underway'
      BY <1>4, <2>1 DEF Allocate, Resolved
    <3> QED BY <1>4, <2>1, <2>3, <3>1, <3>2, <3>3 DEF Allocate
  <2>4. CASE stream' = NONE /\ Return("MEMORY") /\ UNCHANGED buffer
    BY <1>4, <2>1, <2>4 DEF Allocate
  <2> QED BY <1>4, <2>3, <2>4 DEF Allocate
<1>5. CASE Read
  <2>1. Underway /\ Resolved(limits) /\ Delivered /\ reading /\ pc = "read" /\ file \in Seq(Nat)
    BY <1>5 DEF Read
  <2>2. /\ Delivered' /\ buffer' \in Seq(Nat) /\ Len(buffer') <= capacity
        /\ stream' \in 0 .. Len(file)
    BY <1>5, <2>1, ReadDelivers DEF Read
  <2>7. Shapes'
    BY <1>5, <2>1, <2>2 DEF Read, capacity
  <2>8. Underway'
    BY <1>5, <2>1 DEF Read, Resolved
  <2> QED BY <1>5, <2>2, <2>7, <2>8 DEF Read
<1>6. CASE ReadEnds
  <2>1. Underway /\ Delivered /\ ~reading /\ pc = "read"
    BY <1>6 DEF ReadEnds
  <2>2. UNCHANGED <<file, limits, stream, eof, failed, buffer, parsed, document>>
    BY <1>6 DEF ReadEnds, stream_vars
  <2>3. Underway' /\ Delivered' /\ ~reading'
    BY <2>1, <2>2 DEF Delivered, reading, capacity, Resolved
  <2>4. Shapes'
    BY <1>6, <2>2 DEF ReadEnds, capacity
  <2> QED BY <1>6, <2>2, <2>3, <2>4 DEF ReadEnds
<1>7. CASE Close
  <2>1. Underway /\ Resolved(limits) /\ Delivered /\ ~reading /\ pc = "close" /\ file \in Seq(Nat)
        /\ result = IF failed THEN "IO" ELSE "OK"
    BY <1>7 DEF Close
  <2>2. capacity = limits.maximum_bytes + 1 /\ limits.maximum_bytes \in Nat
    BY <2>1, CapacityExact
  <2>3. Len(buffer) = stream /\ buffer \in Seq(Nat)
    BY <2>1, PrefixGrows DEF Delivered
  <2>4. UNCHANGED <<file, limits, eof, failed, buffer, parsed, document>> /\ stream' = NONE
        /\ pc' = "judge"
    BY <1>7 DEF Close
  <2>5. /\ result' = "OK" => ~oversized /\ ~failed
        /\ result' = "LIMIT" => oversized
    BY <1>7, <2>1 DEF Close
  <2>6. result' = "OK" => buffer = file /\ Len(file) <= limits.maximum_bytes
    BY <2>1, <2>2, <2>3, <2>5, SubSeqFull DEF oversized, reading, Delivered
  <2>7. result' = "LIMIT" => Len(file) > limits.maximum_bytes
    BY <2>1, <2>2, <2>3, <2>5 DEF oversized, Delivered
  <2>8. Judged'
    BY <2>1, <2>2, <2>3, <2>4, <2>6, <2>7 DEF Judged, Delivered
  <2>9. Underway'
    BY <2>1, <2>4 DEF Resolved
  <2>10. Shapes'
    BY <2>1, <2>4 DEF capacity
  <2> QED BY <2>1, <2>4, <2>8, <2>9, <2>10
<1>10. CASE Release
  BY <1>10 DEF Release, stream_vars
<1>8. CASE Refuse
  BY <1>8 DEF Refuse, stream_vars, Judged
<1>9. CASE Parse
  BY <1>9, ResolveAgain DEF Parse, stream_vars, Judged
<1>11. CASE UNCHANGED vars
  BY <1>11 DEF vars, stream_vars, capacity, reading, Resolved, Delivered, Judged
<1> QED
  BY <1>2, <1>3, <1>4, <1>5, <1>6, <1>7, <1>8, <1>9, <1>10, <1>11 DEF Next

\* Every step keeps the invariant.
LEMMA StepIInv == IInv /\ [Next]_vars => IInv'
  BY StepCodes, StepRest, Zenon DEF IInv, TypeOK, Codes, Rest, Shapes

\* The invariant holds in every reachable state.
LEMMA Invariance == Spec => []IInv
  BY InitIInv, StepIInv, PTL DEF Spec

-----------------------------------------------------------------------------
\* What fread writes stays within the buffer parse_file allocates, whatever the limits.
THEOREM TypeCorrect == Spec => []TypeOK
<1>1. IInv => TypeOK
  BY DEF IInv
<1> QED BY <1>1, Invariance, PTL

\* The parser gets the whole file, byte for byte, or is not called; LIMIT means too long.
THEOREM WholeFile == Spec => []ParsesWholeFile
<1>1. IInv => ParsesWholeFile
  BY DEF IInv
<1> QED BY <1>1, Invariance, PTL

\* On return the stream is closed, the buffer freed, and there is a document exactly on OK.
THEOREM AllReleased == Spec => []NothingHeld
<1>1. IInv => NothingHeld
  BY DEF IInv
<1> QED BY <1>1, Invariance, PTL

\* document_parse works within the limits the file was read under.
THEOREM ResolvedOnce == Spec => []OneResolution
<1>1. IInv => OneResolution
  BY DEF IInv
<1> QED BY <1>1, Invariance, PTL

\* No size the parser computes under resolved limits wraps.
THEOREM SizesExact == Spec => []ArithmeticExact
<1>1. IInv => ArithmeticExact
  <2> SUFFICES ASSUME IInv, limits # NONE, NEW size \in {0, limits.maximum_bytes}
      PROVE  sizes_exact(size, IF size < limits.maximum_tokens THEN size ELSE limits.maximum_tokens)
    BY DEF ArithmeticExact
  <2>1. Resolved(limits)
    BY DEF IInv, LimitsInv
  <2>2. limits.maximum_bytes \in Nat /\ limits.maximum_tokens \in Nat
    BY <2>1 DEF Resolved, LimitsType
  <2> QED BY <2>1, <2>2, ResolvedExact
<1> QED BY <1>1, Invariance, PTL

\* Resolved limits hold throughout a call, for every request, file and width of size_t.
THEOREM LimitsAlwaysHold == Spec => []LimitsHold
<1>1. TypeOK /\ OneResolution /\ ArithmeticExact => LimitsHold
  BY DEF LimitsHold
<1> QED BY <1>1, TypeCorrect, ResolvedOnce, SizesExact, PTL
=============================================================================
