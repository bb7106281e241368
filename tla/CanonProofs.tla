----------------------------- MODULE CanonProofs -----------------------------
(***************************************************************************)
(* maelys-json-canon for every input, every INPUT_LIMIT and every call     *)
(* that fails: what it holds, and what exit status 0 is worth.             *)
(***************************************************************************)
EXTENDS Canon, TLAPS

Read == {"input"}
Parsed == {"input", "document"}
Writing == Parsed \cup {"writer"}

\* What main holds in each place.
Holding ==
  /\ pc \in {"arguments", "allocate", "exit"} => held = {}
  /\ pc \in {"read", "grow", "parse"} => held = Read
  /\ pc \in {"check", "create", "release"} => held = Parsed
  /\ pc \in {"copy", "finish"} => held = Writing
  /\ pc = "write" => held = Writing \cup {"text"}
  /\ pc \in {"report", "close"} => held \in {Parsed, Writing}

\* Exit status 0 is still ahead of the text, or the text has been delivered.
Delivering ==
  pc \in {"close", "release", "exit"} /\ status = 0 /\ ~check => written = TextSize /\ flushed

\* --check never gets to the writer, and the writer is not there without it.
Apart == pc = "check" => check

Inv == Holding /\ Delivering /\ Apart

\* Before any call.
LEMMA InitInv == Init => Inv
  BY DEF Init, Inv, Holding, Delivering, Apart

\* Each step allocates and releases what its place says.
LEMMA StepHolding == Holding /\ [Next]_vars => Holding'
<1> SUFFICES ASSUME Holding, [Next]_vars PROVE Holding'
  OBVIOUS
<1> USE DEF Holding, Read, Parsed, Writing, Exit, writer_fails
<1>1. CASE parse_arguments
  BY <1>1 DEF parse_arguments
<1>2. CASE Allocate
  BY <1>2 DEF Allocate
<1>3. CASE Fread
  BY <1>3 DEF Fread
<1>4. CASE Grow
  BY <1>4 DEF Grow
<1>5. CASE Parse
  BY <1>5 DEF Parse
<1>6. CASE is_canonical
  BY <1>6 DEF is_canonical
<1>7. CASE writer_create
  BY <1>7 DEF writer_create
<1>8. CASE writer_value
  BY <1>8 DEF writer_value
<1>9. CASE writer_finish
  BY <1>9 DEF writer_finish
<1>10. CASE Write
  BY <1>10 DEF Write
<1>11. CASE Report
  BY <1>11 DEF Report
<1>12. CASE Close
  BY <1>12 DEF Close
<1>13. CASE Release
  BY <1>13 DEF Release
<1>14. CASE UNCHANGED vars
  BY <1>14 DEF vars
<1> QED
  BY <1>1, <1>2, <1>3, <1>4, <1>5, <1>6, <1>7, <1>8, <1>9, <1>10, <1>11, <1>12, <1>13,
     <1>14 DEF Next

\* A step that leads to exit status 0 has delivered the text or checked it.
LEMMA StepDelivering == Delivering /\ Apart /\ [Next]_vars => Delivering' /\ Apart'
<1> SUFFICES ASSUME Delivering, Apart, [Next]_vars PROVE Delivering' /\ Apart'
  OBVIOUS
<1> USE DEF Delivering, Apart, Exit, writer_fails, input_vars, output_vars
<1>1. CASE parse_arguments
  BY <1>1 DEF parse_arguments
<1>2. CASE Allocate
  BY <1>2 DEF Allocate
<1>3. CASE Fread
  BY <1>3 DEF Fread
<1>4. CASE Grow
  BY <1>4 DEF Grow
<1>5. CASE Parse
  BY <1>5 DEF Parse
<1>6. CASE is_canonical
  BY <1>6 DEF is_canonical
<1>7. CASE writer_create
  BY <1>7 DEF writer_create
<1>8. CASE writer_value
  BY <1>8 DEF writer_value
<1>9. CASE writer_finish
  BY <1>9 DEF writer_finish
<1>10. CASE Write
  BY <1>10 DEF Write, delivered
<1>11. CASE Report
  BY <1>11 DEF Report
<1>12. CASE Close
  BY <1>12 DEF Close
<1>13. CASE Release
  BY <1>13 DEF Release
<1>14. CASE UNCHANGED vars
  BY <1>14 DEF vars
<1> QED
  BY <1>1, <1>2, <1>3, <1>4, <1>5, <1>6, <1>7, <1>8, <1>9, <1>10, <1>11, <1>12, <1>13,
     <1>14 DEF Next

\* The invariant holds in every reachable state.
LEMMA Invariance == Spec => []Inv
<1>1. Inv /\ [Next]_vars => Inv'
  BY StepHolding, StepDelivering DEF Inv
<1> QED BY <1>1, InitInv, PTL DEF Spec

\* Whichever call fails, the program exits with everything freed.
THEOREM AllFreed == Spec => []NothingHeld
<1>1. Inv => NothingHeld
  BY DEF Inv, Holding, NothingHeld, Exited
<1> QED BY <1>1, Invariance, PTL

\* Exit status 0 without --check: the whole text has been written and flushed.
THEOREM ZeroMeansDelivered == Spec => []SuccessIsDelivered
<1>1. Inv => SuccessIsDelivered
  BY DEF Inv, Delivering, SuccessIsDelivered, Exited
<1> QED BY <1>1, Invariance, PTL

\* Whatever the input and whichever call fails, the program exits cleanly and its status
\* tells the truth about its output.
THEOREM ExitsCleanly == Spec => []CleanExit
<1>1. NothingHeld /\ SuccessIsDelivered => CleanExit
  BY DEF CleanExit
<1> QED BY <1>1, AllFreed, ZeroMeansDelivered, PTL
=============================================================================
