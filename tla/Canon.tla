-------------------------------- MODULE Canon --------------------------------
(***************************************************************************)
(* The maelys-json-canon program (src/tools/canon.c) and the finish_file   *)
(* it ends with (src/src/stdio.c): stdin is read into a buffer that grows  *)
(* by doubling, parsed, and checked or written to stdout.  What goes to    *)
(* stderr is left out.  Which prefixes of stdin are a document, and what   *)
(* its numbers are, is part of the input; parse, is_canonical and the      *)
(* writer are the outcomes their own modules have.                         *)
(***************************************************************************)
EXTENDS Naturals

CONSTANTS
  Stdins,              \* inputs: their size, the prefixes that are (canonical)
                       \* documents and what numbers are in them
  FirstCapacity,       \* 65536
  InputLimit,          \* INPUT_LIMIT
  TextSize             \* length of what the writer produces

ASSUME StdinsAssumption ==
  \A s \in Stdins : /\ s.size \in Nat /\ s.canonical \subseteq s.documents
                    /\ s.documents \subseteq 1 .. s.size
                    /\ s.numbers \in {"integers", "fractions", "huge"}

ASSUME SizesAssumption ==
  FirstCapacity \in Nat \ {0} /\ InputLimit \in Nat /\ TextSize \in Nat \ {0}

VARIABLES
  pc, stdin, check,        \* where main is, its input and its --check
  capacity, size,          \* of the input buffer, and the bytes in it
  held,                    \* what is allocated
  written, flushed,        \* bytes of the text on stdout, and whether fflush succeeded
  result, status           \* of the last library call, and the exit status

input_vars  == <<stdin, check>>
output_vars == <<written, flushed>>
vars == <<pc, input_vars, capacity, size, held, output_vars, result, status>>

Init ==
  /\ pc = "arguments" /\ stdin \in Stdins /\ check \in BOOLEAN
  /\ capacity = 0 /\ size = 0 /\ held = {}
  /\ written = 0 /\ flushed = FALSE /\ result = "OK" /\ status = 0

Exit(code) == status' = code /\ pc' = "exit"

parse_arguments ==
  /\ pc = "arguments"
  /\ \/ pc' = "allocate" /\ UNCHANGED status
     \/ Exit(4)
  /\ UNCHANGED <<input_vars, capacity, size, held, output_vars, result>>

-----------------------------------------------------------------------------
(* read_stdin.                                                              *)

Allocate ==
  /\ pc = "allocate"
  /\ \/ /\ capacity' = FirstCapacity /\ held' = {"input"} /\ pc' = "read"
        /\ UNCHANGED status
     \/ Exit(2) /\ UNCHANGED <<capacity, held>>
  /\ UNCHANGED <<input_vars, size, output_vars, result>>

\* fread stops at the end of stdin, at a read error or with the buffer full.
Fread ==
  LET left == stdin.size - size
      full == capacity - size
  IN  /\ pc = "read"
      /\ \E n \in 0 .. (IF left < full THEN left ELSE full) : size' = size + n
      /\ pc' = IF size' < capacity \/ capacity >= InputLimit THEN "parse" ELSE "grow"
      /\ UNCHANGED <<input_vars, capacity, held, output_vars, result, status>>

Grow ==
  /\ pc = "grow"
  /\ capacity' = 2 * capacity
  /\ \/ pc' = "read" /\ UNCHANGED <<held, status>>
     \/ held' = held \ {"input"} /\ Exit(2)
  /\ UNCHANGED <<input_vars, size, output_vars, result>>

-----------------------------------------------------------------------------
(* main after the input is read.                                            *)

Parse ==
  /\ pc = "parse"
  /\ \/ /\ size \in stdin.documents
        /\ held' = held \cup {"document"}
        /\ pc' = IF check THEN "check" ELSE "create"
        /\ UNCHANGED <<result, status>>
     \/ /\ \E code \in {"MEMORY", "LIMIT"} \cup
              (IF size \in stdin.documents THEN {} ELSE {"SYNTAX"}) : result' = code
        /\ held' = held \ {"input"}
        /\ Exit(2)
  /\ UNCHANGED <<input_vars, capacity, size, output_vars>>

is_canonical ==
  /\ pc = "check"
  /\ status' = IF size \in stdin.canonical THEN 0 ELSE 1
  /\ pc' = "release"
  /\ UNCHANGED <<input_vars, capacity, size, held, output_vars, result>>

writer_fails(code) == result' = code /\ pc' = "report"

writer_create ==
  /\ pc = "create"
  /\ \/ held' = held \cup {"writer"} /\ pc' = "copy" /\ UNCHANGED result
     \/ writer_fails("MEMORY") /\ UNCHANGED held
  /\ UNCHANGED <<input_vars, capacity, size, output_vars, status>>

\* A fraction is copied as it is spelled; an integer that no 64 bits hold is refused.
writer_value ==
  /\ pc = "copy"
  /\ \/ stdin.numbers # "huge" /\ pc' = "finish" /\ UNCHANGED result
     \/ stdin.numbers = "huge" /\ writer_fails("RANGE")
     \/ writer_fails("MEMORY")
  /\ UNCHANGED <<input_vars, capacity, size, held, output_vars, status>>

writer_finish ==
  /\ pc = "finish"
  /\ \/ held' = held \cup {"text"} /\ pc' = "write" /\ UNCHANGED result
     \/ \E code \in {"LIMIT", "MEMORY"} : writer_fails(code) /\ UNCHANGED held
  /\ UNCHANGED <<input_vars, capacity, size, output_vars, status>>

\* Mutant: the stream is not flushed before its result is taken.
delivered_buffered == written' = TextSize
delivered == written' = TextSize /\ flushed'

\* finish_file after finish: fwrite, free, and fflush when everything was written.
Write ==
  /\ pc = "write"
  /\ written' \in 0 .. TextSize
  /\ flushed' \in IF written' = TextSize THEN BOOLEAN ELSE {FALSE}
  /\ held' = held \ {"text"}
  /\ IF delivered THEN pc' = "close" /\ UNCHANGED result ELSE writer_fails("IO")
  /\ UNCHANGED <<input_vars, capacity, size, status>>

Report ==
  /\ pc = "report"
  /\ status' = IF result \in {"NOT_INTEGER", "RANGE"} THEN 3 ELSE 2
  /\ pc' = "close"
  /\ UNCHANGED <<input_vars, capacity, size, held, output_vars, result>>

Close ==
  /\ pc = "close" /\ pc' = "release" /\ held' = held \ {"writer"}
  /\ UNCHANGED <<input_vars, capacity, size, output_vars, result, status>>

Release ==
  /\ pc = "release" /\ pc' = "exit" /\ held' = held \ {"document", "input"}
  /\ UNCHANGED <<input_vars, capacity, size, output_vars, result, status>>

Next ==
  \/ parse_arguments \/ Allocate \/ Fread \/ Grow \/ Parse \/ is_canonical
  \/ writer_create \/ writer_value \/ writer_finish \/ Write \/ Report \/ Close \/ Release

Spec == Init /\ [][Next]_vars

-----------------------------------------------------------------------------
Exited == pc = "exit"

\* The program exits with everything it allocated freed, whichever call failed.
NothingHeld == Exited => held = {}

\* Exit status 0 without --check means that the whole text has left the program.
SuccessIsDelivered ==
  Exited /\ status = 0 /\ ~check => written = TextSize /\ flushed

\* However the program gets to its exit, it has freed everything and its status tells the
\* truth about its output.
CleanExit == NothingHeld /\ SuccessIsDelivered

\* Exit status 0 means that stdin was one JSON document ("canonicalize, check or reformat
\* one JSON document from stdin to stdout").
SuccessReadsAll == Exited /\ status = 0 => stdin.size \in stdin.documents

=============================================================================
