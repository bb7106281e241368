------------------------------- MODULE Streams -------------------------------
(***************************************************************************)
(* maelys_json_document_parse_file (src/src/stdio.c): calls one after      *)
(* another, with a failure wherever fopen, malloc, fread or fclose may     *)
(* have one.  A byte of a file is its position, so that it is seen which   *)
(* bytes the parser gets.  document_parse is an outcome (module Parser has *)
(* the rest of it); the limits it resolves once more are kept.             *)
(***************************************************************************)
EXTENDS Limits, Sequences

CONSTANTS
  FileSizes,        \* sizes of the files there are
  Requests          \* the limits callers pass, and NONE

ASSUME FilesAssumption ==
  FileSizes \subseteq Nat /\ Requests \subseteq LimitsType \cup {NONE}

VARIABLES
  pc, file, limits,            \* where the call is, its file and its resolved limits
  stream, eof, failed,         \* the FILE, NONE when there is none, and its two flags
  buffer,                      \* the bytes read so far, NONE when not allocated
  parsed,                      \* what document_parse was called with, <<>> before
  document, result, error      \* *out_document, the result and out_error->code

stream_vars == <<stream, eof, failed>>
vars == <<pc, file, limits, stream_vars, buffer, parsed, document, result, error>>

Init ==
  /\ pc = "idle" /\ file = <<>> /\ limits = NONE
  /\ stream = NONE /\ eof = FALSE /\ failed = FALSE
  /\ buffer = NONE /\ parsed = <<>>
  /\ document = FALSE /\ result = "OK" /\ error = "OK"

error_set(code) == result' = code /\ error' = code
Return(code) == error_set(code) /\ pc' = "done"

Call ==
  \E n \in FileSizes, requested \in Requests :
    /\ pc = "idle"
    /\ file' = [i \in 1 .. n |-> i]
    /\ limits' = limits_resolve(requested)
    /\ IF limits' = NONE THEN Return("ARGUMENT")
       ELSE pc' = "open" /\ result' = "OK" /\ error' = "OK"
    /\ document' = IF limits' = NONE THEN document ELSE FALSE
    /\ parsed' = <<>>
    /\ UNCHANGED <<stream_vars, buffer>>

Open ==
  /\ pc = "open"
  /\ \/ stream' = 0 /\ pc' = "allocate" /\ UNCHANGED <<result, error>>
     \/ Return("IO") /\ UNCHANGED stream
  /\ eof' = FALSE /\ failed' = FALSE
  /\ UNCHANGED <<file, limits, buffer, parsed, document>>

capacity == (limits.maximum_bytes + 1) % (SizeMax + 1)

Allocate ==
  /\ pc = "allocate"
  /\ \/ buffer' = <<>> /\ pc' = "read" /\ UNCHANGED <<stream, result, error>>
     \/ stream' = NONE /\ Return("MEMORY") /\ UNCHANGED buffer
  /\ UNCHANGED <<file, limits, eof, failed, parsed, document>>

\* fread: as many bytes as are wanted, or fewer and one of the flags.
Fread(wanted) ==
  LET left == Len(file) - stream
      copy(n) == buffer' = buffer \o SubSeq(file, stream + 1, stream + n) /\ stream' = stream + n
  IN  \/ wanted <= left /\ copy(wanted) /\ UNCHANGED <<eof, failed>>
      \/ wanted > left /\ copy(left) /\ eof' = TRUE /\ UNCHANGED failed
      \/ \E n \in 0 .. left : n < wanted /\ copy(n) /\ failed' = TRUE /\ UNCHANGED eof

reading == Len(buffer) < capacity /\ ~eof /\ ~failed

Read ==
  /\ pc = "read" /\ reading
  /\ Fread(capacity - Len(buffer))
  /\ UNCHANGED <<pc, file, limits, parsed, document, result, error>>

ReadEnds ==
  /\ pc = "read" /\ ~reading
  /\ result' = IF failed THEN "IO" ELSE "OK"
  /\ pc' = "close"
  /\ UNCHANGED <<file, limits, stream_vars, buffer, parsed, document, error>>

\* Mutant: a file of exactly maximum_bytes is refused.
oversized_early == Len(buffer) + 1 >= capacity
oversized == Len(buffer) >= capacity

\* fclose, which may fail, and the verdict on what was read.
Close ==
  /\ pc = "close"
  /\ stream' = NONE
  /\ \E closed \in BOOLEAN :
       LET code == IF result = "OK" /\ ~closed THEN "IO" ELSE result
       IN  result' = IF code = "OK" /\ oversized THEN "LIMIT" ELSE code
  /\ pc' = "judge"
  /\ UNCHANGED <<file, limits, eof, failed, buffer, parsed, document, error>>

\* Mutant: the error path returns at once.
Refuse_leaking ==
  /\ pc = "judge" /\ result # "OK"
  /\ Return(result)
  /\ UNCHANGED <<file, limits, stream_vars, buffer, parsed, document>>

Refuse ==
  /\ pc = "judge" /\ result # "OK"
  /\ buffer' = NONE
  /\ Return(result)
  /\ UNCHANGED <<file, limits, stream_vars, parsed, document>>

\* document_parse on the bytes read, with the resolved limits as a request.
Parse ==
  /\ pc = "judge" /\ result = "OK"
  /\ parsed' = <<[bytes |-> buffer, limits |-> limits_resolve(limits)]>>
  /\ \E code \in {"OK", "MEMORY", "LIMIT", "SYNTAX", "UTF8", "DUPLICATE_KEY"} :
       Return(code) /\ document' = (code = "OK")
  /\ buffer' = NONE
  /\ UNCHANGED <<file, limits, stream_vars>>

\* The caller releases the document, and may call again.
Release ==
  /\ pc = "done" /\ pc' = "idle" /\ document' = FALSE
  /\ UNCHANGED <<file, limits, stream_vars, buffer, parsed, result, error>>

Next ==
  \/ Call \/ Open \/ Allocate \/ Read \/ ReadEnds \/ Close \/ Refuse \/ Parse \/ Release

Spec == Init /\ [][Next]_vars

-----------------------------------------------------------------------------
Results == {"OK", "ARGUMENT", "IO", "MEMORY", "LIMIT", "SYNTAX", "UTF8", "DUPLICATE_KEY"}

\* The state of a call; what fread wrote is within the buffer malloc(capacity) gave.
TypeOK ==
  /\ pc \in {"idle", "open", "allocate", "read", "close", "judge", "done"}
  /\ file \in Seq(Nat) /\ limits \in LimitsType \cup {NONE}
  /\ stream \in 0 .. Len(file) \cup {NONE} /\ eof \in BOOLEAN /\ failed \in BOOLEAN
  /\ buffer # NONE => limits # NONE /\ buffer \in Seq(Nat) /\ Len(buffer) <= capacity
  /\ document \in BOOLEAN /\ result \in Results /\ error \in Results

\* A parse happens only with the whole file, byte for byte, and only when it is no longer
\* than maximum_bytes; a file that is refused as too long is longer; so reading one byte
\* more than the limit tells the two apart, whatever the limit and however fread returns.
ParsesWholeFile ==
  pc = "done" /\ limits # NONE =>
    /\ parsed # <<>> => parsed[1].bytes = file /\ Len(file) <= limits.maximum_bytes
    /\ parsed = <<>> /\ result = "LIMIT" => Len(file) > limits.maximum_bytes

\* Whatever fails, the call returns with its stream closed and its buffer freed, a
\* document exactly when the parse succeeded, and an error that says what was returned.
NothingHeld ==
  pc = "done" => /\ stream = NONE /\ buffer = NONE
                 /\ document <=> result = "OK"
                 /\ document => parsed # <<>>
                 /\ error = result

\* document_parse, which resolves the resolved limits again, accepts them and works
\* within the limits the file was read under.
OneResolution == parsed # <<>> => parsed[1].limits = limits

\* Resolved limits keep the size of the file buffer, of the arena and of the token array
\* exact for every input they admit, as the comment in limits_resolve says.
ArithmeticExact ==
  limits # NONE =>
    \A size \in {0, limits.maximum_bytes} :
      sizes_exact(size, IF size < limits.maximum_tokens THEN size ELSE limits.maximum_tokens)

\* The limits a call resolves hold throughout: what fread writes is within the buffer, the
\* parse works under the same limits, and no size computed from them wraps.
LimitsHold == TypeOK /\ OneResolution /\ ArithmeticExact

=============================================================================
