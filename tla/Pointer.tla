------------------------------- MODULE Pointer -------------------------------
(***************************************************************************)
(* maelys_json_error_pointer (src/src/pointer.c): the JSON Pointer of the  *)
(* value under construction at the offset of an error, from a second scan  *)
(* of the input that knows nothing of the parse.  The scan is one turn per *)
(* lexeme; blanks do not matter to it.  And the line and the column of an  *)
(* offset, as maelys_json_error_set counts them (src/src/common.c).        *)
(***************************************************************************)
EXTENDS Parser, Layout

CONSTANT MaximumDepth      \* MAELYS_JSON_MAXIMUM_DEPTH

ASSUME DepthAssumption == MaximumDepth \in Nat /\ MaxDepth <= MaximumDepth

frame_init(is_object) == [is_object |-> is_object, index |-> 0, key |-> NONE, in_value |-> FALSE]

\* Mutant: the key of the previous member is kept after a comma.
after_comma_kept(top) == IF top.is_object THEN top ELSE [top EXCEPT !.index = @ + 1]

after_comma(top) ==
  IF top.is_object THEN [top EXCEPT !.key = NONE, !.in_value = FALSE]
  ELSE [top EXCEPT !.index = @ + 1]

\* A frame after a lexeme that opens and closes nothing.
rescanned(top, l) ==
  CASE l.kind = "," -> after_comma(top)
    [] l.kind = ":" /\ top.is_object /\ top.key # NONE -> [top EXCEPT !.in_value = TRUE]
    [] l.kind = "string" /\ top.is_object /\ ~top.in_value -> [top EXCEPT !.key = l]
    [] OTHER -> top

\* One turn of the loop of scan.
turn(frames, l) ==
  CASE l.kind \in {"{", "["} ->
         IF Len(frames) < MaximumDepth THEN Append(frames, frame_init(l.kind = "{")) ELSE frames
    [] l.kind \notin {"{", "["} /\ frames = <<>> -> frames
    [] l.kind \in {"}", "]"} /\ frames # <<>> -> SubSeq(frames, 1, Len(frames) - 1)
    [] OTHER -> [frames EXCEPT ![Len(frames)] = rescanned(@, l)]

\* Where lexeme i begins.
start(lexemes, i) ==
  LET upto[k \in 0 .. i] ==
        IF k = 0 THEN 0 ELSE upto[k - 1] + lexemes[k].lead + lexemes[k].width
  IN  upto[i] - lexemes[i].width

\* The scan gets to lexeme i.
reaches(lexemes, i, limit) == start(lexemes, i) < limit

scan(lexemes, limit) ==
  LET frames[i \in 0 .. Len(lexemes)] ==
        IF i = 0 THEN <<>>
        ELSE IF reaches(lexemes, i, limit) THEN turn(frames[i - 1], lexemes[i])
        ELSE frames[i - 1]
  IN  frames[Len(lexemes)]

\* The frames the pointer is made of: up to an object that is not at a value.
located(frames) ==
  LET waiting == {i \in DOMAIN frames : frames[i].is_object /\ ~frames[i].in_value}
  IN  IF waiting = {} THEN frames ELSE SubSeq(frames, 1, Least(waiting) - 1)

-----------------------------------------------------------------------------
(* Lines and columns.                                                       *)

\* Mutant: columns go on counting after a line feed.
step_past_column(at_byte, byte) ==
  [line |-> at_byte.line + (IF byte = 10 THEN 1 ELSE 0), column |-> at_byte.column + 1]

step_past(at_byte, byte) ==
  IF byte = 10 THEN [line |-> at_byte.line + 1, column |-> 1]
  ELSE [at_byte EXCEPT !.column = @ + 1]

error_position(bytes, offset_of_error) ==
  LET position[i \in 0 .. offset_of_error] ==
        IF i = 0 THEN [line |-> 1, column |-> 1] ELSE step_past(position[i - 1], bytes[i])
  IN  position[offset_of_error]

-----------------------------------------------------------------------------
(* What is emitted, and how much of it the caller's buffer takes.           *)

slash == 47
tilde == 126

\* RFC 6901 escaping of one byte of a key.
escaped(b) == CASE b = tilde -> <<tilde, 48>> [] b = slash -> <<tilde, 49>> [] OTHER -> <<b>>

emit_token(bytes) ==
  <<slash>> \o Joined([i \in DOMAIN bytes |-> escaped(bytes[i])])

\* The bytes between the quotes, when there is no memory to decode them.
raw(l) == SubSeq(l.bytes, 2, l.width - 1)

emit_frame(f, memory) ==
  IF f.is_object THEN emit_token(IF memory THEN f.key.text ELSE raw(f.key))
  ELSE <<slash>> \o digits[f.index]

\* The whole pointer.  `frames` says whether the array of frames could be had,
\* `memory` whether the keys could be decoded.
emitted(lexemes, size, err, frames, memory) ==
  LET path == located(scan(lexemes, Lower(err.offset, size)))
  IN  IF size = 0 \/ ~frames THEN <<>>
      ELSE Joined([i \in DOMAIN path |-> emit_frame(path[i], memory)])

\* One byte of the emitter; a buffer of n bytes takes n - 1 of them.
emit_byte(e, b) ==
  [length |-> e.length + 1,
   buffer |-> IF e.length + 1 < Len(e.buffer) THEN [e.buffer EXCEPT ![e.length + 1] = b]
              ELSE e.buffer]

\* Mutant: the NUL goes past a buffer the pointer fills exactly.
emit_finish_past(e) ==
  IF e.buffer = <<>> THEN e
  ELSE [e EXCEPT !.buffer[(IF e.length <= Len(e.buffer) THEN e.length
                           ELSE Len(e.buffer) - 1) + 1] = 0]

emit_finish(e) ==
  IF e.buffer = <<>> THEN e
  ELSE [e EXCEPT !.buffer[(IF e.length < Len(e.buffer) THEN e.length
                           ELSE Len(e.buffer) - 1) + 1] = 0]

\* The buffer a caller with `capacity` bytes gets, and the length that is returned.
error_pointer(text, capacity) ==
  LET upto[i \in 0 .. Len(text)] ==
        IF i = 0 THEN [length |-> 0, buffer |-> [k \in 1 .. capacity |-> NONE]]
        ELSE emit_byte(upto[i - 1], text[i])
  IN  emit_finish(upto[Len(text)])
=============================================================================
