------------------------------- MODULE Decoder -------------------------------
(***************************************************************************)
(* maelys_json_decode_string (src/src/utf8.c): the bytes between two       *)
(* quotes become the text they denote.  One turn of its loop is a step.    *)
(* The caller gives the output as many bytes as the input has, and one     *)
(* more for the terminating NUL.                                           *)
(***************************************************************************)
EXTENDS Utf8

CONSTANTS Inputs

Profiles == {"RFC8259", "CONTRACT_ASCII", "LAST_WINS"}

ASSUME InputsAssumption == Inputs \subseteq Seq(Byte)

VARIABLES
  bytes, profile,      \* the arguments
  input,               \* bytes consumed
  out,                 \* bytes written
  code, bad_offset     \* what the call returns

vars == <<bytes, profile, input, out, code, bad_offset>>

Init ==
  /\ bytes \in Inputs /\ profile \in Profiles
  /\ input = 0 /\ out = <<>> /\ code = "none" /\ bad_offset = 0

size == Len(bytes)
byte == bytes[input + 1]

Reading == code = "none" /\ input < size

Refuse(why, at) ==
  code' = why /\ bad_offset' = at /\ UNCHANGED <<bytes, profile, input, out>>

Take(end, text) ==
  input' = end /\ out' = out \o text /\ UNCHANGED <<bytes, profile, code, bad_offset>>

printable == byte \in 32 .. 126 /\ byte # backslash

AsciiByte ==
  /\ Reading /\ profile = "CONTRACT_ASCII"
  /\ \/ ~printable /\ Refuse("SYNTAX", input)
     \/ printable /\ Take(input + 1, <<byte>>)

\* Mutant: the offset counts from the start of the run.
invalid_at_relative(valid) == valid
invalid_at(valid) == input + valid

\* Raw bytes up to the next escape, copied at once when they are UTF-8.
RawRun ==
  /\ Reading /\ profile # "CONTRACT_ASCII" /\ byte # backslash
  /\ \E end \in input + 1 .. size :
       /\ \A i \in input + 1 .. end : bytes[i] # backslash
       /\ end < size => bytes[end + 1] = backslash
       /\ LET run   == SubSeq(bytes, input + 1, end)
              valid == utf8_valid_prefix(run)
          IN  \/ valid # end - input /\ Refuse("UTF8", invalid_at(valid))
              \/ valid = end - input /\ Take(end, run)

AtEscape == Reading /\ profile # "CONTRACT_ASCII" /\ byte = backslash

LoneBackslash ==
  /\ AtEscape /\ input + 1 >= size
  /\ Refuse("SYNTAX", input)

UnicodeEscape ==
  /\ AtEscape /\ input + 1 < size /\ bytes[input + 2] = letter_u
  /\ LET read == read_escape_point(bytes, input + 2)
     IN  \/ read.point = 0 /\ Refuse("SYNTAX", input)
         \/ read.point # 0 /\ Take(read.input, encode_utf8(read.point))

SimpleEscape ==
  /\ AtEscape /\ input + 1 < size /\ bytes[input + 2] # letter_u
  /\ LET known == {e \in simple_escape : e[1] = bytes[input + 2]}
     IN  \/ known = {} /\ Refuse("SYNTAX", input)
         \/ \E e \in known : Take(input + 2, <<e[2]>>)

Finish ==
  /\ code = "none" /\ input >= size
  /\ code' = "OK" /\ UNCHANGED <<bytes, profile, input, out, bad_offset>>

decode_string ==
  AsciiByte \/ RawRun \/ LoneBackslash \/ UnicodeEscape \/ SimpleEscape \/ Finish

Spec == Init /\ [][decode_string]_vars

-----------------------------------------------------------------------------
(* Properties.                                                              *)

\* What is written never overtakes what is read, whatever the escapes expand to, so
\* the text and its NUL fit in the claim of size + 1 bytes that parse_string and
\* emit_key give decode_string.
OutputFits == Len(out) <= input /\ input <= size

=============================================================================
