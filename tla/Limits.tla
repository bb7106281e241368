------------------------------- MODULE Limits -------------------------------
(***************************************************************************)
(* maelys_json_limits_resolve (src/src/common.c): what a caller asks for,  *)
(* the documented defaults and the ceilings that keep the arithmetic on    *)
(* sizes within a size_t.  NONE is the null pointer.                       *)
(***************************************************************************)
EXTENDS Naturals

CONSTANTS
  NONE,
  SizeMax,           \* SIZE_MAX
  MaximumDepth,      \* MAELYS_JSON_MAXIMUM_DEPTH
  Defaults,          \* the MAELYS_JSON_DEFAULT_MAXIMUM_ values
  TokenSize          \* sizeof(maelys_json_token_t), in bytes

LimitsType == [maximum_bytes : Nat, maximum_depth : Nat, maximum_tokens : Nat]

ASSUME CeilingAssumption == SizeMax \in Nat /\ SizeMax > 1 /\ MaximumDepth \in Nat
ASSUME DefaultsAssumption ==
  /\ Defaults \in LimitsType
  /\ Defaults.maximum_bytes > 0 /\ Defaults.maximum_depth > 0 /\ Defaults.maximum_tokens > 0
ASSUME TokenSizeAssumption == TokenSize \in Nat /\ TokenSize <= 256

unless_zero(asked, otherwise) == IF asked = 0 THEN otherwise ELSE asked

\* The requested limits, a zero field replaced by its default.
limits_merged(requested) ==
  IF requested = NONE THEN Defaults
  ELSE [maximum_bytes  |-> unless_zero(requested.maximum_bytes, Defaults.maximum_bytes),
        maximum_depth  |-> unless_zero(requested.maximum_depth, Defaults.maximum_depth),
        maximum_tokens |-> unless_zero(requested.maximum_tokens, Defaults.maximum_tokens)]

\* Mutant: the byte limit has no ceiling.
limits_accepted_unbounded(limits) ==
  limits.maximum_depth <= MaximumDepth /\ limits.maximum_tokens <= SizeMax \div 256

limits_accepted(limits) ==
  /\ limits.maximum_depth <= MaximumDepth
  /\ limits.maximum_bytes < SizeMax \div 2
  /\ limits.maximum_tokens <= SizeMax \div 256

\* NONE stands for MAELYS_JSON_ERR_ARGUMENT.
limits_resolve(requested) ==
  IF limits_accepted(limits_merged(requested)) THEN limits_merged(requested) ELSE NONE

-----------------------------------------------------------------------------
\* The sizes the parser computes for an input of `size` bytes with `count` tokens: the
\* copy of the input or the file buffer, the arena, the tokens.
sizes_exact(size, count) ==
  size + 1 <= SizeMax /\ size + count + 1 <= SizeMax /\ count * TokenSize <= SizeMax
=============================================================================
