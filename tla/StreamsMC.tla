------------------------------ MODULE StreamsMC ------------------------------
(***************************************************************************)
(* parse_file on files around small limits and around the ceiling, with a  *)
(* SIZE_MAX just above twice a block.                                      *)
(***************************************************************************)
EXTENDS Streams

DefaultLimits == [maximum_bytes |-> 3, maximum_depth |-> 2, maximum_tokens |-> 2]

Asked ==
  {NONE} \cup [maximum_bytes : {0, 1, 2, 256, 257, 515}, maximum_depth : {0, 2, 3},
               maximum_tokens : {0, 2, 3}]
=============================================================================
