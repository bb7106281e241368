------------------------------- MODULE KeySetMC -------------------------------
(* Hashes 3 and 7 share their slot until the table has eight slots, and wrap   *)
(* around its end; 4 is where they overflow to.  The fifth key asks for a      *)
(* table that SizeMax refuses.                                                 *)
EXTENDS KeySet

HashedKeys == ({3, 7} \X {"a", "b"}) \cup {<<4, "a">>}
HashOf == [k \in HashedKeys |-> k[1]]
ExpectedKeys == {0, 1, 2}
=============================================================================
