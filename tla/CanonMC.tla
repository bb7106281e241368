------------------------------- MODULE CanonMC -------------------------------
(***************************************************************************)
(* maelys-json-canon with an INPUT_LIMIT of eight bytes.                   *)
(***************************************************************************)
EXTENDS Canon

document(total, documents, canonical, numbers) ==
  [size |-> total, documents |-> documents, canonical |-> canonical, numbers |-> numbers]

\* Documents with their blanks, up to the limit; one that ends in bytes that are no JSON.
Fitting ==
  {document(n, m .. n, {c} \cap m .. n, "integers") :
     n \in {0, 1, 2, 4, 8}, m \in {1, 2}, c \in 1 .. 2}
  \cup {document(n, {n}, {}, numbers) : n \in {1, 4, 8}, numbers \in {"fractions", "huge"}}
  \cup {document(5, 2 .. 4, {2}, "integers")}

\* A document, blanks up to the limit, and bytes after it that are no JSON.
TooLong == {document(9, 2 .. 8, {2}, "integers")}
=============================================================================
