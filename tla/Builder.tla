------------------------------- MODULE Builder -------------------------------
(***************************************************************************)
(* What the writer promises its client (include/maelys/json.h): the calls  *)
(* it accepts are the events of one JSON value, an object never gets the   *)
(* same key twice, and after the first error, which stays, no call is      *)
(* accepted any more.  There is no tree here, only the open containers,    *)
(* and no answer: a call that is refused and changes nothing stutters.     *)
(***************************************************************************)
EXTENDS Naturals, Sequences

CONSTANTS Keys, NONE

VARIABLES
  active,      \* there is a writer
  open,        \* open containers: [type, keys], outermost first
  pending,     \* the key of the next member, or NONE
  rooted,      \* the value has begun
  finished, failure

vars == <<active, open, pending, rooted, finished, failure>>

Usable == active /\ ~finished /\ failure = "OK"

InObject == open # <<>> /\ open[Len(open)].type = "object"

\* A value may come next.
Expected ==
  /\ Usable
  /\ open = <<>> => ~rooted
  /\ InObject <=> pending # NONE

\* The innermost object once it has the pending key.
Taken == IF InObject THEN [open EXCEPT ![Len(open)].keys = @ \cup {pending}] ELSE open

Create ==
  /\ ~active /\ active' = TRUE
  /\ UNCHANGED <<open, pending, rooted, finished, failure>>

Scalar ==
  /\ Expected
  /\ open' = Taken /\ pending' = NONE /\ rooted' = TRUE
  /\ UNCHANGED <<active, finished, failure>>

Begin(type) ==
  /\ Expected
  /\ open' = Append(Taken, [type |-> type, keys |-> {}])
  /\ pending' = NONE /\ rooted' = TRUE
  /\ UNCHANGED <<active, finished, failure>>

End ==
  /\ Usable /\ open # <<>> /\ pending = NONE
  /\ open' = SubSeq(open, 1, Len(open) - 1)
  /\ UNCHANGED <<active, pending, rooted, finished, failure>>

Key(k) ==
  /\ Usable /\ InObject /\ pending = NONE
  /\ k \notin open[Len(open)].keys
  /\ pending' = k
  /\ UNCHANGED <<active, open, rooted, finished, failure>>

Finish ==
  /\ Usable /\ open = <<>> /\ rooted /\ pending = NONE
  /\ finished' = TRUE
  /\ UNCHANGED <<active, open, pending, rooted, failure>>

\* The first error.  Which call meets it is not part of the contract, and STATE,
\* LIMIT, MEMORY and RANGE may come at any time; DUPLICATE_KEY only where a key is
\* due, in an object that has one.  Nothing that was accepted is taken back, except
\* the key of a member for which there is no memory.
Fail ==
  /\ Usable
  /\ \/ failure' \in {"STATE", "LIMIT", "MEMORY", "RANGE"} /\ UNCHANGED pending
     \/ /\ InObject /\ pending = NONE /\ open[Len(open)].keys # {}
        /\ failure' = "DUPLICATE_KEY" /\ UNCHANGED pending
     \/ InObject /\ pending # NONE /\ failure' = "MEMORY" /\ pending' = NONE
  /\ UNCHANGED <<active, open, rooted, finished>>

Release ==
  /\ active /\ active' = FALSE
  /\ open' = <<>> /\ pending' = NONE /\ rooted' = FALSE
  /\ finished' = FALSE /\ failure' = "OK"

Init ==
  /\ active = FALSE /\ open = <<>> /\ pending = NONE /\ rooted = FALSE
  /\ finished = FALSE /\ failure = "OK"

Next ==
  \/ Create \/ Release \/ Finish \/ Fail \/ Scalar \/ End
  \/ \E type \in {"object", "array"} : Begin(type)
  \/ \E k \in Keys : Key(k)

Spec == Init /\ [][Next]_vars
=============================================================================
