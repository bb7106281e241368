----------------------------- MODULE JsonGrammar -----------------------------
(***************************************************************************)
(* A reference definition of JSON over lexemes, independent of the parser: *)
(* the grammar of RFC 8259 read as a set of derivations, with the meaning  *)
(* the header gives to repeated keys under each profile.                   *)
(***************************************************************************)
EXTENDS Naturals, Sequences

CONSTANTS
  Sound(_),      \* the literal is well formed under the profile
  Unique         \* TRUE: repeated keys are refused; FALSE: the last one wins

\* The members of an object that survive: last occurrences, in their order.
Survivors(members) ==
  LET last(i) == \A j \in i + 1 .. Len(members) : members[j].key # members[i].key
      kept[i \in 0 .. Len(members)] ==
        IF i = 0 THEN <<>>
        ELSE IF last(i) THEN Append(kept[i - 1], members[i]) ELSE kept[i - 1]
  IN  kept[Len(members)]

Repeats(members) ==
  \E i, j \in DOMAIN members : i # j /\ members[i].key = members[j].key

RECURSIVE Values(_), Members(_), Items(_)

\* The trees a sequence of lexemes denotes: none or one.
Values(s) ==
  IF s = <<>> THEN {}
  ELSE IF Len(s) = 1 THEN
    IF s[1].kind \in {"string", "number", "literal"} /\ Sound(s[1])
      THEN {[kind |-> s[1].kind, text |-> s[1].text]} ELSE {}
  ELSE LET inside == SubSeq(s, 2, Len(s) - 1)
       IN  CASE s[1].kind = "{" /\ s[Len(s)].kind = "}" ->
                  {[kind |-> "object", members |-> Survivors(m)] :
                     m \in {n \in IF inside = <<>> THEN {<<>>} ELSE Members(inside) :
                              ~(Unique /\ Repeats(n))}}
             [] s[1].kind = "[" /\ s[Len(s)].kind = "]" ->
                  {[kind |-> "array", items |-> m] :
                     m \in IF inside = <<>> THEN {<<>>} ELSE Items(inside)}
             [] OTHER -> {}

\* A tail is what may follow a member or an item.
Items(s) ==
  UNION {{<<v>> \o rest : v \in Values(SubSeq(s, 1, n)),
                          rest \in IF n = Len(s) THEN {<<>>}
                                   ELSE Items(SubSeq(s, n + 2, Len(s)))} :
         n \in {k \in 1 .. Len(s) : k = Len(s) \/ s[k + 1].kind = ","}}

Members(s) ==
  IF Len(s) < 3 \/ s[1].kind # "string" \/ ~Sound(s[1]) \/ s[2].kind # ":" THEN {}
  ELSE UNION {{<<[key |-> s[1].text, value |-> v]>> \o rest :
                 v \in Values(SubSeq(s, 3, n)),
                 rest \in IF n = Len(s) THEN {<<>>}
                          ELSE Members(SubSeq(s, n + 2, Len(s)))} :
              n \in {k \in 3 .. Len(s) : k = Len(s) \/ s[k + 1].kind = ","}}

-----------------------------------------------------------------------------
\* What closes the containers a sequence leaves open, innermost first.
Closers(s) ==
  LET upto[i \in 0 .. Len(s)] ==
        IF i = 0 THEN <<>>
        ELSE CASE s[i].kind = "{" -> <<[kind |-> "}"]>> \o upto[i - 1]
               [] s[i].kind = "[" -> <<[kind |-> "]"]>> \o upto[i - 1]
               [] s[i].kind \in {"}", "]"} /\ upto[i - 1] # <<>> -> Tail(upto[i - 1])
               [] OTHER -> upto[i - 1]
  IN  upto[Len(s)]

\* Some continuation of `s` is JSON; `key` and `value` are lexemes to complete
\* it with, the key one that `s` does not use.
Viable(s, key, value) ==
  \E fill \in {<<>>, <<value>>, <<[kind |-> ":"], value>>,
               <<key, [kind |-> ":"], value>>} :
    Values(s \o fill \o Closers(s)) # {}
=============================================================================
