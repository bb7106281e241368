------------------------------ MODULE Spelled ------------------------------
(***************************************************************************)
(* Lexemes for the parser that come with the bytes they are spelled with,  *)
(* for the components that look at the bytes of the input again.           *)
(***************************************************************************)
EXTENDS Links

lexeme(kind, bytes) ==
  [kind |-> kind, lead |-> 0, width |-> Len(bytes), text |-> NONE, text_size |-> 0,
   closed |-> TRUE, control |-> NONE, exotic |-> NONE, decoded |-> "OK", bad |-> 0,
   blanks |-> <<>>, bytes |-> bytes]

after(blanks, l) == [l EXCEPT !.lead = Len(blanks), !.blanks = blanks]

\* A string literal with the text it denotes.
string(text, bytes) ==
  [lexeme("string", <<34>> \o bytes \o <<34>>) EXCEPT !.text = text, !.text_size = Len(text)]

number(bytes) == [lexeme("number", bytes) EXCEPT !.text = bytes, !.text_size = Len(bytes)]

colon == lexeme(":", <<58>>)
eof   == lexeme("eof", <<>>)

delimiters == {lexeme("{", <<123>>), lexeme("}", <<125>>), lexeme("[", <<91>>),
               lexeme("]", <<93>>), lexeme(",", <<44>>), colon}

\* The bytes of an input.
spelled(lexemes) ==
  LET upto[i \in 0 .. Len(lexemes)] ==
        IF i = 0 THEN <<>> ELSE upto[i - 1] \o lexemes[i].blanks \o lexemes[i].bytes
  IN  upto[Len(lexemes)]
=============================================================================
