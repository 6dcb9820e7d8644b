--------------------------- MODULE MCLineProtocol ---------------------------
(* Instances of LineProtocol: a token of two characters, fields of one. *)
EXTENDS LineProtocol

MCToken == <<"1", "2">>
MCSep == <<" ", " ">>
MCCrlf == <<"r", "n">>

Message(fields, separated) == [fields |-> fields, separated |-> separated]

Three == <<<<"a">>, <<"b">>, <<"c">>>>

\* A command with three fields and one with six, the line without its last
\* separator that the comment in start_routine shows, and one without any.
MCMessages ==
    {Message(Three, TRUE), Message(Three \o Three, TRUE), Message(Three, FALSE),
     Message(<<<<"a", "b">>>>, FALSE)}

ASSUME MCTextsBeginWithToken ==
    TextsBeginWithToken({"1", "2", " ", "r", "n", "a", "b", "c"})

ASSUME MCPlainMessages == PlainMessages({"1", "2", " ", "a", "b", "c"})

=============================================================================
