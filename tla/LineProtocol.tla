---------------------------- MODULE LineProtocol ----------------------------
(***************************************************************************)
(* How start_routine cuts what it reads from one connection into commands. *)
(* TCP delivers the client's lines in segments of any size; every arrival  *)
(* runs start_routine once, which takes at most BUFSIZE bytes out of the   *)
(* bufferevent, and nothing of a read is kept for the next one.            *)
(*                                                                         *)
(* A line is the token, fields that each end in three spaces, and CRLF.    *)
(* The text is what the client means: it sends each byte xor 0xff and      *)
(* start_routine undoes that first.  What a command then does is in module *)
(* Accounts, how a reply is written and a connection closed in module      *)
(* ConnLifecycle.                                                          *)
(***************************************************************************)
EXTENDS Integers, Sequences, FiniteSets

CONSTANTS
    Token,              \* TOKEN_STR, a sequence of characters
    Sep,                \* the three spaces
    Crlf,               \* CR and LF
    Messages,           \* what a client may send: fields, and whether the
                        \* last one is followed by a separator too
    MaxLines,           \* bound on the lines sent over one connection
    BufSize             \* BUFSIZE

ASSUME LineAssumption ==
    /\ Token # <<>> /\ Sep # <<>> /\ Len(Crlf) = 2
    /\ BufSize \in Nat \ {0}
    /\ MaxLines \in Nat

TOKEN_LENGTH == Len(Token)

Take(s, n) == SubSeq(s, 1, n)
Drop(s, n) == SubSeq(s, n + 1, Len(s))

Concat(seqs) ==
    LET all[i \in 0 .. Len(seqs)] == IF i = 0 THEN <<>> ELSE all[i - 1] \o seqs[i]
    IN  all[Len(seqs)]

\* A message as a line.
Line(m) ==
    LET last(i) == i = Len(m.fields) /\ ~m.separated IN
    Token \o Concat([i \in DOMAIN m.fields |->
                        IF last(i) THEN m.fields[i] ELSE m.fields[i] \o Sep]) \o Crlf

\* The lines of a client one after the other.
Text(messages) == Concat([i \in DOMAIN messages |-> Line(messages[i])])

VARIABLES
    sent,               \* the messages of a client that knows the token
    text,               \* the same as one text
    arrived,            \* characters that have reached the bufferevent
    got,                \* characters start_routine has taken
    isVerify,
    open,               \* has the connection not been closed?
    from,               \* history: characters taken before the last read
    handled,            \* history: the fields of each line handled by that read
    answers,            \* history: lines handled so far
    short               \* history: was the first read shorter than the token?

vars == <<sent, text, arrived, got, isVerify, open, from, handled, answers, short>>

TypeOK ==
    /\ sent \in Seq(Messages)
    /\ arrived \in 0 .. Len(text)
    /\ got \in 0 .. arrived
    /\ got - from \in 0 .. BufSize
    /\ isVerify \in BOOLEAN
    /\ open \in BOOLEAN
    /\ answers \in Nat
    /\ short \in BOOLEAN

\* A connection has just been set up, with isVerify false as intended.
Init ==
    /\ sent \in [1 .. MaxLines -> Messages]
    /\ text = Text(sent)
    /\ arrived = 0
    /\ got = 0
    /\ isVerify = FALSE
    /\ open = TRUE
    /\ from = 0
    /\ handled = <<>>
    /\ answers = 0
    /\ short = FALSE

-----------------------------------------------------------------------------
(* utils.h *)

At(s, d, i) == i + Len(d) - 1 <= Len(s) /\ SubSeq(s, i, i + Len(d) - 1) = d

Found(s, d, i) == \E j \in i .. Len(s) : At(s, d, j)

Find(s, d, i) == CHOOSE j \in i .. Len(s) : At(s, d, j) /\ \A k \in i .. j - 1 : ~At(s, d, k)

FindCRLF(s) == Found(s, Crlf, 1)
FindSPACE(s) == Found(s, Sep, 1)

\* The pieces before each delimiter; what follows the last one is dropped.  The
\* variant keeps it.
Split(s, d, rest) ==
    LET pieces[i \in 1 .. Len(s) + 1] ==
            IF Found(s, d, i)
            THEN <<SubSeq(s, i, Find(s, d, i) - 1)>> \o pieces[Find(s, d, i) + Len(d)]
            ELSE IF rest /\ i <= Len(s) THEN <<SubSeq(s, i, Len(s))>> ELSE <<>>
    IN  pieces[1]

SplitKeepsRest(s, d) == Split(s, d, TRUE)

SplitData(s, d) == Split(s, d, FALSE)

-----------------------------------------------------------------------------
(* start_routine *)

\* Every line loses its first TOKEN_LENGTH characters, whatever they are; the
\* variant forgets to take them off.
KeepToken(line) == SplitData(line, Sep)

Fields(line) == SplitData(Drop(line, TOKEN_LENGTH), Sep)

\* Six or three fields are a command, anything else is answered "e3:fail", here
\* <<>>.
Outcome(fields) == IF Len(fields) \in {3, 6} THEN fields ELSE <<>>

\* The lines of one read, in order: several may come at once.  A read without
\* CRLF or without separator is ignored.
Handle(chunk) ==
    IF FindCRLF(chunk) /\ FindSPACE(chunk)
    THEN LET lines == SplitData(chunk, Crlf)
         IN  [i \in DOMAIN lines |-> Outcome(Fields(lines[i]))]
    ELSE <<>>

\* How far bufferevent_read gets when a characters have arrived, and a variant
\* without the limit.
ReadAll(a) == a

ReadLimit(a) == IF a - got <= BufSize THEN a ELSE got + BufSize

\* The token is looked for once, in the first read that is long enough, and a
\* variant that looks in every read.
EveryRead(bytes) == bytes >= TOKEN_LENGTH

ChecksToken(bytes) == bytes >= TOKEN_LENGTH /\ ~isVerify

\* n characters arrive and the read callback runs.
start_routine(n) ==
    LET to == ReadLimit(arrived + n)
        chunk == SubSeq(text, got + 1, to)
        check == ChecksToken(to - got)
        refused == check /\ Take(chunk, TOKEN_LENGTH) # Token
    IN  /\ open
        /\ arrived' = arrived + n
        /\ got' = to
        /\ isVerify' = (isVerify \/ check)
        /\ open' = ~refused
        /\ from' = got
        /\ handled' = IF refused THEN <<>> ELSE Handle(chunk)
        /\ answers' = answers + Len(handled')
        /\ short' = (short \/ (got = 0 /\ to < TOKEN_LENGTH))
        /\ UNCHANGED <<sent, text>>

Next == \E n \in 1 .. Len(text) - arrived : start_routine(n)

Spec == Init /\ [][Next]_vars

-----------------------------------------------------------------------------
\* A client sends at least one line, and each begins with the token.
TextsBeginWithToken(Char) ==
    \A s \in [1 .. MaxLines -> Messages] :
        /\ Text(s) \in Seq(Char)
        /\ TOKEN_LENGTH \in 1 .. Len(Text(s))
        /\ Take(Text(s), TOKEN_LENGTH) = Token

\* What a client may write in a field: neither the separator nor the beginning
\* of the one behind it.
PlainMessage(Char, m) ==
    /\ m.fields \in Seq(Seq(Char)) /\ m.fields # <<>> /\ m.separated \in BOOLEAN
    /\ \A i \in DOMAIN m.fields :
          IF i = Len(m.fields) /\ ~m.separated THEN ~FindSPACE(m.fields[i])
          ELSE \A k \in DOMAIN m.fields[i] : ~At(m.fields[i] \o Sep, Sep, k)

\* CR stands only at the end of a line, and the token does not end with what a
\* separator begins with.
PlainMessages(Char) ==
    /\ Token \in Seq(Char) /\ Sep \in Seq(Char) /\ Token[TOKEN_LENGTH] # Sep[1]
    /\ Crlf = <<Crlf[1], Crlf[2]>> /\ Crlf[1] \notin Char \cup {Crlf[2]}
    /\ \A m \in Messages : PlainMessage(Char, m)

\* Characters of the text before the end of line j.
EndOf(j) == Len(Text(Take(sent, j)))

\* Lines that lie in the last read as a whole.
Inside == {j \in DOMAIN sent : from <= EndOf(j - 1) /\ EndOf(j) <= got}

\* The read begins with the LF of the CRLF in front of line j.
CrlfCut(j) == from = EndOf(j - 1) - 1

\* The fields of a message that count: SplitData wants a separator behind each.
Meant(m) == IF m.separated THEN m.fields ELSE Take(m.fields, Len(m.fields) - 1)

\* What is left of them when one character of the token is not taken off.
Shifted(fields) ==
    [i \in DOMAIN fields |->
        IF i = 1 THEN <<Token[TOKEN_LENGTH]>> \o fields[1] ELSE fields[i]]

Read(j) == IF CrlfCut(j) THEN Shifted(Meant(sent[j])) ELSE Meant(sent[j])

(***************************************************************************)
(* What becomes of a line that arrives in one read, as a whole, and how    *)
(* far its neighbours in the read matter.  It is answered in its place     *)
(* among the lines of the read, with the fields the client meant, whatever *)
(* fragments of other lines the read begins and ends with - but for two    *)
(* cases.  If the CRLF before it was cut in two, the LF counts as part of  *)
(* it, so that the token's last character is left in its first field.  And *)
(* if there is no separator in the whole read, nothing is answered.        *)
(***************************************************************************)
WholeLinesHandled ==
    open =>
        IF FindSPACE(SubSeq(text, from + 1, got))
        THEN \A j \in Inside :
                LET behind == Cardinality({k \in Inside : k > j}) IN
                /\ Len(handled) > behind
                /\ handled[Len(handled) - behind] = Outcome(Read(j))
        ELSE handled = <<>>

(***************************************************************************)
(* Each CRLF that a read brings as a whole is answered once, the end of a  *)
(* line without its beginning too, unless the read has no separator; and a *)
(* fragment without its CRLF is never answered, so that a client gets no   *)
(* more answers than it has sent complete lines.                           *)
(***************************************************************************)
OneAnswerPerLine ==
    /\ answers <= Cardinality({j \in DOMAIN sent : EndOf(j) <= got})
    /\ open =>
          Len(handled) =
              IF FindSPACE(SubSeq(text, from + 1, got))
              THEN Cardinality({j \in DOMAIN sent : from + 2 <= EndOf(j) /\ EndOf(j) <= got})
              ELSE 0

(***************************************************************************)
(* "a connection that fails the token check is closed"                     *)
(* (worker_threads.cc:69): a client that starts with the token is closed   *)
(* only if its very first read was shorter than the token, so that a later *)
(* read was compared with it.                                              *)
(***************************************************************************)
HonestClientStays == open \/ short

=============================================================================
