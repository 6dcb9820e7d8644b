----------------------------- MODULE ConfigFile -----------------------------
(***************************************************************************)
(* The parser and the key map of class ConfigFile, as the server uses      *)
(* them: operator>> with the default syntax and no sentry, and read with a *)
(* default for integers.                                                   *)
(*                                                                         *)
(* A line is its key (NONE when there is no "="), the text that is left    *)
(* after the comment is cut (no token or one) and whether it is blank.  A  *)
(* comment line is a line without key or text that is not blank.  A file   *)
(* is its lines and whether the last one ends in a newline.                *)
(***************************************************************************)
EXTENDS Integers, Sequences

CONSTANTS
    Keys,
    WORD,               \* a token that is no number
    Garbage,            \* what an uninitialized int may hold
    NONE

Tokens == {WORD} \cup Int

FileLine == [key : {NONE} \cup Keys, text : Seq(Tokens), blank : BOOLEAN]

ASSUME ConfigAssumption == NONE \notin Keys /\ NONE \notin Seq(Tokens)

Empty == [k \in Keys |-> NONE]

\* The value under construction goes into the map, over an earlier one, and a
\* variant that keeps the earlier one.
StoreFirst(s) ==
    IF s.key = NONE \/ s.contents[s.key] # NONE THEN s
    ELSE [s EXCEPT !.contents[s.key] = s.value]

Store(s) == IF s.key = NONE THEN s ELSE [s EXCEPT !.contents[s.key] = s.value]

\* A key line begins a value, a blank line ends it, other lines continue it.
Step(s, line) ==
    IF line.key # NONE THEN [Store(s) EXCEPT !.key = line.key, !.value = line.text]
    ELSE IF line.blank THEN [Store(s) EXCEPT !.key = NONE]
    ELSE [s EXCEPT !.value = @ \o line.text]

\* getline on a stream that is at its end leaves nextline as it was: a last line
\* without newline that continues a value is appended twice.
LinesRead(f) ==
    IF f.lines = <<>> \/ f.newline THEN f.lines
    ELSE LET last == f.lines[Len(f.lines)] IN
         IF last.key = NONE THEN Append(f.lines, last) ELSE f.lines

\* The keys a file sets and their values.
Parse(f) ==
    LET lines == LinesRead(f)
        state[i \in 0 .. Len(lines)] ==
            IF i = 0 THEN [contents |-> Empty, key |-> NONE, value |-> <<>>]
            ELSE Step(state[i - 1], lines[i])
    IN  Store(state[Len(lines)]).contents

\* Keys that are not in the file stay in the map.
Load(contents, f) ==
    [k \in Keys |-> IF Parse(f)[k] = NONE THEN contents[k] ELSE Parse(f)[k]]

\* The integers that operator>> may leave in t, which starts uninitialized, and
\* a variant that takes the text for the number.
TextAsNumber(value) == IF value = <<>> THEN Garbage ELSE {Head(value)}

string_as_T(value) ==
    IF value = <<>> THEN Garbage
    ELSE IF Head(value) = WORD THEN {0} ELSE {Head(value)}

read(contents, k, default) ==
    IF contents[k] = NONE THEN {default} ELSE string_as_T(contents[k])

-----------------------------------------------------------------------------
(***************************************************************************)
(* What the comments of operator>> promise, without a loop: the last line  *)
(* with the key counts, and its value goes on until a blank line, the next *)
(* key or the end.  A number is the first token of it.                     *)
(***************************************************************************)
LastLine(f, k) ==
    CHOOSE i \in DOMAIN f.lines :
        /\ f.lines[i].key = k
        /\ \A j \in i + 1 .. Len(f.lines) : f.lines[j].key # k

Block(f, i) ==
    {j \in i .. Len(f.lines) :
        \A m \in i + 1 .. j : f.lines[m].key = NONE /\ ~f.lines[m].blank}

Written(f, k) ==
    IF \A i \in DOMAIN f.lines : f.lines[i].key # k THEN NONE
    ELSE LET tokens == {j \in Block(f, LastLine(f, k)) : f.lines[j].text # <<>>}
         IN  IF tokens = {} THEN <<>>
             ELSE f.lines[CHOOSE j \in tokens : \A m \in tokens : j <= m].text

=============================================================================
