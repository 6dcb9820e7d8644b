------------------------------ MODULE MCReload ------------------------------
(***************************************************************************)
(* Instances of Reload: files of one line that give every kind of value,   *)
(* and every file of up to three lines of the four kinds that show how     *)
(* values are continued, repeated and ended.                               *)
(***************************************************************************)
EXTENDS Reload

KeyLine(k, text) == [key |-> k, text |-> text, blank |-> FALSE]

Blank == [key |-> NONE, text |-> <<>>, blank |-> TRUE]

Comment == KeyLine(NONE, <<>>)

Values ==
    {KeyLine(Threads, <<3>>), KeyLine(Threads, <<>>), KeyLine(Timeout, <<60>>),
     KeyLine(Timeout, <<WORD>>), Comment}

Lines ==
    {KeyLine(Threads, <<2>>), KeyLine(Timeout, <<>>), KeyLine(NONE, <<120>>), Blank}

MCFiles ==
    [lines : UNION {[1 .. n -> Lines] : n \in 0 .. 3} \cup [1 .. 1 -> Values],
     newline : BOOLEAN]

\* The operator edits one number.
TwoOrThree == {[lines |-> <<KeyLine(Threads, <<n>>)>>, newline |-> TRUE] : n \in {2, 3}}

=============================================================================
