---------------------------- MODULE AccountTable ----------------------------
(***************************************************************************)
(* What the four database commands promise to clients, without mutex_, SQL *)
(* or rows: one table from user names to passwords, on which each command  *)
(* takes effect at one instant between the moment a worker starts it and   *)
(* the moment it answers.  About a name whose statements the server fails  *)
(* or delays nothing is promised any more.                                 *)
(***************************************************************************)
CONSTANTS
    Workers,
    Names,
    Passwds,
    NONE,
    Requests,           \* records with at least cmd, name and passwd
    IsDevice(_)         \* does this INSERT register a device, not a user?

VARIABLES
    accounts,           \* the password of each name, or NONE
    asked,              \* per worker, its current request, or NONE
    answer,             \* per worker: "none", "pending" or a reply code
    suspect             \* names that nothing is promised about

vars == <<accounts, asked, answer, suspect>>

Init ==
    /\ accounts = [n \in Names |-> NONE]
    /\ asked = [w \in Workers |-> NONE]
    /\ answer = [w \in Workers |-> "none"]
    /\ suspect = {}

Ask(w) ==
    /\ answer[w] = "none"
    /\ \E r \in Requests : asked' = [asked EXCEPT ![w] = r]
    /\ answer' = [answer EXCEPT ![w] = "pending"]
    /\ UNCHANGED <<accounts, suspect>>

Pending(w, cmd) == answer[w] = "pending" /\ asked[w].cmd = cmd

Trusted(w, cmd) == Pending(w, cmd) /\ asked[w].name \notin suspect

\* A name is registered once.
Register(w) ==
    LET r == asked[w] IN
    /\ Trusted(w, "INSERT")
    /\ ~IsDevice(r)
    /\ IF accounts[r.name] = NONE
       THEN /\ accounts' = [accounts EXCEPT ![r.name] = r.passwd]
            /\ answer' = [answer EXCEPT ![w] = "f0"]
       ELSE /\ answer' = [answer EXCEPT ![w] = "e1"]
            /\ UNCHANGED accounts
    /\ UNCHANGED <<asked, suspect>>

RegisterDevice(w) ==
    /\ Pending(w, "INSERT")
    /\ IsDevice(asked[w])
    /\ answer' = [answer EXCEPT ![w] = "f0"]
    /\ UNCHANGED <<accounts, asked, suspect>>

Login(w) ==
    LET r == asked[w] IN
    /\ Trusted(w, "SELECT")
    /\ answer' = [answer EXCEPT ![w] =
                    IF accounts[r.name] = NONE THEN "e1"
                    ELSE IF accounts[r.name] = r.passwd THEN "f0" ELSE "e3"]
    /\ UNCHANGED <<accounts, asked, suspect>>

\* The answer does not tell whether there was an account to change.
ChangePasswd(w) ==
    LET r == asked[w] IN
    /\ Trusted(w, "UPDATE")
    /\ accounts' = [accounts EXCEPT ![r.name] = IF @ = NONE THEN NONE ELSE r.passwd]
    /\ answer' = [answer EXCEPT ![w] = "f0"]
    /\ UNCHANGED <<asked, suspect>>

\* DELETE takes no account away and is not answered.
Delete(w) ==
    /\ Pending(w, "DELETE")
    /\ answer' = [answer EXCEPT ![w] = "none"]
    /\ asked' = [asked EXCEPT ![w] = NONE]
    /\ UNCHANGED <<accounts, suspect>>

\* The server fails or delays a statement of the command, or has done so for
\* the same name before: any answer, at once or later.
Doubt(w) ==
    /\ \E cmd \in {"INSERT", "SELECT", "UPDATE"} : Pending(w, cmd)
    /\ suspect' = suspect \cup {asked[w].name}
    /\ accounts' = [accounts EXCEPT ![asked[w].name] = NONE]
    /\ \E a \in {"pending", "f0", "e1", "e2", "e3"} :
            answer' = [answer EXCEPT ![w] = a]
    /\ UNCHANGED asked

Answer(w) ==
    /\ answer[w] \notin {"none", "pending"}
    /\ answer' = [answer EXCEPT ![w] = "none"]
    /\ asked' = [asked EXCEPT ![w] = NONE]
    /\ UNCHANGED <<accounts, suspect>>

Next ==
    \E w \in Workers :
        \/ Ask(w)
        \/ Register(w)
        \/ RegisterDevice(w)
        \/ Login(w)
        \/ ChangePasswd(w)
        \/ Delete(w)
        \/ Doubt(w)
        \/ Answer(w)

Spec == Init /\ [][Next]_vars

=============================================================================
