------------------------------ MODULE Accounts ------------------------------
(***************************************************************************)
(* The database commands of start_routine: INSERT, SELECT (login), UPDATE  *)
(* and DELETE, run by the workers over one shared MySQL connection, each   *)
(* under mutex_ from its first statement to the end of its reply.          *)
(*                                                                         *)
(* The MySQL server is external.  Its schema is not in the repository: the *)
(* code reads user_info as (id, name, passwd) and relies on no unique key. *)
(* A statement may fail, and all do when there was no connection at        *)
(* start-up; "insert delayed" may be acknowledged before the row is in the *)
(* table.  The history variable suspect collects the names this happened   *)
(* to.  How a reply travels is in module ConnLifecycle.                    *)
(***************************************************************************)
EXTENDS Integers, Sequences

CONSTANTS
    ThreadNum,
    Names,              \* user names, "0000" among them
    Passwds,
    Devices,            \* device_id fields: "0000", other ids, "" when absent
    NONE,
    QueryFailures,      \* may mysql_query fail?
    DelayedInserts,     \* may the server queue an INSERT DELAYED?
    MaxRows             \* bound on the rows of user_info

ASSUME AccountsAssumption ==
    /\ ThreadNum \in Nat \ {0}
    /\ NONE \notin Passwds
    /\ QueryFailures \in BOOLEAN
    /\ DelayedInserts \in BOOLEAN
    /\ MaxRows \in Nat

Workers == 0 .. ThreadNum - 1
Free == -1

\* Only INSERT looks at the device_id field.
Requests ==
    [cmd : {"INSERT"}, name : Names, passwd : Passwds, device : Devices]
    \cup [cmd : {"SELECT", "UPDATE", "DELETE"}, name : Names, passwd : Passwds]

Row == [name : Names, passwd : Passwds]

\* An INSERT goes to device_info unless the name or the device is "0000".
IsDevice(r) == r.name # "0000" /\ r.device # "0000"

VARIABLES
    user_info,      \* the table, in the order of insertion
    device_info,    \* names with a row in device_info
    delayed,        \* rows acknowledged and not yet in user_info
    wpc,            \* per worker, where it is in the command
    req,            \* per worker, the fields of the command it is running
    reply,          \* per worker, the code it is sending
    mutex_,
    connected,      \* did the MYSQL handle get a connection at start-up?
    suspect         \* history: names with a statement that failed or was delayed

tables == <<user_info, device_info, delayed>>

vars == <<tables, wpc, req, reply, mutex_, connected, suspect>>

TypeOK ==
    /\ user_info \in Seq(Row)
    /\ device_info \subseteq Names
    /\ delayed \in Seq(Row)
    /\ wpc \in [Workers -> {"idle", "want", "locked", "insert", "reply"}]
    /\ req \in [Workers -> Requests \cup {NONE}]
    /\ reply \in [Workers -> {"f0", "e1", "e2", "e3", NONE}]
    /\ mutex_ \in Workers \cup {Free}
    /\ connected \in BOOLEAN
    /\ suspect \subseteq Names

\* The outcomes of InitMySQL and ConnMySQL.  A handle that never had a connection
\* does not get one later; one that had it reconnects (MYSQL_OPT_RECONNECT).
ConnMySQL == IF QueryFailures THEN BOOLEAN ELSE {TRUE}

\* main logs the outcome of ConnMySQL and goes on either way.
Init ==
    /\ connected \in ConnMySQL
    /\ user_info = <<>>
    /\ device_info = {}
    /\ delayed = <<>>
    /\ suspect = {}
    /\ wpc = [w \in Workers |-> "idle"]
    /\ req = [w \in Workers |-> NONE]
    /\ reply = [w \in Workers |-> NONE]
    /\ mutex_ = Free

-----------------------------------------------------------------------------
(* Starting a command and answering it. *)

\* A line with six or three fields (device_id "" then) has been parsed.
Command(w, r) ==
    /\ wpc[w] = "idle"
    /\ req' = [req EXCEPT ![w] = r]
    /\ wpc' = [wpc EXCEPT ![w] = "want"]
    /\ UNCHANGED <<tables, reply, mutex_, connected, suspect>>

\* boost::mutex::scoped_lock Lock(mutex_), and a variant that locks a mutex of
\* its own.
OwnMutexIsFree == TRUE

MutexIsFree == mutex_ = Free

Lock(w) ==
    /\ wpc[w] = "want"
    /\ MutexIsFree
    /\ mutex_' = w
    /\ wpc' = [wpc EXCEPT ![w] = "locked"]
    /\ UNCHANGED <<tables, req, reply, connected, suspect>>

Running(w, cmd) == wpc[w] = "locked" /\ req[w].cmd = cmd

\* The outcome is known; the reply is written with mutex_ still held.
Answer(w, code) ==
    /\ reply' = [reply EXCEPT ![w] = code]
    /\ wpc' = [wpc EXCEPT ![w] = "reply"]

\* A statement about the name of w's command fails or is delayed.
Doubt(w) == suspect' = suspect \cup {req[w].name}

\* The case block ends: the scoped lock is released, the locals are gone.
EndCommand(w) ==
    /\ wpc' = [wpc EXCEPT ![w] = "idle"]
    /\ req' = [req EXCEPT ![w] = NONE]
    /\ reply' = [reply EXCEPT ![w] = NONE]
    /\ mutex_' = Free

\* WriteSfd is done.
Reply(w) ==
    /\ wpc[w] = "reply"
    /\ EndCommand(w)
    /\ UNCHANGED <<tables, connected, suspect>>

-----------------------------------------------------------------------------
(* SELECT: login. *)

Rows(n) == {i \in DOMAIN user_info : user_info[i].name = n}

LastRow(n) == CHOOSE i \in Rows(n) : \A j \in Rows(n) : j <= i

\* The password login compares with: SelectData lists the rows in order and
\* the last password is cut out of the end of the list.
StoredPasswd(n) == IF Rows(n) = {} THEN NONE ELSE user_info[LastRow(n)].passwd

Login(w) ==
    LET stored == StoredPasswd(req[w].name) IN
    /\ connected
    /\ Running(w, "SELECT")
    /\ Answer(w, IF stored = NONE THEN "e1"
                 ELSE IF stored = req[w].passwd THEN "f0" ELSE "e3")
    /\ UNCHANGED <<tables, req, mutex_, connected, suspect>>

\* SelectData returns the empty string, as it does for no rows.
LoginQueryFails(w) ==
    /\ QueryFailures
    /\ Running(w, "SELECT")
    /\ Answer(w, "e1")
    /\ Doubt(w)
    /\ UNCHANGED <<tables, req, mutex_, connected>>

-----------------------------------------------------------------------------
(* INSERT: a device, or a user whose name is not in the table. *)

\* The reply to an INSERT, and a variant that does not look at the result.
OkToEveryInsert(ok) == "f0"

InsertReply(ok) == IF ok THEN "f0" ELSE "e2"

InsertDevice(w) ==
    /\ connected
    /\ Running(w, "INSERT")
    /\ IsDevice(req[w])
    /\ device_info' = device_info \cup {req[w].name}
    /\ Answer(w, InsertReply(TRUE))
    /\ UNCHANGED <<user_info, delayed, req, mutex_, connected, suspect>>

\* "user is in the table?", and a variant that does not look.
NeverTaken(n) == FALSE

Taken(n) == Rows(n) # {}

SelectForInsert(w) ==
    /\ connected
    /\ Running(w, "INSERT")
    /\ ~IsDevice(req[w])
    /\ IF Taken(req[w].name)
       THEN Answer(w, "e1")
       ELSE wpc' = [wpc EXCEPT ![w] = "insert"] /\ UNCHANGED reply
    /\ UNCHANGED <<tables, req, mutex_, connected, suspect>>

\* An empty result: the user is taken not to be in the table.
SelectForInsertFails(w) ==
    /\ QueryFailures
    /\ Running(w, "INSERT")
    /\ ~IsDevice(req[w])
    /\ wpc' = [wpc EXCEPT ![w] = "insert"]
    /\ Doubt(w)
    /\ UNCHANGED <<tables, req, reply, mutex_, connected>>

\* The row of the VALUES list, and a variant with its arguments swapped.
NewRowSwapped(r) == [name |-> r.passwd, passwd |-> r.name]

NewRow(r) == [name |-> r.name, passwd |-> r.passwd]

InsertAccepted(w) ==
    /\ connected
    /\ wpc[w] = "insert"
    /\ Len(user_info) + Len(delayed) < MaxRows
    /\ Answer(w, InsertReply(TRUE))
    /\ UNCHANGED <<device_info, req, mutex_, connected>>

InsertUser(w) ==
    /\ InsertAccepted(w)
    /\ user_info' = Append(user_info, NewRow(req[w]))
    /\ UNCHANGED <<delayed, suspect>>

\* "insert delayed": acknowledged, and applied later.
InsertUserDelayed(w) ==
    /\ DelayedInserts
    /\ InsertAccepted(w)
    /\ delayed' = Append(delayed, NewRow(req[w]))
    /\ Doubt(w)
    /\ UNCHANGED user_info

\* The worker is about to call InsertData.
AtInsertData(w) ==
    \/ wpc[w] = "insert"
    \/ Running(w, "INSERT") /\ IsDevice(req[w])

InsertFails(w) ==
    /\ QueryFailures
    /\ AtInsertData(w)
    /\ Answer(w, InsertReply(FALSE))
    /\ Doubt(w)
    /\ UNCHANGED <<tables, req, mutex_, connected>>

\* The server moves an acknowledged row into the table.
ApplyDelayed ==
    /\ delayed # <<>>
    /\ user_info' = Append(user_info, Head(delayed))
    /\ delayed' = Tail(delayed)
    /\ UNCHANGED <<device_info, wpc, req, reply, mutex_, connected, suspect>>

-----------------------------------------------------------------------------
(* UPDATE and DELETE. *)

\* The rows UPDATE changes, and a variant without the WHERE clause.
EveryRow(n) == DOMAIN user_info

WhereName(n) == Rows(n)

\* Every row of the name is changed; no row at all is a success too.
Update(w) ==
    /\ connected
    /\ Running(w, "UPDATE")
    /\ user_info' = [i \in DOMAIN user_info |->
                        IF i \in WhereName(req[w].name)
                        THEN [user_info[i] EXCEPT !.passwd = req[w].passwd]
                        ELSE user_info[i]]
    /\ Answer(w, "f0")
    /\ UNCHANGED <<device_info, delayed, req, mutex_, connected, suspect>>

UpdateFails(w) ==
    /\ QueryFailures
    /\ Running(w, "UPDATE")
    /\ Answer(w, "e3")
    /\ Doubt(w)
    /\ UNCHANGED <<tables, req, mutex_, connected>>

\* The statement selects by a device_id that start_routine never fills in and
\* the three columns it reads do not include: it fails or matches nothing.
DeleteData == UNCHANGED tables

\* The outcome is only logged; the reply is compiled out.
Delete(w) ==
    /\ Running(w, "DELETE")
    /\ DeleteData
    /\ EndCommand(w)
    /\ UNCHANGED <<connected, suspect>>

-----------------------------------------------------------------------------

WorkerNext(w) ==
    \/ \E r \in Requests : Command(w, r)
    \/ Lock(w)
    \/ Login(w)
    \/ LoginQueryFails(w)
    \/ InsertDevice(w)
    \/ SelectForInsert(w)
    \/ SelectForInsertFails(w)
    \/ InsertUser(w)
    \/ InsertUserDelayed(w)
    \/ InsertFails(w)
    \/ Update(w)
    \/ UpdateFails(w)
    \/ Delete(w)
    \/ Reply(w)

Next == ApplyDelayed \/ \E w \in Workers : WorkerNext(w)

Spec == Init /\ [][Next]_vars

-----------------------------------------------------------------------------
(***************************************************************************)
(* The MYSQL handle of printerToMySQL, which is not safe to share, is used *)
(* by one worker at a time: mutex_ covers every statement of every         *)
(* command, the two of an INSERT together.                                 *)
(***************************************************************************)
UsesHandle(w) == wpc[w] \in {"locked", "insert"}

HandleHasOneUser ==
    \A w, v \in Workers : UsesHandle(w) /\ UsesHandle(v) => w = v

(***************************************************************************)
(* "user is in the table?" (worker_threads.cc:160): the SELECT before the  *)
(* insert keeps user names unique, whatever the workers' interleaving and  *)
(* whatever happens to the statements of other names.  A name is in doubt  *)
(* only after a statement of its own has failed or was delayed.            *)
(***************************************************************************)
NamesUnique ==
    \A i, j \in DOMAIN user_info :
        user_info[i].name = user_info[j].name => i = j \/ user_info[i].name \in suspect

(***************************************************************************)
(* A registration is answered "f0:ok" only when the server has taken its   *)
(* insert: until the reply is out the new name has a row in the table or   *)
(* in the server's queue (that it leaves the queue is the server's work).  *)
(***************************************************************************)
InsertsUser(r) == r.cmd = "INSERT" /\ ~IsDevice(r)

Queued(n) == {i \in DOMAIN delayed : delayed[i].name = n}

OkInsertIsStored ==
    \A w \in Workers :
        wpc[w] = "reply" /\ InsertsUser(req[w]) /\ reply[w] = "f0"
            => Rows(req[w].name) # {} \/ Queued(req[w].name) # {}

(***************************************************************************)
(* For the names that are not in doubt the commands behave as atomic       *)
(* operations on one account per name: module AccountTable.                *)
(***************************************************************************)
accounts == [n \in Names |-> IF n \in suspect THEN NONE ELSE StoredPasswd(n)]

answer == [w \in Workers |->
            IF wpc[w] = "idle" THEN "none"
            ELSE IF wpc[w] = "reply" THEN reply[w] ELSE "pending"]

Abstract == INSTANCE AccountTable WITH asked <- req

ImplementsAccountTable == Abstract!Spec

=============================================================================
