--------------------------- MODULE Accounts_proofs ---------------------------
(***************************************************************************)
(* Accounts for any number of workers, names and passwords, and a server   *)
(* that may fail and delay: types, exclusive use of the MySQL handle,      *)
(* unique user names, registrations that are not lost, and the refinement  *)
(* of module AccountTable.                                                 *)
(***************************************************************************)
EXTENDS Accounts, TLAPS

USE DEF tables

(***************************************************************************)
(* What holds of mutex_ and of the requests: mutex_ is held from "locked"  *)
(* to "reply", a worker about to insert is inserting a user, and one about *)
(* to reply has a code to send.                                            *)
(***************************************************************************)
HoldsMutex(w) == wpc[w] \in {"locked", "insert", "reply"}

MutexInv == \A w \in Workers : HoldsMutex(w) <=> mutex_ = w

ReqInv ==
    \A w \in Workers :
        /\ wpc[w] # "idle" => req[w] \in Requests
        /\ wpc[w] = "insert" => InsertsUser(req[w])
        /\ wpc[w] = "reply" => reply[w] \in {"f0", "e1", "e2", "e3"}

BaseInv == TypeOK /\ MutexInv /\ ReqInv

(***************************************************************************)
(* The inductive invariant behind NamesUnique and ImplementsAccountTable:  *)
(* a row under way in the server has a name in doubt, and the name a       *)
(* worker is about to insert is in doubt or still free.                    *)
(***************************************************************************)
DelayedInv == \A i \in DOMAIN delayed : delayed[i].name \in suspect

FreeNameInv ==
    \A w \in Workers :
        wpc[w] = "insert" => req[w].name \in suspect \/ Rows(req[w].name) = {}

AccountsInv == BaseInv /\ DelayedInv /\ FreeNameInv /\ NamesUnique

LEMMA FreeIsNoWorker == Free \notin Workers
  BY AccountsAssumption DEF Free, Workers

(* Facts about sequences. *)

LEMMA AppendType ==
    ASSUME NEW S, NEW s \in Seq(S), NEW e \in S
    PROVE  Append(s, e) \in Seq(S)
  OBVIOUS

LEMMA ElementOfSeq ==
    ASSUME NEW S, NEW s \in Seq(S), NEW i \in DOMAIN s
    PROVE  s[i] \in S
  OBVIOUS

LEMMA SameDomainType ==
    ASSUME NEW S, NEW s \in Seq(S), NEW t, t = [i \in DOMAIN t |-> t[i]],
           DOMAIN t = DOMAIN s, \A i \in DOMAIN s : t[i] \in S
    PROVE  t \in Seq(S)
<1>1. Len(s) \in Nat /\ DOMAIN s = 1 .. Len(s)
  OBVIOUS
<1>2. t \in [1 .. Len(s) -> S]
  BY <1>1
<1> QED
  BY <1>1, <1>2

LEMMA BaseStep == BaseInv /\ [Next]_vars => BaseInv'
<1> SUFFICES ASSUME BaseInv, [Next]_vars PROVE BaseInv'
  OBVIOUS
<1> USE AccountsAssumption, FreeIsNoWorker
    DEF BaseInv, TypeOK, MutexInv, ReqInv, HoldsMutex
<1>1. CASE ApplyDelayed
  BY <1>1 DEF ApplyDelayed
<1>2. ASSUME NEW w \in Workers, NEW r \in Requests, Command(w, r) PROVE BaseInv'
  BY <1>2 DEF Command
<1>3. ASSUME NEW w \in Workers, Lock(w) PROVE BaseInv'
  BY <1>3 DEF Lock, MutexIsFree
<1>4. ASSUME NEW w \in Workers, Login(w) PROVE BaseInv'
  BY <1>4 DEF Login, Running, Answer
<1>5. ASSUME NEW w \in Workers, LoginQueryFails(w) PROVE BaseInv'
  <2>1. req[w].name \in Names
    BY <1>5 DEF LoginQueryFails, Running, Requests
  <2> QED
    BY <1>5, <2>1 DEF LoginQueryFails, Running, Answer, Doubt
<1>6. ASSUME NEW w \in Workers, InsertDevice(w) PROVE BaseInv'
  <2>1. req[w].name \in Names
    BY <1>6 DEF InsertDevice, Running, Requests
  <2> QED
    BY <1>6, <2>1 DEF InsertDevice, Running, Answer, InsertReply
<1>7. ASSUME NEW w \in Workers, SelectForInsert(w) PROVE BaseInv'
  BY <1>7 DEF SelectForInsert, Running, Answer, InsertsUser
<1>8. ASSUME NEW w \in Workers, SelectForInsertFails(w) PROVE BaseInv'
  <2>1. req[w].name \in Names
    BY <1>8 DEF SelectForInsertFails, Running, Requests
  <2> QED
    BY <1>8, <2>1 DEF SelectForInsertFails, Running, InsertsUser, Doubt
<1>9. ASSUME NEW w \in Workers, InsertUser(w) \/ InsertUserDelayed(w) PROVE BaseInv'
  <2>1. req[w].name \in Names /\ NewRow(req[w]) \in Row
    BY <1>9 DEF InsertUser, InsertUserDelayed, InsertAccepted, Requests, Row, NewRow
  <2>2. user_info' \in Seq(Row) /\ delayed' \in Seq(Row)
    <3>1. /\ Append(user_info, NewRow(req[w])) \in Seq(Row)
          /\ Append(delayed, NewRow(req[w])) \in Seq(Row)
      BY <2>1, AppendType
    <3>2. \/ delayed' = Append(delayed, NewRow(req[w])) /\ user_info' = user_info
          \/ user_info' = Append(user_info, NewRow(req[w])) /\ delayed' = delayed
      BY <1>9 DEF InsertUser, InsertUserDelayed
    <3> QED
      BY <3>1, <3>2
  <2> QED
    BY <1>9, <2>1, <2>2
    DEF InsertUser, InsertUserDelayed, InsertAccepted, InsertReply, Answer, Doubt
<1>10. ASSUME NEW w \in Workers, InsertFails(w) PROVE BaseInv'
  <2>1. req[w].name \in Names
    BY <1>10 DEF InsertFails, AtInsertData, Running, Requests
  <2> QED
    BY <1>10, <2>1
    DEF InsertFails, AtInsertData, Running, Answer, InsertReply, Doubt
<1>11. ASSUME NEW w \in Workers, Update(w) PROVE BaseInv'
  <2>1. req[w].passwd \in Passwds
    BY <1>11 DEF Update, Running, Requests
  <2>2. user_info' \in Seq(Row)
    <3>1. DOMAIN user_info' = DOMAIN user_info
      BY <1>11 DEF Update
    <3>2. \A i \in DOMAIN user_info : user_info'[i] \in Row
      <4> SUFFICES ASSUME NEW i \in DOMAIN user_info PROVE user_info'[i] \in Row
        OBVIOUS
      <4>1. user_info[i] \in Row
        BY ElementOfSeq
      <4> QED
        BY <1>11, <2>1, <4>1 DEF Update, Row
    <3>3. user_info' = [i \in DOMAIN user_info' |-> user_info'[i]]
      BY <1>11 DEF Update
    <3> QED
      BY <3>1, <3>2, <3>3, SameDomainType
  <2> QED
    BY <1>11, <2>2 DEF Update, Running, Answer
<1>12. ASSUME NEW w \in Workers, UpdateFails(w) PROVE BaseInv'
  <2>1. req[w].name \in Names
    BY <1>12 DEF UpdateFails, Running, Requests
  <2> QED
    BY <1>12, <2>1 DEF UpdateFails, Running, Answer, Doubt
<1>13. ASSUME NEW w \in Workers, Delete(w) \/ Reply(w) PROVE BaseInv'
  BY <1>13 DEF Delete, DeleteData, Reply, Running, EndCommand
<1>14. CASE UNCHANGED vars
  BY <1>14 DEF vars
<1> QED
  BY <1>1, <1>2, <1>3, <1>4, <1>5, <1>6, <1>7, <1>8, <1>9, <1>10, <1>11, <1>12,
     <1>13, <1>14 DEF Next, WorkerNext

LEMMA BaseInit == Init => BaseInv
<1>1. Init => connected \in BOOLEAN
  BY Zenon DEF Init, ConnMySQL
<1> QED
  BY <1>1, AccountsAssumption, FreeIsNoWorker
  DEF Init, BaseInv, TypeOK, MutexInv, ReqInv, HoldsMutex

(***************************************************************************)
(* Type correctness, failing statements and delayed inserts included.      *)
(***************************************************************************)
THEOREM TypeCorrect == Spec => []TypeOK
<1>1. BaseInv => TypeOK
  BY DEF BaseInv
<1> QED
  BY <1>1, BaseInit, BaseStep, PTL DEF Spec

(***************************************************************************)
(* The MySQL handle is used by one worker at a time.                       *)
(***************************************************************************)
THEOREM HandleExclusive == Spec => []HandleHasOneUser
<1>1. BaseInv => HandleHasOneUser
  BY DEF BaseInv, MutexInv, HoldsMutex, UsesHandle, HandleHasOneUser
<1> QED
  BY <1>1, BaseInit, BaseStep, PTL DEF Spec

-----------------------------------------------------------------------------
(* Unique names. *)

(***************************************************************************)
(* A step that leaves the tables alone, takes no name out of doubt and     *)
(* brings no worker to its insert, except with a free name or one in       *)
(* doubt, keeps AccountsInv.                                               *)
(***************************************************************************)
LEMMA QuietStep ==
    ASSUME AccountsInv, BaseInv', UNCHANGED <<user_info, delayed>>, suspect \subseteq suspect',
           \A w \in Workers : wpc'[w] = "insert" =>
                \/ wpc[w] = "insert" /\ req'[w] = req[w]
                \/ req'[w].name \in suspect' \/ Rows(req'[w].name) = {}
    PROVE  AccountsInv'
  BY DEF AccountsInv, DelayedInv, FreeNameInv, NamesUnique, Rows

LEMMA AccountsStep == AccountsInv /\ [Next]_vars => AccountsInv'
<1> SUFFICES ASSUME AccountsInv, [Next]_vars PROVE AccountsInv'
  OBVIOUS
<1>0. BaseInv /\ BaseInv'
  BY BaseStep DEF AccountsInv
<1>t. /\ wpc \in [Workers -> {"idle", "want", "locked", "insert", "reply"}]
      /\ req \in [Workers -> Requests \cup {NONE}]
      /\ user_info \in Seq(Row) /\ delayed \in Seq(Row)
  BY <1>0 DEF BaseInv, TypeOK
<1>1. CASE ApplyDelayed
  <2>1. /\ user_info' = Append(user_info, Head(delayed))
        /\ delayed' = Tail(delayed) /\ delayed # <<>>
        /\ UNCHANGED <<wpc, req, suspect>>
    BY <1>1 DEF ApplyDelayed
  <2>2. Head(delayed).name \in suspect
    BY <1>t, <2>1 DEF AccountsInv, DelayedInv
  <2>3. \A i \in DOMAIN delayed' : i + 1 \in DOMAIN delayed /\ delayed'[i] = delayed[i + 1]
    BY <1>t, <2>1
  <2>4. /\ DOMAIN user_info' = DOMAIN user_info \cup {Len(user_info) + 1}
        /\ user_info'[Len(user_info) + 1] = Head(delayed)
        /\ \A i \in DOMAIN user_info : user_info'[i] = user_info[i]
    BY <1>t, <2>1
  <2>5. NamesUnique'
    BY <2>1, <2>2, <2>4 DEF AccountsInv, NamesUnique
  <2>6. DelayedInv'
    BY <2>1, <2>3 DEF AccountsInv, DelayedInv
  <2>7. FreeNameInv'
    BY <2>1, <2>2, <2>4 DEF AccountsInv, FreeNameInv, Rows
  <2> QED
    BY <1>0, <2>5, <2>6, <2>7 DEF AccountsInv
<1>2. ASSUME NEW w \in Workers, NEW r \in Requests, Command(w, r) PROVE AccountsInv'
  BY <1>0, <1>t, <1>2, QuietStep DEF Command
<1>3. ASSUME NEW w \in Workers, Lock(w) \/ Login(w) \/ InsertDevice(w)
      PROVE  AccountsInv'
  BY <1>0, <1>t, <1>3, QuietStep DEF Lock, Login, InsertDevice, Running, Answer
<1>4. ASSUME NEW w \in Workers, Delete(w) \/ Reply(w) PROVE AccountsInv'
  BY <1>0, <1>t, <1>4, QuietStep DEF Delete, DeleteData, Reply, Running, EndCommand
<1>5. ASSUME NEW w \in Workers, SelectForInsert(w) PROVE AccountsInv'
  BY <1>0, <1>t, <1>5, QuietStep DEF SelectForInsert, Running, Answer, Taken
<1>6. ASSUME NEW w \in Workers,
             LoginQueryFails(w) \/ SelectForInsertFails(w) \/ InsertFails(w) \/ UpdateFails(w)
      PROVE  AccountsInv'
  BY <1>0, <1>t, <1>6, QuietStep
  DEF LoginQueryFails, SelectForInsertFails, InsertFails, UpdateFails, Answer, Doubt
<1>7. ASSUME NEW w \in Workers, InsertUser(w) PROVE AccountsInv'
  <2>1. \A v \in Workers : wpc'[v] # "insert"
    BY <1>0, <1>t, <1>7
    DEF InsertUser, InsertAccepted, Answer, BaseInv, MutexInv, HoldsMutex
  <2>2. req[w].name \in suspect \/ Rows(req[w].name) = {}
    BY <1>7 DEF InsertUser, InsertAccepted, AccountsInv, FreeNameInv
  <2>3. user_info' = Append(user_info, NewRow(req[w])) /\ UNCHANGED <<delayed, suspect>>
    BY <1>7 DEF InsertUser
  <2>4. NamesUnique'
    <3>1. /\ DOMAIN user_info' = DOMAIN user_info \cup {Len(user_info) + 1}
          /\ user_info'[Len(user_info) + 1].name = req[w].name
          /\ \A i \in DOMAIN user_info : user_info'[i] = user_info[i]
      BY <1>t, <2>3 DEF NewRow
    <3>2. \A i \in DOMAIN user_info :
            user_info'[i].name = req[w].name => req[w].name \in suspect
      BY <2>2, <3>1 DEF Rows
    <3> QED
      BY <2>3, <3>1, <3>2 DEF AccountsInv, NamesUnique
  <2> QED
    BY <1>0, <2>1, <2>3, <2>4 DEF AccountsInv, DelayedInv, FreeNameInv
<1>8. ASSUME NEW w \in Workers, InsertUserDelayed(w) PROVE AccountsInv'
  <2>1. \A v \in Workers : wpc'[v] # "insert"
    BY <1>0, <1>t, <1>8
    DEF InsertUserDelayed, InsertAccepted, Answer, BaseInv, MutexInv, HoldsMutex
  <2>2. /\ delayed' = Append(delayed, NewRow(req[w])) /\ user_info' = user_info
        /\ suspect' = suspect \cup {req[w].name}
    BY <1>8 DEF InsertUserDelayed, Doubt
  <2>3. DelayedInv'
    <3>1. /\ DOMAIN delayed' = DOMAIN delayed \cup {Len(delayed) + 1}
          /\ delayed'[Len(delayed) + 1].name = req[w].name
          /\ \A i \in DOMAIN delayed : delayed'[i] = delayed[i]
      BY <1>t, <2>2 DEF NewRow
    <3> QED
      BY <2>2, <3>1 DEF AccountsInv, DelayedInv
  <2> QED
    BY <1>0, <2>1, <2>2, <2>3 DEF AccountsInv, FreeNameInv, NamesUnique
<1>9. ASSUME NEW w \in Workers, Update(w) PROVE AccountsInv'
  <2>1. \A v \in Workers : wpc'[v] # "insert"
    BY <1>0, <1>t, <1>9 DEF Update, Running, Answer, BaseInv, MutexInv, HoldsMutex
  <2>2. /\ DOMAIN user_info' = DOMAIN user_info
        /\ \A i \in DOMAIN user_info : user_info'[i].name = user_info[i].name
    BY <1>t, <1>9, ElementOfSeq DEF Update, Row
  <2>3. UNCHANGED <<delayed, suspect>>
    BY <1>9 DEF Update
  <2> QED
    BY <1>0, <2>1, <2>2, <2>3 DEF AccountsInv, DelayedInv, FreeNameInv, NamesUnique
<1>10. CASE UNCHANGED vars
  BY <1>0, <1>10, QuietStep DEF vars
<1> QED
  BY <1>1, <1>2, <1>3, <1>4, <1>5, <1>6, <1>7, <1>8, <1>9, <1>10
  DEF Next, WorkerNext

LEMMA AccountsInit == Init => AccountsInv
  BY BaseInit DEF Init, AccountsInv, DelayedInv, FreeNameInv, NamesUnique

(***************************************************************************)
(* No two rows of user_info share a name that is not in doubt: SELECT and  *)
(* INSERT under one mutex_ make the test-and-insert atomic, for any number *)
(* of workers and whatever the server does to other names.                 *)
(***************************************************************************)
THEOREM NamesStayUnique == Spec => []NamesUnique
<1>1. AccountsInv => NamesUnique
  BY DEF AccountsInv
<1> QED
  BY <1>1, AccountsInit, AccountsStep, PTL DEF Spec

-----------------------------------------------------------------------------
(* Registrations are not lost. *)

Known(n) == Rows(n) # {} \/ Queued(n) # {}

StoredInv == BaseInv /\ OkInsertIsStored

(***************************************************************************)
(* A step that keeps every name in the tables and answers no registration  *)
(* with ok keeps StoredInv.                                                *)
(***************************************************************************)
LEMMA NoNewPromise ==
    ASSUME StoredInv, BaseInv', \A n : Known(n) => Known(n)',
           \A w \in Workers :
                wpc'[w] = "reply" /\ InsertsUser(req'[w]) /\ reply'[w] = "f0"
                    => wpc[w] = "reply" /\ req'[w] = req[w] /\ reply'[w] = reply[w]
    PROVE  StoredInv'
<1>1. ASSUME NEW w \in Workers, wpc'[w] = "reply", InsertsUser(req'[w]),
             reply'[w] = "f0", NEW n, n = req'[w].name
      PROVE  Known(n)'
  <2>1. wpc[w] = "reply" /\ req'[w] = req[w] /\ reply[w] = "f0"
    BY <1>1
  <2>2. Known(n)
    BY <1>1, <2>1 DEF StoredInv, OkInsertIsStored, Known
  <2> QED
    BY <2>2
<1> QED
  BY <1>1 DEF StoredInv, OkInsertIsStored, Known, InsertsUser, IsDevice, Rows, Queued

(***************************************************************************)
(* A row added to a sequence is there, with all the earlier ones.          *)
(***************************************************************************)
LEMMA AppendKeeps ==
    ASSUME NEW t \in Seq(Row), NEW row \in Row
    PROVE  /\ \A i \in DOMAIN t : i \in DOMAIN Append(t, row) /\ Append(t, row)[i] = t[i]
           /\ Len(t) + 1 \in DOMAIN Append(t, row)
           /\ Append(t, row)[Len(t) + 1] = row
  OBVIOUS

LEMMA StoredStep == StoredInv /\ [Next]_vars => StoredInv'
<1> SUFFICES ASSUME StoredInv, [Next]_vars PROVE StoredInv'
  OBVIOUS
<1>0. BaseInv /\ BaseInv'
  BY BaseStep DEF StoredInv
<1>t. /\ wpc \in [Workers -> {"idle", "want", "locked", "insert", "reply"}]
      /\ req \in [Workers -> Requests \cup {NONE}]
      /\ reply \in [Workers -> {"f0", "e1", "e2", "e3", NONE}]
      /\ user_info \in Seq(Row) /\ delayed \in Seq(Row)
  BY <1>0 DEF BaseInv, TypeOK
<1>u. UNCHANGED <<user_info, delayed>> => \A n : Known(n) => Known(n)'
  BY DEF Known, Rows, Queued
<1>1. CASE ApplyDelayed
  <2>1. /\ user_info' = Append(user_info, Head(delayed))
        /\ delayed' = Tail(delayed) /\ delayed # <<>> /\ Head(delayed) \in Row
    BY <1>1, <1>t DEF ApplyDelayed
  <2>2. ASSUME NEW n, NEW i \in Rows(n) PROVE Known(n)'
    BY <1>t, <2>1, <2>2, AppendKeeps DEF Known, Rows
  <2>3. ASSUME NEW n, NEW i \in Queued(n) PROVE Known(n)'
    <3>1. CASE i = 1
      BY <1>t, <2>1, <2>3, <3>1, AppendKeeps DEF Known, Rows, Queued
    <3>2. CASE i # 1
      <4>1. i - 1 \in DOMAIN delayed' /\ delayed'[i - 1] = delayed[i]
        BY <1>t, <2>1, <2>3, <3>2 DEF Queued
      <4> QED
        BY <2>3, <4>1 DEF Known, Queued
    <3> QED
      BY <3>1, <3>2
  <2>4. \A n : Known(n) => Known(n)'
    BY <2>2, <2>3 DEF Known
  <2> QED
    BY <1>0, <1>1, <2>4, NoNewPromise DEF ApplyDelayed
<1>2. ASSUME NEW w \in Workers, NEW r \in Requests, Command(w, r) PROVE StoredInv'
  BY <1>0, <1>t, <1>u, <1>2, NoNewPromise DEF Command
<1>3. ASSUME NEW w \in Workers, Lock(w) \/ Delete(w) \/ Reply(w) PROVE StoredInv'
  BY <1>0, <1>t, <1>u, <1>3, NoNewPromise
  DEF Lock, Delete, DeleteData, Reply, EndCommand
<1>4. ASSUME NEW w \in Workers, Login(w) \/ LoginQueryFails(w) \/ UpdateFails(w)
      PROVE  StoredInv'
  BY <1>0, <1>t, <1>u, <1>4, NoNewPromise
  DEF Login, LoginQueryFails, UpdateFails, Running, Answer, InsertsUser
<1>5. ASSUME NEW w \in Workers,
             InsertDevice(w) \/ SelectForInsert(w) \/ SelectForInsertFails(w) \/ InsertFails(w)
      PROVE  StoredInv'
  BY <1>0, <1>t, <1>u, <1>5, NoNewPromise
  DEF InsertDevice, SelectForInsert, SelectForInsertFails, InsertFails, InsertReply,
      Running, Answer, InsertsUser
<1>6. ASSUME NEW w \in Workers, InsertUser(w) \/ InsertUserDelayed(w) PROVE StoredInv'
  <2>1. NewRow(req[w]) \in Row /\ NewRow(req[w]).name = req[w].name
    BY <1>0, <1>6
    DEF InsertUser, InsertUserDelayed, InsertAccepted, BaseInv, ReqInv, Requests, Row, NewRow
  <2>2. \/ user_info' = Append(user_info, NewRow(req[w])) /\ delayed' = delayed
        \/ delayed' = Append(delayed, NewRow(req[w])) /\ user_info' = user_info
    BY <1>6 DEF InsertUser, InsertUserDelayed
  <2>3. \A n : Known(n) => Known(n)'
    <3>1. /\ \A i \in DOMAIN user_info : i \in DOMAIN user_info' /\ user_info'[i] = user_info[i]
          /\ \A i \in DOMAIN delayed : i \in DOMAIN delayed' /\ delayed'[i] = delayed[i]
      BY <1>t, <2>1, <2>2, AppendKeeps
    <3> QED
      BY <3>1 DEF Known, Rows, Queued
  <2>4. \A n : n = req[w].name => Known(n)'
    BY <1>t, <2>1, <2>2, AppendKeeps DEF Known, Rows, Queued
  <2>5. /\ req' = req
        /\ \A v \in Workers : v # w => wpc'[v] = wpc[v] /\ reply'[v] = reply[v]
    BY <1>t, <1>6 DEF InsertUser, InsertUserDelayed, InsertAccepted, Answer
  <2>6. ASSUME NEW v \in Workers, wpc'[v] = "reply", InsertsUser(req'[v]),
               reply'[v] = "f0", NEW n, n = req'[v].name
        PROVE  Known(n)'
    <3>1. CASE v = w
      BY <2>4, <2>5, <2>6, <3>1
    <3>2. CASE v # w
      BY <2>3, <2>5, <2>6, <3>2 DEF StoredInv, OkInsertIsStored, Known
    <3> QED
      BY <3>1, <3>2
  <2> QED
    BY <1>0, <2>6
    DEF StoredInv, OkInsertIsStored, Known, InsertsUser, IsDevice, Rows, Queued
<1>7. ASSUME NEW w \in Workers, Update(w) PROVE StoredInv'
  <2>1. /\ DOMAIN user_info' = DOMAIN user_info /\ delayed' = delayed
        /\ \A i \in DOMAIN user_info : user_info'[i].name = user_info[i].name
    BY <1>t, <1>7, ElementOfSeq DEF Update, Row
  <2>2. \A n : Known(n) => Known(n)'
    BY <2>1 DEF Known, Rows, Queued
  <2> QED
    BY <1>0, <1>t, <1>7, <2>2, NoNewPromise DEF Update, Running, Answer, InsertsUser
<1>8. CASE UNCHANGED vars
  BY <1>0, <1>u, <1>8, NoNewPromise DEF vars
<1> QED
  BY <1>1, <1>2, <1>3, <1>4, <1>5, <1>6, <1>7, <1>8 DEF Next, WorkerNext

(***************************************************************************)
(* Whatever the server fails or delays, a registration that is being       *)
(* answered "f0:ok" has its row in user_info or queued for it.             *)
(***************************************************************************)
THEOREM RegistrationsKept == Spec => []OkInsertIsStored
<1>1. StoredInv => OkInsertIsStored
  BY DEF StoredInv
<1>2. Init => StoredInv
  BY BaseInit DEF Init, StoredInv, OkInsertIsStored
<1> QED
  BY <1>1, <1>2, StoredStep, PTL DEF Spec

-----------------------------------------------------------------------------
(* The refinement of AccountTable. *)

(***************************************************************************)
(* With one row of a name, that row is its last row.                       *)
(***************************************************************************)
LEMMA OnlyRow ==
    ASSUME NEW t \in Seq(Row), NEW i \in DOMAIN t,
           \A j \in DOMAIN t : t[j].name = t[i].name => j = i
    PROVE  LET R == {j \in DOMAIN t : t[j].name = t[i].name} IN
           R # {} /\ (CHOOSE k \in R : \A j \in R : j <= k) = i
<1> DEFINE R == {j \in DOMAIN t : t[j].name = t[i].name}
<1>1. R = {i}
  OBVIOUS
<1>2. i \in Nat
  OBVIOUS
<1>3. \A k \in R : k = i
  BY <1>1
<1>4. \E k \in R : \A j \in R : j <= k
  BY <1>1, <1>2
<1>5. (CHOOSE k \in R : \A j \in R : j <= k) \in R
  <2> HIDE DEF R
  <2> QED
    BY <1>4
<1> QED
  BY <1>1, <1>3, <1>5

(***************************************************************************)
(* What the table says of a name not in doubt, before and after a step.    *)
(***************************************************************************)
LEMMA StoredNow ==
    ASSUME AccountsInv, NEW i \in DOMAIN user_info, NEW n, n = user_info[i].name,
           n \notin suspect
    PROVE  StoredPasswd(n) = user_info[i].passwd
<1>1. user_info \in Seq(Row)
      /\ \A j \in DOMAIN user_info : user_info[j].name = user_info[i].name => j = i
  BY DEF AccountsInv, BaseInv, TypeOK, NamesUnique
<1> QED
  BY <1>1, OnlyRow DEF StoredPasswd, LastRow, Rows

LEMMA StoredNext ==
    ASSUME AccountsInv', NEW i \in DOMAIN user_info', NEW n, n = user_info'[i].name,
           n \notin suspect'
    PROVE  StoredPasswd(n)' = user_info'[i].passwd
<1>1. user_info' \in Seq(Row)
      /\ \A j \in DOMAIN user_info' : user_info'[j].name = user_info'[i].name => j = i
  BY DEF AccountsInv, BaseInv, TypeOK, NamesUnique
<1> QED
  BY <1>1, OnlyRow DEF StoredPasswd, LastRow, Rows

(***************************************************************************)
(* A row added to the table concerns its own name only.                    *)
(***************************************************************************)
LEMMA AppendAccounts ==
    ASSUME AccountsInv, AccountsInv', NEW row \in Row, suspect' = suspect,
           user_info' = Append(user_info, row), NEW m \in Names \ suspect
    PROVE  StoredPasswd(m)' = IF m = row.name THEN row.passwd ELSE StoredPasswd(m)
<1>1. user_info \in Seq(Row)
  BY DEF AccountsInv, BaseInv, TypeOK
<1>2. /\ DOMAIN user_info' = DOMAIN user_info \cup {Len(user_info) + 1}
      /\ user_info'[Len(user_info) + 1] = row
      /\ \A i \in DOMAIN user_info : user_info'[i] = user_info[i]
  BY <1>1
<1>3. CASE m = row.name
  BY <1>2, <1>3, StoredNext
<1>4. CASE m # row.name /\ Rows(m) = {}
  <2>1. \A i \in DOMAIN user_info' : user_info'[i].name # m
    BY <1>2, <1>4 DEF Rows
  <2> QED
    BY <1>4, <2>1 DEF StoredPasswd, Rows
<1>5. ASSUME m # row.name, NEW i \in Rows(m) PROVE StoredPasswd(m)' = StoredPasswd(m)
  BY <1>2, <1>5, StoredNow, StoredNext DEF Rows
<1> QED
  BY <1>3, <1>4, <1>5

LEMMA InsertAccounts ==
    ASSUME AccountsInv, AccountsInv', NEW w \in Workers, InsertUser(w),
           req[w].name \notin suspect
    PROVE  /\ accounts[req[w].name] = NONE
           /\ accounts' = [accounts EXCEPT ![req[w].name] = req[w].passwd]
<1> DEFINE n == req[w].name
           p == req[w].passwd
<1>1. n \in Names /\ p \in Passwds /\ Rows(n) = {}
  BY DEF InsertUser, InsertAccepted, AccountsInv, BaseInv, ReqInv, FreeNameInv, Requests
<1>2. /\ user_info' = Append(user_info, NewRow(req[w])) /\ suspect' = suspect
      /\ NewRow(req[w]) \in Row /\ NewRow(req[w]).name = n /\ NewRow(req[w]).passwd = p
  BY <1>1 DEF InsertUser, NewRow, Row
<1>3. \A m \in Names \ suspect : StoredPasswd(m)' = IF m = n THEN p ELSE StoredPasswd(m)
  BY <1>2, AppendAccounts
<1> QED
  BY <1>1, <1>2, <1>3 DEF accounts, StoredPasswd

(***************************************************************************)
(* What a step adds about names in doubt does not show.                    *)
(***************************************************************************)
LEMMA DoubtfulInsert ==
    ASSUME AccountsInv, AccountsInv', NEW row \in Row, row.name \in suspect,
           user_info' = Append(user_info, row), suspect' = suspect
    PROVE  accounts' = accounts
  BY AppendAccounts DEF accounts

LEMMA UpdateAccounts ==
    ASSUME AccountsInv, AccountsInv', NEW w \in Workers, Update(w)
    PROVE  accounts' = [accounts EXCEPT ![req[w].name] =
                            IF @ = NONE THEN NONE ELSE req[w].passwd]
<1> DEFINE n == req[w].name
           p == req[w].passwd
<1>1. n \in Names /\ p \in Passwds /\ user_info \in Seq(Row) /\ suspect' = suspect
  BY DEF Update, Running, AccountsInv, BaseInv, TypeOK, ReqInv, Requests
<1>2. DOMAIN user_info' = DOMAIN user_info
  BY DEF Update
<1>3. ASSUME NEW i \in DOMAIN user_info
      PROVE  /\ user_info[i].passwd \in Passwds
             /\ user_info'[i].name = user_info[i].name
             /\ user_info'[i].passwd =
                    IF user_info[i].name = n THEN p ELSE user_info[i].passwd
  <2>1. user_info[i] \in Row
    BY <1>1, ElementOfSeq
  <2>2. user_info'[i] = IF user_info[i].name = n
                        THEN [user_info[i] EXCEPT !.passwd = p] ELSE user_info[i]
    BY DEF Update, WhereName, Rows
  <2> QED
    BY <2>1, <2>2 DEF Row
<1>4. ASSUME NEW m \in Names \ suspect
      PROVE  StoredPasswd(m)' = IF StoredPasswd(m) = NONE THEN NONE
                                ELSE IF m = n THEN p ELSE StoredPasswd(m)
  <2>1. CASE Rows(m) = {}
    <3>1. \A i \in DOMAIN user_info' : user_info'[i].name # m
      BY <1>2, <1>3, <2>1 DEF Rows
    <3> QED
      BY <2>1, <3>1 DEF StoredPasswd, Rows
  <2>2. ASSUME NEW i \in Rows(m) PROVE <1>4!2
    <3>1. i \in DOMAIN user_info /\ m = user_info[i].name /\ m = user_info'[i].name
      BY <1>3, <2>2 DEF Rows
    <3>2. StoredPasswd(m) = user_info[i].passwd
      BY <3>1, StoredNow
    <3>3. StoredPasswd(m)' = user_info'[i].passwd
      BY <1>1, <1>2, <3>1, StoredNext
    <3> QED
      BY <1>3, <3>1, <3>2, <3>3, AccountsAssumption
  <2> QED
    BY <2>1, <2>2
<1> QED
  BY <1>1, <1>4 DEF accounts

(***************************************************************************)
(* A failed or delayed statement: the abstract table forgets the name.     *)
(***************************************************************************)
LEMMA DoubtAccounts ==
    ASSUME NEW w \in Workers, req[w].name \in Names, Doubt(w), user_info' = user_info
    PROVE  accounts' = [accounts EXCEPT ![req[w].name] = NONE]
<1>1. ASSUME NEW n \in Names PROVE StoredPasswd(n)' = StoredPasswd(n)
  BY DEF StoredPasswd, LastRow, Rows
<1>2. suspect' = suspect \cup {req[w].name}
  BY DEF Doubt
<1> QED
  BY <1>1, <1>2 DEF accounts

(***************************************************************************)
(* Each command takes effect at one instant, on one account per name, for  *)
(* every name whose statements neither failed nor were delayed: the        *)
(* workers, rows and mutex_ implement module AccountTable.                 *)
(***************************************************************************)
THEOREM CommandsAreAtomic == Spec => ImplementsAccountTable
<1>1. Init => Abstract!Init
  BY DEF Init, Abstract!Init, accounts, answer, StoredPasswd, Rows
<1>2. AccountsInv /\ AccountsInv' /\ [Next]_vars => [Abstract!Next]_(Abstract!vars)
  <2> SUFFICES ASSUME AccountsInv, AccountsInv', [Next]_vars
               PROVE  [Abstract!Next]_(Abstract!vars)
    OBVIOUS
  <2>0. /\ wpc \in [Workers -> {"idle", "want", "locked", "insert", "reply"}]
        /\ req \in [Workers -> Requests \cup {NONE}]
        /\ reply \in [Workers -> {"f0", "e1", "e2", "e3", NONE}]
        /\ ReqInv
        /\ user_info \in Seq(Row) /\ delayed \in Seq(Row)
    BY DEF AccountsInv, BaseInv, TypeOK
  <2>a. UNCHANGED <<user_info, suspect>> => accounts' = accounts
    BY DEF accounts, StoredPasswd, LastRow, Rows
  <2>n. \A w \in Workers : wpc[w] # "idle" => req[w].name \in Names
    BY <2>0 DEF ReqInv, Requests
  <2>d. ASSUME NEW w \in Workers, wpc[w] \in {"locked", "insert"}, Doubt(w),
               req[w].cmd \in {"INSERT", "SELECT", "UPDATE"},
               UNCHANGED <<user_info, req>>,
               \E a \in {"pending", "f0", "e1", "e2", "e3"} :
                    answer' = [answer EXCEPT ![w] = a]
        PROVE  Abstract!Doubt(w)
    <3>1. answer[w] = "pending"
      BY <2>d DEF answer
    <3>2. accounts' = [accounts EXCEPT ![req[w].name] = NONE]
      BY <2>d, <2>n, DoubtAccounts
    <3> QED
      BY <2>d, <3>1, <3>2 DEF Abstract!Doubt, Abstract!Pending, Doubt
  <2>1. CASE ApplyDelayed
    <3>1. Head(delayed) \in Row /\ Head(delayed).name \in suspect
      BY <2>0, <2>1 DEF ApplyDelayed, AccountsInv, DelayedInv
    <3>2. accounts' = accounts
      BY <2>1, <3>1, DoubtfulInsert DEF ApplyDelayed
    <3> QED
      BY <2>1, <3>2 DEF ApplyDelayed, Abstract!vars, answer
  <2>2. ASSUME NEW w \in Workers, NEW r \in Requests, Command(w, r)
        PROVE  Abstract!Ask(w)
    BY <2>0, <2>a, <2>2 DEF Command, Abstract!Ask, answer
  <2>3. ASSUME NEW w \in Workers, Lock(w)
        PROVE  UNCHANGED Abstract!vars
    BY <2>0, <2>a, <2>3 DEF Lock, Abstract!vars, answer
  <2>4. ASSUME NEW w \in Workers, Login(w)
        PROVE  Abstract!Login(w) \/ Abstract!Doubt(w)
    <3>1. CASE req[w].name \notin suspect
      BY <2>0, <2>a, <2>n, <2>4, <3>1
      DEF Login, Running, Answer, Abstract!Login, Abstract!Trusted, Abstract!Pending,
          answer, accounts
    <3>2. CASE req[w].name \in suspect
      <4>1. \E a \in {"pending", "f0", "e1", "e2", "e3"} : answer' = [answer EXCEPT ![w] = a]
        BY <2>0, <2>4 DEF Login, Running, Answer, answer
      <4> QED
        BY <2>4, <2>d, <3>2, <4>1 DEF Login, Running, Doubt
    <3> QED
      BY <3>1, <3>2
  <2>5. ASSUME NEW w \in Workers, InsertDevice(w)
        PROVE  Abstract!RegisterDevice(w)
    BY <2>0, <2>a, <2>5
    DEF InsertDevice, InsertReply, Running, Answer, Abstract!RegisterDevice,
        Abstract!Pending, answer
  <2>6. ASSUME NEW w \in Workers, SelectForInsert(w)
        PROVE  Abstract!Register(w) \/ Abstract!Doubt(w) \/ UNCHANGED Abstract!vars
    <3>1. CASE Rows(req[w].name) = {}
      BY <2>0, <2>a, <2>6, <3>1
      DEF SelectForInsert, Taken, Running, Abstract!vars, answer
    <3>2. ASSUME NEW i \in Rows(req[w].name), req[w].name \notin suspect
          PROVE  Abstract!Register(w)
      <4>1. req[w].name \in Names
        BY <2>n, <2>6 DEF SelectForInsert, Running
      <4>2. user_info[i].passwd \in Passwds
        <5>1. i \in DOMAIN user_info /\ user_info[i] \in Row
          BY <2>0, <3>2, ElementOfSeq DEF Rows
        <5> QED
          BY <5>1 DEF Row
      <4>3. accounts[req[w].name] # NONE
        BY <3>2, <4>1, <4>2, StoredNow, AccountsAssumption DEF accounts, Rows
      <4> QED
        BY <2>0, <2>a, <2>6, <3>2, <4>3
        DEF SelectForInsert, Taken, Running, Answer, Abstract!Register,
            Abstract!Trusted, Abstract!Pending, answer
    <3>3. ASSUME Rows(req[w].name) # {}, req[w].name \in suspect
          PROVE  Abstract!Doubt(w)
      <4>1. answer' = [answer EXCEPT ![w] = "e1"]
        BY <2>0, <2>6, <3>3 DEF SelectForInsert, Taken, Running, Answer, answer
      <4> QED
        BY <2>6, <2>d, <3>3, <4>1 DEF SelectForInsert, Running, Doubt
    <3> QED
      BY <3>1, <3>2, <3>3
  <2>7. ASSUME NEW w \in Workers, InsertUser(w)
        PROVE  Abstract!Register(w) \/ Abstract!Doubt(w)
    <3>1. /\ wpc[w] = "insert" /\ InsertsUser(req[w])
          /\ answer' = [answer EXCEPT ![w] = "f0"]
      BY <2>0, <2>7
      DEF InsertUser, InsertAccepted, InsertReply, ReqInv, Answer, answer
    <3>2. CASE req[w].name \notin suspect
      BY <2>0, <2>7, <3>1, <3>2, InsertAccounts
      DEF InsertUser, InsertAccepted, InsertsUser, Abstract!Register, Abstract!Trusted,
          Abstract!Pending, answer
    <3>3. CASE req[w].name \in suspect
      <4>1. NewRow(req[w]) \in Row /\ NewRow(req[w]).name \in suspect
        BY <2>0, <3>1, <3>3 DEF ReqInv, NewRow, Row, Requests
      <4>2. accounts' = accounts
        BY <2>7, <4>1, DoubtfulInsert DEF InsertUser
      <4>3. accounts = [accounts EXCEPT ![req[w].name] = NONE]
        BY <3>3 DEF accounts
      <4> QED
        BY <2>7, <3>1, <3>3, <4>2, <4>3
        DEF InsertUser, InsertAccepted, InsertsUser, Abstract!Doubt, Abstract!Pending, answer
    <3> QED
      BY <3>2, <3>3
  <2>8. ASSUME NEW w \in Workers,
               \/ LoginQueryFails(w) \/ SelectForInsertFails(w) \/ InsertUserDelayed(w)
               \/ InsertFails(w) \/ UpdateFails(w)
        PROVE  Abstract!Doubt(w)
    <3>1. /\ wpc[w] \in {"locked", "insert"} /\ Doubt(w) /\ UNCHANGED <<user_info, req>>
          /\ req[w].cmd \in {"INSERT", "SELECT", "UPDATE"}
      BY <2>0, <2>8
      DEF LoginQueryFails, SelectForInsertFails, InsertUserDelayed, InsertAccepted,
          InsertFails, AtInsertData, UpdateFails, Running, ReqInv, InsertsUser
    <3>2. \E a \in {"pending", "f0", "e1", "e2", "e3"} : answer' = [answer EXCEPT ![w] = a]
      <4>1. \/ /\ wpc' = [wpc EXCEPT ![w] = "insert"] /\ reply' = reply
            \/ \E a \in {"f0", "e1", "e2", "e3"} : Answer(w, a)
        BY <2>8
        DEF LoginQueryFails, SelectForInsertFails, InsertUserDelayed, InsertAccepted,
            InsertFails, InsertReply, UpdateFails
      <4>2. CASE wpc' = [wpc EXCEPT ![w] = "insert"] /\ reply' = reply
        <5>1. answer' = [answer EXCEPT ![w] = "pending"]
          BY <2>0, <4>2 DEF answer
        <5> QED
          BY <5>1
      <4>3. ASSUME NEW a \in {"f0", "e1", "e2", "e3"}, Answer(w, a)
            PROVE  answer' = [answer EXCEPT ![w] = a]
        BY <2>0, <4>3 DEF Answer, answer
      <4> QED
        BY <4>1, <4>2, <4>3
    <3> QED
      BY <2>d, <3>1, <3>2
  <2>9. ASSUME NEW w \in Workers, Update(w)
        PROVE  Abstract!ChangePasswd(w) \/ Abstract!Doubt(w)
    <3>1. /\ wpc[w] = "locked" /\ req[w].cmd = "UPDATE" /\ suspect' = suspect /\ req' = req
          /\ answer' = [answer EXCEPT ![w] = "f0"] /\ answer[w] = "pending"
          /\ req[w].name \in Names
      BY <2>0, <2>n, <2>9 DEF Update, Running, Answer, answer
    <3>2. accounts' = [accounts EXCEPT ![req[w].name] =
                            IF @ = NONE THEN NONE ELSE req[w].passwd]
      BY <2>9, UpdateAccounts
    <3>3. CASE req[w].name \notin suspect
      BY <3>1, <3>2, <3>3 DEF Abstract!ChangePasswd, Abstract!Trusted, Abstract!Pending
    <3>4. CASE req[w].name \in suspect
      <4>1. accounts[req[w].name] = NONE
        BY <3>1, <3>4 DEF accounts
      <4> QED
        BY <3>1, <3>2, <3>4, <4>1 DEF Abstract!Doubt, Abstract!Pending, accounts
    <3> QED
      BY <3>3, <3>4
  <2>10. ASSUME NEW w \in Workers, Delete(w)
         PROVE  Abstract!Delete(w)
    BY <2>0, <2>a, <2>10
    DEF Delete, DeleteData, Running, EndCommand, Abstract!Delete, Abstract!Pending,
        answer
  <2>11. ASSUME NEW w \in Workers, Reply(w)
         PROVE  Abstract!Answer(w)
    BY <2>0, <2>a, <2>11 DEF Reply, EndCommand, Abstract!Answer, answer, ReqInv
  <2>12. CASE UNCHANGED vars
    BY <2>a, <2>12 DEF vars, Abstract!vars, answer
  <2> QED
    BY <2>1, <2>2, <2>3, <2>4, <2>5, <2>6, <2>7, <2>8, <2>9, <2>10, <2>11, <2>12
    DEF Next, WorkerNext, Abstract!Next
<1> QED
  BY <1>1, <1>2, AccountsInit, AccountsStep, PTL
  DEF Spec, ImplementsAccountTable, Abstract!Spec

=============================================================================
