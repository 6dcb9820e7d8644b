--------------------------- MODULE Handoff_proofs ---------------------------
(***************************************************************************)
(* Descriptors, for any number of workers, descriptors and CONN objects:   *)
(* an open descriptor has exactly one holder, and the connection life      *)
(* cycle implements the promise of module Handoff.                         *)
(***************************************************************************)
EXTENDS ConnLifecycle_proofs, FiniteSetTheorems

USE DEF masterVars, queueVars, workerVars, poolVars, connVars, sockVars, push_back,
    pop_front, NextThread, SizeForOneMore, AfterAdd, AfterGet, BytesRead, Unlocked

(***************************************************************************)
(* Where one descriptor is.  It moves from nowhere to the master, a queue, *)
(* a worker, a CONN, and back to nowhere when it is closed; at each place  *)
(* all the others are free of it.                                          *)
(***************************************************************************)
QueuesFree(s) == \A w \in Workers : Entries(w, s) = {}
WorkersFree(s) == \A w \in Workers : wsfd[w] # s
ConnsFree(s) == \A c \in registered : conn_sfd[c] # s

Nowhere(s) == msfd # s /\ QueuesFree(s) /\ WorkersFree(s) /\ ConnsFree(s)

AtMaster(s) == msfd = s /\ QueuesFree(s) /\ WorkersFree(s) /\ ConnsFree(s)

AtQueue(s, w, i) ==
    /\ msfd # s
    /\ \A v \in Workers : Entries(v, s) = IF v = w THEN {i} ELSE {}
    /\ WorkersFree(s)
    /\ ConnsFree(s)

AtWorker(s, w) ==
    /\ msfd # s
    /\ QueuesFree(s)
    /\ \A v \in Workers : wsfd[v] = s <=> v = w
    /\ ConnsFree(s)

AtConn(s, c) ==
    /\ msfd # s
    /\ QueuesFree(s)
    /\ WorkersFree(s)
    /\ \A d \in registered : conn_sfd[d] = s <=> d = c

Somewhere(s) ==
    \/ AtMaster(s)
    \/ \E w \in Workers : \E i \in DOMAIN list_conn[w] : AtQueue(s, w, i)
    \/ \E w \in Workers : AtWorker(s, w)
    \/ \E c \in registered : AtConn(s, c)

OneHolder(s) == (s \in open /\ Somewhere(s)) \/ (s \notin open /\ Nowhere(s))

(***************************************************************************)
(* HolderInv adds to OwnerInv that the descriptor locals are set exactly   *)
(* where the code uses them, and that a registered CONN has a descriptor.  *)
(***************************************************************************)
SettingUp(w) == wpc[w] \in {"get", "new", "setup", "undo"}

LocalsInv ==
    /\ mpc = "accepted" <=> msfd # NULL
    /\ \A w \in Workers : SettingUp(w) <=> wsfd[w] # NULL
    /\ \A c \in registered : conn_sfd[c] \in Sfds

HolderInv == OwnerInv /\ LocalsInv /\ \A s \in Sfds : OneHolder(s)

-----------------------------------------------------------------------------
(* Moves of one descriptor. *)

(***************************************************************************)
(* A step that leaves the holders of a descriptor alone.                   *)
(***************************************************************************)
LEMMA StaysPut ==
    ASSUME NEW s \in Sfds, OneHolder(s),
           msfd' = s <=> msfd = s,
           \A w \in Workers : Entries(w, s)' = Entries(w, s),
           \A w \in Workers : wsfd'[w] = s <=> wsfd[w] = s,
           \A c : c \in registered' /\ conn_sfd'[c] = s
                    <=> c \in registered /\ conn_sfd[c] = s,
           s \in open' <=> s \in open
    PROVE  OneHolder(s)'
<1>1. CASE s \notin open
  <2>1. Nowhere(s)
    BY <1>1 DEF OneHolder
  <2>2. Nowhere(s)'
    BY <2>1 DEF Nowhere, QueuesFree, WorkersFree, ConnsFree
  <2> QED
    BY <1>1, <2>2 DEF OneHolder
<1>2. CASE s \in open /\ AtMaster(s)
  <2>1. AtMaster(s)'
    BY <1>2 DEF AtMaster, QueuesFree, WorkersFree, ConnsFree
  <2> QED
    BY <1>2, <2>1 DEF OneHolder, Somewhere
<1>3. ASSUME s \in open, NEW w \in Workers, NEW i \in DOMAIN list_conn[w],
             AtQueue(s, w, i)
      PROVE  OneHolder(s)'
  <2>1. AtQueue(s, w, i)'
    BY <1>3 DEF AtQueue, WorkersFree, ConnsFree
  <2>2. i \in DOMAIN list_conn'[w]
    BY <2>1 DEF AtQueue, Entries
  <2> QED
    BY <1>3, <2>1, <2>2 DEF OneHolder, Somewhere
<1>4. ASSUME s \in open, NEW w \in Workers, AtWorker(s, w)
      PROVE  OneHolder(s)'
  <2>1. AtWorker(s, w)'
    BY <1>4 DEF AtWorker, QueuesFree, ConnsFree
  <2> QED
    BY <1>4, <2>1 DEF OneHolder, Somewhere
<1>5. ASSUME s \in open, NEW c \in registered, AtConn(s, c)
      PROVE  OneHolder(s)'
  <2>1. AtConn(s, c)' /\ c \in registered'
    BY <1>5 DEF AtConn, QueuesFree, WorkersFree
  <2> QED
    BY <1>5, <2>1 DEF OneHolder, Somewhere
<1> QED
  BY <1>1, <1>2, <1>3, <1>4, <1>5 DEF OneHolder, Somewhere

\* Whoever holds a descriptor of Sfds is its only holder.
LEMMA MasterAlone ==
    ASSUME HolderInv, msfd \in Sfds
    PROVE  msfd \in open /\ AtMaster(msfd)
  BY DEF HolderInv, OneHolder, Somewhere, Nowhere, AtQueue, AtWorker, AtConn

LEMMA QueueAlone ==
    ASSUME HolderInv, NEW w \in Workers, NEW i \in DOMAIN list_conn[w],
           list_conn[w][i] \in Sfds
    PROVE  list_conn[w][i] \in open /\ AtQueue(list_conn[w][i], w, i)
<1> DEFINE s == list_conn[w][i]
<1>1. OneHolder(s) /\ i \in Entries(w, s)
  BY DEF HolderInv, Entries
<1> HIDE DEF s
<1>2. \A v \in Workers : \A j : AtQueue(s, v, j) => v = w /\ j = i
  BY <1>1 DEF AtQueue
<1>3. ~Nowhere(s) /\ ~AtMaster(s) /\ (\A v : ~AtWorker(s, v)) /\ (\A c : ~AtConn(s, c))
  BY <1>1 DEF Nowhere, AtMaster, AtWorker, AtConn, QueuesFree
<1>4. s \in open /\ AtQueue(s, w, i)
  BY <1>1, <1>2, <1>3 DEF OneHolder, Somewhere
<1> QED
  BY <1>4 DEF s

LEMMA WorkerAlone ==
    ASSUME HolderInv, NEW w \in Workers, wsfd[w] \in Sfds
    PROVE  wsfd[w] \in open /\ AtWorker(wsfd[w], w)
<1> DEFINE s == wsfd[w]
<1>1. OneHolder(s) /\ wsfd[w] = s
  BY DEF HolderInv
<1> HIDE DEF s
<1>2. \A v \in Workers : AtWorker(s, v) => v = w
  BY <1>1 DEF AtWorker
<1>3. /\ ~Nowhere(s) /\ ~AtMaster(s)
      /\ (\A v, i : ~AtQueue(s, v, i)) /\ (\A c : ~AtConn(s, c))
  BY <1>1 DEF Nowhere, AtMaster, AtQueue, AtConn, WorkersFree
<1>4. s \in open /\ AtWorker(s, w)
  BY <1>1, <1>2, <1>3 DEF OneHolder, Somewhere
<1> QED
  BY <1>4 DEF s

LEMMA ConnAlone ==
    ASSUME HolderInv, NEW c \in registered
    PROVE  conn_sfd[c] \in Sfds /\ conn_sfd[c] \in open /\ AtConn(conn_sfd[c], c)
<1> DEFINE s == conn_sfd[c]
<1>1. s \in Sfds /\ OneHolder(s) /\ conn_sfd[c] = s
  BY DEF HolderInv, LocalsInv
<1> HIDE DEF s
<1>2. \A d \in registered : AtConn(s, d) => d = c
  BY <1>1 DEF AtConn
<1>3. /\ ~Nowhere(s) /\ ~AtMaster(s)
      /\ (\A v, i : ~AtQueue(s, v, i)) /\ (\A v : ~AtWorker(s, v))
  BY <1>1 DEF Nowhere, AtMaster, AtQueue, AtWorker, ConnsFree
<1>4. s \in open /\ AtConn(s, c)
  BY <1>1, <1>2, <1>3 DEF OneHolder, Somewhere
<1> QED
  BY <1>1, <1>4 DEF s

(***************************************************************************)
(* Steps that move no descriptor.  A CONN that is not registered may be    *)
(* given another one.                                                      *)
(***************************************************************************)
LEMMA QuietSfds ==
    ASSUME HolderInv, UNCHANGED <<msfd, list_conn, wsfd, registered, open>>,
           \A c \in registered : conn_sfd'[c] = conn_sfd[c]
    PROVE  \A s \in Sfds : OneHolder(s)'
<1>1. ASSUME NEW s \in Sfds PROVE OneHolder(s)'
  <2>1. OneHolder(s) /\ \A w \in Workers : Entries(w, s)' = Entries(w, s)
    BY DEF HolderInv, Entries
  <2> QED
    BY <2>1, StaysPut
<1> QED
  BY <1>1

\* accept(): from nowhere to the master.
LEMMA AcceptMoves ==
    ASSUME HolderInv, NEW r \in Sfds, Accept(r)
    PROVE  \A s \in Sfds : OneHolder(s)'
<1>1. /\ msfd = NULL /\ msfd' = r /\ r \notin open /\ open' = open \cup {r}
      /\ UNCHANGED <<list_conn, wsfd, registered, conn_sfd>>
  BY DEF HolderInv, LocalsInv, Accept
<1>2. ASSUME NEW s \in Sfds PROVE OneHolder(s)'
  <2>1. OneHolder(s) /\ \A w \in Workers : Entries(w, s)' = Entries(w, s)
    BY <1>1 DEF HolderInv, Entries
  <2>2. CASE s = r
    <3>1. Nowhere(s)
      BY <1>1, <2>1, <2>2 DEF OneHolder
    <3>2. AtMaster(s)'
      BY <1>1, <2>1, <2>2, <3>1
      DEF Nowhere, AtMaster, QueuesFree, WorkersFree, ConnsFree
    <3> QED
      BY <1>1, <2>2, <3>2 DEF OneHolder, Somewhere
  <2>3. CASE s # r
    BY <1>1, <2>1, <2>3, StaysPut, ConnAssumption
  <2> QED
    BY <2>2, <2>3
<1> QED
  BY <1>2

\* SetSocketNoBlock fails: from the master to nowhere.
LEMMA NoBlockFailsMoves ==
    ASSUME HolderInv, SetNoBlockFails
    PROVE  \A s \in Sfds : OneHolder(s)'
<1>1. /\ msfd \in Sfds /\ msfd' = NULL /\ open' = open \ {msfd}
      /\ UNCHANGED <<list_conn, wsfd, registered, conn_sfd>>
  BY DEF HolderInv, OwnerInv, PoolInv, MasterInv, SetNoBlockFails, CloseSfd
<1>2. ASSUME NEW s \in Sfds PROVE OneHolder(s)'
  <2>1. OneHolder(s) /\ \A w \in Workers : Entries(w, s)' = Entries(w, s)
    BY <1>1 DEF HolderInv, Entries
  <2>2. CASE s = msfd
    <3>1. AtMaster(s)
      BY <1>1, <2>2, MasterAlone
    <3>2. Nowhere(s)'
      BY <1>1, <2>1, <3>1, ConnAssumption
      DEF Nowhere, AtMaster, QueuesFree, WorkersFree, ConnsFree
    <3> QED
      BY <1>1, <2>2, <3>2 DEF OneHolder
  <2>3. CASE s # msfd
    BY <1>1, <2>1, <2>3, StaysPut, ConnAssumption
  <2> QED
    BY <2>2, <2>3
<1> QED
  BY <1>2

(***************************************************************************)
(* What push_back and pop_front do to the places of a descriptor.          *)
(***************************************************************************)
LEMMA EntriesOfAppend ==
    ASSUME NEW q \in Seq(Sfds), NEW r \in Sfds, NEW s \in Sfds
    PROVE  {i \in DOMAIN Append(q, r) : Append(q, r)[i] = s}
             = {i \in DOMAIN q : q[i] = s} \cup (IF r = s THEN {Len(q) + 1} ELSE {})
  OBVIOUS

LEMMA EntriesOfTail ==
    ASSUME NEW q \in Seq(Sfds), q # <<>>, NEW s \in Sfds, NEW j
    PROVE  j \in {i \in DOMAIN Tail(q) : Tail(q)[i] = s}
             <=> j \in Nat \ {0} /\ j + 1 \in {i \in DOMAIN q : q[i] = s}
  OBVIOUS

\* push_back: from the master to the end of a queue.
LEMMA PushMoves ==
    ASSUME HolderInv, DispatchPush
    PROVE  \A s \in Sfds : OneHolder(s)'
<1>t. list_conn \in [Workers -> Seq(Sfds)] /\ last_thread_ \in Workers \cup {-1}
  BY DEF HolderInv, OwnerInv, PoolInv, TypeOK
<1>1. PICK t \in Workers : t = (last_thread_ + 1) % ThreadNum
  BY <1>t, RoundRobin
<1>2. /\ msfd \in Sfds /\ msfd' = NULL
      /\ list_conn' = [list_conn EXCEPT ![t] = Append(list_conn[t], msfd)]
      /\ UNCHANGED <<wsfd, registered, conn_sfd, open>>
  BY <1>1 DEF HolderInv, OwnerInv, PoolInv, MasterInv, DispatchPush
<1>n. PICK n \in Nat : n = Len(list_conn[t]) + 1
  BY <1>t, <1>1
<1>3. ASSUME NEW s \in Sfds PROVE OneHolder(s)'
  <2>1. /\ OneHolder(s)
        /\ \A w \in Workers : w # t => Entries(w, s)' = Entries(w, s)
    BY <1>t, <1>2 DEF HolderInv, Entries
  <2>2. Entries(t, s)' = Entries(t, s) \cup (IF msfd = s THEN {n} ELSE {})
    BY <1>t, <1>1, <1>2, <1>n, EntriesOfAppend DEF Entries
  <2>3. CASE s = msfd
    <3>1. s \in open /\ AtMaster(s)
      BY <1>2, <2>3, MasterAlone
    <3>2. AtQueue(s, t, n)'
      BY <1>2, <2>1, <2>2, <2>3, <3>1, ConnAssumption
      DEF AtMaster, AtQueue, QueuesFree, WorkersFree, ConnsFree
    <3>3. n \in DOMAIN list_conn'[t]
      BY <1>t, <1>1, <1>2, <1>n, AppendType
    <3> QED
      BY <1>2, <3>1, <3>2, <3>3 DEF OneHolder, Somewhere
  <2>4. CASE s # msfd
    BY <1>2, <2>1, <2>2, <2>4, StaysPut, ConnAssumption
  <2> QED
    BY <2>3, <2>4
<1> QED
  BY <1>3

\* pop_front: from the head of a queue to the worker; the rest moves up.
LEMMA PopMoves ==
    ASSUME HolderInv, NEW w \in Workers, PopFront(w)
    PROVE  \A s \in Sfds : OneHolder(s)'
<1>t. /\ list_conn \in [Workers -> Seq(Sfds)]
      /\ wsfd \in [Workers -> Sfds \cup {NULL}]
  BY DEF HolderInv, OwnerInv, PoolInv, TypeOK
<1>1. CASE list_conn[w] = <<>>
  BY <1>1, QuietSfds DEF PopFront
<1>2. CASE list_conn[w] # <<>>
  <2>1. PICK r \in Sfds : r = Head(list_conn[w])
    BY <1>2, <1>t, PopType
  <2>2. /\ wsfd[w] = NULL
        /\ wsfd' = [wsfd EXCEPT ![w] = r]
        /\ list_conn' = [list_conn EXCEPT ![w] = Tail(list_conn[w])]
        /\ UNCHANGED <<msfd, registered, conn_sfd, open>>
    BY <1>2, <2>1 DEF HolderInv, LocalsInv, SettingUp, PopFront
  <2>3. 1 \in DOMAIN list_conn[w] /\ list_conn[w][1] = r
    BY <1>2, <1>t, <2>1
  <2>4. ASSUME NEW s \in Sfds PROVE OneHolder(s)'
    <3>1. /\ OneHolder(s)
          /\ \A v \in Workers : v # w => Entries(v, s)' = Entries(v, s)
      BY <1>t, <2>2 DEF HolderInv, Entries
    <3>2. \A j : j \in Entries(w, s)' <=> j \in Nat \ {0} /\ j + 1 \in Entries(w, s)
      BY <1>t, <1>2, <2>2, EntriesOfTail DEF Entries
    <3>3. CASE s = r
      <4>1. s \in open /\ AtQueue(s, w, 1)
        BY <2>3, <3>3, QueueAlone
      <4>2. Entries(w, s) = {1}
        BY <4>1 DEF AtQueue
      <4>3. Entries(w, s)' = {}
        BY <3>2, <4>2
      <4>4. QueuesFree(s)'
        BY <3>1, <4>1, <4>3 DEF QueuesFree, AtQueue
      <4>5. AtWorker(s, w)'
        BY <1>t, <2>2, <3>3, <4>1, <4>4, ConnAssumption
        DEF AtQueue, AtWorker, WorkersFree, ConnsFree
      <4> QED
        BY <2>2, <4>1, <4>5 DEF OneHolder, Somewhere
    <3>4. CASE s # r /\ Entries(w, s) = {}
      <4>1. Entries(w, s)' = {}
        BY <3>2, <3>4
      <4>2. \A v \in Workers : wsfd'[v] = s <=> wsfd[v] = s
        BY <1>t, <2>2, <3>4, ConnAssumption
      <4> QED
        BY <2>2, <3>1, <3>4, <4>1, <4>2, StaysPut
    <3>5. ASSUME s # r, NEW i \in Entries(w, s) PROVE OneHolder(s)'
      <4>1. /\ i \in DOMAIN list_conn[w] /\ list_conn[w][i] = s
            /\ i \in Nat \ {0}
        BY <1>t, <3>5 DEF Entries
      <4>2. s \in open /\ AtQueue(s, w, i)
        BY <4>1, QueueAlone
      <4>3. PICK k \in Nat \ {0} : i = k + 1
        BY <2>3, <3>5, <4>1
      <4>4. Entries(w, s)' = {k}
        <5>1. Entries(w, s) = {i}
          BY <4>2 DEF AtQueue
        <5> QED
          BY <3>2, <4>3, <5>1
      <4>5. \A v \in Workers : wsfd'[v] # s
        BY <1>t, <2>2, <3>5, <4>2 DEF AtQueue, WorkersFree
      <4>6. AtQueue(s, w, k)' /\ k \in DOMAIN list_conn'[w]
        BY <2>2, <3>1, <4>2, <4>4, <4>5 DEF AtQueue, WorkersFree, ConnsFree, Entries
      <4> QED
        BY <2>2, <4>2, <4>6 DEF OneHolder, Somewhere
    <3> QED
      BY <3>3, <3>4, <3>5
  <2> QED
    BY <2>4
<1> QED
  BY <1>1, <1>2

\* A CONN given back to the free list is not registered, so no registered one changes.
LEMMA GivingBackIsQuiet ==
    ASSUME OwnerInv, NEW w \in Workers, InHand(w), AddConnToFreelist(wconn[w])
    PROVE  \A c \in registered :
              conn_sfd'[c] = conn_sfd[c] /\ conn_thread'[c] = conn_thread[c]
<1>1. wconn[w] \notin registered
  BY DEF OwnerInv, ConnHasOneOwner, HandConnsUnowned
<1> QED
  BY <1>1 DEF AddConnToFreelist, OwnerInv, PoolInv, TypeOK

(***************************************************************************)
(* A connection that cannot be set up is closed: from the worker to        *)
(* nowhere.                                                                *)
(***************************************************************************)
LEMMA RefuseMoves ==
    ASSUME HolderInv, NEW w \in Workers, NewConnFails(w) \/ UndoRegister(w)
    PROVE  \A s \in Sfds : OneHolder(s)'
<1>1. /\ wsfd[w] \in Sfds /\ wsfd \in [Workers -> Sfds \cup {NULL}]
      /\ wsfd' = [wsfd EXCEPT ![w] = NULL] /\ open' = open \ {wsfd[w]}
      /\ UNCHANGED <<msfd, list_conn, registered>>
  BY DEF HolderInv, OwnerInv, PoolInv, TypeOK, LocalsInv, SettingUp, NewConnFails,
      UndoRegister, CloseSfd
<1>2. \A c \in registered : conn_sfd'[c] = conn_sfd[c]
  BY GivingBackIsQuiet DEF HolderInv, NewConnFails, UndoRegister, InHand
<1>3. ASSUME NEW s \in Sfds PROVE OneHolder(s)'
  <2>1. OneHolder(s) /\ \A v \in Workers : Entries(v, s)' = Entries(v, s)
    BY <1>1 DEF HolderInv, Entries
  <2>2. CASE s = wsfd[w]
    <3>1. AtWorker(s, w)
      BY <1>1, <2>2, WorkerAlone
    <3>2. Nowhere(s)'
      BY <1>1, <1>2, <2>1, <3>1, ConnAssumption
      DEF Nowhere, AtWorker, QueuesFree, WorkersFree, ConnsFree
    <3> QED
      BY <1>1, <2>2, <3>2 DEF OneHolder
  <2>3. CASE s # wsfd[w]
    <3>1. \A v \in Workers : wsfd'[v] = s <=> wsfd[v] = s
      BY <1>1, <2>3, ConnAssumption
    <3> QED
      BY <1>1, <1>2, <2>1, <2>3, <3>1, StaysPut
  <2> QED
    BY <2>2, <2>3
<1> QED
  BY <1>3

\* InitNewConn: from the worker to the CONN in its hand.
LEMMA RegisterMoves ==
    ASSUME HolderInv, NEW w \in Workers, RegisterConn(w)
    PROVE  \A s \in Sfds : OneHolder(s)'
<1>1. PICK c \in Conns : c = wconn[w]
  BY DEF HolderInv, OwnerInv, PoolInv, PointersInv, InHand, RegisterConn
<1>2. c \notin registered
  BY <1>1 DEF HolderInv, OwnerInv, ConnHasOneOwner, HandConnsUnowned, InHand, RegisterConn
<1>3. /\ wsfd[w] \in Sfds /\ wsfd \in [Workers -> Sfds \cup {NULL}]
      /\ wsfd' = [wsfd EXCEPT ![w] = NULL]
      /\ registered' = registered \cup {c}
      /\ conn_sfd'[c] = wsfd[w]
      /\ \A d \in registered : conn_sfd'[d] = conn_sfd[d]
      /\ UNCHANGED <<msfd, list_conn, open>>
  BY <1>1, <1>2 DEF HolderInv, OwnerInv, PoolInv, TypeOK, LocalsInv, SettingUp,
      RegisterConn
<1>4. ASSUME NEW s \in Sfds PROVE OneHolder(s)'
  <2>1. OneHolder(s) /\ \A v \in Workers : Entries(v, s)' = Entries(v, s)
    BY <1>3 DEF HolderInv, Entries
  <2>2. CASE s = wsfd[w]
    <3>1. s \in open /\ AtWorker(s, w)
      BY <1>3, <2>2, WorkerAlone
    <3>2. WorkersFree(s)'
      BY <1>3, <3>1, ConnAssumption DEF AtWorker, WorkersFree
    <3>3. AtConn(s, c)'
      BY <1>3, <2>1, <2>2, <3>1, <3>2 DEF AtWorker, AtConn, QueuesFree, ConnsFree
    <3> QED
      BY <1>3, <3>1, <3>3 DEF OneHolder, Somewhere
  <2>3. CASE s # wsfd[w]
    <3>1. \A v \in Workers : wsfd'[v] = s <=> wsfd[v] = s
      BY <1>3, <2>3, ConnAssumption
    <3>2. \A d : d \in registered' /\ conn_sfd'[d] = s
                   <=> d \in registered /\ conn_sfd[d] = s
      BY <1>2, <1>3, <2>3
    <3> QED
      BY <1>3, <2>1, <3>1, <3>2, StaysPut
  <2> QED
    BY <2>2, <2>3
<1> QED
  BY <1>4

\* bufferevent_free: from the CONN to nowhere.
LEMMA CloseMoves ==
    ASSUME HolderInv, NEW w \in Workers, NEW c \in registered, FreeBufferevent(w, c),
           UNCHANGED <<msfd, list_conn, wsfd, conn_sfd>>
    PROVE  \A s \in Sfds : OneHolder(s)'
<1>1. registered' = registered \ {c} /\ open' = open \ {conn_sfd[c]}
  BY DEF FreeBufferevent, CloseSfd
<1>2. ASSUME NEW s \in Sfds PROVE OneHolder(s)'
  <2>1. OneHolder(s) /\ \A v \in Workers : Entries(v, s)' = Entries(v, s)
    BY DEF HolderInv, Entries
  <2>2. CASE s = conn_sfd[c]
    <3>1. AtConn(s, c)
      BY <2>2, ConnAlone
    <3>2. Nowhere(s)'
      BY <1>1, <2>1, <3>1 DEF Nowhere, AtConn, QueuesFree, WorkersFree, ConnsFree
    <3> QED
      BY <1>1, <2>2, <3>2 DEF OneHolder
  <2>3. CASE s # conn_sfd[c]
    <3>1. \A d : d \in registered' /\ conn_sfd'[d] = s
                   <=> d \in registered /\ conn_sfd[d] = s
      BY <1>1, <2>3
    <3> QED
      BY <1>1, <2>1, <2>3, <3>1, StaysPut
  <2> QED
    BY <2>2, <2>3
<1> QED
  BY <1>2

-----------------------------------------------------------------------------
(* The invariant, action by action. *)

Held == LocalsInv /\ \A s \in Sfds : OneHolder(s)

(***************************************************************************)
(* A worker's step inside or outside of ReadPipeCb that moves no           *)
(* descriptor.                                                             *)
(***************************************************************************)
LEMMA QuietHeld ==
    ASSUME HolderInv, NEW w \in Workers,
           UNCHANGED <<mpc, msfd, list_conn, wsfd, registered, open>>,
           \A c \in registered : conn_sfd'[c] = conn_sfd[c],
           \A v \in Workers : v # w => wpc'[v] = wpc[v],
           SettingUp(w)' <=> SettingUp(w)
    PROVE  Held'
<1>1. \A v \in Workers : SettingUp(v)' <=> SettingUp(v)
  BY DEF SettingUp
<1>2. LocalsInv'
  BY <1>1 DEF HolderInv, LocalsInv
<1> QED
  BY <1>2, QuietSfds DEF Held

LEMMA MasterHeld ==
    ASSUME HolderInv, MasterStep \/ \E s \in Sfds : Accept(s)
    PROVE  Held'
<1>l. LocalsInv /\ MasterInv
  BY DEF HolderInv, OwnerInv, PoolInv
<1>1. ASSUME NEW s \in Sfds, Accept(s) PROVE Held'
  <2>1. LocalsInv'
    BY <1>1, <1>l, ConnAssumption DEF Accept, LocalsInv, SettingUp
  <2> QED
    BY <1>1, <2>1, AcceptMoves DEF Held
<1>2. CASE SetNoBlockFails
  <2>1. LocalsInv'
    BY <1>2, <1>l DEF SetNoBlockFails, LocalsInv, SettingUp
  <2> QED
    BY <1>2, <2>1, NoBlockFailsMoves DEF Held
<1>3. CASE DispatchPush
  <2>1. LocalsInv'
    BY <1>3, <1>l DEF DispatchPush, LocalsInv, SettingUp
  <2> QED
    BY <1>3, <2>1, PushMoves DEF Held
<1>4. CASE DispatchNotify \/ DispatchNotifyFails
  <2>1. LocalsInv'
    BY <1>4, <1>l DEF DispatchNotify, DispatchNotifyFails, LocalsInv, SettingUp
  <2>2. \A s \in Sfds : OneHolder(s)'
    BY <1>4, QuietSfds DEF DispatchNotify, DispatchNotifyFails
  <2> QED
    BY <2>1, <2>2 DEF Held
<1> QED
  BY <1>1, <1>2, <1>3, <1>4 DEF MasterStep

LEMMA WorkerHeld ==
    ASSUME HolderInv, NEW w \in Workers, WorkerNext(w)
    PROVE  Held'
<1>t. /\ wpc \in [Workers -> WorkerStates]
      /\ wsfd \in [Workers -> Sfds \cup {NULL}]
      /\ list_conn \in [Workers -> Seq(Sfds)]
      /\ LocalsInv /\ PointersInv /\ HandConnsUnowned
      /\ conn_sfd \in [Conns -> Sfds \cup {NULL}]
      /\ registered \subseteq Conns
  BY DEF HolderInv, OwnerInv, PoolInv, TypeOK, ConnHasOneOwner
<1>1. CASE ReadPipe(w)
  BY <1>1, <1>t, QuietHeld DEF ReadPipe, SettingUp
<1>2. ASSUME NEW c \in Conns, ClientTcpErrorCb(w, c) PROVE Held'
  <2>1. LocalsInv'
    BY <1>2, <1>t DEF ClientTcpErrorCb, FreeBufferevent, LocalsInv, SettingUp
  <2> QED
    BY <1>2, <2>1, CloseMoves DEF ClientTcpErrorCb, Serves, Held
<1>3. ASSUME NEW c \in Conns, NEW tokenOk \in BOOLEAN, NEW n \in 0 .. MaxLines,
             ReadChunk(w, c, tokenOk, n)
      PROVE  Held'
  <2>1. CASE isVerify[c] \/ tokenOk
    BY <1>3, <1>t, <2>1, QuietHeld DEF ReadChunk, SettingUp
  <2>2. CASE ~(isVerify[c] \/ tokenOk)
    <3>1. LocalsInv'
      BY <1>3, <1>t, <2>2 DEF ReadChunk, FreeBufferevent, LocalsInv, SettingUp
    <3> QED
      BY <1>3, <2>2, <3>1, CloseMoves DEF ReadChunk, Serves, Held
  <2> QED
    BY <2>1, <2>2
<1>4. CASE PopFront(w)
  <2>1. CASE list_conn[w] = <<>>
    BY <1>4, <1>t, <2>1, QuietHeld DEF PopFront, SettingUp
  <2>2. CASE list_conn[w] # <<>>
    <3>1. Head(list_conn[w]) # NULL
      BY <1>t, <2>2, PopType, ConnAssumption
    <3>2. LocalsInv'
      BY <1>4, <1>t, <2>2, <3>1 DEF PopFront, LocalsInv, SettingUp
    <3> QED
      BY <1>4, <3>2, PopMoves DEF Held
  <2> QED
    BY <2>1, <2>2
<1>5. ASSUME NEW garbage \in BOOLEAN, NewConn(w, garbage)
      PROVE  Held'
  BY <1>5, <1>t, QuietHeld DEF NewConn, SettingUp
<1>6. CASE RegisterConn(w)
  <2>1. wconn[w] \in Conns
    BY <1>6, <1>t DEF RegisterConn, PointersInv, InHand
  <2>2. wsfd[w] \in Sfds
    BY <1>6, <1>t DEF RegisterConn, LocalsInv, SettingUp
  <2>3. \A d \in registered' : conn_sfd'[d] \in Sfds
    BY <1>6, <1>t, <2>1, <2>2 DEF RegisterConn, LocalsInv
  <2>4. \A v \in Workers : SettingUp(v)' <=> wsfd'[v] # NULL
    BY <1>6, <1>t DEF RegisterConn, LocalsInv, SettingUp
  <2>5. LocalsInv'
    BY <1>6, <1>t, <2>3, <2>4 DEF RegisterConn, LocalsInv
  <2> QED
    BY <1>6, <2>5, RegisterMoves DEF Held
<1>7. CASE RegisterFails(w)
  <2>1. wconn[w] \notin registered
    BY <1>7, <1>t DEF RegisterFails, HandConnsUnowned, InHand
  <2>2. \A c \in registered : conn_sfd'[c] = conn_sfd[c]
    BY <1>7, <1>t, <2>1 DEF RegisterFails
  <2> QED
    BY <1>7, <1>t, <2>2, QuietHeld DEF RegisterFails, SettingUp
<1>8. CASE NextCommand(w) \/ NextMalformed(w) \/ LinesDone(w)
  BY <1>8, <1>t, QuietHeld DEF NextCommand, NextMalformed, LinesDone, SettingUp
<1>9. CASE QueryWithReply(w) \/ QueryWithoutReply(w) \/ WriteReturns(w) \/ WriteSpins(w)
  BY <1>9, <1>t, QuietHeld
  DEF QueryWithReply, QueryWithoutReply, WriteReturns, WriteSpins, SettingUp
<1>10. CASE GetConnFromFreelist(w)
  <2>1. wpc' = [wpc EXCEPT ![w] = "setup"] \/ wpc' = [wpc EXCEPT ![w] = "new"]
    BY <1>10 DEF GetConnFromFreelist
  <2> QED
    BY <1>10, <1>t, <2>1, QuietHeld DEF GetConnFromFreelist, SettingUp
<1>11. CASE LockForCommand(w) \/ WriteKills(w)
  BY <1>11, <1>t, QuietHeld DEF LockForCommand, WriteKills, SettingUp
<1>12. CASE RecycleConn(w)
  <2>1. \A c \in registered : conn_sfd'[c] = conn_sfd[c]
    BY <1>12, GivingBackIsQuiet DEF HolderInv, RecycleConn, InHand
  <2> QED
    BY <1>12, <1>t, <2>1, QuietHeld DEF RecycleConn, SettingUp
<1>13. CASE NewConnFails(w) \/ UndoRegister(w)
  <2>0. \A c \in registered : conn_sfd'[c] = conn_sfd[c]
    BY <1>13, GivingBackIsQuiet DEF HolderInv, NewConnFails, UndoRegister, InHand
  <2>1. LocalsInv'
    BY <1>13, <1>t, <2>0 DEF NewConnFails, UndoRegister, LocalsInv, SettingUp
  <2> QED
    BY <1>13, <2>1, RefuseMoves DEF Held
<1> QED
  BY <1>1, <1>2, <1>3, <1>4, <1>5, <1>6, <1>7, <1>8, <1>9, <1>10, <1>11, <1>12, <1>13
  DEF WorkerNext, CallbackStep, LockStep, Die

LEMMA HolderInit == Init => HolderInv
<1> SUFFICES ASSUME Init PROVE LocalsInv /\ \A s \in Sfds : OneHolder(s)
  BY OwnerInit DEF HolderInv
<1>1. LocalsInv
  BY DEF Init, LocalsInv, SettingUp
<1>2. ASSUME NEW s \in Sfds PROVE OneHolder(s)
  <2>1. QueuesFree(s)
    BY DEF Init, QueuesFree, Entries
  <2> QED
    BY <2>1, ConnAssumption DEF Init, OneHolder, Nowhere, WorkersFree, ConnsFree
<1> QED
  BY <1>1, <1>2

LEMMA HolderStep == HolderInv /\ [Next]_vars => HolderInv'
<1> SUFFICES ASSUME HolderInv, [Next]_vars PROVE Held'
  BY OwnerStep DEF HolderInv, Held
<1>1. CASE ClientNext \/ UNCHANGED vars
  <2>1. UNCHANGED <<masterVars, queueVars, workerVars, connVars, open>>
    BY <1>1 DEF ClientNext, Stall, Resume, Reset, vars
  <2>2. LocalsInv'
    BY <2>1 DEF HolderInv, LocalsInv, SettingUp
  <2> QED
    BY <2>1, <2>2, QuietSfds DEF Held
<1> QED
  BY <1>1, MasterHeld, WorkerHeld DEF Next

-----------------------------------------------------------------------------
(* One holder. *)

LEMMA HoldersAre ==
    ASSUME NEW s, NEW h
    PROVE  h \in Holders(s) <=>
             \/ msfd = s /\ h = <<"master", 0, 0>>
             \/ \E w \in Workers : \E i \in Entries(w, s) : h = <<"queue", w, i>>
             \/ \E w \in Workers : wsfd[w] = s /\ h = <<"worker", w, 0>>
             \/ \E c \in registered : conn_sfd[c] = s /\ h = <<"conn", c, 0>>
<1> DEFINE M == {<<"master", 0, 0>> : x \in {msfd} \cap {s}}
           Q == UNION {{<<"queue", w, i>> : i \in Entries(w, s)} : w \in Workers}
           W == {<<"worker", w, 0>> : w \in {v \in Workers : wsfd[v] = s}}
           C == {<<"conn", c, 0>> : c \in {d \in registered : conn_sfd[d] = s}}
<1>1. h \in M <=> msfd = s /\ h = <<"master", 0, 0>>
  OBVIOUS
<1>2. h \in Q <=> \E w \in Workers : \E i \in Entries(w, s) : h = <<"queue", w, i>>
  OBVIOUS
<1>3. h \in W <=> \E w \in Workers : wsfd[w] = s /\ h = <<"worker", w, 0>>
  BY Zenon
<1>4. h \in C <=> \E c \in registered : conn_sfd[c] = s /\ h = <<"conn", c, 0>>
  BY Zenon
<1>5. h \in Holders(s) <=> h \in M \/ h \in Q \/ h \in W \/ h \in C
  BY Zenon DEF Holders
<1> HIDE DEF M, Q, W, C
<1> QED
  BY <1>1, <1>2, <1>3, <1>4, <1>5, Zenon

LEMMA NowhereIsNone ==
    ASSUME NEW s \in Sfds, Nowhere(s)
    PROVE  Holders(s) = {}
  BY DEF Nowhere, QueuesFree, WorkersFree, ConnsFree, Holders

LEMMA SomewhereIsOne ==
    ASSUME NEW s \in Sfds, Somewhere(s)
    PROVE  \E h : Holders(s) = {h}
<1>1. CASE AtMaster(s)
  <2>1. ASSUME NEW h PROVE h \in Holders(s) <=> h = <<"master", 0, 0>>
    BY <1>1, HoldersAre DEF AtMaster, QueuesFree, WorkersFree, ConnsFree
  <2>2. Holders(s) = {<<"master", 0, 0>>}
    BY <2>1
  <2> QED
    BY <2>2
<1>2. ASSUME NEW w \in Workers, NEW i, AtQueue(s, w, i)
      PROVE  \E h : Holders(s) = {h}
  <2>1. /\ msfd # s
        /\ \A v \in Workers : \A j \in Entries(v, s) : v = w /\ j = i
        /\ i \in Entries(w, s)
        /\ \A v \in Workers : wsfd[v] # s
        /\ \A c \in registered : conn_sfd[c] # s
    BY <1>2 DEF AtQueue, WorkersFree, ConnsFree
  <2>2. ASSUME NEW h PROVE h \in Holders(s) <=> h = <<"queue", w, i>>
    BY <2>1, HoldersAre, Zenon
  <2>3. Holders(s) = {<<"queue", w, i>>}
    BY <2>2
  <2> QED
    BY <2>3
<1>3. ASSUME NEW w \in Workers, AtWorker(s, w)
      PROVE  \E h : Holders(s) = {h}
  <2>1. /\ msfd # s
        /\ \A v \in Workers : Entries(v, s) = {}
        /\ \A v \in Workers : wsfd[v] = s <=> v = w
        /\ \A c \in registered : conn_sfd[c] # s
    BY <1>3 DEF AtWorker, QueuesFree, ConnsFree
  <2>2. ASSUME NEW h PROVE h \in Holders(s) <=> h = <<"worker", w, 0>>
    BY <2>1, HoldersAre, Zenon
  <2>3. Holders(s) = {<<"worker", w, 0>>}
    BY <2>2
  <2> QED
    BY <2>3
<1>4. ASSUME NEW c \in registered, AtConn(s, c)
      PROVE  \E h : Holders(s) = {h}
  <2>1. /\ msfd # s
        /\ \A v \in Workers : Entries(v, s) = {}
        /\ \A v \in Workers : wsfd[v] # s
        /\ \A d \in registered : conn_sfd[d] = s <=> d = c
    BY <1>4 DEF AtConn, QueuesFree, WorkersFree
  <2>2. ASSUME NEW h PROVE h \in Holders(s) <=> h = <<"conn", c, 0>>
    BY <2>1, HoldersAre, Zenon
  <2>3. Holders(s) = {<<"conn", c, 0>>}
    BY <2>2
  <2> QED
    BY <2>3
<1> QED
  BY <1>1, <1>2, <1>3, <1>4 DEF Somewhere

(***************************************************************************)
(* An open descriptor has one holder and a closed one none: no descriptor  *)
(* leaks, none is closed twice, and accept() may hand a number out again   *)
(* without anybody still using the old one, for any number of workers,     *)
(* descriptors and CONN objects and whatever fails during set-up.          *)
(***************************************************************************)
THEOREM OneHolderPerSfd == Spec => []SfdHasOneHolder
<1>1. HolderInv => SfdHasOneHolder
  <2> SUFFICES ASSUME HolderInv, NEW s \in Sfds
               PROVE  Cardinality(Holders(s)) = IF s \in open THEN 1 ELSE 0
    BY DEF SfdHasOneHolder
  <2>1. CASE s \in open
    <3>1. PICK h : Holders(s) = {h}
      BY <2>1, SomewhereIsOne DEF HolderInv, OneHolder
    <3> QED
      BY <2>1, <3>1, FS_Singleton
  <2>2. CASE s \notin open
    BY <2>2, NowhereIsNone, FS_EmptySet DEF HolderInv, OneHolder
  <2> QED
    BY <2>1, <2>2
<1> QED
  BY <1>1, HolderInit, HolderStep, PTL DEF Spec

-----------------------------------------------------------------------------
(* The refinement of Handoff. *)

LEMMA EmptyInFront ==
    ASSUME NEW S, NEW q \in Seq(S)
    PROVE  <<>> \o q = q
  OBVIOUS

LEMMA OneInFront ==
    ASSUME NEW S, NEW q \in Seq(S), NEW e \in S
    PROVE  /\ <<e>> \o q \in Seq(S) /\ <<e>> \o q # <<>>
           /\ Head(<<e>> \o q) = e /\ Tail(<<e>> \o q) = q
  OBVIOUS

LEMMA AppendBehind ==
    ASSUME NEW S, NEW q \in Seq(S), NEW e \in S, NEW f \in S
    PROVE  Append(<<e>> \o q, f) = <<e>> \o Append(q, f)
  OBVIOUS

LEMMA HeadInFront ==
    ASSUME NEW S, NEW q \in Seq(S), q # <<>>
    PROVE  <<Head(q)>> \o Tail(q) = q
  OBVIOUS

(***************************************************************************)
(* What the mapping makes of a worker that is setting a connection up and  *)
(* of one that is not.                                                     *)
(***************************************************************************)
LEMMA InboxIs ==
    ASSUME HolderInv, NEW w \in Workers
    PROVE  /\ wsfd[w] = NULL => inbox[w] = list_conn[w]
           /\ wsfd[w] # NULL => /\ inbox[w] = <<wsfd[w]>> \o list_conn[w]
                                /\ inbox[w] # <<>>
                                /\ Head(inbox[w]) = wsfd[w]
                                /\ Tail(inbox[w]) = list_conn[w]
<1>1. list_conn[w] \in Seq(Sfds) /\ wsfd[w] \in Sfds \cup {NULL}
  BY DEF HolderInv, OwnerInv, PoolInv, TypeOK
<1>2. CASE wsfd[w] = NULL
  BY <1>1, <1>2, EmptyInFront DEF inbox
<1>3. CASE wsfd[w] # NULL
  <2>1. wsfd[w] \in Sfds /\ inbox[w] = <<wsfd[w]>> \o list_conn[w]
    BY <1>1, <1>3 DEF inbox
  <2> QED
    BY <1>1, <1>3, <2>1, OneInFront
<1> QED
  BY <1>2, <1>3

LEMMA SameInbox ==
    ASSUME UNCHANGED <<wsfd, list_conn>>
    PROVE  inbox' = inbox
  BY DEF inbox

LEMMA ServingIs ==
    ASSUME HolderInv, NEW w \in Workers, NEW s
    PROVE  s \in serving[w] <=>
             \E c \in registered : conn_thread[c] = w /\ conn_sfd[c] = s
  BY DEF HolderInv, OwnerInv, PoolInv, TypeOK, serving, Serves

LEMMA SameServing ==
    ASSUME UNCHANGED registered,
           \A c \in registered : conn_sfd'[c] = conn_sfd[c]
                                   /\ conn_thread'[c] = conn_thread[c]
    PROVE  serving' = serving
<1>1. ASSUME NEW w \in Workers
      PROVE  {conn_sfd'[c] : c \in {d \in Conns : Serves(w, d)'}}
               = {conn_sfd[c] : c \in {d \in Conns : Serves(w, d)}}
  BY DEF Serves
<1> QED
  BY <1>1 DEF serving

Stutter == UNCHANGED <<inbox, serving>>

\* push_back hands the descriptor to the chosen worker, at the end of its inbox.
LEMMA PushHands ==
    ASSUME HolderInv, DispatchPush
    PROVE  \E w \in Workers, s \in Sfds : Abstract!Hand(w, s)
<1>t. list_conn \in [Workers -> Seq(Sfds)] /\ last_thread_ \in Workers \cup {-1}
      /\ wsfd \in [Workers -> Sfds \cup {NULL}]
  BY DEF HolderInv, OwnerInv, PoolInv, TypeOK
<1>1. PICK t \in Workers : t = (last_thread_ + 1) % ThreadNum
  BY <1>t, RoundRobin
<1>2. /\ msfd \in Sfds
      /\ list_conn' = [list_conn EXCEPT ![t] = Append(list_conn[t], msfd)]
      /\ UNCHANGED <<wsfd, registered, conn_sfd, conn_thread>>
  BY <1>1 DEF HolderInv, OwnerInv, PoolInv, MasterInv, DispatchPush
<1>3. ~Abstract!Held(msfd)
  <2>1. AtMaster(msfd)
    BY <1>2, MasterAlone
  <2>2. ASSUME NEW w \in Workers, NEW i \in DOMAIN inbox[w], inbox[w][i] = msfd
        PROVE  FALSE
    <3>1. \A j \in DOMAIN list_conn[w] : list_conn[w][j] # msfd
      BY <2>1 DEF AtMaster, QueuesFree, Entries
    <3>2. wsfd[w] # msfd
      BY <2>1 DEF AtMaster, WorkersFree
    <3>3. CASE wsfd[w] = NULL
      BY <2>2, <3>1, <3>3, InboxIs
    <3>4. CASE wsfd[w] # NULL
      <4>1. inbox[w] = <<wsfd[w]>> \o list_conn[w] /\ list_conn[w] \in Seq(Sfds)
        BY <1>t, <3>4, InboxIs
      <4> QED
        BY <2>2, <3>1, <3>2, <4>1
    <3> QED
      BY <3>3, <3>4
  <2>3. ASSUME NEW w \in Workers PROVE msfd \notin serving[w]
    BY <2>1, ServingIs DEF AtMaster, ConnsFree
  <2> QED
    BY <2>2, <2>3 DEF Abstract!Held, Abstract!InInbox
<1>4. inbox' = [inbox EXCEPT ![t] = Append(inbox[t], msfd)]
  <2>1. inbox'[t] = Append(inbox[t], msfd)
    <3>1. list_conn'[t] = Append(list_conn[t], msfd) /\ wsfd'[t] = wsfd[t]
          /\ list_conn[t] \in Seq(Sfds)
      BY <1>t, <1>1, <1>2
    <3>2. CASE wsfd[t] = NULL
      BY <1>2, <3>1, <3>2, EmptyInFront, AppendType DEF inbox
    <3>3. CASE wsfd[t] # NULL
      BY <1>t, <1>2, <3>1, <3>3, AppendBehind DEF inbox
    <3> QED
      BY <3>2, <3>3
  <2>2. \A v \in Workers : v # t => inbox'[v] = inbox[v]
    BY <1>t, <1>2 DEF inbox
  <2> QED
    BY <2>1, <2>2 DEF inbox
<1>5. serving' = serving
  BY <1>2, SameServing
<1> QED
  BY <1>2, <1>3, <1>4, <1>5 DEF Abstract!Hand

\* pop_front keeps the inbox: its head is now the worker's local.
LEMMA PopStutters ==
    ASSUME HolderInv, NEW w \in Workers, PopFront(w)
    PROVE  Stutter
<1>t. list_conn \in [Workers -> Seq(Sfds)] /\ wsfd \in [Workers -> Sfds \cup {NULL}]
  BY DEF HolderInv, OwnerInv, PoolInv, TypeOK
<1>1. serving' = serving
  BY SameServing DEF PopFront
<1>2. CASE list_conn[w] = <<>>
  BY <1>1, <1>2, SameInbox DEF PopFront, Stutter
<1>3. CASE list_conn[w] # <<>>
  <2>1. /\ wsfd[w] = NULL
        /\ wsfd' = [wsfd EXCEPT ![w] = Head(list_conn[w])]
        /\ list_conn' = [list_conn EXCEPT ![w] = Tail(list_conn[w])]
    BY <1>3 DEF HolderInv, LocalsInv, SettingUp, PopFront
  <2>2. Head(list_conn[w]) # NULL
    BY <1>t, <1>3, PopType, ConnAssumption
  <2>3. inbox'[w] = inbox[w]
    BY <1>t, <1>3, <2>1, <2>2, HeadInFront, EmptyInFront DEF inbox
  <2>4. \A v \in Workers : v # w => inbox'[v] = inbox[v]
    BY <1>t, <2>1 DEF inbox
  <2>5. inbox' = inbox
    BY <2>3, <2>4 DEF inbox
  <2> QED
    BY <1>1, <2>5 DEF Stutter
<1> QED
  BY <1>2, <1>3

\* A worker that lets go of its local drops the head of its inbox.
LEMMA HeadLeaves ==
    ASSUME HolderInv, NEW w \in Workers, SettingUp(w),
           wsfd' = [wsfd EXCEPT ![w] = NULL], UNCHANGED list_conn
    PROVE  /\ inbox[w] # <<>> /\ Head(inbox[w]) = wsfd[w]
           /\ inbox' = [inbox EXCEPT ![w] = Tail(inbox[w])]
<1>t. list_conn \in [Workers -> Seq(Sfds)] /\ wsfd \in [Workers -> Sfds \cup {NULL}]
  BY DEF HolderInv, OwnerInv, PoolInv, TypeOK
<1>1. wsfd[w] # NULL
  BY DEF HolderInv, LocalsInv
<1>2. inbox[w] # <<>> /\ Head(inbox[w]) = wsfd[w] /\ Tail(inbox[w]) = list_conn[w]
  BY <1>1, InboxIs
<1>3. inbox'[w] = list_conn[w]
  BY <1>t, EmptyInFront DEF inbox
<1>4. \A v \in Workers : v # w => inbox'[v] = inbox[v]
  BY <1>t DEF inbox
<1>5. inbox' = [inbox EXCEPT ![w] = Tail(inbox[w])]
  <2>1. DOMAIN inbox = Workers /\ DOMAIN inbox' = Workers
        /\ inbox = [v \in Workers |-> inbox[v]] /\ inbox' = [v \in Workers |-> inbox'[v]]
    <3> DEFINE Box(v) == (IF wsfd[v] = NULL THEN <<>> ELSE <<wsfd[v]>>) \o list_conn[v]
               NewBox(v) == (IF wsfd'[v] = NULL THEN <<>> ELSE <<wsfd'[v]>>) \o list_conn'[v]
    <3>1. inbox = [v \in Workers |-> Box(v)] /\ inbox' = [v \in Workers |-> NewBox(v)]
      BY DEF inbox
    <3> HIDE DEF Box, NewBox
    <3> QED
      BY <3>1
  <2>2. inbox'[w] = Tail(inbox[w])
    BY <1>2, <1>3
  <2> QED
    BY <1>4, <2>1, <2>2
<1> QED
  BY <1>2, <1>5

\* RegisterConn serves the head of the inbox.
LEMMA RegisterServes ==
    ASSUME HolderInv, NEW w \in Workers, RegisterConn(w)
    PROVE  Abstract!Serve(w)
<1>1. PICK c \in Conns : c = wconn[w]
  BY DEF HolderInv, OwnerInv, PoolInv, PointersInv, InHand, RegisterConn
<1>2. c \notin registered
  BY <1>1 DEF HolderInv, OwnerInv, ConnHasOneOwner, HandConnsUnowned, InHand, RegisterConn
<1>3. /\ registered' = registered \cup {c} /\ registered \subseteq Conns
      /\ conn_sfd'[c] = wsfd[w] /\ conn_thread'[c] = w
      /\ \A d \in registered : conn_sfd'[d] = conn_sfd[d]
                                 /\ conn_thread'[d] = conn_thread[d]
  BY <1>1, <1>2 DEF HolderInv, OwnerInv, PoolInv, TypeOK, RegisterConn
<1>4. /\ inbox[w] # <<>> /\ Head(inbox[w]) = wsfd[w]
      /\ inbox' = [inbox EXCEPT ![w] = Tail(inbox[w])]
  BY HeadLeaves DEF RegisterConn, SettingUp
<1>5. ASSUME NEW v \in Workers
      PROVE  serving'[v] = IF v = w THEN serving[v] \cup {wsfd[w]} ELSE serving[v]
  <2>1. ASSUME NEW s
        PROVE  s \in serving'[v] <=> s \in serving[v] \/ (v = w /\ s = wsfd[w])
    <3>1. s \in serving'[v] <=>
            \E d \in registered' : conn_thread'[d] = v /\ conn_sfd'[d] = s
      BY <1>3 DEF serving, Serves
    <3> QED
      BY <1>2, <1>3, <3>1, ServingIs
  <2> QED
    BY <2>1
<1>6. serving' = [serving EXCEPT ![w] = serving[w] \cup {wsfd[w]}]
  BY <1>5 DEF serving
<1> QED
  BY <1>4, <1>6 DEF Abstract!Serve

\* A connection that cannot be set up is refused.
LEMMA FailureRefuses ==
    ASSUME HolderInv, NEW w \in Workers, NewConnFails(w) \/ UndoRegister(w)
    PROVE  Abstract!Refuse(w)
<1>1. inbox[w] # <<>> /\ inbox' = [inbox EXCEPT ![w] = Tail(inbox[w])]
  BY HeadLeaves DEF NewConnFails, UndoRegister, SettingUp
<1>2. \A c \in registered : conn_sfd'[c] = conn_sfd[c] /\ conn_thread'[c] = conn_thread[c]
  BY GivingBackIsQuiet DEF HolderInv, NewConnFails, UndoRegister, InHand
<1>3. serving' = serving
  BY <1>2, SameServing DEF NewConnFails, UndoRegister
<1> QED
  BY <1>1, <1>3 DEF Abstract!Refuse

\* bufferevent_free closes one of the worker's connections, and only that one.
LEMMA FreeCloses ==
    ASSUME HolderInv, NEW w \in Workers, NEW c \in Conns, Serves(w, c),
           FreeBufferevent(w, c), UNCHANGED <<wsfd, list_conn, conn_sfd, conn_thread>>
    PROVE  \E s \in Sfds : Abstract!Close(w, s)
<1>1. c \in registered /\ conn_thread[c] = w /\ registered \subseteq Conns
  BY DEF Serves, HolderInv, OwnerInv, PoolInv, TypeOK
<1>2. PICK r \in Sfds : r = conn_sfd[c]
  BY <1>1, ConnAlone
<1>3. \A d \in registered : conn_sfd[d] = r <=> d = c
  BY <1>1, <1>2, ConnAlone DEF AtConn
<1>4. registered' = registered \ {c}
  BY DEF FreeBufferevent
<1>5. ASSUME NEW v \in Workers
      PROVE  serving'[v] = IF v = w THEN serving[v] \ {r} ELSE serving[v]
  <2>1. ASSUME NEW s
        PROVE  s \in serving'[v] <=> s \in serving[v] /\ ~(v = w /\ s = r)
    <3>1. s \in serving'[v] <=>
            \E d \in registered' : conn_thread[d] = v /\ conn_sfd[d] = s
      BY <1>1, <1>4 DEF serving, Serves
    <3> QED
      BY <1>1, <1>3, <1>4, <3>1, ServingIs
  <2> QED
    BY <2>1
<1>6. serving' = [serving EXCEPT ![w] = serving[w] \ {r}]
  BY <1>5 DEF serving
<1>7. r \in serving[w]
  BY <1>1, <1>2, ServingIs
<1> QED
  BY <1>6, <1>7, SameInbox DEF Abstract!Close

(***************************************************************************)
(* Every other step leaves inboxes and served connections alone.           *)
(***************************************************************************)
LEMMA QuietStutters ==
    ASSUME UNCHANGED <<wsfd, list_conn, registered>>,
           \A c \in registered : conn_sfd'[c] = conn_sfd[c]
                                   /\ conn_thread'[c] = conn_thread[c]
    PROVE  Stutter
  BY SameInbox, SameServing DEF Stutter

LEMMA WorkerRefines ==
    ASSUME HolderInv, NEW w \in Workers, WorkerNext(w)
    PROVE  Abstract!Next \/ Stutter
<1>1. CASE PopFront(w)
  BY <1>1, PopStutters
<1>2. CASE RegisterConn(w)
  BY <1>2, RegisterServes DEF Abstract!Next
<1>3. CASE NewConnFails(w) \/ UndoRegister(w)
  BY <1>3, FailureRefuses DEF Abstract!Next
<1>4. ASSUME NEW c \in Conns, ClientTcpErrorCb(w, c) PROVE Abstract!Next
  BY <1>4, FreeCloses DEF ClientTcpErrorCb, Abstract!Next
<1>5. ASSUME NEW c \in Conns, NEW tokenOk \in BOOLEAN, NEW n \in 0 .. MaxLines,
             ReadChunk(w, c, tokenOk, n)
      PROVE  Abstract!Next \/ Stutter
  <2>1. CASE isVerify[c] \/ tokenOk
    BY <1>5, <2>1, QuietStutters DEF ReadChunk
  <2>2. CASE ~(isVerify[c] \/ tokenOk)
    BY <1>5, <2>2, FreeCloses DEF ReadChunk, Abstract!Next
  <2> QED
    BY <2>1, <2>2
<1>6. CASE RegisterFails(w)
  <2>1. wconn[w] \notin registered
    BY <1>6 DEF RegisterFails, HolderInv, OwnerInv, ConnHasOneOwner, HandConnsUnowned,
        InHand
  <2>2. \A c \in registered : conn_sfd'[c] = conn_sfd[c] /\ conn_thread'[c] = conn_thread[c]
    BY <1>6, <2>1 DEF RegisterFails, HolderInv, OwnerInv, PoolInv, TypeOK
  <2> QED
    BY <1>6, <2>2, QuietStutters DEF RegisterFails
<1>7. CASE \/ ReadPipe(w) \/ (\E garbage \in BOOLEAN : NewConn(w, garbage))
           \/ NextCommand(w) \/ NextMalformed(w) \/ LinesDone(w)
           \/ QueryWithReply(w) \/ QueryWithoutReply(w)
           \/ WriteReturns(w) \/ WriteSpins(w) \/ WriteKills(w)
           \/ GetConnFromFreelist(w) \/ LockForCommand(w)
  <2>1. UNCHANGED <<wsfd, list_conn, registered, conn_sfd, conn_thread>>
    BY <1>7 DEF ReadPipe, NewConn, NextCommand, NextMalformed, LinesDone, QueryWithReply,
        QueryWithoutReply, WriteReturns, WriteSpins, WriteKills, GetConnFromFreelist,
        LockForCommand
  <2> QED
    BY <2>1, QuietStutters
<1>8. CASE RecycleConn(w)
  <2>1. \A c \in registered : conn_sfd'[c] = conn_sfd[c] /\ conn_thread'[c] = conn_thread[c]
    BY <1>8, GivingBackIsQuiet DEF HolderInv, RecycleConn, InHand
  <2> QED
    BY <1>8, <2>1, QuietStutters DEF RecycleConn
<1> QED
  BY <1>1, <1>2, <1>3, <1>4, <1>5, <1>6, <1>7, <1>8
  DEF WorkerNext, CallbackStep, LockStep, Die

LEMMA StepRefines ==
    HolderInv /\ [Next]_vars => [Abstract!Next]_(Abstract!vars)
<1> SUFFICES ASSUME HolderInv, [Next]_vars
             PROVE  Abstract!Next \/ Stutter
  BY DEF Stutter, Abstract!vars
<1>1. CASE DispatchPush
  BY <1>1, PushHands DEF Abstract!Next
<1>2. CASE \/ (\E s \in Sfds : Accept(s)) \/ SetNoBlockFails \/ DispatchNotify
           \/ DispatchNotifyFails \/ ClientNext \/ UNCHANGED vars
  <2>1. UNCHANGED <<wsfd, list_conn, registered, conn_sfd, conn_thread>>
    BY <1>2 DEF Accept, SetNoBlockFails, DispatchNotify, DispatchNotifyFails, ClientNext,
        Stall, Resume, Reset, vars
  <2> QED
    BY <2>1, QuietStutters
<1> QED
  BY <1>1, <1>2, WorkerRefines DEF Next, MasterStep

LEMMA InitRefines == Init => Abstract!Init
<1> SUFFICES ASSUME Init PROVE Abstract!Init
  OBVIOUS
<1>1. inbox = [w \in Workers |-> <<>>]
  <2>1. <<>> \o <<>> = <<>>
    OBVIOUS
  <2> QED
    BY <2>1 DEF Init, inbox
<1>2. serving = [w \in Workers |-> {}]
  BY DEF Init, serving, Serves
<1> QED
  BY <1>1, <1>2 DEF Abstract!Init

(***************************************************************************)
(* The pipes, queues, mutex and recycled CONN objects implement Handoff: a *)
(* connection is handed to one worker, served in the order of hand-over by *)
(* that worker only, and its descriptor is handed out again only when      *)
(* nobody holds it.                                                        *)
(***************************************************************************)
THEOREM HandoffRefinement == Spec => ImplementsHandoff
<1>1. Spec => []HolderInv
  BY HolderInit, HolderStep, PTL DEF Spec
<1>2. Spec => Abstract!Spec
  BY <1>1, InitRefines, StepRefines, PTL DEF Spec, Abstract!Spec
<1> QED
  BY <1>2 DEF ImplementsHandoff

=============================================================================
