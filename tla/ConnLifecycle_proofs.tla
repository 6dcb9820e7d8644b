------------------------ MODULE ConnLifecycle_proofs ------------------------
(***************************************************************************)
(* ConnLifecycle for any number of workers, descriptors and CONN objects,  *)
(* any pipe capacity and any pool size, with every failure the model has:  *)
(* types, the free list inside its vector, a queued connection for every   *)
(* notification byte and a byte for every queued connection, and one owner *)
(* for every CONN ever allocated.                                          *)
(***************************************************************************)
EXTENDS ConnLifecycle, TLAPS

USE DEF masterVars, queueVars, workerVars, poolVars, connVars, sockVars, push_back,
    pop_front, NextThread, SizeForOneMore, AfterAdd, AfterGet, BytesRead, Unlocked

(***************************************************************************)
(* Inductive invariants.  PoolInv: the types need the master's locals to   *)
(* be set where it uses them, the free list to stay inside its vector and  *)
(* no CONN pointer in use to be NULL.                                      *)
(***************************************************************************)
MasterInv ==
    /\ mpc = "accepted" => msfd \in Sfds
    /\ mpc = "notify" => last_thread_ \in Workers

PointersInv ==
    /\ \A w \in Workers : InHand(w) => wconn[w] \in Conns
    /\ \A i \in FreeSlots : vec_freeconn_[i] \in Conns

PoolInv == TypeOK /\ MasterInv /\ FreelistInBounds /\ PointersInv

(***************************************************************************)
(* OwnerInv adds what ConnHasOneOwner rests on: a registered CONN exists.  *)
(***************************************************************************)
OwnerInv == PoolInv /\ ConnHasOneOwner /\ registered \subseteq allocated

LEMMA FreeIsNoWorker == Free \notin Workers /\ -1 \notin Workers
  BY ConnAssumption DEF Free, Workers

LEMMA RoundRobin ==
    ASSUME NEW t \in Workers \cup {-1}
    PROVE  (t + 1) % ThreadNum \in Workers
  BY ConnAssumption DEF Workers

LEMMA AddressIsNew ==
    ASSUME allocated \subseteq Conns, allocated # Conns
    PROVE  NewAddress \in Conns \ allocated
<1>1. \E c \in Conns : c \notin allocated
  OBVIOUS
<1> QED
  BY <1>1 DEF NewAddress

LEMMA AppendType ==
    ASSUME NEW S, NEW s \in Seq(S), NEW e \in S
    PROVE  Append(s, e) \in Seq(S) /\ Len(Append(s, e)) = Len(s) + 1
  OBVIOUS

LEMMA PopType ==
    ASSUME NEW S, NEW s \in Seq(S), s # <<>>
    PROVE  Head(s) \in S /\ Tail(s) \in Seq(S) /\ Len(Tail(s)) = Len(s) - 1
  OBVIOUS

LEMMA ExceptType ==
    ASSUME NEW A, NEW B, NEW f \in [A -> B], NEW a, NEW b \in B
    PROVE  [f EXCEPT ![a] = b] \in [A -> B]
  OBVIOUS

LEMMA PoolInit == Init => PoolInv
<1> SUFFICES ASSUME Init PROVE PoolInv
  OBVIOUS
<1> USE ConnAssumption DEF Init
<1>1. list_conn \in [Workers -> Seq(Sfds)]
  <2>1. <<>> \in Seq(Sfds)
    OBVIOUS
  <2> QED
    BY <2>1
<1>2. pipe \in [Workers -> 0 .. PipeCap] /\ lines \in [Workers -> 0 .. MaxLines]
  OBVIOUS
<1>3. /\ freetotal_ \in Nat \ {0}
      /\ freecurr_ \in Nat
      /\ vec_freeconn_ \in [0 .. freetotal_ - 1 -> Conns \cup {NULL}]
  OBVIOUS
<1>4. TypeOK
  BY <1>1, <1>2, <1>3 DEF TypeOK, WorkerStates, Free
<1>5. PointersInv
  BY DEF PointersInv, InHand, FreeSlots
<1> QED
  BY <1>4, <1>5 DEF PoolInv, MasterInv, FreelistInBounds

(***************************************************************************)
(* AddConnToFreelist keeps the pool well formed, growing it when it is     *)
(* full, and adds its argument to the free CONNs.                          *)
(***************************************************************************)
LEMMA AddConnPool ==
    ASSUME PoolInv, NEW c \in Conns, AddConnToFreelist(c)
    PROVE  /\ freetotal_' \in Nat \ {0}
           /\ freecurr_' \in Nat
           /\ freecurr_' = freecurr_ + 1
           /\ freecurr_' <= freetotal_'
           /\ vec_freeconn_' \in [0 .. freetotal_' - 1 -> Conns \cup {NULL}]
           /\ vec_freeconn_'[freecurr_] = c
           /\ \A i \in FreeSlots : vec_freeconn_'[i] = vec_freeconn_[i]
           /\ \A i \in FreeSlots' : vec_freeconn_'[i] \in Conns
<1>1. /\ freetotal_ \in Nat \ {0} /\ freecurr_ \in Nat /\ freecurr_ <= freetotal_
      /\ vec_freeconn_ \in [0 .. freetotal_ - 1 -> Conns \cup {NULL}]
      /\ \A i \in FreeSlots : vec_freeconn_[i] \in Conns
  BY DEF PoolInv, TypeOK, FreelistInBounds, PointersInv
<1>2. /\ freetotal_' \in Nat \ {0}
      /\ freecurr_' \in Nat
      /\ freecurr_' = freecurr_ + 1
      /\ freecurr_' <= freetotal_'
      /\ vec_freeconn_' \in [0 .. freetotal_' - 1 -> Conns \cup {NULL}]
  BY <1>1 DEF AddConnToFreelist
<1>3. /\ vec_freeconn_'[freecurr_] = c
      /\ \A i \in FreeSlots : vec_freeconn_'[i] = vec_freeconn_[i]
  BY <1>1 DEF AddConnToFreelist, FreeSlots
<1>4. \A i \in FreeSlots' : i \in FreeSlots \/ i = freecurr_
  BY <1>1, <1>2 DEF FreeSlots
<1> QED
  BY <1>1, <1>2, <1>3, <1>4

(***************************************************************************)
(* GetConnFromFreelist leaves the slots that remain in use as they are.    *)
(***************************************************************************)
LEMMA GetKeepsSlots ==
    ASSUME PoolInv, NEW w \in Workers, GetConnFromFreelist(w)
    PROVE  /\ FreeSlots' \subseteq FreeSlots
           /\ \A i \in FreeSlots' : vec_freeconn_'[i] = vec_freeconn_[i]
<1>1. /\ freecurr_ \in Nat /\ freetotal_ \in Nat /\ freecurr_ <= freetotal_
      /\ vec_freeconn_ \in [0 .. freetotal_ - 1 -> Conns \cup {NULL}]
  BY DEF PoolInv, TypeOK, FreelistInBounds
<1>2. CASE freecurr_ > 0
  <2>1. /\ freecurr_' = freecurr_ - 1
        /\ vec_freeconn_' = [vec_freeconn_ EXCEPT ![freecurr_ - 1] = NULL]
    BY <1>2 DEF GetConnFromFreelist
  <2>2. FreeSlots' \subseteq FreeSlots /\ freecurr_ - 1 \notin FreeSlots'
    BY <1>1, <1>2, <2>1 DEF FreeSlots
  <2>3. \A i \in FreeSlots : i \in 0 .. freetotal_ - 1
    BY <1>1 DEF FreeSlots
  <2> QED
    BY <1>1, <2>1, <2>2, <2>3
<1>3. CASE ~(freecurr_ > 0)
  BY <1>3 DEF GetConnFromFreelist, FreeSlots
<1> QED
  BY <1>2, <1>3

(***************************************************************************)
(* A step that changes neither the pool nor what the workers have in hand  *)
(* keeps PointersInv.                                                      *)
(***************************************************************************)
LEMMA SamePointers ==
    ASSUME PointersInv, UNCHANGED <<vec_freeconn_, freecurr_>>,
           \A w \in Workers : InHand(w)' => wconn'[w] \in Conns
    PROVE  PointersInv'
  BY DEF PointersInv, FreeSlots

LEMMA MasterPool ==
    ASSUME PoolInv, MasterStep \/ \E s \in Sfds : Accept(s)
    PROVE  PoolInv'
<1> USE ConnAssumption DEF PoolInv, TypeOK, MasterInv, FreelistInBounds
<1>1. ASSUME NEW s \in Sfds, Accept(s) PROVE PoolInv'
  BY <1>1 DEF Accept, PointersInv, InHand, FreeSlots
<1>2. CASE SetNoBlockFails
  BY <1>2 DEF SetNoBlockFails, CloseSfd, PointersInv, InHand, FreeSlots
<1>3. CASE DispatchPush
  <2> DEFINE tid == (last_thread_ + 1) % ThreadNum
  <2>1. tid \in Workers
    BY RoundRobin
  <2>2. list_conn' \in [Workers -> Seq(Sfds)]
    BY <1>3, <2>1, AppendType DEF DispatchPush
  <2> QED
    BY <1>3, <2>1, <2>2 DEF DispatchPush, PointersInv, InHand, FreeSlots
<1>4. CASE DispatchNotify
  BY <1>4 DEF DispatchNotify, PointersInv, InHand, FreeSlots
<1>5. CASE DispatchNotifyFails
  BY <1>5 DEF DispatchNotifyFails, PointersInv, InHand, FreeSlots
<1> QED
  BY <1>1, <1>2, <1>3, <1>4, <1>5 DEF MasterStep

(***************************************************************************)
(* The steps of a worker: first the variables that change, then the rest.  *)
(***************************************************************************)
LEMMA WorkerTypes ==
    ASSUME PoolInv
    PROVE  /\ wpc \in [Workers -> WorkerStates]
           /\ wsfd \in [Workers -> Sfds \cup {NULL}]
           /\ wconn \in [Workers -> Conns \cup {NULL}]
           /\ lines \in [Workers -> 0 .. MaxLines]
           /\ \A v \in Workers : InHand(v) => wconn[v] \in Conns
           /\ {"loop", "pop", "get", "new", "setup", "undo", "lines", "want",
               "query", "reply", "spin", "recycle"} \subseteq WorkerStates
  BY DEF PoolInv, TypeOK, PointersInv, WorkerStates

LEMMA CallbackPool ==
    ASSUME PoolInv, NEW w \in Workers, CallbackStep(w) \/ Die(w)
    PROVE  PoolInv'
<1>t. /\ wpc \in [Workers -> WorkerStates]
      /\ wsfd \in [Workers -> Sfds \cup {NULL}]
      /\ wconn \in [Workers -> Conns \cup {NULL}]
      /\ lines \in [Workers -> 0 .. MaxLines]
      /\ \A v \in Workers : InHand(v) => wconn[v] \in Conns
      /\ {"loop", "pop", "get", "new", "setup", "undo", "lines", "want",
          "query", "reply", "spin", "recycle"} \subseteq WorkerStates
  BY WorkerTypes
<1>p. PointersInv
  BY DEF PoolInv
<1>1. CASE PopFront(w)
  <2>1. CASE list_conn[w] = <<>>
    <3>1. wpc' \in [Workers -> WorkerStates]
      BY <1>1, <1>t, <2>1, ExceptType DEF PopFront
    <3>2. PointersInv'
      BY <1>1, <1>p, <1>t, <2>1, SamePointers DEF PopFront, InHand
    <3> QED
      BY <1>1, <2>1, <3>1, <3>2
      DEF PopFront, PoolInv, TypeOK, MasterInv, FreelistInBounds
  <2>2. CASE list_conn[w] # <<>>
    <3>0. list_conn \in [Workers -> Seq(Sfds)]
      BY DEF PoolInv, TypeOK
    <3>1. Head(list_conn[w]) \in Sfds /\ Tail(list_conn[w]) \in Seq(Sfds)
      BY <2>2, <3>0, PopType
    <3>2. wsfd' \in [Workers -> Sfds \cup {NULL}]
      BY <1>1, <1>t, <2>2, <3>1 DEF PopFront
    <3>3. list_conn' \in [Workers -> Seq(Sfds)]
      BY <1>1, <2>2, <3>0, <3>1 DEF PopFront
    <3>4. wpc' \in [Workers -> WorkerStates]
      BY <1>1, <1>t, <2>2, ExceptType DEF PopFront
    <3>5. PointersInv'
      BY <1>1, <1>p, <1>t, <2>2, SamePointers DEF PopFront, InHand
    <3> QED
      BY <1>1, <3>2, <3>3, <3>4, <3>5
      DEF PopFront, PoolInv, TypeOK, MasterInv, FreelistInBounds
  <2> QED
    BY <2>1, <2>2
<1>2. ASSUME NEW garbage \in BOOLEAN, NewConn(w, garbage)
      PROVE  PoolInv'
  <2>0. NewAddress \in Conns
    BY <1>2, AddressIsNew DEF NewConn, PoolInv, TypeOK
  <2>1. wpc' \in [Workers -> WorkerStates] /\ wconn' \in [Workers -> Conns \cup {NULL}]
    BY <1>2, <1>t, <2>0, ExceptType DEF NewConn
  <2>2. PointersInv'
    BY <1>2, <1>p, <1>t, <2>0, SamePointers DEF NewConn, InHand
  <2> QED
    BY <1>2, <2>0, <2>1, <2>2 DEF NewConn, PoolInv, TypeOK, MasterInv, FreelistInBounds
<1>3. CASE RegisterConn(w)
  <2>1. wconn[w] \in Conns
    BY <1>3, <1>t DEF RegisterConn, InHand
  <2>2. wpc' \in [Workers -> WorkerStates] /\ wconn' \in [Workers -> Conns \cup {NULL}]
        /\ wsfd' \in [Workers -> Sfds \cup {NULL}]
    BY <1>3, <1>t, ExceptType DEF RegisterConn
  <2>3. PointersInv'
    BY <1>3, <1>p, <1>t, SamePointers DEF RegisterConn, InHand
  <2> QED
    BY <1>3, <2>1, <2>2, <2>3
    DEF RegisterConn, PoolInv, TypeOK, MasterInv, FreelistInBounds
<1>4. CASE RegisterFails(w)
  <2>1. wpc' \in [Workers -> WorkerStates]
    BY <1>4, <1>t, ExceptType DEF RegisterFails
  <2>2. PointersInv'
    BY <1>4, <1>p, <1>t, SamePointers DEF RegisterFails, InHand
  <2> QED
    BY <1>4, <2>1, <2>2
    DEF RegisterFails, PoolInv, TypeOK, MasterInv, FreelistInBounds
<1>5. CASE NextCommand(w) \/ NextMalformed(w)
  <2>1. wpc' \in [Workers -> WorkerStates]
    BY <1>5, <1>t, ExceptType DEF NextCommand, NextMalformed
  <2>2. lines[w] - 1 \in 0 .. MaxLines
    BY <1>5, <1>t, ConnAssumption DEF NextCommand, NextMalformed
  <2>3. lines' \in [Workers -> 0 .. MaxLines]
    BY <1>5, <1>t, <2>2 DEF NextCommand, NextMalformed
  <2>4. PointersInv'
    BY <1>5, <1>p, <1>t, SamePointers DEF NextCommand, NextMalformed, InHand
  <2> QED
    BY <1>5, <2>1, <2>3, <2>4
    DEF NextCommand, NextMalformed, PoolInv, TypeOK, MasterInv, FreelistInBounds
<1>6. CASE LinesDone(w)
  <2>1. wpc' \in [Workers -> WorkerStates] /\ wconn' \in [Workers -> Conns \cup {NULL}]
    BY <1>6, <1>t, ExceptType DEF LinesDone
  <2>2. PointersInv'
    BY <1>6, <1>p, <1>t, SamePointers DEF LinesDone, InHand
  <2> QED
    BY <1>6, <2>1, <2>2 DEF LinesDone, PoolInv, TypeOK, MasterInv, FreelistInBounds
<1>7. CASE QueryWithReply(w) \/ QueryWithoutReply(w) \/ WriteReturns(w) \/ WriteSpins(w)
  <2>1. wpc' \in [Workers -> WorkerStates]
    BY <1>7, <1>t, ExceptType
    DEF QueryWithReply, QueryWithoutReply, WriteReturns, WriteSpins
  <2>2. PointersInv'
    BY <1>7, <1>p, <1>t, SamePointers
    DEF QueryWithReply, QueryWithoutReply, WriteReturns, WriteSpins, InHand
  <2>3. mutex_' \in Workers \cup {Free}
    BY <1>7 DEF QueryWithReply, QueryWithoutReply, WriteReturns, WriteSpins,
        PoolInv, TypeOK
  <2> QED
    BY <1>7, <2>1, <2>2, <2>3
    DEF QueryWithReply, QueryWithoutReply, WriteReturns, WriteSpins, PoolInv, TypeOK,
        MasterInv, FreelistInBounds
<1>8. CASE NewConnFails(w)
  <2>1. wpc' \in [Workers -> WorkerStates] /\ wsfd' \in [Workers -> Sfds \cup {NULL}]
    BY <1>8, <1>t, ExceptType DEF NewConnFails
  <2>2. PointersInv'
    BY <1>8, <1>p, <1>t, SamePointers DEF NewConnFails, InHand
  <2> QED
    BY <1>8, <2>1, <2>2
    DEF NewConnFails, CloseSfd, PoolInv, TypeOK, MasterInv, FreelistInBounds
<1>9. CASE WriteKills(w)
  <2>1. PointersInv'
    BY <1>9, <1>p, <1>t, SamePointers DEF WriteKills, InHand
  <2> QED
    BY <1>9, <2>1 DEF WriteKills, PoolInv, TypeOK, MasterInv, FreelistInBounds
<1> QED
  BY <1>1, <1>2, <1>3, <1>4, <1>5, <1>6, <1>7, <1>8, <1>9 DEF CallbackStep, Die

LEMMA LockPool ==
    ASSUME PoolInv, NEW w \in Workers, LockStep(w)
    PROVE  PoolInv'
<1>t. /\ wpc \in [Workers -> WorkerStates]
      /\ wsfd \in [Workers -> Sfds \cup {NULL}]
      /\ wconn \in [Workers -> Conns \cup {NULL}]
      /\ lines \in [Workers -> 0 .. MaxLines]
      /\ \A v \in Workers : InHand(v) => wconn[v] \in Conns
      /\ {"loop", "pop", "get", "new", "setup", "undo", "lines", "want",
          "query", "reply", "spin", "recycle"} \subseteq WorkerStates
  BY WorkerTypes
<1>p. PointersInv
  BY DEF PoolInv
<1>1. CASE GetConnFromFreelist(w)
  <2>1. wpc' \in [Workers -> WorkerStates]
    <3>1. wpc' = [wpc EXCEPT ![w] = "setup"] \/ wpc' = [wpc EXCEPT ![w] = "new"]
      BY <1>1 DEF GetConnFromFreelist
    <3> QED
      BY <1>t, <3>1, ExceptType
  <2>2. CASE freecurr_ > 0
    <3>1. freecurr_ - 1 \in FreeSlots /\ freecurr_ \in Nat
      BY <2>2 DEF PoolInv, TypeOK, FreeSlots
    <3>2. vec_freeconn_[freecurr_ - 1] \in Conns
      BY <1>p, <3>1 DEF PointersInv
    <3>3. wconn' \in [Workers -> Conns \cup {NULL}]
      BY <1>1, <1>t, <2>2, <3>2 DEF GetConnFromFreelist
    <3>4. PointersInv'
      <4>1. \A v \in Workers : InHand(v)' => wconn'[v] \in Conns
        BY <1>1, <1>t, <2>2, <3>2 DEF GetConnFromFreelist, InHand
      <4>2. /\ FreeSlots' \subseteq FreeSlots
            /\ \A i \in FreeSlots' : vec_freeconn_'[i] = vec_freeconn_[i]
        BY <1>1, GetKeepsSlots
      <4> QED
        BY <1>p, <4>1, <4>2 DEF PointersInv
    <3>5. freecurr_' \in Nat /\ freecurr_' <= freetotal_
      BY <1>1, <2>2, <3>1 DEF GetConnFromFreelist, PoolInv, TypeOK, FreelistInBounds
    <3>6. vec_freeconn_' \in [0 .. freetotal_ - 1 -> Conns \cup {NULL}]
      BY <1>1, <2>2 DEF GetConnFromFreelist, PoolInv, TypeOK
    <3> QED
      BY <1>1, <2>1, <3>3, <3>4, <3>5, <3>6
      DEF GetConnFromFreelist, PoolInv, TypeOK, MasterInv, FreelistInBounds
  <2>3. CASE ~(freecurr_ > 0)
    <3>1. PointersInv'
      BY <1>1, <1>p, <1>t, <2>3, SamePointers DEF GetConnFromFreelist, InHand
    <3> QED
      BY <1>1, <2>1, <2>3, <3>1
      DEF GetConnFromFreelist, PoolInv, TypeOK, MasterInv, FreelistInBounds
  <2> QED
    BY <2>2, <2>3
<1>2. CASE LockForCommand(w)
  <2>1. wpc' \in [Workers -> WorkerStates]
    BY <1>2, <1>t, ExceptType DEF LockForCommand
  <2>2. PointersInv'
    BY <1>2, <1>p, <1>t, SamePointers DEF LockForCommand, InHand
  <2> QED
    BY <1>2, <2>1, <2>2
    DEF LockForCommand, PoolInv, TypeOK, MasterInv, FreelistInBounds
<1>3. CASE UndoRegister(w) \/ RecycleConn(w)
  <2>1. wconn[w] \in Conns /\ AddConnToFreelist(wconn[w])
    BY <1>3, <1>t DEF UndoRegister, RecycleConn, InHand
  <2>2. /\ freetotal_' \in Nat \ {0}
        /\ freecurr_' \in Nat
        /\ freecurr_' <= freetotal_'
        /\ vec_freeconn_' \in [0 .. freetotal_' - 1 -> Conns \cup {NULL}]
        /\ \A i \in FreeSlots' : vec_freeconn_'[i] \in Conns
    BY <2>1, AddConnPool
  <2>3. wpc' \in [Workers -> WorkerStates] /\ wconn' \in [Workers -> Conns \cup {NULL}]
        /\ wsfd' \in [Workers -> Sfds \cup {NULL}]
    BY <1>3, <1>t, ExceptType DEF UndoRegister, RecycleConn
  <2>4. PointersInv'
    <3>1. \A v \in Workers : InHand(v)' => wconn'[v] \in Conns
      BY <1>3, <1>t DEF UndoRegister, RecycleConn, InHand
    <3> QED
      BY <2>2, <3>1 DEF PointersInv
  <2>5. open' \subseteq Sfds /\ client' \in [Sfds -> {"ok", "stalled", "reset"}]
    BY <1>3 DEF UndoRegister, RecycleConn, CloseSfd, PoolInv, TypeOK
  <2>6. UNCHANGED <<masterVars, queueVars, lines, mutex_, allocated, registered,
                    isVerify>>
        /\ crashed' \in BOOLEAN
    BY <1>3 DEF UndoRegister, RecycleConn, PoolInv, TypeOK
  <2>7. /\ conn_sfd' \in [Conns -> Sfds \cup {NULL}]
        /\ conn_thread' \in [Conns -> Workers \cup {-1}]
    BY <2>1 DEF AddConnToFreelist, PoolInv, TypeOK
  <2> QED
    BY <2>2, <2>3, <2>4, <2>5, <2>6, <2>7 DEF PoolInv, TypeOK, MasterInv, FreelistInBounds
<1> QED
  BY <1>1, <1>2, <1>3 DEF LockStep

LEMMA EventPool ==
    ASSUME PoolInv, NEW w \in Workers,
           \/ ReadPipe(w)
           \/ \E c \in Conns : ClientTcpErrorCb(w, c)
           \/ \E c \in Conns, tokenOk \in BOOLEAN, n \in 0 .. MaxLines :
                   ReadChunk(w, c, tokenOk, n)
    PROVE  PoolInv'
<1>t. /\ wpc \in [Workers -> WorkerStates]
      /\ wsfd \in [Workers -> Sfds \cup {NULL}]
      /\ wconn \in [Workers -> Conns \cup {NULL}]
      /\ lines \in [Workers -> 0 .. MaxLines]
      /\ \A v \in Workers : InHand(v) => wconn[v] \in Conns
      /\ {"loop", "pop", "get", "new", "setup", "undo", "lines", "want",
          "query", "reply", "spin", "recycle"} \subseteq WorkerStates
  BY WorkerTypes
<1>p. PointersInv
  BY DEF PoolInv
<1>1. CASE ReadPipe(w)
  <2>1. wpc' \in [Workers -> WorkerStates]
    BY <1>1, <1>t, ExceptType DEF ReadPipe
  <2>2. pipe' \in [Workers -> 0 .. PipeCap]
    BY <1>1, ConnAssumption DEF ReadPipe, PoolInv, TypeOK
  <2>3. PointersInv'
    BY <1>1, <1>p, <1>t, SamePointers DEF ReadPipe, InHand
  <2> QED
    BY <1>1, <2>1, <2>2, <2>3 DEF ReadPipe, PoolInv, TypeOK, MasterInv, FreelistInBounds
<1>2. ASSUME NEW c \in Conns, ClientTcpErrorCb(w, c) PROVE PoolInv'
  <2>1. wpc' \in [Workers -> WorkerStates] /\ wconn' \in [Workers -> Conns \cup {NULL}]
    BY <1>2, <1>t, ExceptType DEF ClientTcpErrorCb, FreeBufferevent
  <2>2. PointersInv'
    BY <1>2, <1>p, <1>t, SamePointers DEF ClientTcpErrorCb, FreeBufferevent, InHand
  <2> QED
    BY <1>2, <2>1, <2>2
    DEF ClientTcpErrorCb, FreeBufferevent, CloseSfd, PoolInv, TypeOK, MasterInv,
        FreelistInBounds
<1>3. ASSUME NEW c \in Conns, NEW tokenOk \in BOOLEAN, NEW n \in 0 .. MaxLines,
             ReadChunk(w, c, tokenOk, n)
      PROVE  PoolInv'
  <2>1. wconn' = [wconn EXCEPT ![w] = c]
        /\ (wpc' = [wpc EXCEPT ![w] = "lines"] \/ wpc' = [wpc EXCEPT ![w] = "recycle"])
    BY <1>3 DEF ReadChunk, FreeBufferevent
  <2>2. wpc' \in [Workers -> WorkerStates] /\ wconn' \in [Workers -> Conns \cup {NULL}]
    BY <1>t, <2>1, ExceptType
  <2>3. lines' \in [Workers -> 0 .. MaxLines]
    BY <1>3, <1>t, ExceptType DEF ReadChunk
  <2>4. /\ isVerify' \in [Conns -> BOOLEAN]
        /\ registered' \subseteq Conns
        /\ open' \subseteq Sfds
        /\ client' \in [Sfds -> {"ok", "stalled", "reset"}]
    BY <1>3 DEF ReadChunk, FreeBufferevent, CloseSfd, PoolInv, TypeOK
  <2>5. PointersInv'
    <3>1. \A v \in Workers : InHand(v)' => wconn'[v] \in Conns
      BY <1>t, <2>1 DEF InHand
    <3> QED
      BY <1>3, <1>p, <3>1, SamePointers DEF ReadChunk
  <2> QED
    BY <1>3, <2>2, <2>3, <2>4, <2>5
    DEF ReadChunk, PoolInv, TypeOK, MasterInv, FreelistInBounds
<1> QED
  BY <1>1, <1>2, <1>3

LEMMA ClientPool ==
    ASSUME PoolInv, ClientNext
    PROVE  PoolInv'
<1>1. PICK s \in Sfds : Stall(s) \/ Resume(s) \/ Reset(s)
  BY DEF ClientNext
<1>2. client' \in [Sfds -> {"ok", "stalled", "reset"}]
  BY <1>1 DEF Stall, Resume, Reset, PoolInv, TypeOK
<1>3. UNCHANGED <<masterVars, queueVars, workerVars, mutex_, poolVars, connVars,
                  open, crashed>>
  BY <1>1 DEF Stall, Resume, Reset
<1> QED
  BY <1>2, <1>3
  DEF PoolInv, TypeOK, MasterInv, FreelistInBounds, PointersInv, InHand, FreeSlots

LEMMA PoolStep == PoolInv /\ [Next]_vars => PoolInv'
<1> SUFFICES ASSUME PoolInv, [Next]_vars PROVE PoolInv'
  OBVIOUS
<1>1. CASE UNCHANGED vars
  BY <1>1 DEF vars, PoolInv, TypeOK, MasterInv, FreelistInBounds, PointersInv, InHand,
      FreeSlots
<1>2. CASE Next
  BY <1>2, MasterPool, CallbackPool, LockPool, EventPool, ClientPool
  DEF Next, WorkerNext
<1> QED
  BY <1>1, <1>2

(***************************************************************************)
(* Type correctness of the connection life cycle.                          *)
(***************************************************************************)
THEOREM TypeCorrect == Spec => []TypeOK
<1>1. PoolInv => TypeOK
  BY DEF PoolInv
<1> QED
  BY <1>1, PoolInit, PoolStep, PTL DEF Spec

(***************************************************************************)
(* The free list stays inside its vector: vec_freeconn_.at() never throws. *)
(***************************************************************************)
THEOREM FreelistBounded == Spec => []FreelistInBounds
<1>1. PoolInv => FreelistInBounds
  BY DEF PoolInv
<1> QED
  BY <1>1, PoolInit, PoolStep, PTL DEF Spec

-----------------------------------------------------------------------------
(* Notification bytes. *)

(***************************************************************************)
(* Steps that touch neither queues nor pipes, and neither begin nor end a  *)
(* pop or a notification, owe the same bytes.                              *)
(***************************************************************************)
LEMMA SameBytes ==
    ASSUME EveryByteFindsItsConn, UNCHANGED <<queueVars, last_thread_>>,
           mpc' = "notify" <=> mpc = "notify",
           \A w \in Workers : wpc'[w] = "pop" <=> wpc[w] = "pop"
    PROVE  EveryByteFindsItsConn'
  BY DEF EveryByteFindsItsConn, Owed

LEMMA BytesStep ==
    PoolInv /\ EveryByteFindsItsConn /\ [Next]_vars => EveryByteFindsItsConn'
<1> SUFFICES ASSUME PoolInv, EveryByteFindsItsConn, [Next]_vars
             PROVE  EveryByteFindsItsConn'
  OBVIOUS
<1>t. /\ wpc \in [Workers -> WorkerStates]
      /\ list_conn \in [Workers -> Seq(Sfds)]
      /\ pipe \in [Workers -> 0 .. PipeCap]
      /\ mpc = "accepted" => msfd \in Sfds
      /\ mpc = "notify" => last_thread_ \in Workers
      /\ last_thread_ \in Workers \cup {-1}
      /\ \A v \in Workers : Len(list_conn[v]) \in Nat /\ pipe[v] \in Nat
  BY ConnAssumption DEF PoolInv, TypeOK, MasterInv
<1>b. \A v \in Workers : Len(list_conn[v]) >= Owed(v)
  BY DEF EveryByteFindsItsConn
<1>1. ASSUME NEW s \in Sfds, Accept(s) PROVE EveryByteFindsItsConn'
  BY <1>1, SameBytes DEF Accept
<1>2. CASE SetNoBlockFails
  BY <1>2, SameBytes DEF SetNoBlockFails
<1>3. CASE DispatchPush
  <2>1. PICK t \in Workers : t = (last_thread_ + 1) % ThreadNum
    BY <1>t, RoundRobin
  <2>2. Len(list_conn'[t]) = Len(list_conn[t]) + 1
    BY <1>3, <1>t, <2>1, AppendType DEF DispatchPush
  <2>3. \A v \in Workers : v # t => list_conn'[v] = list_conn[v]
    BY <1>3, <1>t, <2>1 DEF DispatchPush
  <2>4. /\ Owed(t)' = Owed(t) + 1
        /\ \A v \in Workers : v # t => Owed(v)' = Owed(v)
    BY <1>3, <1>t, <2>1 DEF DispatchPush, Owed, workerVars
  <2>5. \A v \in Workers : Owed(v) \in Nat
    BY <1>t DEF Owed
  <2>6. ASSUME NEW v \in Workers PROVE Len(list_conn'[v]) >= Owed(v)'
    <3>1. CASE v = t
      BY <3>1, <1>b, <1>t, <2>1, <2>2, <2>4, <2>5
    <3>2. CASE v # t
      BY <3>2, <1>b, <2>3, <2>4
    <3> QED
      BY <3>1, <3>2
  <2> QED
    BY <2>6 DEF EveryByteFindsItsConn
<1>4. CASE DispatchNotify
  BY <1>4, <1>t, <1>b DEF DispatchNotify, EveryByteFindsItsConn, Owed
<1>5. CASE DispatchNotifyFails
  BY <1>5, <1>t, <1>b DEF DispatchNotifyFails, EveryByteFindsItsConn, Owed
<1>6. ASSUME NEW w \in Workers, ReadPipe(w) PROVE EveryByteFindsItsConn'
  BY <1>6, <1>t, <1>b DEF ReadPipe, EveryByteFindsItsConn, Owed
<1>7. ASSUME NEW w \in Workers, PopFront(w) PROVE EveryByteFindsItsConn'
  <2>1. list_conn[w] # <<>>
    BY <1>7, <1>t, <1>b DEF PopFront, Owed
  <2>2. Len(list_conn'[w]) = Len(list_conn[w]) - 1
    BY <1>7, <1>t, <2>1, PopType DEF PopFront
  <2>3. \A v \in Workers : v # w => list_conn'[v] = list_conn[v]
    BY <1>7, <1>t, <2>1 DEF PopFront
  <2>4. /\ Owed(w)' = Owed(w) - 1
        /\ \A v \in Workers : v # w => Owed(v)' = Owed(v)
    BY <1>7, <1>t, <2>1 DEF PopFront, Owed
  <2>5. \A v \in Workers : Owed(v) \in Nat
    BY <1>t DEF Owed
  <2>6. ASSUME NEW v \in Workers PROVE Len(list_conn'[v]) >= Owed(v)'
    <3>1. CASE v = w
      BY <3>1, <1>b, <1>t, <2>2, <2>4, <2>5
    <3>2. CASE v # w
      BY <3>2, <1>b, <2>3, <2>4
    <3> QED
      BY <3>1, <3>2
  <2> QED
    BY <2>6 DEF EveryByteFindsItsConn
<1>8. ASSUME NEW w \in Workers, LockStep(w) PROVE EveryByteFindsItsConn'
  BY <1>8, <1>t, SameBytes
  DEF LockStep, GetConnFromFreelist, LockForCommand, UndoRegister, RecycleConn
<1>9. ASSUME NEW w \in Workers, CallbackStep(w), ~PopFront(w)
      PROVE  EveryByteFindsItsConn'
  <2>1. UNCHANGED <<masterVars, queueVars>>
    BY <1>9 DEF CallbackStep, NewConn, RegisterConn, RegisterFails, NextCommand,
        NextMalformed, LinesDone, QueryWithReply, QueryWithoutReply, WriteReturns,
        WriteSpins
  <2>2. \A v \in Workers : wpc'[v] = "pop" <=> wpc[v] = "pop"
    BY <1>9, <1>t DEF CallbackStep, NewConn, RegisterConn, RegisterFails, NextCommand,
        NextMalformed, LinesDone, QueryWithReply, QueryWithoutReply, WriteReturns,
        WriteSpins
  <2> QED
    BY <2>1, <2>2, SameBytes
<1>10. ASSUME NEW w \in Workers, Die(w) PROVE EveryByteFindsItsConn'
  BY <1>10, <1>t, SameBytes DEF Die, NewConnFails, WriteKills
<1>11. ASSUME NEW w \in Workers, NEW c \in Conns, ClientTcpErrorCb(w, c)
       PROVE  EveryByteFindsItsConn'
  BY <1>11, <1>t, SameBytes DEF ClientTcpErrorCb, FreeBufferevent
<1>12. ASSUME NEW w \in Workers, NEW c \in Conns, NEW tokenOk \in BOOLEAN,
              NEW n \in 0 .. MaxLines, ReadChunk(w, c, tokenOk, n)
       PROVE  EveryByteFindsItsConn'
  BY <1>12, <1>t, SameBytes DEF ReadChunk, FreeBufferevent
<1>13. CASE ClientNext
  BY <1>13, SameBytes DEF ClientNext, Stall, Resume, Reset
<1>14. CASE UNCHANGED vars
  BY <1>14, SameBytes DEF vars
<1> QED
  BY <1>1, <1>2, <1>3, <1>4, <1>5, <1>6, <1>7, <1>8, <1>9, <1>10, <1>11, <1>12,
     <1>13, <1>14 DEF Next, MasterStep, WorkerNext

(***************************************************************************)
(* Every notification byte finds its connection: ReadPipeCb never pops an  *)
(* empty queue, for any number of workers and any pipe capacity, even when *)
(* notifications fail.                                                     *)
(***************************************************************************)
THEOREM BytesFindConns == Spec => []EveryByteFindsItsConn
<1>1. Init => EveryByteFindsItsConn
  BY ConnAssumption DEF Init, EveryByteFindsItsConn, Owed
<1> QED
  BY <1>1, PoolInit, PoolStep, BytesStep, PTL DEF Spec

(***************************************************************************)
(* The same two facts for NoConnStranded: what keeps the count, and every  *)
(* step when notifications do not fail.                                    *)
(***************************************************************************)
LEMMA SameQueues ==
    ASSUME NoConnStranded, UNCHANGED <<queueVars, last_thread_>>,
           mpc' = "notify" <=> mpc = "notify",
           \A w \in Workers : wpc'[w] = "pop" <=> wpc[w] = "pop"
    PROVE  NoConnStranded'
  BY DEF NoConnStranded, Owed

LEMMA StrandedStep ==
    PoolInv /\ EveryByteFindsItsConn /\ NoConnStranded /\ [Next]_vars => NoConnStranded'
<1> SUFFICES ASSUME PoolInv, EveryByteFindsItsConn, NoConnStranded, [Next]_vars,
                    ~NotifyMayFail
             PROVE  NoConnStranded'
  BY DEF NoConnStranded
<1>t. /\ wpc \in [Workers -> WorkerStates]
      /\ list_conn \in [Workers -> Seq(Sfds)]
      /\ pipe \in [Workers -> 0 .. PipeCap]
      /\ mpc = "accepted" => msfd \in Sfds
      /\ mpc = "notify" => last_thread_ \in Workers
      /\ last_thread_ \in Workers \cup {-1}
      /\ \A v \in Workers : Len(list_conn[v]) \in Nat /\ pipe[v] \in Nat
  BY ConnAssumption DEF PoolInv, TypeOK, MasterInv
<1>b. /\ \A v \in Workers : Len(list_conn[v]) <= Owed(v)
      /\ \A v \in Workers : Len(list_conn[v]) >= Owed(v)
      /\ \A v \in Workers : Owed(v) \in Nat
  BY <1>t DEF NoConnStranded, EveryByteFindsItsConn, Owed
<1>1. CASE (\E s \in Sfds : Accept(s)) \/ SetNoBlockFails \/ ClientNext \/ UNCHANGED vars
  BY <1>1, SameQueues
  DEF Accept, SetNoBlockFails, ClientNext, Stall, Resume, Reset, vars
<1>2. CASE DispatchPush
  <2>1. PICK t \in Workers : t = (last_thread_ + 1) % ThreadNum
    BY <1>t, RoundRobin
  <2>2. Len(list_conn'[t]) = Len(list_conn[t]) + 1
    BY <1>2, <1>t, <2>1, AppendType DEF DispatchPush
  <2>3. \A v \in Workers : v # t => list_conn'[v] = list_conn[v]
    BY <1>2, <1>t, <2>1 DEF DispatchPush
  <2>4. /\ Owed(t)' = Owed(t) + 1
        /\ \A v \in Workers : v # t => Owed(v)' = Owed(v)
    BY <1>2, <1>t, <2>1 DEF DispatchPush, Owed
  <2>5. ASSUME NEW v \in Workers PROVE Len(list_conn'[v]) <= Owed(v)'
    <3>1. CASE v = t
      BY <3>1, <1>b, <1>t, <2>1, <2>2, <2>4
    <3>2. CASE v # t
      BY <3>2, <1>b, <2>3, <2>4
    <3> QED
      BY <3>1, <3>2
  <2> QED
    BY <2>5 DEF NoConnStranded
<1>3. CASE DispatchNotify
  <2>1. \A v \in Workers : Owed(v)' = Owed(v)
    BY <1>3, <1>t DEF DispatchNotify, Owed
  <2> QED
    BY <1>3, <1>b, <2>1 DEF DispatchNotify, NoConnStranded
<1>4. ASSUME DispatchNotifyFails PROVE FALSE
  BY <1>4 DEF DispatchNotifyFails
<1>5. ASSUME NEW w \in Workers, ReadPipe(w) PROVE NoConnStranded'
  <2>1. \A v \in Workers : Owed(v)' = Owed(v)
    BY <1>5, <1>t DEF ReadPipe, Owed
  <2> QED
    BY <1>5, <1>b, <2>1 DEF ReadPipe, NoConnStranded
<1>6. ASSUME NEW w \in Workers, PopFront(w) PROVE NoConnStranded'
  <2>1. list_conn[w] # <<>>
    BY <1>6, <1>t, <1>b DEF PopFront, Owed
  <2>2. Len(list_conn'[w]) = Len(list_conn[w]) - 1
    BY <1>6, <1>t, <2>1, PopType DEF PopFront
  <2>3. \A v \in Workers : v # w => list_conn'[v] = list_conn[v]
    BY <1>6, <1>t, <2>1 DEF PopFront
  <2>4. /\ Owed(w)' = Owed(w) - 1
        /\ \A v \in Workers : v # w => Owed(v)' = Owed(v)
    BY <1>6, <1>t, <2>1 DEF PopFront, Owed
  <2>5. ASSUME NEW v \in Workers PROVE Len(list_conn'[v]) <= Owed(v)'
    <3>1. CASE v = w
      BY <3>1, <1>b, <1>t, <2>2, <2>4
    <3>2. CASE v # w
      BY <3>2, <1>b, <2>3, <2>4
    <3> QED
      BY <3>1, <3>2
  <2> QED
    BY <2>5 DEF NoConnStranded
<1>7. ASSUME NEW w \in Workers, LockStep(w) \/ Die(w) PROVE NoConnStranded'
  BY <1>7, <1>t, SameQueues
  DEF LockStep, GetConnFromFreelist, LockForCommand, UndoRegister, RecycleConn, Die,
      NewConnFails, WriteKills
<1>8. ASSUME NEW w \in Workers, CallbackStep(w), ~PopFront(w)
      PROVE  NoConnStranded'
  <2>1. UNCHANGED <<masterVars, queueVars>>
    BY <1>8 DEF CallbackStep, NewConn, RegisterConn, RegisterFails, NextCommand,
        NextMalformed, LinesDone, QueryWithReply, QueryWithoutReply, WriteReturns,
        WriteSpins
  <2>2. \A v \in Workers : wpc'[v] = "pop" <=> wpc[v] = "pop"
    BY <1>8, <1>t DEF CallbackStep, NewConn, RegisterConn, RegisterFails, NextCommand,
        NextMalformed, LinesDone, QueryWithReply, QueryWithoutReply, WriteReturns,
        WriteSpins
  <2> QED
    BY <2>1, <2>2, SameQueues
<1>9. ASSUME NEW w \in Workers, NEW c \in Conns, ClientTcpErrorCb(w, c)
      PROVE  NoConnStranded'
  BY <1>9, <1>t, SameQueues DEF ClientTcpErrorCb, FreeBufferevent
<1>10. ASSUME NEW w \in Workers, NEW c \in Conns, NEW tokenOk \in BOOLEAN,
              NEW n \in 0 .. MaxLines, ReadChunk(w, c, tokenOk, n)
       PROVE  NoConnStranded'
  BY <1>10, <1>t, SameQueues DEF ReadChunk, FreeBufferevent
<1> QED
  BY <1>1, <1>2, <1>3, <1>4, <1>5, <1>6, <1>7, <1>8, <1>9, <1>10
  DEF Next, MasterStep, WorkerNext

(***************************************************************************)
(* No connection is stranded: where writes to the pipe do not fail, every  *)
(* queued connection is covered by a byte that will fetch it.              *)
(***************************************************************************)
THEOREM NobodyStranded == Spec => []NoConnStranded
<1>1. Init => EveryByteFindsItsConn /\ NoConnStranded
  BY ConnAssumption DEF Init, EveryByteFindsItsConn, NoConnStranded, Owed
<1> QED
  BY <1>1, PoolInit, PoolStep, BytesStep, StrandedStep, PTL DEF Spec

-----------------------------------------------------------------------------
(* Ownership of CONN objects. *)

(***************************************************************************)
(* A step that moves no CONN between the free list, the hands of workers   *)
(* and the registered ones, and whose callbacks work on CONNs they serve,  *)
(* keeps OwnerInv.                                                         *)
(***************************************************************************)
LEMMA SameOwners ==
    ASSUME ConnHasOneOwner,
           UNCHANGED <<vec_freeconn_, freecurr_, allocated, registered>>,
           \A v \in Workers : InHand(v)' => InHand(v) /\ wconn'[v] = wconn[v],
           \A v \in Workers : InCallback(v)' => Serves(v, wconn[v])'
    PROVE  ConnHasOneOwner'
<1>1. FreeSlots' = FreeSlots
  BY DEF FreeSlots
<1>2. FreeConnsUnowned'
  BY <1>1 DEF ConnHasOneOwner, FreeConnsUnowned
<1>3. HandConnsUnowned'
  BY <1>1 DEF ConnHasOneOwner, HandConnsUnowned
<1>4. CallbackConnsServed'
  BY DEF CallbackConnsServed
<1> QED
  BY <1>2, <1>3, <1>4 DEF ConnHasOneOwner

(***************************************************************************)
(* Whoever is in a callback still serves its CONN when the step leaves the *)
(* callback's CONN, its registration and its thread alone.                 *)
(***************************************************************************)
LEMMA StillServes ==
    ASSUME ConnHasOneOwner, UNCHANGED <<registered, conn_thread>>,
           NEW v \in Workers, InCallback(v), wconn'[v] = wconn[v]
    PROVE  Serves(v, wconn[v])'
  BY DEF ConnHasOneOwner, CallbackConnsServed, Serves

(***************************************************************************)
(* GetConnFromFreelist moves the last free CONN into a worker's hand.      *)
(***************************************************************************)
LEMMA TakeFree ==
    ASSUME OwnerInv, NEW w \in Workers, GetConnFromFreelist(w), freecurr_ > 0
    PROVE  ConnHasOneOwner'
<1> DEFINE last == freecurr_ - 1
<1>1. /\ last \in FreeSlots /\ last \notin FreeSlots'
  BY DEF OwnerInv, PoolInv, TypeOK, FreeSlots, GetConnFromFreelist
<1>0. /\ FreeSlots' \subseteq FreeSlots
      /\ \A i \in FreeSlots' : vec_freeconn_'[i] = vec_freeconn_[i]
  BY GetKeepsSlots DEF OwnerInv
<1>2. /\ wpc[w] = "get" /\ wpc'[w] = "setup"
      /\ wconn'[w] = vec_freeconn_[last]
      /\ \A v \in Workers : v # w => wpc'[v] = wpc[v] /\ wconn'[v] = wconn[v]
      /\ UNCHANGED <<allocated, registered, conn_thread>>
  BY DEF OwnerInv, PoolInv, TypeOK, GetConnFromFreelist
<1>3. FreeConnsUnowned /\ HandConnsUnowned /\ CallbackConnsServed
  BY DEF OwnerInv, ConnHasOneOwner
<1>4. /\ \A v \in Workers : v # w => (InHand(v)' <=> InHand(v))
      /\ \A v \in Workers : InCallback(v)' => v # w /\ InCallback(v)
      /\ InHand(w)' /\ ~InHand(w)
  BY <1>2 DEF InHand, InCallback
<1>5. FreeConnsUnowned'
  BY <1>0, <1>2, <1>3 DEF FreeConnsUnowned
<1>6. HandConnsUnowned'
  <2> HIDE DEF last
  <2>1. ASSUME NEW i \in FreeSlots' PROVE vec_freeconn_'[i] # wconn'[w]
    BY <1>0, <1>1, <1>2, <1>3, <2>1 DEF FreeConnsUnowned
  <2>2. ASSUME NEW v \in Workers, v # w, InHand(v)
        PROVE  wconn[v] # wconn'[w]
    BY <1>1, <1>2, <1>3, <2>2 DEF HandConnsUnowned
  <2>3. wconn'[w] \in allocated \ registered
    BY <1>1, <1>2, <1>3 DEF FreeConnsUnowned
  <2> QED
    BY <1>0, <1>2, <1>3, <1>4, <2>1, <2>2, <2>3 DEF HandConnsUnowned
<1>7. CallbackConnsServed'
  BY <1>2, <1>3, <1>4 DEF CallbackConnsServed, Serves
<1> QED
  BY <1>5, <1>6, <1>7 DEF ConnHasOneOwner

(***************************************************************************)
(* new CONN: the address was nobody's.                                     *)
(***************************************************************************)
LEMMA TakeNew ==
    ASSUME OwnerInv, NEW w \in Workers, NEW garbage \in BOOLEAN, NewConn(w, garbage)
    PROVE  ConnHasOneOwner' /\ (registered \subseteq allocated)'
<1> DEFINE c == NewAddress
<1>0. c \in Conns \ allocated
  BY AddressIsNew DEF NewConn, OwnerInv, PoolInv, TypeOK
<1>1. /\ wpc[w] = "new" /\ wpc'[w] = "setup"
      /\ wconn'[w] = c
      /\ c \in Conns /\ c \notin allocated
      /\ allocated' = allocated \cup {c}
      /\ \A v \in Workers : v # w => wpc'[v] = wpc[v] /\ wconn'[v] = wconn[v]
      /\ UNCHANGED <<registered, conn_thread, vec_freeconn_, freecurr_>>
  BY <1>0 DEF OwnerInv, PoolInv, TypeOK, NewConn
<1> HIDE DEF c
<1>2. FreeSlots' = FreeSlots
  BY <1>1 DEF FreeSlots
<1>3. FreeConnsUnowned /\ HandConnsUnowned /\ CallbackConnsServed
      /\ registered \subseteq allocated
  BY DEF OwnerInv, ConnHasOneOwner
<1>4. /\ \A v \in Workers : v # w => (InHand(v)' <=> InHand(v))
      /\ \A v \in Workers : InCallback(v)' => v # w /\ InCallback(v)
      /\ InHand(w)' /\ ~InHand(w)
  BY <1>1 DEF InHand, InCallback
<1>5. FreeConnsUnowned'
  BY <1>1, <1>2, <1>3 DEF FreeConnsUnowned
<1>6. HandConnsUnowned'
  <2>1. ASSUME NEW i \in FreeSlots PROVE vec_freeconn_[i] # c
    BY <1>1, <1>3, <2>1 DEF FreeConnsUnowned
  <2>2. ASSUME NEW v \in Workers, v # w, InHand(v) PROVE wconn[v] # c
    BY <1>1, <1>3, <2>2 DEF HandConnsUnowned
  <2> QED
    BY <1>1, <1>2, <1>3, <1>4, <2>1, <2>2 DEF HandConnsUnowned
<1>7. CallbackConnsServed'
  BY <1>1, <1>3, <1>4 DEF CallbackConnsServed, Serves
<1> QED
  BY <1>1, <1>3, <1>5, <1>6, <1>7 DEF ConnHasOneOwner

(***************************************************************************)
(* RegisterConn moves a CONN from a worker's hand to the registered ones.  *)
(***************************************************************************)
LEMMA HandToLoop ==
    ASSUME OwnerInv, NEW w \in Workers, RegisterConn(w)
    PROVE  ConnHasOneOwner'
<1>1. /\ wpc[w] = "setup" /\ wpc'[w] = "loop"
      /\ registered' = registered \cup {wconn[w]}
      /\ \A v \in Workers : v # w => wpc'[v] = wpc[v] /\ wconn'[v] = wconn[v]
      /\ \A d \in Conns : d # wconn[w] => conn_thread'[d] = conn_thread[d]
      /\ UNCHANGED <<allocated, vec_freeconn_, freecurr_>>
  BY DEF OwnerInv, PoolInv, TypeOK, RegisterConn
<1>2. FreeSlots' = FreeSlots
  BY <1>1 DEF FreeSlots
<1>3. FreeConnsUnowned /\ HandConnsUnowned /\ CallbackConnsServed
      /\ registered \subseteq Conns
  BY DEF OwnerInv, ConnHasOneOwner, PoolInv, TypeOK
<1>4. /\ \A v \in Workers : InHand(v)' => v # w /\ InHand(v)
      /\ \A v \in Workers : InCallback(v)' => v # w /\ InCallback(v)
      /\ InHand(w)
  BY <1>1 DEF InHand, InCallback
<1>5. wconn[w] \notin registered
      /\ \A i \in FreeSlots : vec_freeconn_[i] # wconn[w]
      /\ \A v \in Workers : InHand(v) /\ wconn[v] = wconn[w] => v = w
  BY <1>3, <1>4 DEF HandConnsUnowned
<1>6. FreeConnsUnowned'
  BY <1>1, <1>2, <1>3, <1>5 DEF FreeConnsUnowned
<1>7. HandConnsUnowned'
  BY <1>1, <1>2, <1>3, <1>4, <1>5 DEF HandConnsUnowned
<1>8. CallbackConnsServed'
  BY <1>1, <1>3, <1>4, <1>5 DEF CallbackConnsServed, Serves
<1> QED
  BY <1>6, <1>7, <1>8 DEF ConnHasOneOwner

(***************************************************************************)
(* bufferevent_free moves a registered CONN into the hand of the worker    *)
(* that serves it, which is in its event loop and so in no other callback. *)
(***************************************************************************)
LEMMA LoopToHand ==
    ASSUME OwnerInv, NEW w \in Workers, NEW c \in Conns,
           wpc[w] = "loop", Serves(w, c), FreeBufferevent(w, c),
           UNCHANGED <<allocated, vec_freeconn_, freecurr_, conn_thread>>
    PROVE  ConnHasOneOwner'
<1>1. /\ wpc'[w] = "recycle" /\ wconn'[w] = c
      /\ registered' = registered \ {c}
      /\ \A v \in Workers : v # w => wpc'[v] = wpc[v] /\ wconn'[v] = wconn[v]
  BY DEF OwnerInv, PoolInv, TypeOK, FreeBufferevent
<1>2. FreeSlots' = FreeSlots
  BY DEF FreeSlots
<1>3. FreeConnsUnowned /\ HandConnsUnowned /\ CallbackConnsServed
      /\ registered \subseteq allocated
  BY DEF OwnerInv, ConnHasOneOwner
<1>4. /\ \A v \in Workers : v # w => (InHand(v)' <=> InHand(v))
      /\ \A v \in Workers : InCallback(v)' => v # w /\ InCallback(v)
      /\ InHand(w)' /\ ~InHand(w)
  BY <1>1 DEF InHand, InCallback
<1>5. c \in registered /\ conn_thread[c] = w
  BY DEF Serves
<1>6. FreeConnsUnowned'
  BY <1>1, <1>2, <1>3 DEF FreeConnsUnowned
<1>7. HandConnsUnowned'
  <2>1. ASSUME NEW i \in FreeSlots PROVE vec_freeconn_[i] # c
    BY <1>3, <1>5, <2>1 DEF FreeConnsUnowned
  <2>2. ASSUME NEW v \in Workers, v # w, InHand(v) PROVE wconn[v] # c
    BY <1>3, <1>5, <2>2 DEF HandConnsUnowned
  <2> QED
    BY <1>1, <1>2, <1>3, <1>4, <1>5, <2>1, <2>2 DEF HandConnsUnowned
<1>8. CallbackConnsServed'
  BY <1>1, <1>3, <1>4, <1>5 DEF CallbackConnsServed, Serves
<1> QED
  BY <1>6, <1>7, <1>8 DEF ConnHasOneOwner

(***************************************************************************)
(* AddConnToFreelist moves a CONN from a worker's hand to the free list.   *)
(***************************************************************************)
LEMMA HandToFree ==
    ASSUME OwnerInv, NEW w \in Workers, UndoRegister(w) \/ RecycleConn(w)
    PROVE  ConnHasOneOwner'
<1>1. /\ wpc[w] \in {"undo", "recycle"} /\ wpc'[w] = "loop"
      /\ AddConnToFreelist(wconn[w])
      /\ \A v \in Workers : v # w => wpc'[v] = wpc[v] /\ wconn'[v] = wconn[v]
      /\ UNCHANGED <<allocated, registered>>
  BY DEF OwnerInv, PoolInv, TypeOK, UndoRegister, RecycleConn
<1>2. InHand(w) /\ wconn[w] \in Conns
  BY <1>1 DEF InHand, OwnerInv, PoolInv, PointersInv
<1>3. /\ vec_freeconn_'[freecurr_] = wconn[w]
      /\ freecurr_' = freecurr_ + 1
      /\ \A i \in FreeSlots : vec_freeconn_'[i] = vec_freeconn_[i]
  BY <1>1, <1>2, AddConnPool DEF OwnerInv
<1>4. \A i \in FreeSlots' : i \in FreeSlots \/ i = freecurr_
  BY <1>3 DEF FreeSlots, OwnerInv, PoolInv, TypeOK
<1>5. FreeConnsUnowned /\ HandConnsUnowned /\ CallbackConnsServed
  BY DEF OwnerInv, ConnHasOneOwner
<1>6. /\ \A v \in Workers : InHand(v)' => v # w /\ InHand(v)
      /\ \A v \in Workers : InCallback(v)' => v # w /\ InCallback(v)
  BY <1>1 DEF InHand, InCallback
<1>7. /\ wconn[w] \in allocated \ registered
      /\ \A i \in FreeSlots : vec_freeconn_[i] # wconn[w]
      /\ \A v \in Workers : InHand(v) /\ wconn[v] = wconn[w] => v = w
  BY <1>2, <1>5 DEF HandConnsUnowned
<1>8. FreeConnsUnowned'
  BY <1>1, <1>3, <1>4, <1>5, <1>7 DEF FreeConnsUnowned
<1>9. HandConnsUnowned'
  BY <1>1, <1>3, <1>4, <1>5, <1>6, <1>7 DEF HandConnsUnowned
<1>10. \A d \in registered : conn_thread'[d] = conn_thread[d]
  BY <1>1, <1>7 DEF AddConnToFreelist, OwnerInv, PoolInv, TypeOK
<1>11. CallbackConnsServed'
  BY <1>1, <1>5, <1>6, <1>10 DEF CallbackConnsServed, Serves
<1> QED
  BY <1>8, <1>9, <1>11 DEF ConnHasOneOwner

(***************************************************************************)
(* Steps of one worker that move no CONN: its hand does not fill, and a    *)
(* callback it is in it was in before, on the same CONN.                   *)
(***************************************************************************)
LEMMA QuietWorker ==
    ASSUME OwnerInv, NEW w \in Workers,
           UNCHANGED <<vec_freeconn_, freecurr_, allocated, registered, conn_thread>>,
           \A v \in Workers : v # w => wpc'[v] = wpc[v] /\ wconn'[v] = wconn[v],
           InHand(w)' => InHand(w) /\ wconn'[w] = wconn[w],
           InCallback(w)' => InCallback(w) /\ wconn'[w] = wconn[w]
    PROVE  ConnHasOneOwner'
<1>1. ConnHasOneOwner
  BY DEF OwnerInv
<1>2. \A v \in Workers : InHand(v)' => InHand(v) /\ wconn'[v] = wconn[v]
  BY DEF InHand
<1>3. \A v \in Workers : InCallback(v)' => InCallback(v) /\ wconn'[v] = wconn[v]
  BY DEF InCallback
<1>4. \A v \in Workers : InCallback(v)' => Serves(v, wconn[v])'
  BY <1>1, <1>3, StillServes
<1> QED
  BY <1>1, <1>2, <1>4, SameOwners

LEMMA CallbackOwners ==
    ASSUME OwnerInv, NEW w \in Workers, CallbackStep(w) \/ Die(w)
    PROVE  ConnHasOneOwner' /\ (registered \subseteq allocated)'
<1>t. /\ wpc \in [Workers -> WorkerStates]
      /\ wconn \in [Workers -> Conns \cup {NULL}]
      /\ conn_thread \in [Conns -> Workers \cup {-1}]
      /\ registered \subseteq allocated /\ registered \subseteq Conns
  BY DEF OwnerInv, PoolInv, TypeOK
<1>1. CASE PopFront(w)
  <2>1. wpc' = [wpc EXCEPT ![w] = "loop"] \/ wpc' = [wpc EXCEPT ![w] = "get"]
    BY <1>1 DEF PopFront
  <2> QED
    BY <1>1, <1>t, <2>1, QuietWorker DEF PopFront, InHand, InCallback
<1>2. ASSUME NEW garbage \in BOOLEAN, NewConn(w, garbage)
      PROVE  ConnHasOneOwner' /\ (registered \subseteq allocated)'
  BY <1>2, TakeNew
<1>3. CASE RegisterConn(w)
  <2>1. wconn[w] \in allocated
    BY <1>3 DEF RegisterConn, InHand, OwnerInv, ConnHasOneOwner, HandConnsUnowned
  <2> QED
    BY <1>3, <1>t, <2>1, HandToLoop DEF RegisterConn
<1>4. CASE RegisterFails(w)
  <2>1. ConnHasOneOwner
    BY DEF OwnerInv
  <2>2. wconn[w] \notin registered
    BY <1>4, <2>1 DEF RegisterFails, InHand, ConnHasOneOwner, HandConnsUnowned
  <2>3. /\ \A v \in Workers : InHand(v)' => InHand(v) /\ wconn'[v] = wconn[v]
        /\ \A v \in Workers : InCallback(v)' => InCallback(v) /\ wconn'[v] = wconn[v]
    BY <1>4, <1>t DEF RegisterFails, InHand, InCallback
  <2>4. \A d \in registered : conn_thread'[d] = conn_thread[d]
    BY <1>4, <1>t, <2>2 DEF RegisterFails
  <2>5. \A v \in Workers : InCallback(v)' => Serves(v, wconn[v])'
    BY <1>4, <2>1, <2>3, <2>4
    DEF RegisterFails, ConnHasOneOwner, CallbackConnsServed, Serves
  <2> QED
    BY <1>4, <1>t, <2>1, <2>3, <2>5, SameOwners DEF RegisterFails
<1>5. CASE NextCommand(w) \/ NextMalformed(w)
  BY <1>5, <1>t, QuietWorker DEF NextCommand, NextMalformed, InHand, InCallback
<1>6. CASE LinesDone(w)
  BY <1>6, <1>t, QuietWorker DEF LinesDone, InHand, InCallback
<1>7. CASE QueryWithReply(w) \/ QueryWithoutReply(w)
  BY <1>7, <1>t, QuietWorker DEF QueryWithReply, QueryWithoutReply, InHand, InCallback
<1>8. CASE WriteReturns(w) \/ WriteSpins(w)
  BY <1>8, <1>t, QuietWorker DEF WriteReturns, WriteSpins, InHand, InCallback
<1>9. CASE Die(w)
  BY <1>9, <1>t, QuietWorker DEF Die, NewConnFails, WriteKills, InHand, InCallback
<1> QED
  BY <1>1, <1>2, <1>3, <1>4, <1>5, <1>6, <1>7, <1>8, <1>9 DEF CallbackStep

LEMMA LockOwners ==
    ASSUME OwnerInv, NEW w \in Workers, LockStep(w)
    PROVE  ConnHasOneOwner' /\ (registered \subseteq allocated)'
<1>t. /\ wpc \in [Workers -> WorkerStates]
      /\ wconn \in [Workers -> Conns \cup {NULL}]
      /\ registered \subseteq allocated
  BY DEF OwnerInv, PoolInv, TypeOK
<1>1. CASE GetConnFromFreelist(w) /\ freecurr_ > 0
  BY <1>1, <1>t, TakeFree DEF GetConnFromFreelist
<1>2. CASE GetConnFromFreelist(w) /\ ~(freecurr_ > 0)
  BY <1>2, <1>t, QuietWorker DEF GetConnFromFreelist, InHand, InCallback
<1>3. CASE LockForCommand(w)
  BY <1>3, <1>t, QuietWorker DEF LockForCommand, InHand, InCallback
<1>4. CASE UndoRegister(w) \/ RecycleConn(w)
  BY <1>4, <1>t, HandToFree DEF UndoRegister, RecycleConn
<1> QED
  BY <1>1, <1>2, <1>3, <1>4 DEF LockStep

LEMMA EventOwners ==
    ASSUME OwnerInv, NEW w \in Workers,
           \/ ReadPipe(w)
           \/ \E c \in Conns : ClientTcpErrorCb(w, c)
           \/ \E c \in Conns, tokenOk \in BOOLEAN, n \in 0 .. MaxLines :
                   ReadChunk(w, c, tokenOk, n)
    PROVE  ConnHasOneOwner' /\ (registered \subseteq allocated)'
<1>t. /\ wpc \in [Workers -> WorkerStates]
      /\ wconn \in [Workers -> Conns \cup {NULL}]
      /\ registered \subseteq allocated
      /\ ConnHasOneOwner
  BY DEF OwnerInv, PoolInv, TypeOK
<1>1. CASE ReadPipe(w)
  BY <1>1, <1>t, QuietWorker DEF ReadPipe, InHand, InCallback
<1>2. ASSUME NEW c \in Conns, ClientTcpErrorCb(w, c)
      PROVE  ConnHasOneOwner' /\ (registered \subseteq allocated)'
  <2>1. ConnHasOneOwner'
    BY <1>2, LoopToHand DEF ClientTcpErrorCb
  <2> QED
    BY <1>2, <1>t, <2>1 DEF ClientTcpErrorCb, FreeBufferevent
<1>3. ASSUME NEW c \in Conns, NEW tokenOk \in BOOLEAN, NEW n \in 0 .. MaxLines,
             ReadChunk(w, c, tokenOk, n)
      PROVE  ConnHasOneOwner' /\ (registered \subseteq allocated)'
  <2>1. CASE isVerify[c] \/ tokenOk
    <3>1. /\ wpc'[w] = "lines" /\ wconn'[w] = c
          /\ \A v \in Workers : v # w => wpc'[v] = wpc[v] /\ wconn'[v] = wconn[v]
          /\ UNCHANGED <<vec_freeconn_, freecurr_, allocated, registered, conn_thread>>
      BY <1>3, <1>t, <2>1 DEF ReadChunk
    <3>2. Serves(w, wconn[w])'
      BY <1>3, <3>1 DEF ReadChunk, Serves
    <3>3. \A v \in Workers : InHand(v)' => InHand(v) /\ wconn'[v] = wconn[v]
      BY <3>1 DEF InHand
    <3>4. \A v \in Workers : v # w /\ InCallback(v)' =>
                                InCallback(v) /\ wconn'[v] = wconn[v]
      BY <3>1 DEF InCallback
    <3>5. \A v \in Workers : InCallback(v)' => Serves(v, wconn[v])'
      BY <1>t, <3>1, <3>2, <3>4, StillServes
    <3> QED
      BY <1>t, <3>1, <3>3, <3>5, SameOwners
  <2>2. CASE ~(isVerify[c] \/ tokenOk)
    <3>1. ConnHasOneOwner'
      BY <1>3, <2>2, LoopToHand DEF ReadChunk
    <3> QED
      BY <1>3, <1>t, <2>2, <3>1 DEF ReadChunk, FreeBufferevent
  <2> QED
    BY <2>1, <2>2
<1> QED
  BY <1>1, <1>2, <1>3

LEMMA OwnerInit == Init => OwnerInv
<1>1. Init => ConnHasOneOwner /\ registered \subseteq allocated
  BY DEF Init, ConnHasOneOwner, FreeConnsUnowned, HandConnsUnowned,
      CallbackConnsServed, FreeSlots, InHand, InCallback
<1> QED
  BY <1>1, PoolInit DEF OwnerInv

LEMMA OwnerStep == OwnerInv /\ [Next]_vars => OwnerInv'
<1> SUFFICES ASSUME OwnerInv, [Next]_vars
             PROVE  ConnHasOneOwner' /\ (registered \subseteq allocated)'
  BY PoolStep DEF OwnerInv
<1>1. CASE (\E s \in Sfds : Accept(s)) \/ MasterStep \/ ClientNext \/ UNCHANGED vars
  <2>1. UNCHANGED <<workerVars, poolVars, connVars>>
    BY <1>1 DEF Accept, MasterStep, SetNoBlockFails, DispatchPush, DispatchNotify,
        DispatchNotifyFails, ClientNext, Stall, Resume, Reset, vars
  <2> QED
    BY <2>1 DEF OwnerInv, ConnHasOneOwner, FreeConnsUnowned, HandConnsUnowned,
        CallbackConnsServed, FreeSlots, InHand, InCallback, Serves
<1>2. ASSUME NEW w \in Workers, WorkerNext(w)
      PROVE  ConnHasOneOwner' /\ (registered \subseteq allocated)'
  BY <1>2, CallbackOwners, LockOwners, EventOwners DEF WorkerNext
<1> QED
  BY <1>1, <1>2 DEF Next

(***************************************************************************)
(* A CONN has one owner: the free list, one registration, or the hand of   *)
(* one worker; and a callback works on a CONN its own thread serves.       *)
(***************************************************************************)
THEOREM OneOwner == Spec => []ConnHasOneOwner
<1>1. OwnerInv => ConnHasOneOwner
  BY DEF OwnerInv
<1> QED
  BY <1>1, OwnerInit, OwnerStep, PTL DEF Spec

-----------------------------------------------------------------------------
(* No CONN is lost. *)

(***************************************************************************)
(* A step that takes no CONN out of a hand or the free list, and neither   *)
(* allocates one nor ends a registration, loses none.                      *)
(***************************************************************************)
LEMMA SameHomes ==
    ASSUME NoConnLeaked,
           UNCHANGED <<vec_freeconn_, freecurr_, allocated, registered>>,
           \A v \in Workers : InHand(v) => InHand(v)' /\ wconn'[v] = wconn[v]
    PROVE  NoConnLeaked'
<1>1. FreeSlots' = FreeSlots
  BY DEF FreeSlots
<1> QED
  BY <1>1 DEF NoConnLeaked

\* The free list gives its last CONN to a worker whose hand is empty.
LEMMA FreeToHandKept ==
    ASSUME OwnerInv, NoConnLeaked, NEW w \in Workers, GetConnFromFreelist(w),
           freecurr_ > 0
    PROVE  NoConnLeaked'
<1> DEFINE last == freecurr_ - 1
<1>0. \A i \in FreeSlots : i = last \/ i \in FreeSlots'
  BY DEF OwnerInv, PoolInv, TypeOK, FreeSlots, GetConnFromFreelist
<1>1. \A i \in FreeSlots' : vec_freeconn_'[i] = vec_freeconn_[i]
  BY GetKeepsSlots DEF OwnerInv
<1>2. /\ wpc[w] = "get" /\ wpc'[w] = "setup"
      /\ wconn'[w] = vec_freeconn_[last]
      /\ \A v \in Workers : v # w => wpc'[v] = wpc[v] /\ wconn'[v] = wconn[v]
      /\ UNCHANGED <<allocated, registered>>
  BY DEF OwnerInv, PoolInv, TypeOK, GetConnFromFreelist
<1>3. /\ \A v \in Workers : InHand(v) => InHand(v)' /\ wconn'[v] = wconn[v]
      /\ InHand(w)'
  BY <1>2 DEF InHand
<1> HIDE DEF last
<1>4. ASSUME NEW c \in allocated, NEW i \in FreeSlots, vec_freeconn_[i] = c
      PROVE  \/ \E v \in Workers : InHand(v)' /\ wconn'[v] = c
             \/ \E j \in FreeSlots' : vec_freeconn_'[j] = c
  BY <1>0, <1>1, <1>2, <1>3, <1>4
<1> QED
  BY <1>2, <1>3, <1>4 DEF NoConnLeaked

\* A new CONN is in the hand of the worker that allocated it.
LEMMA NewInHandKept ==
    ASSUME OwnerInv, NoConnLeaked, NEW w \in Workers, NEW garbage \in BOOLEAN,
           NewConn(w, garbage)
    PROVE  NoConnLeaked'
<1>1. /\ wpc[w] = "new" /\ wpc'[w] = "setup"
      /\ wconn'[w] = NewAddress
      /\ allocated' = allocated \cup {NewAddress}
      /\ \A v \in Workers : v # w => wpc'[v] = wpc[v] /\ wconn'[v] = wconn[v]
      /\ UNCHANGED <<registered, vec_freeconn_, freecurr_>>
  BY DEF OwnerInv, PoolInv, TypeOK, NewConn
<1>2. FreeSlots' = FreeSlots
  BY <1>1 DEF FreeSlots
<1>3. /\ \A v \in Workers : InHand(v) => InHand(v)' /\ wconn'[v] = wconn[v]
      /\ InHand(w)'
  BY <1>1 DEF InHand
<1> QED
  BY <1>1, <1>2, <1>3 DEF NoConnLeaked

\* The CONN a worker lets go of is registered.
LEMMA HandToLoopKept ==
    ASSUME OwnerInv, NoConnLeaked, NEW w \in Workers, RegisterConn(w)
    PROVE  NoConnLeaked'
<1>1. /\ registered' = registered \cup {wconn[w]}
      /\ \A v \in Workers : v # w => wpc'[v] = wpc[v] /\ wconn'[v] = wconn[v]
      /\ UNCHANGED <<allocated, vec_freeconn_, freecurr_>>
  BY DEF OwnerInv, PoolInv, TypeOK, RegisterConn
<1>2. FreeSlots' = FreeSlots
  BY <1>1 DEF FreeSlots
<1>3. \A v \in Workers : v # w /\ InHand(v) => InHand(v)' /\ wconn'[v] = wconn[v]
  BY <1>1 DEF InHand
<1> QED
  BY <1>1, <1>2, <1>3 DEF NoConnLeaked

\* A CONN whose bufferevent is freed is in the hand of the worker freeing it.
LEMMA LoopToHandKept ==
    ASSUME OwnerInv, NoConnLeaked, NEW w \in Workers, NEW c \in Conns,
           wpc[w] = "loop", FreeBufferevent(w, c),
           UNCHANGED <<allocated, vec_freeconn_, freecurr_>>
    PROVE  NoConnLeaked'
<1>1. /\ wpc'[w] = "recycle" /\ wconn'[w] = c
      /\ registered' = registered \ {c}
      /\ \A v \in Workers : v # w => wpc'[v] = wpc[v] /\ wconn'[v] = wconn[v]
  BY DEF OwnerInv, PoolInv, TypeOK, FreeBufferevent
<1>2. FreeSlots' = FreeSlots
  BY DEF FreeSlots
<1>3. /\ \A v \in Workers : InHand(v) => InHand(v)' /\ wconn'[v] = wconn[v]
      /\ InHand(w)'
  BY <1>1 DEF InHand
<1> QED
  BY <1>1, <1>2, <1>3 DEF NoConnLeaked

\* The CONN a worker gives back is in the free list, and so are those before it.
LEMMA HandToFreeKept ==
    ASSUME OwnerInv, NoConnLeaked, NEW w \in Workers, UndoRegister(w) \/ RecycleConn(w)
    PROVE  NoConnLeaked'
<1>1. /\ wpc[w] \in {"undo", "recycle"}
      /\ AddConnToFreelist(wconn[w])
      /\ \A v \in Workers : v # w => wpc'[v] = wpc[v] /\ wconn'[v] = wconn[v]
      /\ UNCHANGED <<allocated, registered>>
  BY DEF OwnerInv, PoolInv, TypeOK, UndoRegister, RecycleConn
<1>2. wconn[w] \in Conns
  BY <1>1 DEF InHand, OwnerInv, PoolInv, PointersInv
<1>3. /\ vec_freeconn_'[freecurr_] = wconn[w]
      /\ freecurr_' = freecurr_ + 1
      /\ \A i \in FreeSlots : vec_freeconn_'[i] = vec_freeconn_[i]
  BY <1>1, <1>2, AddConnPool DEF OwnerInv
<1>4. freecurr_ \in FreeSlots' /\ FreeSlots \subseteq FreeSlots'
  BY <1>3 DEF FreeSlots, OwnerInv, PoolInv, TypeOK
<1>5. \A v \in Workers : v # w /\ InHand(v) => InHand(v)' /\ wconn'[v] = wconn[v]
  BY <1>1 DEF InHand
<1> QED
  BY <1>1, <1>3, <1>4, <1>5 DEF NoConnLeaked

LEMMA LeakStep == OwnerInv /\ NoConnLeaked /\ [Next]_vars => NoConnLeaked'
<1> SUFFICES ASSUME OwnerInv, NoConnLeaked, [Next]_vars
             PROVE  NoConnLeaked'
  OBVIOUS
<1>t. /\ wpc \in [Workers -> WorkerStates]
      /\ wconn \in [Workers -> Conns \cup {NULL}]
  BY DEF OwnerInv, PoolInv, TypeOK
<1>1. CASE (\E s \in Sfds : Accept(s)) \/ MasterStep \/ ClientNext \/ UNCHANGED vars
  <2>1. UNCHANGED <<workerVars, poolVars, connVars>>
    BY <1>1 DEF Accept, MasterStep, SetNoBlockFails, DispatchPush, DispatchNotify,
        DispatchNotifyFails, ClientNext, Stall, Resume, Reset, vars
  <2> QED
    BY <2>1, SameHomes DEF InHand
<1>2. ASSUME NEW w \in Workers, ReadPipe(w) PROVE NoConnLeaked'
  BY <1>2, <1>t, SameHomes DEF ReadPipe, InHand
<1>3. ASSUME NEW w \in Workers, NEW c \in Conns, ClientTcpErrorCb(w, c)
      PROVE  NoConnLeaked'
  BY <1>3, LoopToHandKept DEF ClientTcpErrorCb
<1>4. ASSUME NEW w \in Workers, NEW c \in Conns, NEW tokenOk \in BOOLEAN,
             NEW n \in 0 .. MaxLines, ReadChunk(w, c, tokenOk, n)
      PROVE  NoConnLeaked'
  <2>1. CASE isVerify[c] \/ tokenOk
    BY <1>4, <1>t, <2>1, SameHomes DEF ReadChunk, InHand
  <2>2. CASE ~(isVerify[c] \/ tokenOk)
    BY <1>4, <2>2, LoopToHandKept DEF ReadChunk
  <2> QED
    BY <2>1, <2>2
<1>5. ASSUME NEW w \in Workers, CallbackStep(w) PROVE NoConnLeaked'
  <2>1. CASE PopFront(w)
    <3>1. wpc' = [wpc EXCEPT ![w] = "loop"] \/ wpc' = [wpc EXCEPT ![w] = "get"]
      BY <2>1 DEF PopFront
    <3> QED
      BY <1>t, <2>1, <3>1, SameHomes DEF PopFront, InHand
  <2>2. ASSUME NEW garbage \in BOOLEAN, NewConn(w, garbage)
        PROVE  NoConnLeaked'
    BY <2>2, NewInHandKept
  <2>3. CASE RegisterConn(w)
    BY <2>3, HandToLoopKept
  <2>4. CASE RegisterFails(w)
    BY <1>t, <2>4, SameHomes DEF RegisterFails, InHand
  <2>5. CASE NextCommand(w) \/ NextMalformed(w) \/ LinesDone(w)
    BY <1>t, <2>5, SameHomes DEF NextCommand, NextMalformed, LinesDone, InHand
  <2>6. CASE QueryWithReply(w) \/ QueryWithoutReply(w) \/ WriteReturns(w) \/ WriteSpins(w)
    BY <1>t, <2>6, SameHomes
    DEF QueryWithReply, QueryWithoutReply, WriteReturns, WriteSpins, InHand
  <2> QED
    BY <1>5, <2>1, <2>2, <2>3, <2>4, <2>5, <2>6 DEF CallbackStep
<1>6. ASSUME NEW w \in Workers, LockStep(w) PROVE NoConnLeaked'
  <2>1. CASE GetConnFromFreelist(w) /\ freecurr_ > 0
    BY <2>1, FreeToHandKept
  <2>2. CASE GetConnFromFreelist(w) /\ ~(freecurr_ > 0)
    BY <1>t, <2>2, SameHomes DEF GetConnFromFreelist, InHand
  <2>3. CASE LockForCommand(w)
    BY <1>t, <2>3, SameHomes DEF LockForCommand, InHand
  <2>4. CASE UndoRegister(w) \/ RecycleConn(w)
    BY <2>4, HandToFreeKept
  <2> QED
    BY <1>6, <2>1, <2>2, <2>3, <2>4 DEF LockStep
<1>7. ASSUME NEW w \in Workers, Die(w) PROVE NoConnLeaked'
  BY <1>7, <1>t, SameHomes DEF Die, NewConnFails, WriteKills, InHand
<1> QED
  BY <1>1, <1>2, <1>3, <1>4, <1>5, <1>6, <1>7 DEF Next, WorkerNext

(***************************************************************************)
(* No CONN is lost: with OneOwner, an allocated CONN is always in exactly  *)
(* one of the free list, a worker's hand and the registered ones, however  *)
(* often it is recycled and whatever fails on the way.                     *)
(***************************************************************************)
THEOREM NoConnIsLost == Spec => []NoConnLeaked
<1>1. Init => NoConnLeaked
  BY DEF Init, NoConnLeaked
<1> QED
  BY <1>1, OwnerInit, OwnerStep, LeakStep, PTL DEF Spec

-----------------------------------------------------------------------------
(* The holder of mutex_. *)

\* A worker's step moves no other worker.
LEMMA OtherWorkers ==
    ASSUME wpc \in [Workers -> WorkerStates], NEW w \in Workers, WorkerNext(w)
    PROVE  \A v \in Workers : v # w => wpc'[v] = wpc[v]
<1>1. CASE CallbackStep(w)
  BY <1>1 DEF CallbackStep, PopFront, NewConn, RegisterConn, RegisterFails, NextCommand,
      NextMalformed, LinesDone, QueryWithReply, QueryWithoutReply, WriteReturns,
      WriteSpins
<1>2. CASE LockStep(w) \/ Die(w)
  BY <1>2 DEF LockStep, Die, GetConnFromFreelist, LockForCommand, UndoRegister,
      RecycleConn, NewConnFails, WriteKills
<1>3. CASE ReadPipe(w) \/ \E c \in Conns : ClientTcpErrorCb(w, c)
  BY <1>3 DEF ReadPipe, ClientTcpErrorCb, FreeBufferevent
<1>4. ASSUME NEW c \in Conns, NEW tokenOk \in BOOLEAN, NEW n \in 0 .. MaxLines,
             ReadChunk(w, c, tokenOk, n)
      PROVE  \A v \in Workers : v # w => wpc'[v] = wpc[v]
  BY <1>4 DEF ReadChunk, FreeBufferevent
<1> QED
  BY <1>1, <1>2, <1>3, <1>4 DEF WorkerNext

\* Only a command takes mutex_, and its holder lets go of it or stays past the lock.
LEMMA MutexMoves ==
    ASSUME wpc \in [Workers -> WorkerStates], NEW w \in Workers, WorkerNext(w),
           mutex_ = w => wpc[w] \in {"query", "reply", "spin"}
    PROVE  \/ mutex_' = Free
           \/ mutex_' = mutex_ /\ (mutex_ = w => wpc'[w] \in {"query", "reply", "spin"})
           \/ mutex_' = w /\ wpc'[w] \in {"query", "reply", "spin"}
<1>1. CASE CallbackStep(w)
  BY <1>1 DEF CallbackStep, PopFront, NewConn, RegisterConn, RegisterFails, NextCommand,
      NextMalformed, LinesDone, QueryWithReply, QueryWithoutReply, WriteReturns,
      WriteSpins
<1>2. CASE LockStep(w) \/ Die(w)
  BY <1>2 DEF LockStep, Die, GetConnFromFreelist, LockForCommand, UndoRegister,
      RecycleConn, NewConnFails, WriteKills, AddConnToFreelist
<1>3. CASE ReadPipe(w) \/ \E c \in Conns : ClientTcpErrorCb(w, c)
  BY <1>3 DEF ReadPipe, ClientTcpErrorCb
<1>4. ASSUME NEW c \in Conns, NEW tokenOk \in BOOLEAN, NEW n \in 0 .. MaxLines,
             ReadChunk(w, c, tokenOk, n)
      PROVE  mutex_' = mutex_ /\ mutex_ # w
  BY <1>4 DEF ReadChunk
<1> QED
  BY <1>1, <1>2, <1>3, <1>4 DEF WorkerNext

(***************************************************************************)
(* Whoever holds mutex_ is past every lock: a command asks for it once,    *)
(* and gives it back when its reply is written, or at once if it has none. *)
(* The master and the clients never touch it.                              *)
(***************************************************************************)
THEOREM HolderIsPastLocks == Spec => []HolderWaitsForNoLock
<1> DEFINE Inv == PoolInv /\ HolderWaitsForNoLock
<1>1. Init => HolderWaitsForNoLock
  BY DEF Init, HolderWaitsForNoLock
<1>2. Inv /\ [Next]_vars => HolderWaitsForNoLock'
  <2> SUFFICES ASSUME PoolInv, HolderWaitsForNoLock, [Next]_vars
               PROVE  HolderWaitsForNoLock'
    OBVIOUS
  <2>t. /\ wpc \in [Workers -> WorkerStates]
        /\ mutex_ \in Workers \cup {Free}
        /\ Free \notin Workers
    BY FreeIsNoWorker DEF PoolInv, TypeOK
  <2>1. CASE (\E s \in Sfds : Accept(s)) \/ MasterStep \/ ClientNext \/ UNCHANGED vars
    <3>1. UNCHANGED <<wpc, mutex_>>
      BY <2>1 DEF Accept, MasterStep, SetNoBlockFails, DispatchPush, DispatchNotify,
          DispatchNotifyFails, ClientNext, Stall, Resume, Reset, vars
    <3> QED
      BY <3>1 DEF HolderWaitsForNoLock
  <2>2. ASSUME NEW w \in Workers, WorkerNext(w) PROVE HolderWaitsForNoLock'
    <3> DEFINE Past(v) == wpc[v] \in {"query", "reply", "spin"}
    <3>1. \A v \in Workers : v # w => wpc'[v] = wpc[v]
      BY <2>2, <2>t, OtherWorkers
    <3>2. mutex_ = w => Past(w)
      BY <2>t DEF HolderWaitsForNoLock
    <3>3. \/ mutex_' = Free
          \/ mutex_' = mutex_ /\ (mutex_ = w => Past(w)')
          \/ mutex_' = w /\ Past(w)'
      BY <2>2, <2>t, <3>2, MutexMoves
    <3> QED
      BY <2>t, <3>1, <3>3 DEF HolderWaitsForNoLock
  <2> QED
    BY <2>1, <2>2 DEF Next
<1> QED
  BY <1>1, <1>2, PoolInit, PoolStep, PTL DEF Spec

=============================================================================
