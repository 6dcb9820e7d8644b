---------------------------- MODULE ConnLifecycle ----------------------------
(***************************************************************************)
(* The life of a client connection in 3d_server: the master accepts it and *)
(* hands its descriptor to a worker through a queue and a one-byte         *)
(* notification on a pipe (AccepCb, DispatchSfdToWorker); the worker pairs *)
(* it with a CONN taken from a shared free list or from the heap and       *)
(* registers a bufferevent (ReadPipeCb, InitNewConn); reads, commands and  *)
(* replies run in the worker's event loop (start_routine); an error, an    *)
(* end of file, the heartbeat timeout or a bad token closes the connection *)
(* and recycles the CONN (ClientTcpErrorCb, CloseConn).                    *)
(*                                                                         *)
(* One mutex, mutex_, guards both the free list and every database command *)
(* up to and including the reply, which WriteSfd writes in a loop that     *)
(* retries EAGAIN for ever.  What a command does to the database is the    *)
(* subject of module Accounts.                                             *)
(***************************************************************************)
EXTENDS Integers, Sequences, FiniteSets

CONSTANTS
    Sfds,               \* descriptors accept() may return
    Conns,              \* addresses `new CONN' may return
    NULL,
    ThreadNum,          \* thread_num_
    FreeTotal,          \* initial freetotal_ (200 in InitFreeConns)
    PipeCap,            \* bytes a notify pipe holds before write() blocks
    MaxLines,           \* CRLF-terminated lines one read may contain
    NotifyMayFail,      \* may write() on the notify pipe fail?
    InitMayFail,        \* may an allocation or bufferevent_socket_new fail?
    ClientsMayStall,    \* may a client stop sending and reading?
    ClientsMayReset     \* may a client reset its connection?

ASSUME ConnAssumption ==
    /\ NULL \notin Sfds
    /\ NULL \notin Conns
    /\ ThreadNum \in Nat \ {0}
    /\ FreeTotal \in Nat \ {0}
    /\ PipeCap \in Nat \ {0}
    /\ MaxLines \in Nat
    /\ NotifyMayFail \in BOOLEAN
    /\ InitMayFail \in BOOLEAN
    /\ ClientsMayStall \in BOOLEAN
    /\ ClientsMayReset \in BOOLEAN

Workers == 0 .. ThreadNum - 1
Free == -1

VARIABLES
    mpc,                \* master: "loop", "accepted" or "notify"
    msfd,               \* the sfd local of AccepCb
    last_thread_,
    list_conn,          \* per worker, the CThreadSafeList of CONN_INFO
    pipe,               \* per worker, bytes in the notify pipe
    wpc,                \* per worker, where its thread is
    wsfd,               \* per worker, connInfo.sfd of ReadPipeCb
    wconn,              \* per worker, the conn local of the running callback
    lines,              \* per worker, lines of the current read still to do
    mutex_,             \* Free or the worker holding it
    vec_freeconn_,      \* slots 0 .. freetotal_ - 1; those below freecurr_ are free CONNs
    freecurr_,
    freetotal_,
    allocated,          \* CONN objects on the heap
    registered,         \* CONN objects with a live bufferevent
    conn_sfd,           \* CONN::sfd
    conn_thread,        \* CONN::thread
    isVerify,           \* CONN::isVerify
    open,               \* descriptors open in this process
    client,             \* "ok", "stalled" (neither sends nor reads) or "reset"
    crashed             \* the process is dead: NULL dereference, bad_alloc, SIGPIPE

masterVars == <<mpc, msfd, last_thread_>>
queueVars == <<list_conn, pipe>>
workerVars == <<wpc, wsfd, wconn, lines>>
poolVars == <<vec_freeconn_, freecurr_, freetotal_>>
connVars == <<allocated, registered, conn_sfd, conn_thread, isVerify>>
sockVars == <<open, client>>

vars == <<masterVars, queueVars, workerVars, mutex_, poolVars, connVars,
          sockVars, crashed>>

(***************************************************************************)
(* A worker is in its event loop ("loop") or inside one callback:          *)
(*   ReadPipeCb     pop, get, new, setup, undo                             *)
(*   start_routine  lines, want, query, reply, spin                        *)
(*   CloseConn      recycle                                                *)
(***************************************************************************)
WorkerStates == {"loop", "pop", "get", "new", "setup", "undo",
                 "lines", "want", "query", "reply", "spin", "recycle"}

TypeOK ==
    /\ mpc \in {"loop", "accepted", "notify"}
    /\ msfd \in Sfds \cup {NULL}
    /\ last_thread_ \in Workers \cup {-1}
    /\ list_conn \in [Workers -> Seq(Sfds)]
    /\ pipe \in [Workers -> 0 .. PipeCap]
    /\ wpc \in [Workers -> WorkerStates]
    /\ wsfd \in [Workers -> Sfds \cup {NULL}]
    /\ wconn \in [Workers -> Conns \cup {NULL}]
    /\ lines \in [Workers -> 0 .. MaxLines]
    /\ mutex_ \in Workers \cup {Free}
    /\ freetotal_ \in Nat \ {0}
    /\ freecurr_ \in Nat
    /\ vec_freeconn_ \in [0 .. freetotal_ - 1 -> Conns \cup {NULL}]
    /\ allocated \subseteq Conns
    /\ registered \subseteq Conns
    /\ conn_sfd \in [Conns -> Sfds \cup {NULL}]
    /\ conn_thread \in [Conns -> Workers \cup {-1}]
    /\ isVerify \in [Conns -> BOOLEAN]
    /\ open \subseteq Sfds
    /\ client \in [Sfds -> {"ok", "stalled", "reset"}]
    /\ crashed \in BOOLEAN

\* The state InitThreads leaves behind: workers in their loops, InitFreeConns done.
Init ==
    /\ mpc = "loop"
    /\ msfd = NULL
    /\ last_thread_ = -1
    /\ list_conn = [w \in Workers |-> <<>>]
    /\ pipe = [w \in Workers |-> 0]
    /\ wpc = [w \in Workers |-> "loop"]
    /\ wsfd = [w \in Workers |-> NULL]
    /\ wconn = [w \in Workers |-> NULL]
    /\ lines = [w \in Workers |-> 0]
    /\ mutex_ = Free
    /\ freetotal_ = FreeTotal
    /\ freecurr_ = 0
    /\ vec_freeconn_ = [i \in 0 .. FreeTotal - 1 |-> NULL]
    /\ allocated = {}
    /\ registered = {}
    /\ conn_sfd = [c \in Conns |-> NULL]
    /\ conn_thread = [c \in Conns |-> -1]
    /\ isVerify = [c \in Conns |-> FALSE]
    /\ open = {}
    /\ client = [s \in Sfds |-> "ok"]
    /\ crashed = FALSE

\* close() of a descriptor.  Faulty variant: it is forgotten.
KeepSfd(s) == UNCHANGED sockVars

CloseSfd(s) ==
    /\ open' = open \ {s}
    /\ client' = [client EXCEPT ![s] = "ok"]

\* CThreadSafeList, whose own mutex makes each call one step.  Faulty variant of
\* push_back: the other end.
push_front(w, sfd) == list_conn' = [list_conn EXCEPT ![w] = <<sfd>> \o @]

push_back(w, sfd) == list_conn' = [list_conn EXCEPT ![w] = Append(@, sfd)]

pop_front(w) == list_conn' = [list_conn EXCEPT ![w] = Tail(@)]

-----------------------------------------------------------------------------
(* The master thread: AccepCb and DispatchSfdToWorker. *)

\* accept() returns a descriptor that is not open.  (A failing accept()
\* returns at once and changes nothing.)
Accept(s) ==
    /\ mpc = "loop"
    /\ s \notin open
    /\ open' = open \cup {s}
    /\ msfd' = s
    /\ mpc' = "accepted"
    /\ UNCHANGED <<last_thread_, queueVars, workerVars, mutex_, poolVars,
                   connVars, client, crashed>>

\* SetSocketNoBlock fails: the descriptor is closed.
SetNoBlockFails ==
    /\ mpc = "accepted"
    /\ CloseSfd(msfd)
    /\ msfd' = NULL
    /\ mpc' = "loop"
    /\ UNCHANGED <<last_thread_, queueVars, workerVars, mutex_, poolVars,
                   connVars, crashed>>

\* Round robin choice of the worker.  Faulty variant: the counter does not wrap.
NextThreadNoWrap == last_thread_ + 1

NextThread == (last_thread_ + 1) % ThreadNum

\* The choice, and list_conn.push_back.
DispatchPush ==
    LET tid == NextThread IN
    /\ mpc = "accepted"
    /\ last_thread_' = tid
    /\ push_back(tid, msfd)
    /\ msfd' = NULL
    /\ mpc' = "notify"
    /\ UNCHANGED <<pipe, workerVars, mutex_, poolVars, connVars, sockVars, crashed>>

\* write() of the notification byte; it blocks while the pipe is full.  Faulty
\* variant: the pipe is non-blocking, and nobody looks at EAGAIN.
DispatchNotifyDrops ==
    /\ mpc = "notify"
    /\ pipe' = [pipe EXCEPT ![last_thread_] = IF @ < PipeCap THEN @ + 1 ELSE @]
    /\ mpc' = "loop"
    /\ UNCHANGED <<msfd, last_thread_, list_conn, workerVars, mutex_, poolVars,
                   connVars, sockVars, crashed>>

DispatchNotify ==
    /\ mpc = "notify"
    /\ pipe[last_thread_] < PipeCap
    /\ pipe' = [pipe EXCEPT ![last_thread_] = @ + 1]
    /\ mpc' = "loop"
    /\ UNCHANGED <<msfd, last_thread_, list_conn, workerVars, mutex_, poolVars,
                   connVars, sockVars, crashed>>

\* write() fails: it is logged, and the queue keeps the entry.
DispatchNotifyFails ==
    /\ NotifyMayFail
    /\ mpc = "notify"
    /\ mpc' = "loop"
    /\ UNCHANGED <<msfd, last_thread_, queueVars, workerVars, mutex_, poolVars,
                   connVars, sockVars, crashed>>

-----------------------------------------------------------------------------
(* The shared free list. *)

\* A full vector is doubled.  Faulty variant: the bound is off by one.
SizeOffByOne == IF freecurr_ <= freetotal_ THEN freetotal_ ELSE 2 * freetotal_

SizeForOneMore == IF freecurr_ < freetotal_ THEN freetotal_ ELSE 2 * freetotal_

\* freecurr_ moves with every CONN.  Faulty variant of both: it does not.
Unmoved == freecurr_

AfterAdd == freecurr_ + 1

AfterGet == freecurr_ - 1

\* AddConnToFreelist, under mutex_; a full vector grows first.  What the code
\* never reads again is NULL in the model: sfd and thread of a CONN on the list,
\* which InitNewConn assigns, and the slots from freecurr_ on.
AddConnToFreelist(c) ==
    LET size == SizeForOneMore IN
    /\ mutex_ = Free
    /\ conn_sfd' = [conn_sfd EXCEPT ![c] = NULL]
    /\ conn_thread' = [conn_thread EXCEPT ![c] = -1]
    /\ vec_freeconn_' = [i \in 0 .. size - 1 |->
                            IF i = freecurr_ THEN c
                            ELSE IF i < freetotal_ THEN vec_freeconn_[i] ELSE NULL]
    /\ freecurr_' = AfterAdd
    /\ freetotal_' = size

-----------------------------------------------------------------------------
(* A worker thread: ReadPipeCb and InitNewConn. *)

\* Bytes one callback takes.  Faulty variant: the byte is looked at and left.
NoByte(w) == 0

BytesRead(w) == 1

\* read() of one notification byte; each byte stands for one connection.
ReadPipe(w) ==
    /\ wpc[w] = "loop"
    /\ pipe[w] > 0
    /\ pipe' = [pipe EXCEPT ![w] = @ - BytesRead(w)]
    /\ wpc' = [wpc EXCEPT ![w] = "pop"]
    /\ UNCHANGED <<masterVars, list_conn, wsfd, wconn, lines, mutex_, poolVars,
                   connVars, sockVars, crashed>>

\* pop_front; on an empty queue the callback returns, the byte being spent.
PopFront(w) ==
    /\ wpc[w] = "pop"
    /\ IF list_conn[w] = <<>>
       THEN /\ wpc' = [wpc EXCEPT ![w] = "loop"]
            /\ UNCHANGED <<wsfd, list_conn>>
       ELSE /\ wsfd' = [wsfd EXCEPT ![w] = Head(list_conn[w])]
            /\ pop_front(w)
            /\ wpc' = [wpc EXCEPT ![w] = "get"]
    /\ UNCHANGED <<masterVars, pipe, wconn, lines, mutex_, poolVars, connVars,
                   sockVars, crashed>>

\* The last free CONN is handed out, or NULL when there is none.
GetConnFromFreelist(w) ==
    /\ wpc[w] = "get"
    /\ mutex_ = Free
    /\ IF freecurr_ > 0
       THEN /\ wconn' = [wconn EXCEPT ![w] = vec_freeconn_[freecurr_ - 1]]
            /\ vec_freeconn_' = [vec_freeconn_ EXCEPT ![freecurr_ - 1] = NULL]
            /\ freecurr_' = AfterGet
            /\ wpc' = [wpc EXCEPT ![w] = "setup"]
       ELSE /\ wpc' = [wpc EXCEPT ![w] = "new"]
            /\ UNCHANGED <<wconn, vec_freeconn_, freecurr_>>
    /\ UNCHANGED <<masterVars, queueVars, wsfd, lines, mutex_, freetotal_,
                   connVars, sockVars, crashed>>

\* The address `new' returns.  Which one makes no difference: a CONN is never
\* deleted, and no address is compared but for equality.
NewAddress == CHOOSE c \in Conns : c \notin allocated

\* new CONN leaves isVerify uninitialized: either value may be found there.
NewConn(w, garbage) ==
    LET c == NewAddress IN
    /\ wpc[w] = "new"
    /\ allocated # Conns
    /\ allocated' = allocated \cup {c}
    /\ isVerify' = [isVerify EXCEPT ![c] = garbage]
    /\ wconn' = [wconn EXCEPT ![w] = c]
    /\ wpc' = [wpc EXCEPT ![w] = "setup"]
    /\ UNCHANGED <<masterVars, queueVars, wsfd, lines, mutex_, poolVars, registered,
                   conn_sfd, conn_thread, sockVars, crashed>>

\* new CONN throws, which nothing catches, or a buffer cannot be allocated and
\* InitNewConn returns NULL, which ReadPipeCb dereferences after close(sfd).
NewConnFails(w) ==
    /\ InitMayFail
    /\ wpc[w] = "new"
    /\ CloseSfd(wsfd[w])
    /\ wsfd' = [wsfd EXCEPT ![w] = NULL]
    /\ wpc' = [wpc EXCEPT ![w] = "loop"]
    /\ crashed' = TRUE
    /\ UNCHANGED <<masterVars, queueVars, wconn, lines, mutex_, poolVars, connVars>>

\* The rest of InitNewConn: the CONN is bound to the descriptor and its
\* bufferevent, with callbacks and heartbeat timeout, enters the loop.
\* isVerify is left as it is.
RegisterConn(w) ==
    LET c == wconn[w] IN
    /\ wpc[w] = "setup"
    /\ conn_sfd' = [conn_sfd EXCEPT ![c] = wsfd[w]]
    /\ conn_thread' = [conn_thread EXCEPT ![c] = w]
    /\ registered' = registered \cup {c}
    /\ wsfd' = [wsfd EXCEPT ![w] = NULL]
    /\ wconn' = [wconn EXCEPT ![w] = NULL]
    /\ wpc' = [wpc EXCEPT ![w] = "loop"]
    /\ UNCHANGED <<masterVars, queueVars, lines, mutex_, poolVars, allocated,
                   isVerify, sockVars, crashed>>

\* bufferevent_socket_new returns NULL, with the fields already assigned.
RegisterFails(w) ==
    LET c == wconn[w] IN
    /\ InitMayFail
    /\ wpc[w] = "setup"
    /\ conn_sfd' = [conn_sfd EXCEPT ![c] = wsfd[w]]
    /\ conn_thread' = [conn_thread EXCEPT ![c] = w]
    /\ wpc' = [wpc EXCEPT ![w] = "undo"]
    /\ UNCHANGED <<masterVars, queueVars, wsfd, wconn, lines, mutex_, poolVars,
                   allocated, registered, isVerify, sockVars, crashed>>

\* The CONN goes back to the free list, ReadPipeCb closes the descriptor and
\* then reads conn->thread of the NULL it was given.
UndoRegister(w) ==
    /\ wpc[w] = "undo"
    /\ AddConnToFreelist(wconn[w])
    /\ CloseSfd(wsfd[w])
    /\ wsfd' = [wsfd EXCEPT ![w] = NULL]
    /\ wconn' = [wconn EXCEPT ![w] = NULL]
    /\ wpc' = [wpc EXCEPT ![w] = "loop"]
    /\ crashed' = TRUE
    /\ UNCHANGED <<masterVars, queueVars, lines, mutex_, allocated, registered,
                   isVerify>>

-----------------------------------------------------------------------------
(* A worker thread: ClientTcpErrorCb and CloseConn. *)

Serves(w, c) == c \in registered /\ conn_thread[c] = w

\* bufferevent_free with BEV_OPT_CLOSE_ON_FREE; the CONN is still in hand.
FreeBufferevent(w, c) ==
    /\ registered' = registered \ {c}
    /\ CloseSfd(conn_sfd[c])
    /\ wconn' = [wconn EXCEPT ![w] = c]
    /\ wpc' = [wpc EXCEPT ![w] = "recycle"]

\* Timeout, end of file or error on the connection.
ClientTcpErrorCb(w, c) ==
    /\ wpc[w] = "loop"
    /\ Serves(w, c)
    /\ FreeBufferevent(w, c)
    /\ UNCHANGED <<masterVars, queueVars, wsfd, lines, mutex_, poolVars, allocated,
                   conn_sfd, conn_thread, isVerify, crashed>>

RecycleConn(w) ==
    /\ wpc[w] = "recycle"
    /\ AddConnToFreelist(wconn[w])
    /\ wconn' = [wconn EXCEPT ![w] = NULL]
    /\ wpc' = [wpc EXCEPT ![w] = "loop"]
    /\ UNCHANGED <<masterVars, queueVars, wsfd, lines, mutex_, allocated, registered,
                   isVerify, sockVars, crashed>>

-----------------------------------------------------------------------------
(* A worker thread: start_routine, the read callback. *)

\* A read of at least TOKEN_LENGTH bytes holding n complete lines.  The token is
\* compared only while isVerify is false.  (A shorter read has no effect: it
\* is neither checked nor long enough to hold a separator and a CRLF.)
ReadChunk(w, c, tokenOk, n) ==
    /\ wpc[w] = "loop"
    /\ Serves(w, c)
    /\ client[conn_sfd[c]] = "ok"
    /\ isVerify' = [isVerify EXCEPT ![c] = TRUE]
    /\ IF isVerify[c] \/ tokenOk
       THEN /\ wconn' = [wconn EXCEPT ![w] = c]
            /\ lines' = [lines EXCEPT ![w] = n]
            /\ wpc' = [wpc EXCEPT ![w] = "lines"]
            /\ UNCHANGED <<registered, sockVars>>
       ELSE /\ FreeBufferevent(w, c)
            /\ UNCHANGED lines
    /\ UNCHANGED <<masterVars, queueVars, wsfd, mutex_, poolVars, allocated,
                   conn_sfd, conn_thread, crashed>>

\* The next line is one of the four commands: it will need mutex_.
NextCommand(w) ==
    /\ wpc[w] = "lines"
    /\ lines[w] > 0
    /\ lines' = [lines EXCEPT ![w] = @ - 1]
    /\ wpc' = [wpc EXCEPT ![w] = "want"]
    /\ UNCHANGED <<masterVars, queueVars, wsfd, wconn, mutex_, poolVars, connVars,
                   sockVars, crashed>>

\* The next line has the wrong number of fields or an unknown command: the
\* error reply is written without mutex_.
NextMalformed(w) ==
    /\ wpc[w] = "lines"
    /\ lines[w] > 0
    /\ lines' = [lines EXCEPT ![w] = @ - 1]
    /\ wpc' = [wpc EXCEPT ![w] = "reply"]
    /\ UNCHANGED <<masterVars, queueVars, wsfd, wconn, mutex_, poolVars, connVars,
                   sockVars, crashed>>

LinesDone(w) ==
    /\ wpc[w] = "lines"
    /\ lines[w] = 0
    /\ wconn' = [wconn EXCEPT ![w] = NULL]
    /\ wpc' = [wpc EXCEPT ![w] = "loop"]
    /\ UNCHANGED <<masterVars, queueVars, wsfd, lines, mutex_, poolVars, connVars,
                   sockVars, crashed>>

LockForCommand(w) ==
    /\ wpc[w] = "want"
    /\ mutex_ = Free
    /\ mutex_' = w
    /\ wpc' = [wpc EXCEPT ![w] = "query"]
    /\ UNCHANGED <<masterVars, queueVars, wsfd, wconn, lines, poolVars, connVars,
                   sockVars, crashed>>

\* INSERT, SELECT and UPDATE answer while the scoped lock is still held.
QueryWithReply(w) ==
    /\ wpc[w] = "query"
    /\ wpc' = [wpc EXCEPT ![w] = "reply"]
    /\ UNCHANGED <<masterVars, queueVars, wsfd, wconn, lines, mutex_, poolVars,
                   connVars, sockVars, crashed>>

\* DELETE sends no answer: its write is compiled out.
QueryWithoutReply(w) ==
    /\ wpc[w] = "query"
    /\ mutex_' = Free
    /\ wpc' = [wpc EXCEPT ![w] = "lines"]
    /\ UNCHANGED <<masterVars, queueVars, wsfd, wconn, lines, poolVars, connVars,
                   sockVars, crashed>>

Peer(w) == client[conn_sfd[wconn[w]]]

\* The end of the scoped lock, if there is one.  Faulty variant: a plain lock()
\* that nobody unlocks.
StillLocked(w) == mutex_

Unlocked(w) == IF mutex_ = w THEN Free ELSE mutex_

\* WriteSfd returns, with the reply written or an error other than EAGAIN, and
\* the scoped lock, if the reply was written under one, is released.
WriteReturns(w) ==
    /\ wpc[w] \in {"reply", "spin"}
    /\ wpc[w] = "spin" => Peer(w) # "stalled"
    /\ mutex_' = Unlocked(w)
    /\ wpc' = [wpc EXCEPT ![w] = "lines"]
    /\ UNCHANGED <<masterVars, queueVars, wsfd, wconn, lines, poolVars, connVars,
                   sockVars, crashed>>

\* The send buffer of a client that does not read is full: EAGAIN, for ever.
WriteSpins(w) ==
    /\ wpc[w] = "reply"
    /\ Peer(w) = "stalled"
    /\ wpc' = [wpc EXCEPT ![w] = "spin"]
    /\ UNCHANGED <<masterVars, queueVars, wsfd, wconn, lines, mutex_, poolVars,
                   connVars, sockVars, crashed>>

\* SIGPIPE keeps its default action.
WriteKills(w) ==
    /\ wpc[w] \in {"reply", "spin"}
    /\ Peer(w) = "reset"
    /\ crashed' = TRUE
    /\ UNCHANGED <<masterVars, queueVars, workerVars, mutex_, poolVars, connVars,
                   sockVars>>

-----------------------------------------------------------------------------
(* The clients. *)

Stall(s) ==
    /\ ClientsMayStall
    /\ s \in open
    /\ client[s] = "ok"
    /\ client' = [client EXCEPT ![s] = "stalled"]
    /\ UNCHANGED <<masterVars, queueVars, workerVars, mutex_, poolVars, connVars,
                   open, crashed>>

Resume(s) ==
    /\ client[s] = "stalled"
    /\ client' = [client EXCEPT ![s] = "ok"]
    /\ UNCHANGED <<masterVars, queueVars, workerVars, mutex_, poolVars, connVars,
                   open, crashed>>

Reset(s) ==
    /\ ClientsMayReset
    /\ s \in open
    /\ client[s] # "reset"
    /\ client' = [client EXCEPT ![s] = "reset"]
    /\ UNCHANGED <<masterVars, queueVars, workerVars, mutex_, poolVars, connVars,
                   open, crashed>>

-----------------------------------------------------------------------------

MasterStep == SetNoBlockFails \/ DispatchPush \/ DispatchNotify \/ DispatchNotifyFails

\* The rest of a callback, apart from waiting for mutex_ and from dying.
CallbackStep(w) ==
    \/ PopFront(w)
    \/ \E garbage \in BOOLEAN : NewConn(w, garbage)
    \/ RegisterConn(w)
    \/ RegisterFails(w)
    \/ NextCommand(w)
    \/ NextMalformed(w)
    \/ LinesDone(w)
    \/ QueryWithReply(w)
    \/ QueryWithoutReply(w)
    \/ WriteReturns(w)
    \/ WriteSpins(w)

LockStep(w) ==
    \/ GetConnFromFreelist(w)
    \/ LockForCommand(w)
    \/ UndoRegister(w)
    \/ RecycleConn(w)

Die(w) == NewConnFails(w) \/ WriteKills(w)

WorkerNext(w) ==
    \/ ReadPipe(w)
    \/ \E c \in Conns : ClientTcpErrorCb(w, c)
    \/ \E c \in Conns, tokenOk \in BOOLEAN, n \in 0 .. MaxLines :
            ReadChunk(w, c, tokenOk, n)
    \/ CallbackStep(w)
    \/ LockStep(w)
    \/ Die(w)

ClientNext == \E s \in Sfds : Stall(s) \/ Resume(s) \/ Reset(s)

Next ==
    /\ ~crashed
    /\ \/ \E s \in Sfds : Accept(s)
       \/ MasterStep
       \/ \E w \in Workers : WorkerNext(w)
       \/ ClientNext

Spec == Init /\ [][Next]_vars

(***************************************************************************)
(* Threads that can run do run.  libevent handles every active event of a  *)
(* base before it polls again, so a readable pipe and an expired heartbeat *)
(* are not passed over for ever.  A thread waiting for mutex_ is assumed   *)
(* to get it if it is released again and again.  Nothing is assumed of     *)
(* clients, of failures, or that reads happen.                             *)
(***************************************************************************)
HeartbeatExpires(w) ==
    \E c \in Conns : /\ Serves(w, c)
                     /\ client[conn_sfd[c]] # "ok"
                     /\ ClientTcpErrorCb(w, c)

Fairness ==
    /\ WF_vars(~crashed /\ MasterStep)
    /\ \A w \in Workers :
        /\ WF_vars(~crashed /\ CallbackStep(w))
        /\ SF_vars(~crashed /\ LockStep(w))
        /\ SF_vars(~crashed /\ ReadPipe(w))
        /\ SF_vars(~crashed /\ HeartbeatExpires(w))

FairSpec == Spec /\ Fairness

-----------------------------------------------------------------------------
(***************************************************************************)
(* Every notification byte finds a connection: at each worker the queue is *)
(* at least as long as the bytes it is owed, the one being read and the    *)
(* one the master is about to write included.  So pop_front in ReadPipeCb  *)
(* never fails, although queue and pipe are written separately.            *)
(***************************************************************************)
Owed(w) ==
    pipe[w] + (IF wpc[w] = "pop" THEN 1 ELSE 0)
            + (IF mpc = "notify" /\ last_thread_ = w THEN 1 ELSE 0)

EveryByteFindsItsConn == \A w \in Workers : Len(list_conn[w]) >= Owed(w)

(***************************************************************************)
(* While no notification fails, no connection sits in a queue without a    *)
(* byte that will fetch it: DispatchSfdToWorker strands nobody.            *)
(***************************************************************************)
NoConnStranded ==
    ~NotifyMayFail => \A w \in Workers : Len(list_conn[w]) <= Owed(w)

(***************************************************************************)
(* The free list never indexes past its vector: AddConnToFreelist grows it *)
(* in time, so that vector::at never throws.                               *)
(***************************************************************************)
FreelistInBounds == freecurr_ <= freetotal_

(***************************************************************************)
(* A CONN has one owner: it is once in the free list, or attached to one   *)
(* live bufferevent, or in the hands of the one worker that is setting it  *)
(* up or recycling it.  A callback that is past its first step still works *)
(* on a CONN registered with its own thread.  This is what makes it safe   *)
(* that CONN objects are recycled between threads and that nobody locks a  *)
(* CONN.                                                                   *)
(***************************************************************************)
FreeSlots == 0 .. freecurr_ - 1

InHand(w) == wpc[w] \in {"setup", "undo", "recycle"}

InCallback(w) == wpc[w] \in {"lines", "want", "query", "reply", "spin"}

FreeConnsUnowned ==
    \A i \in FreeSlots :
        /\ vec_freeconn_[i] \in allocated \ registered
        /\ \A j \in FreeSlots : vec_freeconn_[j] = vec_freeconn_[i] => j = i

HandConnsUnowned ==
    \A w \in Workers : InHand(w) =>
        /\ wconn[w] \in allocated \ registered
        /\ \A i \in FreeSlots : vec_freeconn_[i] # wconn[w]
        /\ \A v \in Workers : InHand(v) /\ wconn[v] = wconn[w] => v = w

CallbackConnsServed == \A w \in Workers : InCallback(w) => Serves(w, wconn[w])

ConnHasOneOwner == FreeConnsUnowned /\ HandConnsUnowned /\ CallbackConnsServed

(***************************************************************************)
(* The one thread that holds mutex_ waits for nobody but its client: it is *)
(* past every lock, so it never asks for mutex_ again (a boost::mutex is   *)
(* not recursive).  A worker waits only for mutex_, and the master only    *)
(* for a worker whose pipe is full: no threads wait in a circle.           *)
(***************************************************************************)
HolderWaitsForNoLock ==
    mutex_ # Free => wpc[mutex_] \in {"query", "reply", "spin"}

(***************************************************************************)
(* No CONN is lost: what has been allocated is registered, in hand or in   *)
(* the free list.                                                          *)
(***************************************************************************)
NoConnLeaked ==
    \A c \in allocated :
        \/ c \in registered
        \/ \E w \in Workers : InHand(w) /\ wconn[w] = c
        \/ \E i \in FreeSlots : vec_freeconn_[i] = c

(***************************************************************************)
(* An open descriptor has one holder (the master, one queue entry, one     *)
(* worker or one registered CONN) and a descriptor that is not open has    *)
(* none: no leak, no double close, nobody left with a number that accept() *)
(* may return again.                                                       *)
(***************************************************************************)
Entries(w, s) == {i \in DOMAIN list_conn[w] : list_conn[w][i] = s}

Holders(s) ==
    {<<"master", 0, 0>> : x \in {msfd} \cap {s}}
    \cup (UNION {{<<"queue", w, i>> : i \in Entries(w, s)} : w \in Workers})
    \cup {<<"worker", w, 0>> : w \in {v \in Workers : wsfd[v] = s}}
    \cup {<<"conn", c, 0>> : c \in {d \in registered : conn_sfd[d] = s}}

SfdHasOneHolder ==
    \A s \in Sfds : Cardinality(Holders(s)) = IF s \in open THEN 1 ELSE 0

(***************************************************************************)
(* The server implements the promise of module Handoff: one worker per     *)
(* connection, in the order of dispatch, until that worker closes it.      *)
(***************************************************************************)
inbox == [w \in Workers |->
            (IF wsfd[w] = NULL THEN <<>> ELSE <<wsfd[w]>>) \o list_conn[w]]

serving == [w \in Workers |-> {conn_sfd[c] : c \in {d \in Conns : Serves(w, d)}}]

Abstract == INSTANCE Handoff

ImplementsHandoff == Abstract!Spec

(***************************************************************************)
(* A connection handed to a worker is eventually in its event loop, unless *)
(* the process dies: while the other worker holds mutex_ in its commands,  *)
(* while both take CONNs from one free list, and when the master has had   *)
(* to wait for a full pipe.  (Where clients may stop reading this is not   *)
(* so: see SilentClientIsReaped.)                                          *)
(***************************************************************************)
InInbox(s) == \E w \in Workers : Abstract!InInbox(s, w)

AcceptedIsServed ==
    \A s \in Sfds : InInbox(s) ~> (crashed \/ \E w \in Workers : s \in serving[w])

(***************************************************************************)
(* "the token is checked to guard against malicious connections"           *)
(* (worker_threads.cc:69): a new connection starts with the check pending. *)
(***************************************************************************)
NewConnStartsUnverified ==
    [][\A c \in Conns : c \in registered' \ registered => ~isVerify'[c]]_vars

(***************************************************************************)
(* "the client heartbeat timeout handles half-open connections"            *)
(* (worker_threads.cc:538): a connection whose client has gone silent is   *)
(* closed, unless the client comes back.                                   *)
(***************************************************************************)
SilentClientIsReaped ==
    \A s \in Sfds :
        ((\E w \in Workers : s \in serving[w]) /\ client[s] = "stalled")
            ~> (crashed \/ client[s] # "stalled")

=============================================================================
