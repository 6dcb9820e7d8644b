---------------------------- MODULE WorkerStartup ----------------------------
(***************************************************************************)
(* Start-up of the server: CMasterThread::InitMasterThread and             *)
(* CWorkerThread::InitThreads, and what the threads they create do until   *)
(* they sit in their event loops.  The main thread opens the listening     *)
(* socket, builds one LIBEVENT_THREAD per worker, creates the pthreads and *)
(* waits on init_cond_; each worker counts itself in under init_lock_ and  *)
(* the one that completes the count signals the condition.                 *)
(*                                                                         *)
(* thread_num_ is a constant here; SIGUSR1, which may rewrite it, is the   *)
(* subject of module Reload.                                               *)
(***************************************************************************)
EXTENDS Integers, FiniteSets

CONSTANT ThreadNum      \* CGlobalSettings::thread_num_

ASSUME StartupAssumption == ThreadNum \in Nat

Workers == 0 .. ThreadNum - 1

Main == -1
Free == -2

VARIABLES
    main,           \* where the main thread is in InitMasterThread
    vec_size,       \* vec_libevent_thread_.size()
    created,        \* loop counter of the pthread_create loop
    worker,         \* where each worker thread is
    init_lock_,     \* Free, Main or the worker holding the mutex
    init_count_,
    wakeup          \* history: what ended the wait of the main thread

vars == <<main, vec_size, created, worker, init_lock_, init_count_, wakeup>>

(***************************************************************************)
(* "parked" is pthread_cond_wait with the mutex released, "woken" the part *)
(* of it that takes the mutex again.  "exited" is exit() from any thread:  *)
(* no thread runs after it.                                                *)
(***************************************************************************)
MainStates == {"listen", "setup", "create", "locked", "parked", "woken", "relocked",
               "running", "exited"}

WorkerStates == {"none", "started", "counting", "counted", "dispatching"}

Registered(w) == worker[w] \in {"counted", "dispatching"}

TypeOK ==
    /\ main \in MainStates
    /\ vec_size \in 0 .. ThreadNum
    /\ created \in 0 .. ThreadNum
    /\ worker \in [Workers -> WorkerStates]
    /\ init_lock_ \in Workers \cup {Main, Free}
    /\ init_count_ \in Nat
    /\ wakeup \in {"none", "signal", "spurious"}

Init ==
    /\ main = "listen"
    /\ vec_size = 0
    /\ created = 0
    /\ worker = [w \in Workers |-> "none"]
    /\ init_lock_ = Free
    /\ init_count_ = 0
    /\ wakeup = "none"

-----------------------------------------------------------------------------
(* The main thread. *)

\* The listening socket is open and its event added, before there is a worker.
Listen ==
    /\ main = "listen"
    /\ main' = "setup"
    /\ UNCHANGED <<vec_size, created, worker, init_lock_, init_count_, wakeup>>

\* The libevent version, a socket call or event_add: InitMasterThread returns
\* false and Run() exits.
ListenFails ==
    /\ main = "listen"
    /\ main' = "exited"
    /\ UNCHANGED <<vec_size, created, worker, init_lock_, init_count_, wakeup>>

\* Both loops run while i < thread_num_.  Faulty variant: once too often.
OneThreadMore(i) == i <= ThreadNum

MoreThreads(i) == i < ThreadNum

\* One turn of the first loop: new LIBEVENT_THREAD, pipe(), SetupThread.
SetupThread ==
    /\ main = "setup"
    /\ MoreThreads(vec_size)
    /\ vec_size' = vec_size + 1
    /\ UNCHANGED <<main, created, worker, init_lock_, init_count_, wakeup>>

\* pipe() or event_add() fails: InitThreads returns false and Run() exits.
SetupFails ==
    /\ main = "setup"
    /\ MoreThreads(vec_size)
    /\ main' = "exited"
    /\ UNCHANGED <<vec_size, created, worker, init_lock_, init_count_, wakeup>>

SetupDone ==
    /\ main = "setup"
    /\ vec_size = ThreadNum
    /\ main' = "create"
    /\ UNCHANGED <<vec_size, created, worker, init_lock_, init_count_, wakeup>>

CreateWorker ==
    /\ main = "create"
    /\ MoreThreads(created)
    /\ worker' = [worker EXCEPT ![created] = "started"]
    /\ created' = created + 1
    /\ UNCHANGED <<main, vec_size, init_lock_, init_count_, wakeup>>

\* pthread_create fails: exit(1), with the earlier workers already running.
CreateWorkerFails ==
    /\ main = "create"
    /\ MoreThreads(created)
    /\ main' = "exited"
    /\ UNCHANGED <<vec_size, created, worker, init_lock_, init_count_, wakeup>>

LockForWait ==
    /\ main = "create"
    /\ created = ThreadNum
    /\ init_lock_ = Free
    /\ init_lock_' = Main
    /\ main' = "locked"
    /\ UNCHANGED <<vec_size, created, worker, init_count_, wakeup>>

\* pthread_cond_wait releases the mutex and parks the thread in one step.
\* It is called whatever init_count_ is.
CondWait ==
    /\ main = "locked"
    /\ main' = "parked"
    /\ init_lock_' = Free
    /\ UNCHANGED <<vec_size, created, worker, init_count_, wakeup>>

\* POSIX lets pthread_cond_wait return without a signal; nothing promises it.
SpuriousWakeup ==
    /\ main = "parked"
    /\ main' = "woken"
    /\ wakeup' = "spurious"
    /\ UNCHANGED <<vec_size, created, worker, init_lock_, init_count_>>

CondWaitReturns ==
    /\ main = "woken"
    /\ init_lock_ = Free
    /\ init_lock_' = Main
    /\ main' = "relocked"
    /\ UNCHANGED <<vec_size, created, worker, init_count_, wakeup>>

\* InitThreads returns true and CMasterThread::Run starts dispatching.
UnlockAfterWait ==
    /\ main = "relocked"
    /\ init_lock_' = Free
    /\ main' = "running"
    /\ UNCHANGED <<vec_size, created, worker, init_count_, wakeup>>

\* event_base_dispatch returns, with an error or without events: the process
\* exits.
RunEnds ==
    /\ main = "running"
    /\ main' = "exited"
    /\ UNCHANGED <<vec_size, created, worker, init_lock_, init_count_, wakeup>>

MainNext ==
    \/ Listen
    \/ ListenFails
    \/ SetupThread
    \/ SetupFails
    \/ SetupDone
    \/ CreateWorker
    \/ CreateWorkerFails
    \/ LockForWait
    \/ CondWait
    \/ CondWaitReturns
    \/ UnlockAfterWait

-----------------------------------------------------------------------------
(* A worker thread: WorkerLibevent and RegisterThreadInitialized. *)

LockForCount(w) ==
    /\ main # "exited"
    /\ worker[w] = "started"
    /\ init_lock_ = Free
    /\ init_lock_' = w
    /\ worker' = [worker EXCEPT ![w] = "counting"]
    /\ UNCHANGED <<main, vec_size, created, init_count_, wakeup>>

\* pthread_cond_signal: wakes the main thread if it is parked, else nothing.
Signal ==
    IF main = "parked"
    THEN main' = "woken" /\ wakeup' = "signal"
    ELSE UNCHANGED <<main, wakeup>>

\* The test on init_count_ after its increment.  Faulty variants: a signal from
\* every worker; the comparison made before the increment.
AnyCount(count) == TRUE

CompleteBefore(count) == count - 1 = ThreadNum

CountComplete(count) == count = ThreadNum

\* init_count_++ and, when the count is complete, the signal.
Count(w) ==
    /\ main # "exited"
    /\ worker[w] = "counting"
    /\ init_count_' = init_count_ + 1
    /\ worker' = [worker EXCEPT ![w] = "counted"]
    /\ IF CountComplete(init_count_') THEN Signal ELSE UNCHANGED <<main, wakeup>>
    /\ UNCHANGED <<vec_size, created, init_lock_>>

\* pthread_mutex_unlock.  Faulty variant: it is forgotten.
StillLocked == init_lock_

Unlocked == Free

UnlockAfterCount(w) ==
    /\ main # "exited"
    /\ worker[w] = "counted"
    /\ init_lock_' = Unlocked
    /\ worker' = [worker EXCEPT ![w] = "dispatching"]
    /\ UNCHANGED <<main, vec_size, created, init_count_, wakeup>>

WorkerNext(w) ==
    \/ LockForCount(w)
    \/ Count(w)
    \/ UnlockAfterCount(w)

Next == MainNext \/ SpuriousWakeup \/ RunEnds \/ \E w \in Workers : WorkerNext(w)

Spec == Init /\ [][Next]_vars

(***************************************************************************)
(* Every runnable thread is eventually scheduled.  Each thread takes       *)
(* init_lock_ at most twice, so weak fairness also gives it the mutex.     *)
(***************************************************************************)
FairSpec ==
    /\ Spec
    /\ WF_vars(MainNext)
    /\ \A w \in Workers : WF_vars(WorkerNext(w))

-----------------------------------------------------------------------------
(***************************************************************************)
(* InitThreads "waits until all threads have been started"                 *)
(* (worker_threads.cc:399): if a signal ended its wait, then every worker  *)
(* has counted itself in when it returns.  A spurious wakeup ends the wait *)
(* too, as there is no condition to test again; then nothing is known.     *)
(***************************************************************************)
RunningMeansAllRegistered ==
    main \in {"relocked", "running"} /\ wakeup = "signal"
        => \A w \in Workers : Registered(w)

(***************************************************************************)
(* A main thread that is parked in WaitForThreadRegistration before the    *)
(* last worker counts itself in is released by that worker's signal.       *)
(***************************************************************************)
ParkedMainIsReleased ==
    (main = "parked" /\ init_count_ < ThreadNum) ~> (main = "running")

(***************************************************************************)
(* Once the master dispatches, every worker reaches its event loop, even   *)
(* when a spurious wakeup let the master go before they had all counted    *)
(* themselves in: no connection is handed to a worker that never looks.    *)
(* Only the end of the process stops them.                                 *)
(***************************************************************************)
RunningLeadsToServing ==
    (main = "running")
        ~> (main = "exited" \/ \A w \in Workers : worker[w] = "dispatching")

(***************************************************************************)
(* The wait of InitThreads ends: the server either runs or has exited.     *)
(***************************************************************************)
StartupCompletes == <>(main \in {"running", "exited"})

=============================================================================
