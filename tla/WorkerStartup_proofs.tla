------------------------ MODULE WorkerStartup_proofs ------------------------
(***************************************************************************)
(* WorkerStartup for every number of threads: the types, and that a master *)
(* whose wait was ended by a signal has every worker registered.           *)
(***************************************************************************)
EXTENDS WorkerStartup, FiniteSetTheorems, TLAPS

(***************************************************************************)
(* The inductive invariant behind RunningMeansAllRegistered: who holds     *)
(* init_lock_, that init_count_ counts the registered workers, that only a *)
(* complete count signals the main thread, and that a worker does nothing  *)
(* before it is created.                                                   *)
(***************************************************************************)
LockInv ==
    /\ \A w \in Workers : worker[w] \in {"counting", "counted"} <=> init_lock_ = w
    /\ main \in {"locked", "relocked"} => init_lock_ = Main

CountInv == init_count_ = Cardinality({w \in Workers : Registered(w)})

WokenInv == wakeup = "signal" => init_count_ = ThreadNum

CreatedInv == \A w \in Workers : w >= created => worker[w] = "none"

StartupInv == TypeOK /\ LockInv /\ CountInv /\ WokenInv /\ CreatedInv

LEMMA WorkersFinite ==
    IsFiniteSet(Workers) /\ Cardinality(Workers) = ThreadNum
<1> USE StartupAssumption DEF Workers
<1>1. ThreadNum - 1 \in Int /\ 0 \in Int
  OBVIOUS
<1>2. CASE ThreadNum = 0
  <2>1. 0 .. ThreadNum - 1 = {}
    BY <1>2
  <2> QED
    BY <1>2, <2>1, FS_EmptySet
<1>3. CASE ThreadNum > 0
  BY <1>1, <1>3, FS_Interval
<1> QED
  BY <1>2, <1>3

(***************************************************************************)
(* Type correctness of the start-up state.                                 *)
(***************************************************************************)
THEOREM TypeCorrect == Spec => []TypeOK
<1> USE StartupAssumption DEF TypeOK, Workers, Main, Free, MainStates, WorkerStates
<1>1. Init => TypeOK
  BY DEF Init
<1>2. TypeOK /\ [Next]_vars => TypeOK'
  <2> SUFFICES ASSUME TypeOK, [Next]_vars PROVE TypeOK'
    OBVIOUS
  <2>1. CASE MainNext
    BY <2>1 DEF MainNext, Listen, ListenFails, SetupThread, SetupFails, SetupDone,
          CreateWorker,
        CreateWorkerFails, MoreThreads, LockForWait, CondWait, CondWaitReturns, UnlockAfterWait
  <2>2. CASE SpuriousWakeup \/ RunEnds
    BY <2>2 DEF SpuriousWakeup, RunEnds
  <2>3. ASSUME NEW w \in Workers, LockForCount(w) PROVE TypeOK'
    BY <2>3 DEF LockForCount
  <2>4. ASSUME NEW w \in Workers, Count(w) PROVE TypeOK'
    BY <2>4 DEF Count, CountComplete, Signal
  <2>5. ASSUME NEW w \in Workers, UnlockAfterCount(w) PROVE TypeOK'
    BY <2>5 DEF UnlockAfterCount, Unlocked
  <2>6. CASE UNCHANGED vars
    BY <2>6 DEF vars
  <2> QED
    BY <2>1, <2>2, <2>3, <2>4, <2>5, <2>6 DEF Next, WorkerNext
<1> QED
  BY <1>1, <1>2, PTL DEF Spec

RegisteredSet == {w \in Workers : Registered(w)}

(***************************************************************************)
(* A complete count means that every worker is registered.                 *)
(***************************************************************************)
LEMMA CompleteCount ==
    ASSUME TypeOK, CountInv, init_count_ = ThreadNum
    PROVE  \A w \in Workers : Registered(w)
<1>1. RegisteredSet \subseteq Workers
  BY DEF RegisteredSet
<1>2. Cardinality(RegisteredSet) = Cardinality(Workers)
  BY WorkersFinite DEF CountInv, RegisteredSet
<1>3. RegisteredSet = Workers
  BY <1>1, <1>2, WorkersFinite, FS_Subset
<1> QED
  BY <1>3 DEF RegisteredSet

(***************************************************************************)
(* The inductive step for init_count_: Count registers one more worker,    *)
(* every other step leaves the registered set alone.                       *)
(***************************************************************************)
LEMMA CountStep ==
    ASSUME StartupInv, NEW w \in Workers, Count(w)
    PROVE  CountInv'
<1>1. ~Registered(w)
  BY DEF Count, Registered
<1>2. RegisteredSet' = RegisteredSet \cup {w}
  BY DEF Count, RegisteredSet, Registered, StartupInv, TypeOK
<1>3. IsFiniteSet(RegisteredSet)
  BY WorkersFinite, FS_Subset DEF RegisteredSet
<1>4. Cardinality(RegisteredSet \cup {w}) = Cardinality(RegisteredSet) + 1
  BY <1>1, <1>3, FS_AddElement DEF RegisteredSet
<1> QED
  BY <1>2, <1>4 DEF CountInv, StartupInv, Count, RegisteredSet

(***************************************************************************)
(* StartupInv is inductive.                                                *)
(***************************************************************************)
LEMMA StartupInvInductive ==
    /\ Init => StartupInv
    /\ StartupInv /\ [Next]_vars => StartupInv'
<1> USE StartupAssumption
<1>1. Init => StartupInv
  <2> SUFFICES ASSUME Init PROVE StartupInv
    OBVIOUS
  <2>1. TypeOK
    BY DEF Init, TypeOK, Workers, MainStates, WorkerStates, Main, Free
  <2>2. LockInv /\ WokenInv /\ CreatedInv
    BY DEF Init, LockInv, WokenInv, CreatedInv, Workers, Main, Free
  <2>3. {w \in Workers : Registered(w)} = {}
    BY DEF Init, Registered
  <2>4. CountInv
    BY <2>3, FS_EmptySet DEF Init, CountInv
  <2> QED
    BY <2>1, <2>2, <2>4 DEF StartupInv
<1>2. StartupInv /\ [Next]_vars => StartupInv'
  <2> SUFFICES ASSUME StartupInv, [Next]_vars PROVE StartupInv'
    OBVIOUS
  <2> USE DEF StartupInv
  <2>1. TypeOK'
    <3> USE DEF TypeOK, Workers, Main, Free, MainStates, WorkerStates
    <3>1. CASE MainNext
      BY <3>1 DEF MainNext, Listen, ListenFails, SetupThread, SetupFails, SetupDone,
          CreateWorker,
          CreateWorkerFails, MoreThreads, LockForWait, CondWait, CondWaitReturns, UnlockAfterWait
    <3>2. ASSUME NEW w \in Workers, WorkerNext(w) PROVE TypeOK'
      BY <3>2 DEF WorkerNext, LockForCount, Count, CountComplete, Signal, UnlockAfterCount, Unlocked
    <3> QED
      BY <3>1, <3>2 DEF Next, SpuriousWakeup, RunEnds, vars
  <2>2. CASE MainNext
    <3>1. \A w \in Workers : Registered(w)' = Registered(w)
      BY <2>2 DEF MainNext, Listen, ListenFails, SetupThread, SetupFails, SetupDone,
          CreateWorker,
          CreateWorkerFails, MoreThreads, LockForWait, CondWait, CondWaitReturns,
          UnlockAfterWait, Registered, TypeOK, CreatedInv, Workers
    <3>2. CountInv'
      BY <2>2, <3>1 DEF CountInv, MainNext, Listen, ListenFails, SetupThread,
          SetupFails, SetupDone,
          CreateWorker, CreateWorkerFails, MoreThreads, LockForWait, CondWait, CondWaitReturns,
          UnlockAfterWait
    <3>3. LockInv'
      BY <2>2 DEF LockInv, CreatedInv, TypeOK, MainNext, Listen, ListenFails,
          SetupThread, SetupFails, SetupDone,
          CreateWorker, CreateWorkerFails, MoreThreads, LockForWait, CondWait, CondWaitReturns,
          UnlockAfterWait, Workers, Main, Free
    <3>4. WokenInv'
      BY <2>2 DEF WokenInv, MainNext, Listen, ListenFails, SetupThread, SetupFails,
          SetupDone,
          CreateWorker, CreateWorkerFails, MoreThreads, LockForWait, CondWait, CondWaitReturns,
          UnlockAfterWait
    <3>5. CreatedInv'
      BY <2>2 DEF CreatedInv, TypeOK, MainNext, Listen, ListenFails, SetupThread,
          SetupFails, SetupDone,
          CreateWorker, CreateWorkerFails, MoreThreads, LockForWait, CondWait, CondWaitReturns,
          UnlockAfterWait, Workers
    <3> QED
      BY <2>1, <3>2, <3>3, <3>4, <3>5
  <2>3. ASSUME NEW w \in Workers, LockForCount(w) PROVE StartupInv'
    <3>1. \A v \in Workers : Registered(v)' = Registered(v)
      BY <2>3 DEF LockForCount, Registered, TypeOK
    <3>2. CountInv'
      BY <2>3, <3>1 DEF CountInv, LockForCount
    <3>3. LockInv' /\ WokenInv' /\ CreatedInv'
      BY <2>3 DEF LockInv, WokenInv, CreatedInv, TypeOK, LockForCount, Workers, Main,
          Free
    <3> QED
      BY <2>1, <3>2, <3>3
  <2>4. ASSUME NEW w \in Workers, Count(w) PROVE StartupInv'
    <3>1. CountInv'
      BY <2>4, CountStep
    <3>2. LockInv'
      BY <2>4 DEF LockInv, TypeOK, Count, CountComplete, Signal, Workers, Main, Free
    <3>3. init_count_ # ThreadNum
      <4>1. ~Registered(w)
        BY <2>4 DEF Count, Registered
      <4> QED
        BY <4>1, CompleteCount
    <3>4. WokenInv'
      BY <2>4, <3>3 DEF WokenInv, TypeOK, Count, CountComplete, Signal
    <3>5. CreatedInv'
      BY <2>4 DEF CreatedInv, TypeOK, Count
    <3> QED
      BY <2>1, <3>1, <3>2, <3>4, <3>5
  <2>5. ASSUME NEW w \in Workers, UnlockAfterCount(w) PROVE StartupInv'
    <3>1. \A v \in Workers : Registered(v)' = Registered(v)
      BY <2>5 DEF UnlockAfterCount, Registered, TypeOK
    <3>2. CountInv'
      BY <2>5, <3>1 DEF CountInv, UnlockAfterCount
    <3>3. LockInv' /\ WokenInv' /\ CreatedInv'
      BY <2>5 DEF LockInv, WokenInv, CreatedInv, TypeOK, UnlockAfterCount, Unlocked, Workers,
          Main, Free
    <3> QED
      BY <2>1, <3>2, <3>3
  <2>6. CASE SpuriousWakeup \/ RunEnds
    <3>1. CountInv'
      BY <2>6 DEF SpuriousWakeup, RunEnds, CountInv, Registered
    <3> QED
      BY <2>6, <2>1, <3>1 DEF SpuriousWakeup, RunEnds, LockInv, WokenInv, CreatedInv
  <2>7. CASE UNCHANGED vars
    BY <2>7, <2>1 DEF vars, LockInv, CountInv, WokenInv, CreatedInv, Registered
  <2> QED
    BY <2>2, <2>3, <2>4, <2>5, <2>6, <2>7 DEF Next, WorkerNext
<1> QED
  BY <1>1, <1>2

(***************************************************************************)
(* Whenever InitThreads has returned true because pthread_cond_wait was    *)
(* signalled, every worker is registered, for every thread_num_.           *)
(***************************************************************************)
THEOREM RunningMeansRegistered == Spec => []RunningMeansAllRegistered
<1>1. StartupInv => RunningMeansAllRegistered
  BY CompleteCount DEF StartupInv, WokenInv, RunningMeansAllRegistered
<1> QED
  BY <1>1, StartupInvInductive, PTL DEF Spec

=============================================================================
