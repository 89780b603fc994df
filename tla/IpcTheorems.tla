---------------------------- MODULE IpcTheorems -----------------------------
(***************************************************************************)
(* Semaphores and mutexes keep their promises, whatever the number of      *)
(* tasks, priorities and objects.  The kernel does what the modules        *)
(* SemProofs and MuxProofs take of it (KernelDoes), so what they prove of  *)
(* the semaphores and of the mutexes holds.                                *)
(***************************************************************************)
EXTENDS TaskProofs, IpcProofs, SemProofs, MuxProofs

(* Zenon proves the leaves that name no other prover. *)
USE Zenon

(* The kernel keeps its invariant, and does no more to a task that waits   *)
(* on an IPC object than the IPC calls, a time-out or its end call for.    *)
LEMMA Kernel ==
    KernelDoes
<1>1. PendDoes
  BY PendInv, PendWaits DEF PendDoes
<1>2. WakeDoes
  BY WakeInv, WakeHands DEF WakeDoes, Inv, Semi
<1>3. ReturnDoes
  BY ReturnInv, ReturnEnds, IpcCallFacts DEF ReturnDoes
<1>4. ModifyDoes
  <2> SUFFICES ASSUME NEW r, NEW t \in Task, NEW p \in Prio, Inv(k, call, tick), t # Idle,
                      Living(k, t), r = OsSchedModifyTaskSchedParam(k, t, p)
               PROVE  /\ Inv(r, call, tick) /\ Only(k, r, t) /\ Spares(k, r)
                      /\ \A u \in Context : r.status[u] = k.status[u]
    BY DEF ModifyDoes
  <2>1. /\ Inv(r, call, tick) /\ Only(k, r, t) /\ \A u \in Context : r.status[u] = k.status[u]
        /\ \A u \in Task, h \in WaitLists : On(r, u, h) <=> On(k, u, h)
    <3>1. "UNUSED" \notin k.status[t]
      BY DEF Living
    <3> QED BY SMT, <3>1, ModifyInv
  <2>2. Core(k) /\ Drops(k, r, t)
    BY InvFacts, DropParam
  <2>3. Spares(k, r)
    BY <2>1, <2>2, ListsSame, IpcFacts
  <2> QED BY <2>1, <2>3
<1>5. StepDoes
  BY NextInv, NextIpc, NatMin, IInvMeans DEF StepDoes
<1> QED BY <1>1, <1>2, <1>3, <1>4, <1>5 DEF KernelDoes

----------------------------------------------------------------------------
(* The inductive invariant: that of module Task, the properties proved of  *)
(* the semaphores, the boot code never waits, and g_unusedSemList holds    *)
(* each unused semaphore at most once.                                     *)
SemIInv ==
    /\ IInv /\ SemTypeOK /\ NoWaitBesideTokens /\ WaitersInPend
    /\ ~IsIpc(call[Shadow])
    /\ IsInjective(unusedSem) /\ \A o \in Range(unusedSem) : ~sem[o].used

(* SemIInv in the terms of the lemmas, now and after a step *)
LEMMA SemMeans ==
    /\ SemIInv <=> Inv(k, call, tick) /\ SemWell(k, call, sem, unusedSem)
    /\ SemIInv' <=> Inv(k', call', tick') /\ SemAfter
<1>1. /\ NoWaitBesideTokens <=> SemOK(k, sem)
      /\ NoWaitBesideTokens' <=> SemOK(k', sem')
  BY DEF NoWaitBesideTokens, SemOK
<1>2. /\ WaitersInPend /\ ~IsIpc(call[Shadow]) <=> Waiters(k, call)
      /\ WaitersInPend' /\ ~IsIpc(call'[Shadow]) <=> Waiters(k', call')
  BY DEF WaitersInPend, Waiters, On, Late, Living, IsIpc, CIpc, Has
<1>3. (IInv => TaskTypeOK) /\ (IInv' => TaskTypeOK')
  BY DEF IInv
<1> QED
  BY <1>1, <1>2, <1>3, IInvMeans DEF SemIInv, SemWell, SemAfter, SemTypeOK, SemPool

----------------------------------------------------------------------------
(* The inductive invariant holds in every state of a program that keeps to *)
(* the API.                                                                *)
THEOREM SemSafe ==
    ASSUME Unguarded = {} PROVE SemSpec => []SemIInv
<1>1. SemInit => SemIInv
  <2>1. SemInit => TaskInit
    BY DEF SemInit
  <2> QED BY <2>1, InitInv, IInvMeans, SemInitWell, SemMeans
<1>2. SemIInv /\ [SemNext]_semVars => SemIInv'
  BY SemMeans, SemNextInv, Kernel
<1> QED BY <1>1, <1>2, PTL DEF SemSpec

(* The control blocks and g_unusedSemList keep their type. *)
THEOREM SemTypeCorrect ==
    ASSUME Unguarded = {} PROVE SemSpec => []SemTypeOK
<1>1. SemIInv => SemTypeOK
  BY DEF SemIInv
<1> QED BY <1>1, SemSafe, PTL

(* No task waits on a semaphore that is unused or has a count, and no      *)
(* count exceeds its maximum: LOS_SemPost never leaves a waiter beside a   *)
(* token, and LOS_SemDelete none on a semaphore that is gone.              *)
THEOREM SemTokens ==
    ASSUME Unguarded = {} PROVE SemSpec => []NoWaitBesideTokens
<1>1. SemIInv => NoWaitBesideTokens
  BY DEF SemIInv
<1> QED BY <1>1, SemSafe, PTL

(* Tasks wait on a semaphore inside LOS_SemPend only, those that wait have *)
(* not timed out, and a time-out bit is left to the call it belongs to,    *)
(* however ticks, posts, deletions and suspensions interleave.             *)
THEOREM SemWaiters ==
    ASSUME Unguarded = {} PROVE SemSpec => []WaitersInPend
<1>1. SemIInv => WaitersInPend
  BY DEF SemIInv
<1> QED BY <1>1, SemSafe, PTL

(* Under the interrupt contract of module Sched the scheduler's own        *)
(* invariants, NoFault among them, hold with the steps                     *)
(* of LOS_SemPend and LOS_SemPost added to those of module Task.           *)
THEOREM SemKernelSafe ==
    ASSUME Unguarded = {}
    PROVE  SemSpec => [](NoFault /\ SchedConsistent /\ NoTaskLost /\ BlockedLeaves)
<1>1. SemIInv => NoFault /\ SchedConsistent /\ NoTaskLost /\ BlockedLeaves
  BY DEF SemIInv, IInv
<1> QED BY <1>1, SemSafe, PTL

(* The semaphores implement AbsSem: every accepted post becomes one count  *)
(* or one token for the task that waited longest, and a waiter whose       *)
(* time-out, post and deletion race is told exactly one of them.           *)
THEOREM SemImplementsAbs ==
    ASSUME Unguarded = {} PROVE SemSpec => SemRefinesAbs
<1>1. SemInit => Abs!Init
  BY SemInitWell
<1>2. SemIInv /\ [SemNext]_semVars => [Abs!Next]_(Abs!absVars)
  BY SemMeans, SemNextInv, Kernel DEF AbsStep
<1> QED BY <1>1, <1>2, SemSafe, PTL DEF SemSpec, SemRefinesAbs, Abs!Spec

----------------------------------------------------------------------------
(* The inductive invariant of the mutexes: that of module Task, and that   *)
(* the owner of a mutex is who holds it, waiters wait for an owner, an     *)
(* owner lives and has noted its own priority in the first mutex it        *)
(* locked, and the unused mutexes are free.                                *)
MuxIInv == IInv /\ MuxWell(k, call, mux, unusedMux, held, base)

(* It implies the properties. *)
LEMMA MuxIInvMeans ==
    ASSUME MuxIInv PROVE MuxTypeOK /\ PendMakesOwner /\ NoWaitForFree /\ PriorityRestored
BY MuxMeans DEF MuxIInv, IInv

(* The inductive invariant holds in every state of a program that keeps to *)
(* the API and to the usage patterns of module Mux.                        *)
THEOREM MuxSafe ==
    ASSUME Unguarded = {} PROVE MuxSpec => []MuxIInv
<1>1. MuxInit => MuxIInv
  <2>1. MuxInit => IInv
    BY InitInv DEF MuxInit
  <2> QED BY <2>1, MuxInitWell DEF MuxIInv
<1>2. MuxIInv /\ [MuxNext]_muxVars => MuxIInv'
  BY MuxNextInv, IInvMeans, Kernel DEF MuxIInv, MuxAfter
<1> QED BY <1>1, <1>2, PTL DEF MuxSpec

(* The control blocks and g_unusedMuxList keep their type. *)
THEOREM MuxTypeCorrect ==
    ASSUME Unguarded = {} PROVE MuxSpec => []MuxTypeOK
<1>1. MuxIInv => MuxTypeOK
  BY MuxIInvMeans
<1> QED BY <1>1, MuxSafe, PTL

(* Mutual exclusion: a task for which LOS_MuxPend returned LOS_OK owns the *)
(* mutex until its last LOS_MuxPost, one that timed out does not, and the  *)
(* hand-over races with neither time-outs nor deletions.                   *)
THEOREM MuxOwners ==
    ASSUME Unguarded = {} PROVE MuxSpec => []PendMakesOwner
<1>1. MuxIInv => PendMakesOwner
  BY MuxIInvMeans
<1> QED BY <1>1, MuxSafe, PTL

(* No task waits for a mutex that is free, deleted or its own.             *)
THEOREM MuxWaiters ==
    ASSUME Unguarded = {} PROVE MuxSpec => []NoWaitForFree
<1>1. MuxIInv => NoWaitForFree
  BY MuxIInvMeans
<1> QED BY <1>1, MuxSafe, PTL

(* Priority inheritance ends with the last mutex, however many were locked *)
(* and whoever lent the owner its priority.                                *)
THEOREM MuxPriorities ==
    ASSUME Unguarded = {} PROVE MuxSpec => []PriorityRestored
<1>1. MuxIInv => PriorityRestored
  BY MuxIInvMeans
<1> QED BY <1>1, MuxSafe, PTL

(* Under the interrupt contract of module Sched the scheduler's own        *)
(* invariants, NoFault among them, hold with the steps                     *)
(* of LOS_MuxPend and LOS_MuxPost added to those of module Task, the       *)
(* change of the priority of a task that waits or is ready included.       *)
THEOREM MuxKernelSafe ==
    ASSUME Unguarded = {}
    PROVE  MuxSpec => [](NoFault /\ SchedConsistent /\ NoTaskLost /\ BlockedLeaves)
<1>1. MuxIInv => NoFault /\ SchedConsistent /\ NoTaskLost /\ BlockedLeaves
  BY DEF MuxIInv, IInv
<1> QED BY <1>1, MuxSafe, PTL
============================================================================
