----------------------------- MODULE SemProofs ------------------------------
(***************************************************************************)
(* What each step does to the semaphores, told from what it does to the    *)
(* tasks and the wait lists (KernelDoes of SchedProofs): it keeps the      *)
(* invariant SemWell of the control blocks, and it is a step of AbsSem or  *)
(* none.                                                                   *)
(***************************************************************************)
EXTENDS Sem, SchedProofs

(* Zenon proves the leaves that name no other prover. *)
USE Zenon

----------------------------------------------------------------------------
(* NoWaitBesideTokens of the kernel state s and the control blocks S *)
SemOK(s, S) ==
    \A o \in IpcList :
        /\ s.list[Ipc(o)] # <<>> => S[o].used /\ S[o].count = 0
        /\ S[o].used => S[o].count <= S[o].max /\ S[o].max > 0

(* The control blocks and the free list *)
SemPool(S, q) ==
    /\ S \in [IpcList -> SemCB] /\ q \in Seq(IpcList)
    /\ IsInjective(q) /\ \A o \in Range(q) : ~S[o].used

(* What the semaphores add to the invariant of module Task. *)
SemWell(s, C, S, q) == Waiters(s, C) /\ SemOK(s, S) /\ SemPool(S, q)

(* Taking a semaphore off g_unusedSemList *)
LEMMA PoolCreate ==
    ASSUME NEW S, NEW q, SemPool(S, q), q # <<>>, NEW n \in Nat, NEW m \in Nat
    PROVE  /\ Head(q) \in IpcList /\ ~S[Head(q)].used
           /\ SemPool([S EXCEPT ![Head(q)] = [used |-> TRUE, count |-> n, max |-> m]], Tail(q))
<1>1. /\ Head(q) \in Range(q) /\ Head(q) \in IpcList
      /\ Tail(q) \in Seq(IpcList) /\ IsInjective(Tail(q))
      /\ \A o \in Range(Tail(q)) : o \in Range(q) /\ o # Head(q) /\ o \in IpcList
  BY PoolTake DEF SemPool
<1>2. [used |-> TRUE, count |-> n, max |-> m] \in SemCB
  BY DEF SemCB
<1> DEFINE T == [S EXCEPT ![Head(q)] = [used |-> TRUE, count |-> n, max |-> m]]
<1>3. T \in [IpcList -> SemCB]
  BY <1>1, <1>2 DEF SemPool
<1>4. \A o \in Range(Tail(q)) : ~T[o].used
  BY <1>1 DEF SemPool
<1> QED BY <1>1, <1>3, <1>4 DEF SemPool

(* Putting it back *)
LEMMA PoolDelete ==
    ASSUME NEW S, NEW q, SemPool(S, q), NEW o \in IpcList, S[o].used
    PROVE  SemPool([S EXCEPT ![o].used = FALSE], <<o>> \o q)
<1> DEFINE T == [S EXCEPT ![o].used = FALSE]
<1>1. q \in Seq(IpcList) /\ IsInjective(q) /\ o \notin Range(q) /\ S \in [IpcList -> SemCB]
  BY DEF SemPool
<1>2. PICK p : p = <<o>> \o q
  OBVIOUS
<1>3. /\ p \in Seq(IpcList) /\ IsInjective(p)
      /\ \A x \in Range(p) : x \in IpcList /\ (x = o \/ x \in Range(q))
  BY <1>1, <1>2, PoolGive
<1>4. T \in [IpcList -> SemCB] /\ ~T[o].used /\ \A x \in IpcList \ {o} : T[x] = S[x]
  BY <1>1 DEF SemCB
<1> HIDE DEF T
<1>5. \A x \in Range(p) : ~T[x].used
  BY <1>1, <1>3, <1>4 DEF SemPool
<1>6. SemPool(T, p)
  BY <1>3, <1>4, <1>5 DEF SemPool
<1> QED BY <1>2, <1>6 DEF T

(* A change of the count *)
LEMMA PoolCount ==
    ASSUME NEW S, NEW q, SemPool(S, q), NEW o \in IpcList, NEW n \in Nat
    PROVE  SemPool([S EXCEPT ![o].count = n], q)
<1> DEFINE T == [S EXCEPT ![o].count = n]
<1>1. q \in Seq(IpcList) /\ S \in [IpcList -> SemCB] /\ Range(q) \subseteq IpcList
  BY SMT DEF SemPool, Range
<1>2. T \in [IpcList -> SemCB] /\ \A x \in IpcList : T[x].used = S[x].used
  BY <1>1 DEF SemCB
<1> QED BY <1>1, <1>2 DEF SemPool

----------------------------------------------------------------------------
(* The steps *)

(* LOS_SemCreate *)
LEMMA SemCreateWell ==
    ASSUME SemWell(k, call, sem, unusedSem), NEW max \in MaxCounts, NEW count \in 0 .. max,
           LOS_SemCreate(count, max)
    PROVE  SemWell(k', call', sem', unusedSem')
<1> DEFINE o == Head(unusedSem)
<1>1. max \in Nat \ {0} /\ count \in Nat /\ count <= max
  BY SMT, SemConstants
<1>2. /\ unusedSem # <<>> /\ unusedSem' = Tail(unusedSem)
      /\ sem' = [sem EXCEPT ![o] = [used |-> TRUE, count |-> count, max |-> max]]
      /\ k' = k /\ call' = call
  BY DEF LOS_SemCreate, taskVars
<1>3. o \in IpcList /\ ~sem[o].used /\ SemPool(sem', unusedSem')
  BY <1>1, <1>2, PoolCreate DEF SemWell
<1>4. sem \in [IpcList -> SemCB]
  BY DEF SemWell, SemPool
<1> HIDE DEF o
<1>5. SemOK(k, sem')
  <2> SUFFICES ASSUME NEW p \in IpcList
               PROVE  /\ k.list[Ipc(p)] # <<>> => sem'[p].used /\ sem'[p].count = 0
                      /\ sem'[p].used => sem'[p].count <= sem'[p].max /\ sem'[p].max > 0
    BY DEF SemOK
  <2>1. /\ k.list[Ipc(p)] # <<>> => sem[p].used /\ sem[p].count = 0
        /\ sem[p].used => sem[p].count <= sem[p].max /\ sem[p].max > 0
    BY DEF SemWell, SemOK
  <2> QED BY SMT, <1>1, <1>2, <1>3, <1>4, <2>1
<1> QED BY <1>2, <1>3, <1>5 DEF SemWell

(* LOS_SemDelete *)
LEMMA SemDeleteWell ==
    ASSUME SemWell(k, call, sem, unusedSem), NEW o \in IpcList, LOS_SemDelete(o)
    PROVE  SemWell(k', call', sem', unusedSem')
<1>1. /\ sem[o].used /\ k.list[Ipc(o)] = <<>> /\ unusedSem' = <<o>> \o unusedSem
      /\ sem' = [sem EXCEPT ![o].used = FALSE]
      /\ k' = k /\ call' = call
  BY DEF LOS_SemDelete, taskVars
<1>2. SemPool(sem', unusedSem')
  BY <1>1, PoolDelete DEF SemWell
<1>3. sem \in [IpcList -> SemCB]
  BY DEF SemWell, SemPool
<1>4. SemOK(k, sem')
  BY <1>1, <1>3 DEF SemWell, SemOK, SemCB
<1> QED BY <1>1, <1>2, <1>4 DEF SemWell

(* LOS_SemPend that finds a count *)
LEMMA SemTakeWell ==
    ASSUME SemWell(k, call, sem, unusedSem), NEW o \in IpcList, sem[o].count > 0,
           sem' = [sem EXCEPT ![o].count = @ - 1], k' = k, call' = call, unusedSem' = unusedSem
    PROVE  SemWell(k', call', sem', unusedSem')
<1>1. sem \in [IpcList -> SemCB]
  BY DEF SemWell, SemPool
<1>2. sem[o].count \in Nat /\ sem[o].count - 1 \in Nat
  BY SMT, <1>1 DEF SemCB
<1>3. sem' = [sem EXCEPT ![o].count = sem[o].count - 1]
  BY <1>1
<1>4. SemPool(sem', unusedSem')
  <2>1. PICK n \in Nat : n = sem[o].count - 1
    BY <1>2
  <2>2. SemPool([sem EXCEPT ![o].count = n], unusedSem)
    BY PoolCount DEF SemWell
  <2> QED BY <1>3, <2>1, <2>2
<1>5. SemOK(k, sem')
  <2> SUFFICES ASSUME NEW p \in IpcList
               PROVE  /\ k.list[Ipc(p)] # <<>> => sem'[p].used /\ sem'[p].count = 0
                      /\ sem'[p].used => sem'[p].count <= sem'[p].max /\ sem'[p].max > 0
    BY DEF SemOK
  <2>1. /\ k.list[Ipc(p)] # <<>> => sem[p].used /\ sem[p].count = 0
        /\ sem[p].used => sem[p].count <= sem[p].max /\ sem[p].max > 0
    BY DEF SemWell, SemOK
  <2>2. sem[p] \in SemCB /\ sem[p].count \in Nat /\ sem[p].max \in Nat
    BY <1>1 DEF SemCB
  <2> QED BY SMT, <1>1, <1>2, <1>3, <2>1, <2>2 DEF SemCB
<1> QED BY <1>4, <1>5 DEF SemWell

(* LOS_SemPend that waits *)
LEMMA SemWaitWell ==
    ASSUME Core(k), SemWell(k, call, sem, unusedSem), NEW o \in IpcList, NEW c,
           sem[o].used, sem[o].count = 0, Pended(k, k', call, call', c, o),
           sem' = sem, unusedSem' = unusedSem
    PROVE  SemWell(k', call', sem', unusedSem')
<1>1. Waiters(k', call')
  BY WaitersPended DEF SemWell
<1>2. SemOK(k', sem)
  BY DEF SemWell, SemOK, Pended
<1> QED BY <1>1, <1>2 DEF SemWell

(* LOS_SemPend after LOS_Schedule *)
LEMMA SemReturnWell ==
    ASSUME SemWell(k, call, sem, unusedSem), NEW c, Returned(k, k', call, call', c),
           sem' = sem, unusedSem' = unusedSem
    PROVE  SemWell(k', call', sem', unusedSem')
<1>1. Waiters(k', call')
  BY WaitersReturned DEF SemWell
<1>2. SemOK(k', sem)
  BY DEF SemWell, SemOK, Returned, Spares
<1> QED BY <1>1, <1>2 DEF SemWell

(* LOS_SemPost that finds a waiter *)
LEMMA SemHandWell ==
    ASSUME Core(k), SemWell(k, call, sem, unusedSem), NEW t \in Task, NEW o \in IpcList,
           On(k, t, Ipc(o)), Handed(k, k', call, call, t),
           call' = call, sem' = sem, unusedSem' = unusedSem
    PROVE  SemWell(k', call', sem', unusedSem')
<1>1. /\ Waiters(k', call)
      /\ \A p \in IpcList : k.list[Ipc(p)] = <<>> => k'.list[Ipc(p)] = <<>>
  BY SMT, WaitersHanded DEF SemWell
<1>2. SemOK(k', sem)
  BY <1>1 DEF SemWell, SemOK
<1> QED BY <1>1, <1>2 DEF SemWell

(* LOS_SemPost that finds none *)
LEMMA SemCountWell ==
    ASSUME SemWell(k, call, sem, unusedSem), NEW o \in IpcList, k.list[Ipc(o)] = <<>>,
           sem[o].used, sem[o].count # sem[o].max,
           sem' = [sem EXCEPT ![o].count = @ + 1], k' = k, call' = call, unusedSem' = unusedSem
    PROVE  SemWell(k', call', sem', unusedSem')
<1>1. sem \in [IpcList -> SemCB]
  BY DEF SemWell, SemPool
<1>2. sem[o].count \in Nat /\ sem[o].max \in Nat /\ sem[o].count + 1 \in Nat
  BY SMT, <1>1 DEF SemCB
<1>3. sem' = [sem EXCEPT ![o].count = sem[o].count + 1]
  BY <1>1
<1>4. SemPool(sem', unusedSem')
  <2>1. PICK n \in Nat : n = sem[o].count + 1
    BY <1>2
  <2>2. SemPool([sem EXCEPT ![o].count = n], unusedSem)
    BY PoolCount DEF SemWell
  <2> QED BY <1>3, <2>1, <2>2
<1>5. SemOK(k, sem')
  <2> SUFFICES ASSUME NEW p \in IpcList
               PROVE  /\ k.list[Ipc(p)] # <<>> => sem'[p].used /\ sem'[p].count = 0
                      /\ sem'[p].used => sem'[p].count <= sem'[p].max /\ sem'[p].max > 0
    BY DEF SemOK
  <2>1. /\ k.list[Ipc(p)] # <<>> => sem[p].used /\ sem[p].count = 0
        /\ sem[p].used => sem[p].count <= sem[p].max /\ sem[p].max > 0
    BY DEF SemWell, SemOK
  <2>2. sem[p] \in SemCB /\ sem[p].count \in Nat /\ sem[p].max \in Nat
    BY <1>1 DEF SemCB
  <2> QED BY SMT, <1>1, <1>2, <1>3, <2>1, <2>2 DEF SemCB
<1> QED BY <1>4, <1>5 DEF SemWell

(* A step of module Task *)
LEMMA SemTaskWell ==
    ASSUME Core(k), SemWell(k, call, sem, unusedSem), IpcStep(k, k', call, call'),
           sem' = sem, unusedSem' = unusedSem
    PROVE  SemWell(k', call', sem', unusedSem')
<1>1. /\ Waiters(k', call')
      /\ \A o \in IpcList : k.list[Ipc(o)] = <<>> => k'.list[Ipc(o)] = <<>>
  BY WaitersStep DEF SemWell
<1>2. SemOK(k', sem)
  BY <1>1 DEF SemWell, SemOK
<1> QED BY <1>1, <1>2 DEF SemWell

----------------------------------------------------------------------------
(* The state of AbsSem that a state of the semaphores stands for. *)
AbsUsed(S)   == {o \in IpcList : S[o].used}
AbsCount(S)  == [o \in IpcList |-> S[o].count]
AbsMax(S)    == [o \in IpcList |-> S[o].max]
AbsAlive(s)  == {c \in Task : Living(s, c)}
AbsQueue(s)  == [o \in IpcList |-> s.list[Ipc(o)]]
Told(s, C, c) ==
    IF IsIpc(C[c]) /\ ~On(s, c, Ipc(C[c][2]))
    THEN IF Late(s, c) THEN "timeout" ELSE "token"
    ELSE "none"
AbsOutcome(s, C) == [c \in Task |-> Told(s, C, c)]

(* The refinement mapping in these terms, before and after a step. *)
LEMMA AbsMeans ==
    /\ {c \in Task : ~Has(k, c, {"UNUSED", "EXIT"})} = AbsAlive(k)
    /\ {c \in Task : ~Has(k', c, {"UNUSED", "EXIT"})} = AbsAlive(k')
    /\ [c \in Task |-> Outcome(c)] = AbsOutcome(k, call)
    /\ [c \in Task |-> Outcome(c)'] = AbsOutcome(k', call')
<1>1. \A s, c : ~Has(s, c, {"UNUSED", "EXIT"}) <=> Living(s, c)
  BY DEF Has, Living
<1>2. \A s, c : Has(s, c, {"TIMEOUT"}) <=> Late(s, c)
  BY DEF Has, Late
<1>3. \A c \in Task : Outcome(c) = Told(k, call, c)
  BY <1>2 DEF Outcome, Told, On, IsIpc
<1>4. \A c \in Task : Outcome(c)' = Told(k', call', c)
  BY <1>2 DEF Outcome, Told, On, IsIpc
<1>5. [c \in Task |-> Outcome(c)] = AbsOutcome(k, call)
  BY <1>3 DEF AbsOutcome
<1>6. [c \in Task |-> Outcome(c)'] = AbsOutcome(k', call')
  BY <1>4 DEF AbsOutcome
<1>7. {c \in Task : ~Has(k, c, {"UNUSED", "EXIT"})} = AbsAlive(k)
  BY <1>1 DEF AbsAlive
<1>8. {c \in Task : ~Has(k', c, {"UNUSED", "EXIT"})} = AbsAlive(k')
  BY <1>1 DEF AbsAlive
<1> QED BY <1>5, <1>6, <1>7, <1>8

(* LOS_SemPend that finds a count *)
LEMMA AbsTake ==
    ASSUME sem \in [IpcList -> SemCB], NEW o \in IpcList, sem[o].used, sem[o].count > 0,
           sem' = [sem EXCEPT ![o].count = @ - 1], k' = k, call' = call
    PROVE  Abs!Take(o)
<1>1. AbsUsed(sem') = AbsUsed(sem) /\ AbsMax(sem') = AbsMax(sem)
  BY DEF AbsUsed, AbsMax, SemCB
<1>2. AbsCount(sem') = [AbsCount(sem) EXCEPT ![o] = @ - 1]
  BY DEF AbsCount, SemCB
<1>3. o \in AbsUsed(sem) /\ AbsCount(sem)[o] > 0
  BY DEF AbsUsed, AbsCount
<1>4. AbsAlive(k') = AbsAlive(k) /\ AbsQueue(k') = AbsQueue(k)
      /\ AbsOutcome(k', call') = AbsOutcome(k, call)
  OBVIOUS
<1> QED BY <1>1, <1>2, <1>3, <1>4, AbsMeans DEF Abs!Take, AbsUsed, AbsMax, AbsCount, AbsQueue

(* LOS_SemPost that finds no waiter *)
LEMMA AbsCountUp ==
    ASSUME sem \in [IpcList -> SemCB], SemOK(k, sem), NEW o \in IpcList, sem[o].used,
           k.list[Ipc(o)] = <<>>, sem[o].count # sem[o].max,
           sem' = [sem EXCEPT ![o].count = @ + 1], k' = k, call' = call
    PROVE  Abs!Post(o)
<1>1. AbsUsed(sem') = AbsUsed(sem) /\ AbsMax(sem') = AbsMax(sem)
  BY DEF AbsUsed, AbsMax, SemCB
<1>2. AbsCount(sem') = [AbsCount(sem) EXCEPT ![o] = @ + 1]
  BY DEF AbsCount, SemCB
<1>3. o \in AbsUsed(sem) /\ AbsCount(sem)[o] < AbsMax(sem)[o] /\ AbsQueue(k)[o] = <<>>
  BY SMT DEF AbsUsed, AbsCount, AbsMax, AbsQueue, SemOK, SemCB
<1>4. AbsAlive(k') = AbsAlive(k) /\ AbsQueue(k') = AbsQueue(k)
      /\ AbsOutcome(k', call') = AbsOutcome(k, call)
  OBVIOUS
<1> QED
  BY <1>1, <1>2, <1>3, <1>4, AbsMeans DEF Abs!Post, AbsUsed, AbsMax, AbsCount, AbsQueue

(* LOS_SemCreate *)
LEMMA AbsCreate ==
    ASSUME sem \in [IpcList -> SemCB], NEW o \in IpcList, ~sem[o].used,
           NEW n \in Nat, NEW m \in Nat, n <= m,
           sem' = [sem EXCEPT ![o] = [used |-> TRUE, count |-> n, max |-> m]],
           k' = k, call' = call
    PROVE  Abs!Create(o, n, m)
<1>1. o \notin AbsUsed(sem) /\ AbsUsed(sem') = AbsUsed(sem) \cup {o}
  BY DEF AbsUsed, SemCB
<1>2. AbsCount(sem') = [AbsCount(sem) EXCEPT ![o] = n]
  BY DEF AbsCount, SemCB
<1>3. AbsMax(sem') = [AbsMax(sem) EXCEPT ![o] = m]
  BY DEF AbsMax, SemCB
<1>4. AbsAlive(k') = AbsAlive(k) /\ AbsQueue(k') = AbsQueue(k)
      /\ AbsOutcome(k', call') = AbsOutcome(k, call)
  OBVIOUS
<1> QED
  BY <1>1, <1>2, <1>3, <1>4, AbsMeans DEF Abs!Create, AbsUsed, AbsMax, AbsCount, AbsQueue

(* LOS_SemDelete *)
LEMMA AbsDelete ==
    ASSUME sem \in [IpcList -> SemCB], NEW o \in IpcList, sem[o].used, k.list[Ipc(o)] = <<>>,
           sem' = [sem EXCEPT ![o].used = FALSE], k' = k, call' = call
    PROVE  Abs!Destroy(o)
<1>1. o \in AbsUsed(sem) /\ AbsUsed(sem') = AbsUsed(sem) \ {o} /\ AbsQueue(k)[o] = <<>>
  BY DEF AbsUsed, AbsQueue, SemCB
<1>2. AbsCount(sem') = AbsCount(sem) /\ AbsMax(sem') = AbsMax(sem)
  BY DEF AbsCount, AbsMax, SemCB
<1>4. AbsAlive(k') = AbsAlive(k) /\ AbsQueue(k') = AbsQueue(k)
      /\ AbsOutcome(k', call') = AbsOutcome(k, call)
  OBVIOUS
<1> QED
  BY <1>1, <1>2, <1>4, AbsMeans DEF Abs!Destroy, AbsUsed, AbsMax, AbsCount, AbsQueue

(* What a task that is spared will be told does not change. *)
LEMMA ToldSpared ==
    ASSUME NEW s, NEW r, NEW C \in [Context -> CallStates], NEW D, NEW u \in Task,
           Spared(s, r, C, D, u),
           \A o \in IpcList : On(r, u, Ipc(o)) <=> On(s, u, Ipc(o))
    PROVE  Told(r, D, u) = Told(s, C, u)
<1>1. CASE IsIpc(C[u]) \/ IsIpc(D[u])
  <2>1. D[u] = C[u] /\ IsIpc(C[u]) /\ (Late(r, u) <=> Late(s, u))
    BY <1>1 DEF Spared, CallKept
  <2>2. C[u] \in CallStates
    BY DEF Context
  <2>3. PICK o \in IpcList : C[u] = CIpc(o)
    BY <2>1, <2>2, IpcCallFacts
  <2>4. C[u][2] = o
    BY SMT, <2>3 DEF CIpc
  <2> QED BY <2>1, <2>4 DEF Told
<1>2. CASE ~IsIpc(C[u]) /\ ~IsIpc(D[u])
  BY <1>2 DEF Told
<1> QED BY <1>1, <1>2

(* What the others will be told, where one task is not spared. *)
LEMMA ToldOthers ==
    ASSUME NEW s, NEW r, NEW C \in [Context -> CallStates], NEW D, NEW t \in Task,
           OthersSpared(s, r, C, D, t),
           \A u \in Task : u # t => \A o \in IpcList : On(r, u, Ipc(o)) <=> On(s, u, Ipc(o))
    PROVE  \A u \in Task : u # t =>
              (Living(r, u) <=> Living(s, u)) /\ Told(r, D, u) = Told(s, C, u)
<1> SUFFICES ASSUME NEW u \in Task, u # t
             PROVE  (Living(r, u) <=> Living(s, u)) /\ Told(r, D, u) = Told(s, C, u)
  OBVIOUS
<1>1. Spared(s, r, C, D, u) /\ \A o \in IpcList : On(r, u, Ipc(o)) <=> On(s, u, Ipc(o))
  BY DEF OthersSpared
<1>2. Told(r, D, u) = Told(s, C, u)
  BY SMT, <1>1, ToldSpared
<1> QED BY <1>1, <1>2 DEF Spared

(* Taking a task out of its queue is what ListDelete does. *)
LEMMA WithoutIs ==
    ASSUME NEW q \in Seq(Task), IsInjective(q), NEW c
    PROVE  Abs!Without(q, c) = Unlink(q, c) /\ Abs!Waiting(q) = Range(q)
<1>1. Abs!Waiting(q) = Range(q)
  BY DEF Abs!Waiting, Range
<1>2. DOMAIN q = 1 .. Len(q)
  BY SMT
<1>3. CASE c \notin Range(q)
  BY <1>1, <1>3, UnlinkAbsent DEF Abs!Without
<1>4. CASE c \in Range(q)
  <2>1. \E i \in 1 .. Len(q) : q[i] = c
    BY <1>2, <1>4 DEF Range
  <2>2. PICK i \in 1 .. Len(q) : i = CHOOSE j \in 1 .. Len(q) : q[j] = c
    BY <2>1
  <2>3. PICK j \in 1 .. Len(q) : j = CHOOSE i_1 \in DOMAIN q : q[i_1] = c
    BY <1>2, <2>1
  <2>4. q[i] = c
    BY <2>1, <2>2
  <2>5. q[j] = c
    BY <1>2, <2>1, <2>3
  <2>6. i = j
    BY <1>2, <2>4, <2>5 DEF IsInjective
  <2>7. Unlink(q, c) = SubSeq(q, 1, i - 1) \o SubSeq(q, i + 1, Len(q))
    BY <2>1, <2>2 DEF Unlink
  <2>8. Abs!Without(q, c) = SubSeq(q, 1, j - 1) \o SubSeq(q, j + 1, Len(q))
    BY <1>1, <1>4, <2>3 DEF Abs!Without
  <2> QED BY <1>1, <2>6, <2>7, <2>8
<1> QED BY <1>3, <1>4

(* The lists of a state of the invariant, as queues of AbsSem *)
LEMMA AbsLists ==
    ASSUME NEW s, Core(s), NEW o \in IpcList
    PROVE  /\ s.list[Ipc(o)] \in Seq(Task) /\ IsInjective(s.list[Ipc(o)])
           /\ AbsQueue(s)[o] = s.list[Ipc(o)]
           /\ \A c \in Task : /\ Abs!Without(AbsQueue(s)[o], c) = Unlink(s.list[Ipc(o)], c)
                              /\ c \in Abs!Waiting(AbsQueue(s)[o]) <=> On(s, c, Ipc(o))
                              /\ ~On(s, c, Ipc(o)) =>
                                    Unlink(s.list[Ipc(o)], c) = s.list[Ipc(o)]
<1>1. s.list[Ipc(o)] \in Seq(Task) /\ IsInjective(s.list[Ipc(o)])
  BY IpcFacts DEF Core, Base, SchedState, ListsDisjoint
<1>2. AbsQueue(s)[o] = s.list[Ipc(o)]
  BY DEF AbsQueue
<1>3. PICK q \in Seq(Task) : q = s.list[Ipc(o)] /\ IsInjective(q)
  BY <1>1
<1>4. ASSUME NEW c \in Task
      PROVE  /\ Abs!Without(q, c) = Unlink(q, c)
             /\ c \in Abs!Waiting(q) <=> On(s, c, Ipc(o))
             /\ ~On(s, c, Ipc(o)) => Unlink(q, c) = q
  <2>1. Abs!Without(q, c) = Unlink(q, c) /\ Abs!Waiting(q) = Range(q)
    BY <1>3, WithoutIs
  <2>2. On(s, c, Ipc(o)) <=> c \in Range(q)
    BY <1>3 DEF On, OnList
  <2>3. c \notin Range(q) => Unlink(q, c) = q
    BY UnlinkAbsent
  <2> QED BY <2>1, <2>2, <2>3
<1> QED BY <1>1, <1>2, <1>3, <1>4

(* A time-out of a waiter *)
LEMMA AbsTimedOut ==
    ASSUME Core(k), call \in [Context -> CallStates], Waiters(k, call), sem' = sem,
           NEW t \in Task, TimedOut(k, k', call, call', t)
    PROVE  \E o \in IpcList : Abs!TimeOut(o, t)
<1>1. PICK o \in IpcList : On(k, t, Ipc(o))
  BY DEF TimedOut
<1>2. /\ OthersSpared(k, k', call, call', t) /\ Unlinks(k, k', t) /\ Late(k', t)
      /\ Living(k, t) /\ Living(k', t) /\ call'[t] = call[t]
  BY DEF TimedOut
<1>3. call[t] = CIpc(o) /\ \A p \in IpcList : p # o => ~On(k, t, Ipc(p))
  BY <1>1, IpcCallFacts DEF Waiters
<1>4. \A u \in Task, p \in IpcList : On(k', u, Ipc(p)) <=> On(k, u, Ipc(p)) /\ u # t
  BY <1>2, UnlinksOn
<1>5. Told(k', call', t) = "timeout"
  <2>1. IsIpc(call'[t]) /\ call'[t][2] = o /\ ~On(k', t, Ipc(o))
    BY SMT, <1>2, <1>3, <1>4, IpcCallFacts DEF CIpc
  <2> QED BY <1>2, <2>1 DEF Told
<1>6. \A u \in Task : u # t =>
         (Living(k', u) <=> Living(k, u)) /\ Told(k', call', u) = Told(k, call, u)
  <2>1. /\ OthersSpared(k, k', call, call', t)
        /\ \A u \in Task : u # t => \A p \in IpcList : On(k', u, Ipc(p)) <=> On(k, u, Ipc(p))
    BY <1>2, <1>4
  <2> QED BY SMT, <2>1, ToldOthers
<1>7. /\ AbsAlive(k') = AbsAlive(k)
      /\ AbsOutcome(k', call') = [AbsOutcome(k, call) EXCEPT ![t] = "timeout"]
  BY <1>2, <1>5, <1>6 DEF AbsAlive, AbsOutcome
<1>8. t \in Abs!Waiting(AbsQueue(k)[o])
  BY <1>1, AbsLists
<1>9. AbsQueue(k') = [AbsQueue(k) EXCEPT ![o] = Abs!Without(@, t)]
  <2>1. \A p \in IpcList : k'.list[Ipc(p)] = Unlink(k.list[Ipc(p)], t)
    BY <1>2 DEF Unlinks
  <2>2. k'.list[Ipc(o)] = Abs!Without(AbsQueue(k)[o], t)
    BY <2>1, AbsLists
  <2>3. \A p \in IpcList : p # o => k'.list[Ipc(p)] = k.list[Ipc(p)]
    BY <1>3, <2>1, AbsLists
  <2> QED BY <2>2, <2>3 DEF AbsQueue
<1>10. Abs!TimeOut(o, t)
  BY <1>7, <1>8, <1>9, AbsMeans DEF Abs!TimeOut, AbsQueue
<1> QED BY <1>10

(* The end of a task *)
LEMMA AbsEnded ==
    ASSUME Core(k), call \in [Context -> CallStates], sem' = sem,
           NEW t \in Task, Ended(k, k', call, call', t)
    PROVE  Abs!Cancel(t)
<1>1. /\ OthersSpared(k, k', call, call', t) /\ Unlinks(k, k', t)
      /\ Living(k, t) /\ ~Living(k', t) /\ call'[t] = None
  BY DEF Ended
<1>2. \A u \in Task, p \in IpcList : On(k', u, Ipc(p)) <=> On(k, u, Ipc(p)) /\ u # t
  BY <1>1, UnlinksOn
<1>3. Told(k', call', t) = "none"
  BY <1>1, IpcCallFacts DEF Told
<1>4. \A u \in Task : u # t =>
         (Living(k', u) <=> Living(k, u)) /\ Told(k', call', u) = Told(k, call, u)
  <2>1. /\ OthersSpared(k, k', call, call', t)
        /\ \A u \in Task : u # t => \A p \in IpcList : On(k', u, Ipc(p)) <=> On(k, u, Ipc(p))
    BY <1>1, <1>2
  <2> QED BY SMT, <2>1, ToldOthers
<1>5. /\ t \in AbsAlive(k) /\ AbsAlive(k') = AbsAlive(k) \ {t}
      /\ AbsOutcome(k', call') = [AbsOutcome(k, call) EXCEPT ![t] = "none"]
  BY <1>1, <1>3, <1>4 DEF AbsAlive, AbsOutcome
<1>6. AbsQueue(k') = [o \in IpcList |-> Abs!Without(AbsQueue(k)[o], t)]
  <2>1. \A o \in IpcList : k'.list[Ipc(o)] = Abs!Without(AbsQueue(k)[o], t)
    BY <1>1, AbsLists DEF Unlinks
  <2> QED BY <2>1 DEF AbsQueue
<1> QED
  BY <1>5, <1>6, AbsMeans DEF Abs!Cancel, Abs!NotDue, AbsQueue

(* The creation of a task *)
LEMMA AbsCreated ==
    ASSUME Core(k), call \in [Context -> CallStates], sem' = sem,
           NEW t \in Task, Created(k, k', call, call', t)
    PROVE  Abs!Born(t)
<1>1. /\ OthersSpared(k, k', call, call', t) /\ Spares(k, k')
      /\ ~Living(k, t) /\ Living(k', t) /\ CallKept(call, call', t) /\ call[t] = None
  BY DEF Created
<1>2. \A p \in IpcList : k'.list[Ipc(p)] = k.list[Ipc(p)]
  BY <1>1 DEF Spares
<1>3. \A u \in Task, p \in IpcList : On(k', u, Ipc(p)) <=> On(k, u, Ipc(p))
  BY <1>2 DEF On, OnList
<1>4. Told(k', call', t) = "none" /\ Told(k, call, t) = "none"
  BY <1>1, IpcCallFacts DEF Told, CallKept
<1>5. \A u \in Task : u # t =>
         (Living(k', u) <=> Living(k, u)) /\ Told(k', call', u) = Told(k, call, u)
  <2>1. /\ OthersSpared(k, k', call, call', t)
        /\ \A u \in Task : u # t => \A p \in IpcList : On(k', u, Ipc(p)) <=> On(k, u, Ipc(p))
    BY <1>1, <1>3
  <2> QED BY SMT, <2>1, ToldOthers
<1>6. AbsOutcome(k', call') = AbsOutcome(k, call)
  BY <1>4, <1>5 DEF AbsOutcome
<1>7. t \notin AbsAlive(k) /\ AbsAlive(k') = AbsAlive(k) \cup {t}
  BY <1>1, <1>5 DEF AbsAlive
<1>8. AbsQueue(k') = AbsQueue(k)
  BY <1>2 DEF AbsQueue
<1> QED BY <1>6, <1>7, <1>8, AbsMeans DEF Abs!Born, AbsQueue

(* Every step of module Task is a step of AbsSem or none. *)
LEMMA AbsTask ==
    ASSUME Core(k), call \in [Context -> CallStates], Waiters(k, call), sem' = sem,
           IpcStep(k, k', call, call')
    PROVE  Abs!Next \/ UNCHANGED Abs!absVars
<1>1. CASE Calm(k, k', call, call')
  <2>1. Spares(k, k') /\ \A u \in Task : Spared(k, k', call, call', u)
    BY <1>1 DEF Calm, AllSpared
  <2>2. \A p \in IpcList : k'.list[Ipc(p)] = k.list[Ipc(p)]
    BY <2>1 DEF Spares
  <2>3. \A u \in Task, p \in IpcList : On(k', u, Ipc(p)) <=> On(k, u, Ipc(p))
    BY <2>2 DEF On, OnList
  <2>4. \A u \in Task : Told(k', call', u) = Told(k, call, u)
    BY SMT, <2>1, <2>3, ToldSpared
  <2>5. AbsOutcome(k', call') = AbsOutcome(k, call)
    BY <2>4 DEF AbsOutcome
  <2>6. AbsAlive(k') = AbsAlive(k)
    BY <2>1 DEF AbsAlive, Spared
  <2>7. AbsQueue(k') = AbsQueue(k)
    BY <2>2 DEF AbsQueue
  <2> QED BY <2>5, <2>6, <2>7, AbsMeans DEF Abs!absVars, AbsQueue
<1>2. ASSUME NEW t \in Task, TimedOut(k, k', call, call', t) PROVE Abs!Next
  BY <1>2, AbsTimedOut DEF Abs!Next
<1>3. ASSUME NEW t \in Task, Ended(k, k', call, call', t) PROVE Abs!Next
  BY <1>3, AbsEnded DEF Abs!Next
<1>4. ASSUME NEW t \in Task, Created(k, k', call, call', t) PROVE Abs!Next
  BY <1>4, AbsCreated DEF Abs!Next
<1> QED BY <1>1, <1>2, <1>3, <1>4 DEF IpcStep

(* LOS_SemPend that waits *)
LEMMA AbsWait ==
    ASSUME Core(k), call \in [Context -> CallStates], sem \in [IpcList -> SemCB], sem' = sem,
           NEW o \in IpcList, sem[o].used, sem[o].count = 0,
           NEW c, Pended(k, k', call, call', c, o)
    PROVE  c \in Task /\ Abs!Enter(o, c)
<1>1. /\ c \in Task /\ OthersSpared(k, k', call, call', c) /\ Living(k, c) /\ Living(k', c)
      /\ \A p \in IpcList : ~On(k, c, Ipc(p)) /\ (p # o => k'.list[Ipc(p)] = k.list[Ipc(p)])
      /\ k'.list[Ipc(o)] = Append(k.list[Ipc(o)], c)
      /\ call[c] = None /\ call'[c] = CIpc(o)
  BY DEF Pended
<1>2. \A u : On(k', u, Ipc(o)) <=> On(k, u, Ipc(o)) \/ u = c
  <2>1. PICK q \in Seq(Task) : q = k.list[Ipc(o)]
    BY AbsLists
  <2>2. /\ DOMAIN Append(q, c) = 1 .. (Len(q) + 1) /\ DOMAIN q = 1 .. Len(q) /\ Len(q) \in Nat
        /\ \A i \in 1 .. Len(q) : Append(q, c)[i] = q[i]
        /\ Append(q, c)[Len(q) + 1] = c
    BY SMT, <1>1
  <2>3. \A u : u \in Range(Append(q, c)) <=> u \in Range(q) \/ u = c
    BY SMT, <2>2 DEF Range
  <2> QED BY <1>1, <2>1, <2>3 DEF On, OnList
<1>3. \A u \in Task : u # c => \A p \in IpcList : On(k', u, Ipc(p)) <=> On(k, u, Ipc(p))
  <2>1. ASSUME NEW u \in Task, u # c, NEW p \in IpcList
        PROVE  On(k', u, Ipc(p)) <=> On(k, u, Ipc(p))
    <3>1. CASE p = o
      BY <1>2, <2>1, <3>1
    <3>2. CASE p # o
      BY <1>1, <3>2 DEF On, OnList
    <3> QED BY <3>1, <3>2
  <2> QED BY <2>1
<1>4. \A u \in Task : u # c =>
         (Living(k', u) <=> Living(k, u)) /\ Told(k', call', u) = Told(k, call, u)
  <2>1. /\ OthersSpared(k, k', call, call', c) /\ c \in Task
        /\ \A u \in Task : u # c => \A p \in IpcList : On(k', u, Ipc(p)) <=> On(k, u, Ipc(p))
    BY <1>1, <1>3
  <2> QED BY SMT, <2>1, ToldOthers
<1>5. Told(k, call, c) = "none"
  BY <1>1, IpcCallFacts DEF Told
<1>6. Told(k', call', c) = "none"
  <2>1. call'[c][2] = o /\ On(k', c, Ipc(o))
    BY SMT, <1>1, <1>2 DEF CIpc
  <2> QED BY <2>1 DEF Told
<1>7. /\ c \in AbsAlive(k) /\ AbsAlive(k') = AbsAlive(k)
      /\ AbsOutcome(k, call)[c] = "none" /\ AbsOutcome(k', call') = AbsOutcome(k, call)
  BY <1>1, <1>4, <1>5, <1>6 DEF AbsAlive, AbsOutcome
<1>8. \A p \in IpcList : c \notin Abs!Waiting(AbsQueue(k)[p])
  BY <1>1, AbsLists
<1>9. AbsQueue(k') = [AbsQueue(k) EXCEPT ![o] = Append(@, c)]
  BY <1>1 DEF AbsQueue
<1>10. o \in AbsUsed(sem) /\ AbsCount(sem)[o] = 0
  BY DEF AbsUsed, AbsCount
<1>11. Abs!Enter(o, c)
  BY <1>7, <1>8, <1>9, <1>10, AbsMeans
  DEF Abs!Enter, Abs!NotDue, AbsUsed, AbsCount, AbsQueue
<1> QED BY <1>1, <1>11

(* LOS_SemPend after LOS_Schedule *)
LEMMA AbsReturn ==
    ASSUME Core(k), call \in [Context -> CallStates], sem' = sem,
           NEW c, Returned(k, k', call, call', c)
    PROVE  c \in Task /\ Abs!Return(c)
<1>1. /\ c \in Task /\ OthersSpared(k, k', call, call', c) /\ Living(k, c) /\ Living(k', c)
      /\ \A p \in IpcList : ~On(k, c, Ipc(p)) /\ k'.list[Ipc(p)] = k.list[Ipc(p)]
      /\ IsIpc(call[c]) /\ call'[c] = None
  BY DEF Returned, Spares
<1>2. \A u \in Task : u # c => \A p \in IpcList : On(k', u, Ipc(p)) <=> On(k, u, Ipc(p))
  BY <1>1 DEF On, OnList
<1>3. \A u \in Task : u # c =>
         (Living(k', u) <=> Living(k, u)) /\ Told(k', call', u) = Told(k, call, u)
  <2>1. /\ OthersSpared(k, k', call, call', c) /\ c \in Task
        /\ \A u \in Task : u # c => \A p \in IpcList : On(k', u, Ipc(p)) <=> On(k, u, Ipc(p))
    BY <1>1, <1>2
  <2> QED BY SMT, <2>1, ToldOthers
<1>4. Told(k, call, c) # "none"
  <2>1. call[c] \in CallStates
    BY <1>1 DEF Context
  <2>2. PICK o \in IpcList : call[c] = CIpc(o)
    BY <1>1, <2>1, IpcCallFacts
  <2>3. call[c][2] = o
    BY SMT, <2>2 DEF CIpc
  <2>4. Told(k, call, c) = IF Late(k, c) THEN "timeout" ELSE "token"
    BY <1>1, <2>3 DEF Told
  <2> QED BY <2>4
<1>5. Told(k', call', c) = "none"
  BY <1>1, IpcCallFacts DEF Told
<1>6. /\ AbsAlive(k') = AbsAlive(k) /\ AbsOutcome(k, call)[c] # "none"
      /\ AbsOutcome(k', call') = [AbsOutcome(k, call) EXCEPT ![c] = "none"]
  BY <1>1, <1>3, <1>4, <1>5 DEF AbsAlive, AbsOutcome
<1>7. AbsQueue(k') = AbsQueue(k)
  BY <1>1 DEF AbsQueue
<1>8. Abs!Return(c)
  BY <1>6, <1>7, AbsMeans DEF Abs!Return, Abs!NotDue, AbsQueue
<1> QED BY <1>1, <1>8

(* What the others are told when a token is handed to t. *)
LEMMA HandOthers ==
    ASSUME call \in [Context -> CallStates], NEW t \in Task,
           OthersSpared(k, k', call, call', t),
           \A u \in Task, p \in IpcList : On(k', u, Ipc(p)) <=> On(k, u, Ipc(p)) /\ u # t
    PROVE  \A u \in Task : u # t =>
              (Living(k', u) <=> Living(k, u)) /\ Told(k', call', u) = Told(k, call, u)
<1>1. \A u \in Task : u # t => \A p \in IpcList : On(k', u, Ipc(p)) <=> On(k, u, Ipc(p))
  OBVIOUS
<1> QED BY SMT, <1>1, ToldOthers

(* LOS_SemPost that finds a waiter *)
LEMMA AbsHand ==
    ASSUME Core(k), call \in [Context -> CallStates], Waiters(k, call), sem' = sem,
           NEW o \in IpcList, k.list[Ipc(o)] # <<>>, NEW t, t = Head(k.list[Ipc(o)]),
           call' = call, Handed(k, k', call, call, t)
    PROVE  Abs!Post(o)
<1>1. /\ t \in Task /\ On(k, t, Ipc(o)) /\ Unlink(k.list[Ipc(o)], t) = Tail(k.list[Ipc(o)])
  BY HeadWaits
<1>2. /\ OthersSpared(k, k', call, call', t) /\ Unlinks(k, k', t)
      /\ Living(k, t) /\ Living(k', t)
  BY DEF Handed
<1>3. ~Late(k', t) /\ call'[t] = CIpc(o)
  BY SMT, <1>1, WaitersHanded
<1>4. \A u \in Task, p \in IpcList : On(k', u, Ipc(p)) <=> On(k, u, Ipc(p)) /\ u # t
  BY SMT, <1>1, <1>2, UnlinksOn
<1>5. \A u \in Task : u # t =>
         (Living(k', u) <=> Living(k, u)) /\ Told(k', call', u) = Told(k, call, u)
  BY <1>1, <1>2, <1>4, HandOthers
<1>6. Told(k', call', t) = "token"
  <2>1. IsIpc(call'[t]) /\ call'[t][2] = o /\ ~On(k', t, Ipc(o))
    BY SMT, <1>1, <1>3, <1>4, IpcCallFacts DEF CIpc
  <2> QED BY <1>3, <2>1 DEF Told
<1>7. /\ AbsAlive(k') = AbsAlive(k)
      /\ AbsOutcome(k', call') = [AbsOutcome(k, call) EXCEPT ![t] = "token"]
  BY <1>1, <1>2, <1>5, <1>6 DEF AbsAlive, AbsOutcome
<1>8. AbsQueue(k)[o] = k.list[Ipc(o)]
  BY AbsLists
<1>9. AbsQueue(k') = [AbsQueue(k) EXCEPT ![o] = Tail(@)]
  <2>1. \A p \in IpcList : k'.list[Ipc(p)] = Unlink(k.list[Ipc(p)], t)
    BY <1>2 DEF Unlinks
  <2>2. call[t] = CIpc(o) /\ \A p \in IpcList : p # o => ~On(k, t, Ipc(p))
    BY <1>1, IpcCallFacts DEF Waiters
  <2>3. \A p \in IpcList : p # o => k'.list[Ipc(p)] = k.list[Ipc(p)]
    BY <1>1, <2>1, <2>2, AbsLists
  <2> QED BY <1>1, <2>1, <2>3 DEF AbsQueue
<1> QED BY <1>7, <1>8, <1>9, AbsMeans DEF Abs!Post, AbsQueue

----------------------------------------------------------------------------
(* What each step does to the semaphores, and which step of AbsSem it is. *)

SemAfter == SemWell(k', call', sem', unusedSem')
AbsStep == Abs!Next \/ UNCHANGED Abs!absVars

(* LOS_SemCreate *)
LEMMA SemCreateStep ==
    ASSUME SemWell(k, call, sem, unusedSem), NEW max \in MaxCounts, NEW count \in 0 .. max,
           LOS_SemCreate(count, max)
    PROVE  SemAfter /\ AbsStep
<1>1. SemAfter
  BY SemCreateWell DEF SemAfter
<1>2. count \in Nat /\ max \in Nat /\ count <= max
  BY SMT, SemConstants
<1>3. PICK o : o = Head(unusedSem)
  OBVIOUS
<1>4. sem \in [IpcList -> SemCB] /\ o \in IpcList /\ ~sem[o].used
  <2>1. SemPool(sem, unusedSem) /\ unusedSem # <<>>
    BY DEF SemWell, LOS_SemCreate
  <2> QED BY <1>2, <1>3, <2>1, PoolCreate DEF SemPool
<1>5. /\ sem' = [sem EXCEPT ![o] = [used |-> TRUE, count |-> count, max |-> max]]
      /\ k' = k /\ call' = call
  BY <1>3 DEF LOS_SemCreate, taskVars
<1>6. Abs!Create(o, count, max)
  BY <1>2, <1>4, <1>5, AbsCreate
<1>7. count \in UNION {0 .. m : m \in MaxCounts} /\ max \in UNION {0 .. m : m \in MaxCounts}
  <2>1. max \in 0 .. max
    BY SMT, <1>2
  <2> QED BY <2>1
<1> QED BY <1>1, <1>4, <1>6, <1>7 DEF AbsStep, Abs!Next

(* LOS_SemDelete *)
LEMMA SemDeleteStep ==
    ASSUME SemWell(k, call, sem, unusedSem), NEW o \in IpcList, LOS_SemDelete(o)
    PROVE  SemAfter /\ AbsStep
<1>1. SemAfter
  BY SemDeleteWell DEF SemAfter
<1>2. /\ sem \in [IpcList -> SemCB] /\ sem[o].used /\ k.list[Ipc(o)] = <<>>
      /\ sem' = [sem EXCEPT ![o].used = FALSE] /\ k' = k /\ call' = call
  BY DEF SemWell, SemPool, LOS_SemDelete, taskVars
<1>3. Abs!Destroy(o)
  BY <1>2, AbsDelete
<1> QED BY <1>1, <1>3 DEF AbsStep, Abs!Next

(* LOS_SemPend that finds a count *)
LEMMA SemTakeStep ==
    ASSUME SemWell(k, call, sem, unusedSem), NEW o \in IpcList, sem[o].used, sem[o].count > 0,
           sem' = [sem EXCEPT ![o].count = @ - 1], k' = k, call' = call, unusedSem' = unusedSem
    PROVE  SemAfter /\ AbsStep
<1>1. SemAfter
  BY SemTakeWell DEF SemAfter
<1>2. sem \in [IpcList -> SemCB]
  BY DEF SemWell, SemPool
<1>3. Abs!Take(o)
  BY <1>2, AbsTake
<1> QED BY <1>1, <1>3 DEF AbsStep, Abs!Next

(* LOS_SemPost that finds no waiter *)
LEMMA SemCountStep ==
    ASSUME SemWell(k, call, sem, unusedSem), NEW o \in IpcList, k.list[Ipc(o)] = <<>>,
           sem[o].used, sem[o].count # sem[o].max,
           sem' = [sem EXCEPT ![o].count = @ + 1], k' = k, call' = call, unusedSem' = unusedSem
    PROVE  SemAfter /\ AbsStep
<1>1. SemAfter
  BY SemCountWell DEF SemAfter
<1>2. sem \in [IpcList -> SemCB] /\ SemOK(k, sem)
  BY DEF SemWell, SemPool
<1>3. Abs!Post(o)
  BY <1>2, AbsCountUp
<1> QED BY <1>1, <1>3 DEF AbsStep, Abs!Next

(* LOS_SemPend that waits *)
LEMMA SemWaitStep ==
    ASSUME Core(k), call \in [Context -> CallStates], SemWell(k, call, sem, unusedSem),
           NEW o \in IpcList, NEW c, sem[o].used, sem[o].count = 0,
           Pended(k, k', call, call', c, o), sem' = sem, unusedSem' = unusedSem
    PROVE  SemAfter /\ AbsStep
<1>1. SemAfter
  BY SemWaitWell DEF SemAfter
<1>2. sem \in [IpcList -> SemCB]
  BY DEF SemWell, SemPool
<1>3. c \in Task /\ Abs!Enter(o, c)
  BY <1>2, AbsWait
<1> QED BY <1>1, <1>3 DEF AbsStep, Abs!Next

(* LOS_SemPend after LOS_Schedule *)
LEMMA SemReturnStep ==
    ASSUME Core(k), call \in [Context -> CallStates], SemWell(k, call, sem, unusedSem),
           NEW c, Returned(k, k', call, call', c), sem' = sem, unusedSem' = unusedSem
    PROVE  SemAfter /\ AbsStep
<1>1. SemAfter
  BY SemReturnWell DEF SemAfter
<1>2. c \in Task /\ Abs!Return(c)
  BY AbsReturn
<1> QED BY <1>1, <1>2 DEF AbsStep, Abs!Next

(* LOS_SemPost that finds a waiter *)
LEMMA SemHandStep ==
    ASSUME Core(k), call \in [Context -> CallStates], SemWell(k, call, sem, unusedSem),
           NEW o \in IpcList, k.list[Ipc(o)] # <<>>, NEW t, t = Head(k.list[Ipc(o)]),
           Handed(k, k', call, call, t), call' = call, sem' = sem, unusedSem' = unusedSem
    PROVE  SemAfter /\ AbsStep
<1>1. t \in Task /\ On(k, t, Ipc(o))
  BY HeadWaits
<1>2. SemAfter
  BY <1>1, SemHandWell DEF SemAfter
<1>3. Waiters(k, call)
  BY DEF SemWell
<1>4. Abs!Post(o)
  BY <1>3, AbsHand
<1> QED BY <1>2, <1>4 DEF AbsStep, Abs!Next

(* A step of module Task *)
LEMMA SemTaskStep ==
    ASSUME Core(k), call \in [Context -> CallStates], SemWell(k, call, sem, unusedSem),
           IpcStep(k, k', call, call'), sem' = sem, unusedSem' = unusedSem
    PROVE  SemAfter /\ AbsStep
<1>1. SemAfter
  BY SemTaskWell DEF SemAfter
<1>2. Waiters(k, call)
  BY DEF SemWell
<1> QED BY <1>1, <1>2, AbsTask DEF AbsStep

(* No step *)
LEMMA SemStutter ==
    ASSUME SemWell(k, call, sem, unusedSem), UNCHANGED semVars
    PROVE  SemAfter /\ AbsStep
<1>1. k' = k /\ call' = call /\ sem' = sem /\ unusedSem' = unusedSem
  BY DEF semVars
<1>2. [c \in Task |-> Outcome(c)'] = [c \in Task |-> Outcome(c)]
  BY <1>1, AbsMeans
<1> QED BY <1>1, <1>2 DEF SemAfter, AbsStep, Abs!absVars

(* No semaphore exists and no task waits when the kernel starts. *)
LEMMA SemInitWell ==
    ASSUME SemInit
    PROVE  SemWell(k, call, sem, unusedSem) /\ Abs!Init
<1>1. /\ \A t \in Task : ~Late(k, t)
      /\ \A o \in IpcList : k.list[Ipc(o)] = <<>>
      /\ \A c \in Context : call[c] = None
  BY IpcFacts DEF SemInit, TaskInit, Late, Context
<1>2. \A o \in IpcList, t \in Task : ~On(k, t, Ipc(o))
  BY SMT, <1>1 DEF On, OnList, Range
<1>3. \A c \in Context : ~IsIpc(call[c])
  BY <1>1, IpcCallFacts
<1>4. Waiters(k, call)
  BY <1>1, <1>2, <1>3 DEF Waiters, Context
<1>5. sem = [o \in IpcList |-> [used |-> FALSE, count |-> 0, max |-> 0]]
  BY DEF SemInit
<1>6. sem \in [IpcList -> SemCB] /\ \A o \in IpcList : ~sem[o].used
  BY <1>5 DEF SemCB
<1>7. SemOK(k, sem)
  BY <1>1, <1>6 DEF SemOK
<1>8. SemPool(sem, unusedSem)
  <2>1. unusedSem \in [1 .. Cardinality(IpcList) -> IpcList] /\ IsInjective(unusedSem)
    BY DEF SemInit
  <2>2. unusedSem \in Seq(IpcList) /\ \A o \in Range(unusedSem) : o \in IpcList
    BY SMT, <2>1, SemConstants DEF Range
  <2> QED BY <1>6, <2>1, <2>2 DEF SemPool
<1>9. \A c \in Task : Told(k, call, c) = "none"
  BY <1>3 DEF Told, Context
<1>10. AbsOutcome(k, call) = [c \in Task |-> "none"]
  BY <1>9 DEF AbsOutcome
<1>11. /\ {o \in IpcList : sem[o].used} = {}
       /\ [o \in IpcList |-> sem[o].count] = [o \in IpcList |-> 0]
       /\ [o \in IpcList |-> sem[o].max] = [o \in IpcList |-> 0]
       /\ [o \in IpcList |-> k.list[Ipc(o)]] = [o \in IpcList |-> <<>>]
  BY <1>1, <1>5
<1>12. Abs!Init
  BY <1>10, <1>11, AbsMeans DEF Abs!Init, Abs!NotDue, AbsAlive
<1> QED BY <1>4, <1>7, <1>8, <1>12 DEF SemWell

----------------------------------------------------------------------------
(* The steps of module Sem, and those of module Task *)

(* LOS_SemPend up to LOS_Schedule *)
LEMMA SemPendStep ==
    ASSUME KernelDoes, Inv(k, call, tick), SemWell(k, call, sem, unusedSem), NEW o \in IpcList,
           NEW timeout \in Timeouts, LOS_SemPend(o, timeout)
    PROVE  Inv(k', call', tick') /\ SemAfter /\ AbsStep
<1>1. Core(k) /\ call \in [Context -> CallStates]
  BY InvFacts DEF Inv
<1>2. /\ Executing /\ call[k.run] = None /\ sem[o].used /\ k.taskLock = 0
      /\ unusedSem' = unusedSem
  BY DEF LOS_SemPend, InTask
<1>3. CASE sem[o].count > 0 /\ sem' = [sem EXCEPT ![o].count = @ - 1] /\ UNCHANGED taskVars
  <2>1. k' = k /\ call' = call /\ tick' = tick
    BY <1>3 DEF taskVars
  <2>2. SemAfter /\ AbsStep
    BY <1>2, <1>3, <2>1, SemTakeStep
  <2> QED BY <2>1, <2>2
<1>4. CASE /\ sem[o].count = 0 /\ k.sched
           /\ k' = LOS_Schedule(OsSchedTaskWait(k, Ipc(o), timeout = "forever"))
           /\ GoesOn(k.run, <<"ipc", o>>) /\ tick' = tick /\ sem' = sem
  <2>1. PICK forever \in BOOLEAN : forever = (timeout = "forever")
    OBVIOUS
  <2>2. k' = LOS_Schedule(OsSchedTaskWait(k, Ipc(o), forever)) /\ GoesOn(k.run, CIpc(o))
    BY <1>4, <2>1 DEF CIpc
  <2>3. RunsFreely(k)
    BY <1>2, <1>4, ExecFacts
  <2>4. Inv(k', call', tick) /\ Pended(k, k', call, call', k.run, o)
    BY <1>2, <1>4, <2>2, <2>3 DEF KernelDoes, PendDoes
  <2>5. SemAfter /\ AbsStep
    BY <1>1, <1>2, <1>4, <2>4, SemWaitStep
  <2> QED BY <1>4, <2>4, <2>5
<1> QED BY <1>3, <1>4 DEF LOS_SemPend

(* LOS_SemPend after LOS_Schedule *)
LEMMA SemPendReturnStep ==
    ASSUME KernelDoes, Inv(k, call, tick), SemWell(k, call, sem, unusedSem), NEW o \in IpcList,
           SemPendReturn(o)
    PROVE  Inv(k', call', tick') /\ SemAfter /\ AbsStep
<1>1. Core(k) /\ call \in [Context -> CallStates] /\ ~IsIpc(call[Shadow])
  BY InvFacts DEF Inv, SemWell, Waiters
<1>2. /\ Executing /\ call[k.run] = CIpc(o) /\ k' = ClrStatus(k, k.run, {"TIMEOUT"})
      /\ Returns(k.run) /\ tick' = tick /\ sem' = sem /\ unusedSem' = unusedSem
  BY DEF SemPendReturn, CIpc
<1>3. Inv(k', call', tick') /\ Returned(k, k', call, call', k.run)
  BY <1>1, <1>2 DEF KernelDoes, ReturnDoes
<1> QED BY <1>1, <1>2, <1>3, SemReturnStep

(* LOS_SemPost *)
LEMMA SemPostStep ==
    ASSUME KernelDoes, Inv(k, call, tick), SemWell(k, call, sem, unusedSem), NEW o \in IpcList,
           LOS_SemPost(o)
    PROVE  Inv(k', call', tick') /\ SemAfter /\ AbsStep
<1>1. Core(k) /\ call \in [Context -> CallStates]
  BY InvFacts DEF Inv
<1>2. /\ sem[o].used /\ sem[o].count # sem[o].max /\ call' = call /\ tick' = tick
      /\ unusedSem' = unusedSem
  BY DEF LOS_SemPost
<1>3. CASE k.list[Ipc(o)] # <<>>
  <2>1. PICK t : t = Head(k.list[Ipc(o)])
    OBVIOUS
  <2>2. t \in Task /\ On(k, t, Ipc(o))
    BY <1>1, <1>3, <2>1, HeadWaits
  <2>3. k' = LOS_Schedule(OsSchedTaskWake(k, t)) /\ sem' = sem
    BY <1>3, <2>1 DEF LOS_SemPost
  <2>4. Inv(k', call', tick') /\ Handed(k, k', call, call, t)
    <3>1. Inv(k', call, tick) /\ Handed(k, k', call, call, t)
      BY <2>2, <2>3 DEF KernelDoes, WakeDoes
    <3> QED BY <1>2, <3>1
  <2>5. SemAfter /\ AbsStep
    BY <1>1, <1>2, <1>3, <2>1, <2>3, <2>4, SemHandStep
  <2> QED BY <2>4, <2>5
<1>4. CASE k.list[Ipc(o)] = <<>>
  <2>1. sem' = [sem EXCEPT ![o].count = @ + 1] /\ k' = k
    BY <1>4 DEF LOS_SemPost
  <2>2. SemAfter /\ AbsStep
    BY <1>2, <1>4, <2>1, SemCountStep
  <2> QED BY <1>2, <2>1, <2>2
<1> QED BY <1>3, <1>4

(* Every step keeps the invariant and is a step of AbsSem or none. *)
LEMMA SemNextInv ==
    ASSUME KernelDoes, Inv(k, call, tick), SemWell(k, call, sem, unusedSem),
           Unguarded = {}, [SemNext]_semVars
    PROVE  Inv(k', call', tick') /\ SemAfter /\ AbsStep
<1>1. KernelDoes /\ Inv(k, call, tick) /\ SemWell(k, call, sem, unusedSem)
  OBVIOUS
<1>2. Core(k) /\ call \in [Context -> CallStates]
  BY <1>1, InvFacts DEF Inv
<1>3. ASSUME NEW max \in MaxCounts, NEW count \in 0 .. max, LOS_SemCreate(count, max)
      PROVE  Inv(k', call', tick') /\ SemAfter /\ AbsStep
  <2>1. k' = k /\ call' = call /\ tick' = tick
    BY <1>3 DEF LOS_SemCreate, taskVars
  <2> QED BY <1>1, <1>3, <2>1, SemCreateStep
<1>4. ASSUME NEW o \in IpcList, LOS_SemDelete(o)
      PROVE  Inv(k', call', tick') /\ SemAfter /\ AbsStep
  <2>1. k' = k /\ call' = call /\ tick' = tick
    BY <1>4 DEF LOS_SemDelete, taskVars
  <2> QED BY <1>1, <1>4, <2>1, SemDeleteStep
<1>5. CASE TaskNext /\ UNCHANGED <<sem, unusedSem>>
  <2>1. sem' = sem /\ unusedSem' = unusedSem
    BY <1>5
  <2>2. Inv(k', call', tick') /\ IpcStep(k, k', call, call')
    BY <1>1, <1>5 DEF KernelDoes, StepDoes
  <2> QED BY <1>1, <1>2, <2>1, <2>2, SemTaskStep
<1>6. CASE UNCHANGED semVars
  <2>1. k' = k /\ call' = call /\ tick' = tick
    BY <1>6 DEF semVars
  <2> QED BY <1>1, <1>6, <2>1, SemStutter
<1> QED
  BY <1>1, <1>3, <1>4, <1>5, <1>6, SemPendStep, SemPendReturnStep, SemPostStep
  DEF SemNext, SemOps
============================================================================
