----------------------------- MODULE MuxProofs ------------------------------
(***************************************************************************)
(* What each step does to the mutexes, told from what it does to the tasks *)
(* and the wait lists (KernelDoes of SchedProofs): it keeps the invariant  *)
(* MuxWell of the control blocks, the owners and the priorities.           *)
(*                                                                         *)
(* s and r are the kernel before and after a step, C and D the calls, M    *)
(* and N the control blocks, q the unused ones, H and G the mutexes held,  *)
(* and B the priorities given.                                             *)
(***************************************************************************)
EXTENDS Mux, SchedProofs

(* Zenon proves the leaves that name no other prover. *)
USE Zenon

(* The control blocks and g_unusedMuxList *)
Blocks(M, q) ==
    /\ M \in [IpcList -> MuxCB] /\ q \in Seq(IpcList)
    /\ IsInjective(q) /\ \A o \in Range(q) : ~M[o].used
    /\ \A o \in IpcList : /\ ~M[o].used => M[o].count = 0
                          /\ M[o].count = 0 <=> M[o].owner = NoTask

(* Who holds what *)
Locks(M, H) ==
    /\ H \in [Task -> Seq(IpcList)]
    /\ \A t \in Task : /\ IsInjective(H[t])
                       /\ \A o \in IpcList : o \in Range(H[t]) <=> M[o].owner = t

(* The priority a task was given is its own while it holds nothing, and is *)
(* noted in the first mutex it locked while it holds some.                 *)
Lent(s, M, H, B) ==
    /\ B \in [Task -> Prio]
    /\ \A t \in Task :
          /\ H[t] = <<>> => s.priority[t] = B[t]
          /\ H[t] # <<>> => t # Idle /\ Living(s, t) /\ M[H[t][1]].priority = B[t]

(* Who waits for o does not own it, and who has waited owns it or is late. *)
Awaited(s, M) ==
    \A o \in IpcList : s.list[Ipc(o)] # <<>> =>
        M[o].used /\ M[o].owner \in Task /\ ~On(s, M[o].owner, Ipc(o))

Knows(s, C, M, t) ==
    \A o \in IpcList : C[t] = CIpc(o) /\ ~On(s, t, Ipc(o)) =>
        (Late(s, t) <=> M[o].owner # t)

Owners(s, C, M) == Awaited(s, M) /\ \A t \in Task : Knows(s, C, M, t)

(* Only o changes; c acquires o, or releases it. *)
Else(M, N, o) == \A p \in IpcList : p # o => N[p] = M[p]
Acquired(H, G, c, o) == G = [H EXCEPT ![c] = Append(@, o)]
Released(H, G, c, o) == G = [H EXCEPT ![c] = Unlink(@, o)]

(* c gets the priority x, and no other task another one. *)
Repaid(s, r, c, x) ==
    /\ r.priority[c] = x
    /\ \A u \in Task : /\ u # c => r.priority[u] = s.priority[u]
                       /\ Living(s, u) => Living(r, u)

MuxWell(s, C, M, q, H, B) ==
    Waiters(s, C) /\ Owners(s, C, M) /\ Blocks(M, q) /\ Locks(M, H) /\ Lent(s, M, H, B)

----------------------------------------------------------------------------
(* Sequences of mutexes *)

(* Locking one more *)
LEMMA HeldAppend ==
    ASSUME NEW q \in Seq(IpcList), IsInjective(q), NEW o \in IpcList, o \notin Range(q),
           NEW p, p = Append(q, o)
    PROVE  /\ p \in Seq(IpcList) /\ IsInjective(p) /\ p # <<>>
           /\ \A x : x \in Range(p) <=> x \in Range(q) \/ x = o
           /\ (q = <<>> => p[1] = o) /\ (q # <<>> => p[1] = q[1])
<1>1. /\ p \in Seq(IpcList) /\ Len(p) = Len(q) + 1 /\ p[Len(q) + 1] = o /\ p # <<>>
      /\ \A i \in 1 .. Len(q) : p[i] = q[i]
  BY SMT
<1>2. Len(q) \in Nat /\ DOMAIN q = 1 .. Len(q) /\ DOMAIN p = 1 .. (Len(q) + 1)
  BY SMT, <1>1
<1>3. \A i \in DOMAIN q : q[i] # o
  BY DEF Range
<1>4. \A i \in DOMAIN p : i \in DOMAIN q \/ i = Len(q) + 1
  BY SMT, <1>2
<1>5. IsInjective(p)
  <2>1. \A i, j \in DOMAIN q : q[i] = q[j] => i = j
    BY DEF IsInjective
  <2>2. \A i \in DOMAIN q : p[i] = q[i]
    BY <1>1, <1>2
  <2>3. ASSUME NEW i \in DOMAIN p, NEW j \in DOMAIN p, p[i] = p[j] PROVE i = j
    <3>1. CASE i \in DOMAIN q /\ j \in DOMAIN q
      BY <2>1, <2>2, <2>3, <3>1
    <3>2. CASE i = Len(q) + 1 \/ j = Len(q) + 1
      BY <1>1, <1>3, <1>4, <2>2, <2>3, <3>2
    <3> QED BY <1>4, <3>1, <3>2
  <2> QED BY <2>3 DEF IsInjective
<1>6. \A x : x \in Range(p) <=> x \in Range(q) \/ x = o
  <2>1. \A i \in DOMAIN q : i \in DOMAIN p /\ p[i] = q[i]
    BY SMT, <1>1, <1>2
  <2>2. Len(q) + 1 \in DOMAIN p
    BY SMT, <1>2
  <2>3. \A x \in Range(p) : x \in Range(q) \/ x = o
    <3>1. \A i \in DOMAIN p : p[i] \in Range(q) \/ p[i] = o
      BY SMT, <1>1, <1>4, <2>1 DEF Range
    <3> QED BY <3>1 DEF Range
  <2>4. \A x \in Range(q) : x \in Range(p)
    BY <2>1 DEF Range
  <2>5. o \in Range(p)
    BY <1>1, <2>2 DEF Range
  <2> QED BY <2>3, <2>4, <2>5
<1>7. (q = <<>> => p[1] = o) /\ (q # <<>> => p[1] = q[1])
  BY SMT, <1>1
<1> QED BY <1>1, <1>5, <1>6, <1>7

(* Waiting at the end of a list *)
LEMMA AppendRange ==
    ASSUME NEW q \in Seq(Task), NEW c \in Task
    PROVE  \A u : u \in Range(Append(q, c)) <=> u \in Range(q) \/ u = c
<1>1. /\ DOMAIN Append(q, c) = 1 .. (Len(q) + 1) /\ DOMAIN q = 1 .. Len(q) /\ Len(q) \in Nat
      /\ \A i \in 1 .. Len(q) : Append(q, c)[i] = q[i]
      /\ Append(q, c)[Len(q) + 1] = c
  BY SMT
<1> QED BY SMT, <1>1 DEF Range

(* Releasing the last one *)
LEMMA HeldUnlink ==
    ASSUME NEW q \in Seq(IpcList), IsInjective(q), q # <<>>, NEW o, q[Len(q)] = o,
           NEW p, p = Unlink(q, o)
    PROVE  /\ p \in Seq(IpcList) /\ IsInjective(p)
           /\ \A x : x \in Range(p) <=> x \in Range(q) /\ x # o
           /\ p = <<>> => q[1] = o
           /\ p # <<>> => p[1] = q[1]
<1>1. Len(q) \in 1 .. Len(q) /\ DOMAIN q = 1 .. Len(q) /\ Len(q) \in Nat /\ 1 \in 1 .. Len(q)
  BY SMT
<1>2. PICK at \in 1 .. Len(q) :
         q[at] = o /\ p = SubSeq(q, 1, at - 1) \o SubSeq(q, at + 1, Len(q))
  BY <1>1 DEF Unlink
<1>3. at = Len(q)
  BY <1>1, <1>2 DEF IsInjective
<1>4. p = SubSeq(q, 1, Len(q) - 1)
  <2>1. p = SubSeq(q, 1, Len(q) - 1) \o SubSeq(q, Len(q) + 1, Len(q))
    BY <1>2, <1>3
  <2> QED BY SMT, <1>1, <2>1
<1>5. /\ p \in Seq(IpcList) /\ Len(p) = Len(q) - 1 /\ DOMAIN p = 1 .. (Len(q) - 1)
      /\ \A i \in DOMAIN p : i \in DOMAIN q /\ i # Len(q) /\ p[i] = q[i]
  BY SMT, <1>1, <1>4
<1>6. \A i \in DOMAIN q : i # Len(q) => i \in DOMAIN p
  BY SMT, <1>1, <1>5
<1>7. \A i, j \in DOMAIN q : q[i] = q[j] => i = j
  BY DEF IsInjective
<1>8. IsInjective(p)
  <2>1. \A i, j \in DOMAIN p : p[i] = p[j] => i = j
    BY SMT, <1>5, <1>7
  <2> QED BY <2>1 DEF IsInjective
<1>9. \A x : x \in Range(p) <=> x \in Range(q) /\ x # o
  <2>1. \A i \in DOMAIN p : p[i] = q[i] /\ i \in DOMAIN q /\ q[i] # o
    BY <1>1, <1>5, <1>7
  <2>2. \A i \in DOMAIN q : q[i] # o => i \in DOMAIN p
    BY SMT, <1>6
  <2> QED BY <2>1, <2>2 DEF Range
<1>10. (p = <<>> => q[1] = o) /\ (p # <<>> => p[1] = q[1])
  BY SMT, <1>1, <1>5
<1> QED BY <1>5, <1>8, <1>9, <1>10

----------------------------------------------------------------------------
(* Calls and wait lists *)

(* Nobody hangs on an empty list. *)
LEMMA NoneOnEmpty ==
    ASSUME NEW s, NEW t, NEW h, On(s, t, h) PROVE s.list[h] # <<>>
<1>1. <<>> \in Seq(Task)
  BY SMT
<1> QED BY <1>1, EmptyList DEF On, OnList

(* What a task that is spared will be told does not change. *)
LEMMA KnowsSpared ==
    ASSUME NEW s, NEW r, NEW C, NEW D, NEW M, NEW u \in Task, Knows(s, C, M, u),
           Spared(s, r, C, D, u),
           \A o \in IpcList : On(s, u, Ipc(o)) => On(r, u, Ipc(o))
    PROVE  Knows(r, D, M, u)
<1> SUFFICES ASSUME NEW o \in IpcList, D[u] = CIpc(o), ~On(r, u, Ipc(o))
             PROVE  Late(r, u) <=> M[o].owner # u
  BY DEF Knows
<1>1. IsIpc(D[u])
  BY IpcCallFacts
<1>2. C[u] = CIpc(o) /\ IsIpc(C[u])
  BY <1>1 DEF Spared, CallKept
<1>3. Late(r, u) <=> Late(s, u)
  BY <1>2 DEF Spared
<1> QED BY <1>2, <1>3 DEF Knows

(* No list grows and nobody is told anything new. *)
LEMMA AwaitedShrinks ==
    ASSUME NEW s, NEW r, NEW M, Awaited(s, M),
           \A o \in IpcList : s.list[Ipc(o)] = <<>> => r.list[Ipc(o)] = <<>>,
           \A u \in Task, o \in IpcList : On(r, u, Ipc(o)) => On(s, u, Ipc(o))
    PROVE  Awaited(r, M)
BY DEF Awaited

(* A step of module Task *)
LEMMA OwnersTask ==
    ASSUME NEW s, Core(s), NEW r, NEW C, NEW D, NEW M, Waiters(s, C), Owners(s, C, M),
           IpcStep(s, r, C, D)
    PROVE  Owners(r, D, M)
<1>1. \A o \in IpcList : s.list[Ipc(o)] = <<>> => r.list[Ipc(o)] = <<>>
  BY WaitersStep
<1>2. CASE Calm(s, r, C, D)
  <2>1. \A u \in Task, o \in IpcList : On(r, u, Ipc(o)) <=> On(s, u, Ipc(o))
    BY <1>2 DEF Calm, Spares, On, OnList
  <2>2. \A u \in Task : Knows(r, D, M, u)
    BY <1>2, <2>1, KnowsSpared DEF Calm, AllSpared, Owners
  <2> QED BY <1>1, <2>1, <2>2, AwaitedShrinks DEF Owners
<1>3. ASSUME NEW t \in Task, TimedOut(s, r, C, D, t) PROVE Owners(r, D, M)
  <2>1. \A u \in Task, o \in IpcList : On(r, u, Ipc(o)) <=> On(s, u, Ipc(o)) /\ u # t
    BY <1>3, UnlinksOn DEF TimedOut
  <2>2. \A u \in Task : u # t => Knows(r, D, M, u)
    BY <1>3, <2>1, KnowsSpared DEF TimedOut, OthersSpared, Owners
  <2>3. Knows(r, D, M, t)
    <3>1. PICK o \in IpcList : On(s, t, Ipc(o))
      BY <1>3 DEF TimedOut
    <3>2. D[t] = CIpc(o) /\ Late(r, t)
      BY <1>3, <3>1 DEF TimedOut, Waiters
    <3>3. M[o].owner # t
      <4>1. s.list[Ipc(o)] # <<>>
        BY <3>1, NoneOnEmpty
      <4> QED BY <3>1, <4>1 DEF Owners, Awaited
    <3>4. \A p \in IpcList : D[t] = CIpc(p) => p = o
      BY <3>2, IpcCallFacts
    <3> QED BY <3>2, <3>3, <3>4 DEF Knows
  <2> QED BY <1>1, <2>1, <2>2, <2>3, AwaitedShrinks DEF Owners
<1>4. ASSUME NEW t \in Task, Ended(s, r, C, D, t) PROVE Owners(r, D, M)
  <2>1. \A u \in Task, o \in IpcList : On(r, u, Ipc(o)) <=> On(s, u, Ipc(o)) /\ u # t
    BY <1>4, UnlinksOn DEF Ended
  <2>2. \A u \in Task : u # t => Knows(r, D, M, u)
    BY <1>4, <2>1, KnowsSpared DEF Ended, OthersSpared, Owners
  <2>3. Knows(r, D, M, t)
    BY <1>4, IpcCallFacts DEF Ended, Knows
  <2> QED BY <1>1, <2>1, <2>2, <2>3, AwaitedShrinks DEF Owners
<1>5. ASSUME NEW t \in Task, Created(s, r, C, D, t) PROVE Owners(r, D, M)
  <2>1. \A u \in Task, o \in IpcList : On(r, u, Ipc(o)) <=> On(s, u, Ipc(o))
    BY <1>5 DEF Created, Spares, On, OnList
  <2>2. \A u \in Task : u # t => Knows(r, D, M, u)
    BY <1>5, <2>1, KnowsSpared DEF Created, OthersSpared, Owners
  <2>3. Knows(r, D, M, t)
    BY <1>5, IpcCallFacts DEF Created, CallKept, Knows
  <2> QED BY <1>1, <2>1, <2>2, <2>3, AwaitedShrinks DEF Owners
<1> QED BY <1>2, <1>3, <1>4, <1>5 DEF IpcStep

(* LOS_MuxPend that waits *)
LEMMA OwnersPended ==
    ASSUME NEW s, NEW r, NEW C, NEW D, NEW M, NEW c, NEW o \in IpcList, Owners(s, C, M),
           Pended(s, r, C, D, c, o), s \in SchedState,
           M[o].used, M[o].owner \in Task, M[o].owner # c
    PROVE  Owners(r, D, M)
<1>1. c \in Task /\ s.list \in [Head_ -> Seq(Task)]
  BY DEF Pended, SchedState
<1>2. \A u \in Task : On(r, u, Ipc(o)) <=> On(s, u, Ipc(o)) \/ u = c
  <2>1. s.list[Ipc(o)] \in Seq(Task) /\ r.list[Ipc(o)] = Append(s.list[Ipc(o)], c)
    BY <1>1, IpcFacts DEF Pended
  <2>2. PICK q \in Seq(Task) : q = s.list[Ipc(o)]
    BY <2>1
  <2>3. \A u : u \in Range(Append(q, c)) <=> u \in Range(q) \/ u = c
    BY <1>1, AppendRange
  <2> QED BY <2>1, <2>2, <2>3 DEF On, OnList
<1>3. \A p \in IpcList : p # o => r.list[Ipc(p)] = s.list[Ipc(p)]
  BY DEF Pended
<1>4. \A u \in Task, p \in IpcList : On(s, u, Ipc(p)) => On(r, u, Ipc(p))
  BY <1>2, <1>3 DEF On, OnList
<1>5. \A u \in Task : u # c => Knows(r, D, M, u)
  BY <1>4, KnowsSpared DEF Pended, OthersSpared, Owners
<1>6. Knows(r, D, M, c)
  <2>1. \A p \in IpcList : D[c] = CIpc(p) => p = o
    BY IpcCallFacts DEF Pended
  <2> QED BY <1>1, <1>2, <2>1 DEF Knows
<1>7. Awaited(r, M)
  <2>1. ASSUME NEW p \in IpcList, p # o, r.list[Ipc(p)] # <<>>
        PROVE  M[p].used /\ M[p].owner \in Task /\ ~On(r, M[p].owner, Ipc(p))
    BY <1>3, <2>1 DEF Owners, Awaited, On, OnList
  <2>2. ~On(r, M[o].owner, Ipc(o))
    <3>1. CASE s.list[Ipc(o)] = <<>>
      BY <1>2, <3>1, NoneOnEmpty
    <3>2. CASE s.list[Ipc(o)] # <<>>
      BY <1>2, <3>2 DEF Owners, Awaited
    <3> QED BY <3>1, <3>2
  <2> QED BY <2>1, <2>2 DEF Awaited
<1> QED BY <1>1, <1>5, <1>6, <1>7 DEF Owners

(* LOS_MuxPend after LOS_Schedule *)
LEMMA OwnersReturned ==
    ASSUME NEW s, NEW r, NEW C, NEW D, NEW M, NEW c, Owners(s, C, M), Returned(s, r, C, D, c)
    PROVE  Owners(r, D, M)
<1>1. \A u, o : o \in IpcList => (On(r, u, Ipc(o)) <=> On(s, u, Ipc(o)))
  BY DEF Returned, Spares, On, OnList
<1>2. \A u \in Task : u # c => Knows(r, D, M, u)
  BY <1>1, KnowsSpared DEF Returned, OthersSpared, Owners
<1>3. Knows(r, D, M, c)
  BY IpcCallFacts DEF Returned, Knows
<1>4. Awaited(r, M)
  BY <1>1, AwaitedShrinks DEF Owners, Returned, Spares
<1> QED BY <1>2, <1>3, <1>4 DEF Owners

(* LOS_MuxPost that hands o to t *)
LEMMA OwnersHanded ==
    ASSUME NEW s, Core(s), NEW r, NEW C, NEW M, NEW N, NEW c \in Task, NEW t \in Task,
           NEW o \in IpcList, Waiters(s, C), Owners(s, C, M), On(s, t, Ipc(o)),
           Handed(s, r, C, C, t), C[c] = None, M[o].owner = c,
           N[o].used, N[o].owner = t, Else(M, N, o)
    PROVE  Owners(r, C, N)
<1>1. \A u \in Task, p \in IpcList : On(r, u, Ipc(p)) <=> On(s, u, Ipc(p)) /\ u # t
  <2>1. Unlinks(s, r, t)
    BY DEF Handed
  <2>2. /\ \A u \in Task, p \in IpcList : On(r, u, Ipc(p)) <=> On(s, u, Ipc(p)) /\ u # t
        /\ \A p \in IpcList : s.list[Ipc(p)] = <<>> => r.list[Ipc(p)] = <<>>
    BY SMT, <2>1, UnlinksOn
  <2> QED BY <2>2
<1>2. /\ Waiters(r, C) /\ ~Late(r, t) /\ C[t] = CIpc(o)
      /\ \A p \in IpcList : s.list[Ipc(p)] = <<>> => r.list[Ipc(p)] = <<>>
  BY SMT, WaitersHanded
<1>3. \A p \in IpcList : C[t] = CIpc(p) => p = o
  BY <1>2, IpcCallFacts
<1>4. Knows(r, C, N, t)
  BY <1>2, <1>3 DEF Knows
<1>5. ASSUME NEW u \in Task, u # t PROVE Knows(r, C, N, u)
  <2>1. Knows(r, C, M, u)
    BY <1>1, <1>5, KnowsSpared DEF Handed, OthersSpared, Owners
  <2>2. C[u] = CIpc(o) => u # c
    BY IpcCallFacts
  <2> QED BY <1>5, <2>1, <2>2 DEF Knows, Else
<1>6. Awaited(r, N)
  <2>1. Awaited(r, M)
    BY <1>1, <1>2, AwaitedShrinks DEF Owners
  <2> QED BY <1>1, <2>1 DEF Awaited, Else
<1> QED BY <1>4, <1>5, <1>6 DEF Owners

(* LOS_MuxPend of a free mutex by c, and LOS_MuxPost that frees it *)
LEMMA OwnersMoved ==
    ASSUME NEW s, NEW C, NEW M, NEW N, NEW c \in Task, NEW o \in IpcList, Owners(s, C, M),
           s.list[Ipc(o)] = <<>>, C[c] = None, Else(M, N, o),
           \/ M[o].owner = NoTask /\ N[o].owner = c
           \/ M[o].owner = c /\ N[o].owner = NoTask
    PROVE  Owners(s, C, N)
<1>1. Awaited(s, N)
  BY DEF Owners, Awaited, Else
<1>2. ASSUME NEW u \in Task PROVE Knows(s, C, N, u)
  <2>1. C[u] = CIpc(o) => u # c /\ M[o].owner # u /\ N[o].owner # u
    BY IpcCallFacts, MuxConstants
  <2> QED BY <2>1 DEF Owners, Knows, Else
<1> QED BY <1>1, <1>2 DEF Owners

(* The rest keeps the owners. *)
LEMMA OwnersKept ==
    ASSUME NEW s, NEW C, NEW M, NEW N, Owners(s, C, M),
           \A o \in IpcList : /\ N[o].owner = M[o].owner
                              /\ s.list[Ipc(o)] # <<>> /\ M[o].used => N[o].used
    PROVE  Owners(s, C, N)
BY DEF Owners, Awaited, Knows

----------------------------------------------------------------------------
(* Control blocks, mutexes held and priorities *)

(* LOS_MuxPend and LOS_MuxPost of o *)
LEMMA BlocksAt ==
    ASSUME NEW M, NEW q, Blocks(M, q), NEW N \in [IpcList -> MuxCB], NEW o \in IpcList,
           Else(M, N, o), M[o].used, N[o].used, N[o].count = 0 <=> N[o].owner = NoTask
    PROVE  Blocks(N, q)
<1>1. \A p \in Range(q) : p \in IpcList
  BY SMT DEF Blocks, Range
<1> QED BY <1>1 DEF Blocks, Else

(* The first mutex a task locked *)
LEMMA FirstHeld ==
    ASSUME NEW M, NEW H, Locks(M, H), NEW t \in Task, H[t] # <<>>
    PROVE  H[t][1] \in IpcList /\ M[H[t][1]].owner = t
<1>1. PICK q \in Seq(IpcList) : q = H[t]
  BY DEF Locks
<1>2. q[1] \in Range(q) /\ q[1] \in IpcList
  BY SMT, <1>1 DEF Range
<1> QED BY <1>1, <1>2 DEF Locks

(* The owners stay the same. *)
LEMMA LocksKept ==
    ASSUME NEW s, NEW M, NEW H, NEW B, Locks(M, H), Lent(s, M, H, B), NEW N,
           \A o \in IpcList : /\ N[o].owner = M[o].owner
                              /\ M[o].owner \in Task => N[o].priority = M[o].priority
    PROVE  Locks(N, H) /\ Lent(s, N, H, B)
<1>1. Locks(N, H)
  BY DEF Locks
<1>2. \A t \in Task : H[t] # <<>> => N[H[t][1]].priority = M[H[t][1]].priority
  BY SMT, FirstHeld
<1> QED BY <1>1, <1>2 DEF Lent

(* c becomes the owner of o, which was free. *)
LEMMA LocksTaken ==
    ASSUME NEW s, NEW M, NEW H, NEW B, Locks(M, H), Lent(s, M, H, B),
           NEW c \in Task, c # Idle, Living(s, c), NEW o \in IpcList, M[o].owner = NoTask,
           NEW N, N[o].owner = c, N[o].priority = s.priority[c], Else(M, N, o),
           NEW G, Acquired(H, G, c, o)
    PROVE  Locks(N, G) /\ Lent(s, N, G, B)
<1>0. G = [H EXCEPT ![c] = Append(@, o)] /\ \A p \in IpcList : p # o => N[p] = M[p]
  BY DEF Acquired, Else
<1> USE <1>0
<1>1. /\ H[c] \in Seq(IpcList) /\ IsInjective(H[c]) /\ H \in [Task -> Seq(IpcList)]
      /\ \A t \in Task : o \notin Range(H[t])
  <2>1. \A t \in Task : M[o].owner # t
    BY MuxConstants
  <2> QED BY <2>1 DEF Locks
<1>2. PICK q \in Seq(IpcList) : q = H[c]
  BY <1>1
<1>3. PICK p : p = Append(q, o)
  OBVIOUS
<1>4. /\ p \in Seq(IpcList) /\ IsInjective(p) /\ p # <<>>
      /\ \A x : x \in Range(p) <=> x \in Range(q) \/ x = o
      /\ (q = <<>> => p[1] = o) /\ (q # <<>> => p[1] = q[1])
  <2>1. /\ q \in Seq(IpcList) /\ IsInjective(q) /\ o \in IpcList /\ o \notin Range(q)
        /\ p = Append(q, o)
    BY <1>1, <1>2, <1>3
  <2> QED BY ONLY ZenonT(30), <2>1, HeldAppend
<1>5. /\ G \in [Task -> Seq(IpcList)] /\ G[c] = p /\ \A t \in Task : t # c => G[t] = H[t]
  BY <1>1, <1>2, <1>3, <1>4
<1>6. Locks(N, G)
  <2>1. ASSUME NEW t \in Task
        PROVE  IsInjective(G[t]) /\ \A x \in IpcList : x \in Range(G[t]) <=> N[x].owner = t
    <3>1. /\ IsInjective(H[t]) /\ \A x \in IpcList : x \in Range(H[t]) <=> M[x].owner = t
          /\ \A x \in IpcList : x # o => N[x].owner = M[x].owner
      BY DEF Locks
    <3>2. CASE t = c
      <4>1. G[t] = p /\ H[t] = q
        BY <1>2, <1>5, <3>2
      <4> QED BY <1>4, <3>1, <3>2, <4>1
    <3>3. CASE t # c
      <4>1. G[t] = H[t] /\ o \notin Range(H[t])
        BY <1>1, <1>5, <3>3
      <4> QED BY <3>1, <3>3, <4>1
    <3> QED BY <3>2, <3>3
  <2> QED BY <1>5, <2>1 DEF Locks
<1>7. ASSUME NEW t \in Task, t # c, G[t] # <<>> PROVE N[G[t][1]].priority = B[t]
  <2>1. H[t][1] \in IpcList /\ M[H[t][1]].owner = t
    BY SMT, <1>5, <1>7, FirstHeld
  <2>2. H[t][1] # o
    BY <2>1, MuxConstants
  <2> QED BY <1>5, <1>7, <2>1, <2>2 DEF Lent
<1>8. N[p[1]].priority = B[c]
  <2>1. CASE q = <<>>
    BY <1>2, <1>4, <2>1 DEF Lent
  <2>2. CASE q # <<>>
    <3>1. H[c][1] \in IpcList /\ M[H[c][1]].owner = c
      BY SMT, <1>2, <2>2, FirstHeld
    <3>2. H[c][1] # o
      BY <3>1, MuxConstants
    <3> QED BY SMT, <1>2, <1>4, <2>2, <3>1, <3>2 DEF Lent
  <2> QED BY <2>1, <2>2
<1> QED BY <1>4, <1>5, <1>6, <1>7, <1>8 DEF Lent

(* c releases o, the mutex it locked last. *)
LEMMA LocksReleased ==
    ASSUME NEW s, NEW M, NEW H, NEW B, Locks(M, H), Lent(s, M, H, B),
           NEW c \in Task, NEW o \in IpcList, M[o].owner = c, H[c][Len(H[c])] = o,
           NEW r, Repaid(s, r, c, M[o].priority),
           NEW N, N[o].owner = NoTask, Else(M, N, o), NEW G, Released(H, G, c, o)
    PROVE  Locks(N, G) /\ Lent(r, N, G, B)
<1>0. /\ G = [H EXCEPT ![c] = Unlink(@, o)] /\ \A p \in IpcList : p # o => N[p] = M[p]
      /\ r.priority[c] = M[o].priority
      /\ \A u \in Task : /\ u # c => r.priority[u] = s.priority[u]
                         /\ Living(s, u) => Living(r, u)
  BY DEF Released, Else, Repaid
<1> USE <1>0
<1>1. /\ H[c] \in Seq(IpcList) /\ IsInjective(H[c]) /\ H \in [Task -> Seq(IpcList)]
      /\ o \in Range(H[c])
  BY DEF Locks
<1>2. PICK q \in Seq(IpcList) : q = H[c]
  BY <1>1
<1>3. PICK p : p = Unlink(q, o)
  OBVIOUS
<1>4. q # <<>>
  <2>1. Range(<<>>) = {}
    BY SMT DEF Range
  <2> QED BY <1>1, <1>2, <2>1
<1>5. /\ p \in Seq(IpcList) /\ IsInjective(p)
      /\ \A x : x \in Range(p) <=> x \in Range(q) /\ x # o
      /\ p = <<>> => q[1] = o
      /\ p # <<>> => p[1] = q[1]
  <2>1. IsInjective(q) /\ q[Len(q)] = o
    BY <1>1, <1>2
  <2> QED BY SMT, <1>3, <1>4, <2>1, HeldUnlink
<1>6. /\ G \in [Task -> Seq(IpcList)] /\ G[c] = p /\ \A t \in Task : t # c => G[t] = H[t]
  BY <1>1, <1>2, <1>3, <1>5
<1>7. Locks(N, G)
  <2>1. ASSUME NEW t \in Task
        PROVE  IsInjective(G[t]) /\ \A x \in IpcList : x \in Range(G[t]) <=> N[x].owner = t
    <3>1. /\ IsInjective(H[t]) /\ \A x \in IpcList : x \in Range(H[t]) <=> M[x].owner = t
          /\ \A x \in IpcList : x # o => N[x].owner = M[x].owner
          /\ N[o].owner # t
      BY MuxConstants DEF Locks
    <3>2. CASE t = c
      <4>1. G[t] = p /\ H[t] = q
        BY <1>2, <1>6, <3>2
      <4> QED BY <1>5, <3>1, <4>1
    <3>3. CASE t # c
      <4>1. G[t] = H[t] /\ o \notin Range(H[t])
        BY <1>6, <3>1, <3>3
      <4> QED BY <3>1, <4>1
    <3> QED BY <3>2, <3>3
  <2> QED BY <1>6, <2>1 DEF Locks
<1>8. ASSUME NEW t \in Task, G[t] # <<>> PROVE N[G[t][1]].priority = B[t] /\ H[t] # <<>>
  <2>1. H[t] # <<>> /\ G[t][1] = H[t][1]
    <3>1. CASE t = c
      BY <1>2, <1>4, <1>5, <1>6, <1>8, <3>1
    <3>2. CASE t # c
      BY <1>6, <1>8, <3>2
    <3> QED BY <3>1, <3>2
  <2>2. G[t][1] \in IpcList /\ N[G[t][1]].owner = t
    <3>1. Locks(N, G) /\ t \in Task /\ G[t] # <<>>
      BY <1>7, <1>8
    <3> QED BY ONLY SMT, <3>1, FirstHeld
  <2>3. G[t][1] # o
    BY <2>2, MuxConstants
  <2>4. N[G[t][1]] = M[H[t][1]]
    BY <2>1, <2>2, <2>3
  <2> QED BY <2>1, <2>4 DEF Lent
<1>9. ASSUME NEW t \in Task, G[t] = <<>> PROVE r.priority[t] = B[t]
  <2>1. CASE t = c
    <3>1. H[c][1] = o
      BY <1>2, <1>5, <1>6, <1>9, <2>1
    <3> QED BY <1>2, <1>4, <2>1, <3>1 DEF Lent
  <2>2. CASE t # c
    BY <1>6, <1>9, <2>2 DEF Lent
  <2> QED BY <2>1, <2>2
<1> QED BY <1>7, <1>8, <1>9 DEF Lent

----------------------------------------------------------------------------
(* Priorities: only OsSchedModifyTaskSchedParam changes any. *)
HasPrio(s) == "priority" \in DOMAIN s
Keeps(s, r) == HasPrio(r) /\ r.priority = s.priority

(* The operations on one field *)
LEMMA KeepsFields ==
    ASSUME NEW s, HasPrio(s), NEW t, NEW b
    PROVE  /\ Keeps(s, SetStatus(s, t, b)) /\ Keeps(s, ClrStatus(s, t, b))
           /\ Keeps(s, OsDeleteSortLink(s, t)) /\ Keeps(s, ListDelete(s, t))
           /\ Keeps(s, ListAdd(s, b, t)) /\ Keeps(s, ListTailInsert(s, b, t))
           /\ Keeps(s, MarkQueue(s, b)) /\ Keeps(s, OsSchedPriQueueDelete(s, t, b))
           /\ Keeps(s, LOS_Schedule(s))
<1>1. \A x : /\ Keeps(s, [s EXCEPT !.list = x]) /\ Keeps(s, [s EXCEPT !.fault = x])
            /\ Keeps(s, [s EXCEPT !.bitmap = x]) /\ Keeps(s, [s EXCEPT !.status = x])
            /\ Keeps(s, [s EXCEPT !.switch = x]) /\ Keeps(s, [s EXCEPT !.sortLink = x])
  BY SMT DEF Keeps, HasPrio
<1>2. Keeps(s, SetStatus(s, t, b)) /\ Keeps(s, ClrStatus(s, t, b))
  BY SMT DEF SetStatus, ClrStatus, Keeps, HasPrio
<1>3. Keeps(s, OsDeleteSortLink(s, t)) /\ Keeps(s, MarkQueue(s, b)) /\ Keeps(s, LOS_Schedule(s))
  BY SMT DEF OsDeleteSortLink, MarkQueue, LOS_Schedule, Keeps, HasPrio
<1>4. Keeps(s, ListDelete(s, t))
  BY <1>1 DEF ListDelete
<1>5. Keeps(s, ListAdd(s, b, t)) /\ Keeps(s, ListTailInsert(s, b, t))
  BY SMT DEF ListAdd, ListTailInsert, Keeps, HasPrio
<1>6. Keeps(s, OsSchedPriQueueDelete(s, t, b))
  <2>1. PICK r : r = ListDelete(s, t)
    OBVIOUS
  <2>2. PICK x : OsSchedPriQueueDelete(s, t, b) = [r EXCEPT !.bitmap = x]
    BY <2>1 DEF OsSchedPriQueueDelete
  <2> QED BY SMT, <1>4, <2>1, <2>2 DEF Keeps, HasPrio
<1> QED BY <1>2, <1>3, <1>4, <1>5, <1>6

(* Ready queues *)
LEMMA KeepsQueue ==
    ASSUME NEW s, HasPrio(s), NEW t
    PROVE  Keeps(s, OsSchedTaskEnQueue(s, t)) /\ Keeps(s, OsSchedTaskDeQueue(s, t))
<1>1. PICK p : p = s.priority[t]
  OBVIOUS
<1>2. Keeps(s, OsSchedPriQueueEnHead(s, t, p)) /\ Keeps(s, OsSchedPriQueueEnTail(s, t, p))
  <2>1. PICK m : m = MarkQueue(s, p)
    OBVIOUS
  <2>2. Keeps(s, m)
    BY <2>1, KeepsFields
  <2>3. Keeps(m, ListAdd(m, PriQueue(p), t)) /\ Keeps(m, ListTailInsert(m, PriQueue(p), t))
    BY SMT, <2>2, KeepsFields DEF Keeps
  <2> QED BY <2>1, <2>2, <2>3 DEF OsSchedPriQueueEnHead, OsSchedPriQueueEnTail, Keeps
<1>3. \A a : Keeps(s, a) => \A x, y : /\ Keeps(s, [a EXCEPT !.slice[t] = x])
                                     /\ Keeps(s, [a EXCEPT !.status[t] = y])
  BY SMT DEF Keeps, HasPrio
<1>4. Keeps(s, OsSchedTaskEnQueue(s, t))
  <2>1. PICK q : /\ Keeps(s, q)
                 /\ \/ OsSchedTaskEnQueue(s, t) = [s EXCEPT !.fault = TRUE]
                    \/ OsSchedTaskEnQueue(s, t) = [q EXCEPT !.status[t] =
                          (@ \ {"PEND", "SUSPEND", "DELAY", "PEND_TIME"}) \cup {"READY"}]
    <3> DEFINE q == IF t = Idle THEN s
                    ELSE IF s.slice[t] THEN OsSchedPriQueueEnHead(s, t, p)
                    ELSE [OsSchedPriQueueEnTail(s, t, p) EXCEPT !.slice[t] = TRUE]
    <3>1. Keeps(s, s)
      BY DEF Keeps
    <3>2. Keeps(s, q)
      BY <1>2, <1>3, <3>1
    <3>3. \/ OsSchedTaskEnQueue(s, t) = [s EXCEPT !.fault = TRUE]
          \/ OsSchedTaskEnQueue(s, t) = [q EXCEPT !.status[t] =
                (@ \ {"PEND", "SUSPEND", "DELAY", "PEND_TIME"}) \cup {"READY"}]
      BY <1>1 DEF OsSchedTaskEnQueue
    <3> HIDE DEF q
    <3> QED BY <3>2, <3>3
  <2> QED BY SMT, <2>1 DEF Keeps, HasPrio
<1>5. Keeps(s, OsSchedTaskDeQueue(s, t))
  <2>1. PICK a : a = IF t = Idle THEN s ELSE OsSchedPriQueueDelete(s, t, p)
    OBVIOUS
  <2>2. Keeps(s, a)
    BY SMT, <2>1, KeepsFields DEF Keeps
  <2>3. Keeps(a, ClrStatus(a, t, {"READY"}))
    BY SMT, <2>2, KeepsFields DEF Keeps
  <2>4. OsSchedTaskDeQueue(s, t) = s \/ OsSchedTaskDeQueue(s, t) = ClrStatus(a, t, {"READY"})
    BY <1>1, <2>1 DEF OsSchedTaskDeQueue
  <2> QED BY <2>2, <2>3, <2>4 DEF Keeps
<1> QED BY <1>4, <1>5

(* Waiting and waking *)
LEMMA KeepsWait ==
    ASSUME NEW s, HasPrio(s), NEW h, NEW forever, NEW t
    PROVE  /\ LOS_Schedule(OsSchedTaskWait(s, h, forever)).priority = s.priority
           /\ LOS_Schedule(OsSchedTaskWake(s, t)).priority = s.priority
<1>1. ASSUME NEW a, Keeps(s, a) PROVE LOS_Schedule(a).priority = s.priority
  BY <1>1, KeepsFields DEF Keeps
<1>2. Keeps(s, OsSchedTaskWait(s, h, forever))
  <2>1. PICK a : a = ListTailInsert(s, h, s.run)
    OBVIOUS
  <2>2. Keeps(s, a)
    BY <2>1, KeepsFields
  <2>3. \A x : Keeps(a, SetStatus(a, s.run, x))
    BY SMT, <2>2, KeepsFields DEF Keeps
  <2> QED BY <2>1, <2>2, <2>3 DEF OsSchedTaskWait, Keeps
<1>3. Keeps(s, OsSchedTaskWake(s, t))
  <2>1. PICK d : d = ListDelete(s, t)
    OBVIOUS
  <2>2. PICK a : a = ClrStatus(d, t, {"PEND"})
    OBVIOUS
  <2>3. PICK e : e = OsDeleteSortLink(a, t)
    OBVIOUS
  <2>4. PICK b : b = IF Has(a, t, {"PEND_TIME"}) THEN ClrStatus(e, t, {"PEND_TIME"}) ELSE a
    OBVIOUS
  <2>5. Keeps(s, d)
    BY <2>1, KeepsFields
  <2>6. Keeps(s, a)
    BY SMT, <2>2, <2>5, KeepsFields DEF Keeps
  <2>7. Keeps(s, e)
    BY <2>3, <2>6, KeepsFields DEF Keeps
  <2>8. Keeps(s, b)
    <3>1. Keeps(s, ClrStatus(e, t, {"PEND_TIME"}))
      BY SMT, <2>7, KeepsFields DEF Keeps
    <3> QED BY <2>4, <2>6, <3>1
  <2>9. OsSchedTaskWake(s, t) = b \/ OsSchedTaskWake(s, t) = OsSchedTaskEnQueue(b, t)
    BY <2>1, <2>2, <2>3, <2>4 DEF OsSchedTaskWake
  <2> QED BY <2>8, <2>9, KeepsQueue DEF Keeps
<1> QED BY <1>1, <1>2, <1>3

(* OsSchedModifyTaskSchedParam *)
LEMMA ModifyPrio ==
    ASSUME NEW s \in SchedState, NEW t \in Task, NEW p
    PROVE  /\ OsSchedModifyTaskSchedParam(s, t, p).priority[t] = p
           /\ \A u \in Task : u # t =>
                 OsSchedModifyTaskSchedParam(s, t, p).priority[u] = s.priority[u]
<1>1. HasPrio(s) /\ s.priority \in [Task -> Prio]
  BY DEF HasPrio, SchedState
<1>2. PICK d : d = OsSchedTaskDeQueue(s, t)
  OBVIOUS
<1>3. Keeps(s, d)
  BY <1>1, <1>2, KeepsQueue
<1>4. PICK b : b = [d EXCEPT !.priority[t] = p]
  OBVIOUS
<1>5. /\ HasPrio(b) /\ b.priority[t] = p
      /\ \A u \in Task : u # t => b.priority[u] = s.priority[u]
  BY SMT, <1>1, <1>3, <1>4 DEF Keeps, HasPrio
<1>6. Keeps(b, OsSchedTaskEnQueue(b, t))
  BY <1>5, KeepsQueue
<1>7. \/ OsSchedModifyTaskSchedParam(s, t, p) = [s EXCEPT !.priority[t] = p]
      \/ OsSchedModifyTaskSchedParam(s, t, p) = OsSchedTaskEnQueue(b, t)
  BY <1>2, <1>4 DEF OsSchedModifyTaskSchedParam
<1>8. CASE OsSchedModifyTaskSchedParam(s, t, p) = [s EXCEPT !.priority[t] = p]
  BY SMT, <1>1, <1>8 DEF HasPrio
<1>9. CASE OsSchedModifyTaskSchedParam(s, t, p) = OsSchedTaskEnQueue(b, t)
  BY <1>5, <1>6, <1>9 DEF Keeps
<1> QED BY <1>7, <1>8, <1>9

----------------------------------------------------------------------------
(* The steps, as far as the mutexes are concerned *)

(* LOS_MuxCreate *)
LEMMA CreateWell ==
    ASSUME NEW s, NEW C, NEW M, NEW q, NEW H, NEW B, MuxWell(s, C, M, q, H, B), q # <<>>,
           NEW N, N = [M EXCEPT ![Head(q)] =
                         [used |-> TRUE, count |-> 0, owner |-> NoTask, priority |-> 0]]
    PROVE  MuxWell(s, C, N, Tail(q), H, B)
<1>1. /\ Waiters(s, C) /\ Owners(s, C, M) /\ Blocks(M, q) /\ Locks(M, H) /\ Lent(s, M, H, B)
  BY DEF MuxWell
<1>2. PICK h : h = Head(q)
  OBVIOUS
<1>3. /\ h \in Range(q) /\ h \in IpcList
      /\ Tail(q) \in Seq(IpcList) /\ IsInjective(Tail(q))
      /\ \A o \in Range(Tail(q)) : o \in Range(q) /\ o # h /\ o \in IpcList
  BY <1>1, <1>2, PoolTake DEF Blocks
<1>4. PICK b : b = [used |-> TRUE, count |-> 0, owner |-> NoTask, priority |-> 0]
  OBVIOUS
<1>5. /\ b \in MuxCB /\ b.used /\ b.count = 0 /\ b.owner = NoTask
  BY SMT, <1>4, MuxConstants, SchedConstants DEF MuxCB, Prio
<1>6. N \in [IpcList -> MuxCB] /\ N[h] = b /\ \A o \in IpcList : o # h => N[o] = M[o]
  BY <1>1, <1>2, <1>3, <1>4, <1>5 DEF Blocks
<1>7. \A o \in Range(Tail(q)) : ~N[o].used
  BY <1>1, <1>3, <1>6 DEF Blocks
<1>8. \A o \in IpcList : /\ ~N[o].used => N[o].count = 0
                         /\ N[o].count = 0 <=> N[o].owner = NoTask
  BY <1>1, <1>5, <1>6 DEF Blocks
<1>9. Blocks(N, Tail(q))
  BY <1>3, <1>6, <1>7, <1>8 DEF Blocks
<1>10. \A o \in IpcList : /\ N[o].owner = M[o].owner
                          /\ s.list[Ipc(o)] # <<>> /\ M[o].used => N[o].used
                          /\ M[o].owner \in Task => N[o].priority = M[o].priority
  <2>1. M[h].owner = NoTask
    BY <1>1, <1>3 DEF Blocks
  <2> QED BY <1>5, <1>6, <2>1, MuxConstants
<1>11. Owners(s, C, N)
  BY ONLY Zenon, <1>1, <1>10, OwnersKept
<1>12. Locks(N, H) /\ Lent(s, N, H, B)
  BY ONLY Zenon, <1>1, <1>10, LocksKept
<1> QED BY <1>1, <1>9, <1>11, <1>12 DEF MuxWell

(* LOS_MuxDelete *)
LEMMA DeleteWell ==
    ASSUME NEW s, NEW C, NEW M, NEW q, NEW H, NEW B, MuxWell(s, C, M, q, H, B),
           NEW o \in IpcList, M[o].used, M[o].count = 0, s.list[Ipc(o)] = <<>>,
           NEW N, N = [M EXCEPT ![o].used = FALSE]
    PROVE  MuxWell(s, C, N, <<o>> \o q, H, B)
<1>1. /\ Waiters(s, C) /\ Owners(s, C, M) /\ Blocks(M, q) /\ Locks(M, H) /\ Lent(s, M, H, B)
      /\ M \in [IpcList -> MuxCB]
  BY DEF MuxWell, Blocks
<1>2. PICK p : p = <<o>> \o q
  OBVIOUS
<1>3. /\ p \in Seq(IpcList) /\ IsInjective(p)
      /\ \A x \in Range(p) : x \in IpcList /\ (x = o \/ x \in Range(q))
  BY <1>1, <1>2, PoolGive DEF Blocks
<1>4. /\ N \in [IpcList -> MuxCB] /\ \A x \in IpcList : x # o => N[x] = M[x]
      /\ ~N[o].used /\ N[o].count = M[o].count /\ N[o].owner = M[o].owner
      /\ N[o].priority = M[o].priority
  <2>1. PICK b : b = [M[o] EXCEPT !.used = FALSE]
    OBVIOUS
  <2>2. /\ b \in MuxCB /\ ~b.used /\ b.count = M[o].count /\ b.owner = M[o].owner
        /\ b.priority = M[o].priority
    BY <1>1, <2>1 DEF MuxCB
  <2>3. N = [M EXCEPT ![o] = b]
    BY <1>1, <2>1
  <2> QED BY <1>1, <2>2, <2>3
<1>5. \A x \in Range(p) : ~N[x].used
  BY <1>1, <1>3, <1>4 DEF Blocks
<1>6. \A x \in IpcList : /\ ~N[x].used => N[x].count = 0
                         /\ N[x].count = 0 <=> N[x].owner = NoTask
  BY <1>1, <1>4 DEF Blocks
<1>7. Blocks(N, <<o>> \o q)
  BY <1>2, <1>3, <1>4, <1>5, <1>6 DEF Blocks
<1>8. \A x \in IpcList : /\ N[x].owner = M[x].owner
                         /\ s.list[Ipc(x)] # <<>> /\ M[x].used => N[x].used
                         /\ M[x].owner \in Task => N[x].priority = M[x].priority
  BY <1>4
<1>9. Owners(s, C, N)
  BY ONLY Zenon, <1>1, <1>8, OwnersKept
<1>10. Locks(N, H) /\ Lent(s, N, H, B)
  BY ONLY Zenon, <1>1, <1>8, LocksKept
<1> QED BY <1>1, <1>7, <1>9, <1>10 DEF MuxWell

(* LOS_MuxPend of a mutex that is free *)
LEMMA TakeWell ==
    ASSUME NEW s \in SchedState, NEW C, NEW M, NEW q, NEW H, NEW B,
           MuxWell(s, C, M, q, H, B), NEW c \in Task, c # Idle, Living(s, c), C[c] = None,
           NEW o \in IpcList, M[o].used, M[o].count = 0,
           NEW N, N = [M EXCEPT ![o].count = 1, ![o].owner = c, ![o].priority = s.priority[c]],
           NEW G, Acquired(H, G, c, o)
    PROVE  MuxWell(s, C, N, q, G, B)
<1>1. /\ Waiters(s, C) /\ Owners(s, C, M) /\ Blocks(M, q) /\ Locks(M, H) /\ Lent(s, M, H, B)
  BY DEF MuxWell
<1>2. /\ M \in [IpcList -> MuxCB] /\ M[o].owner = NoTask /\ s.priority[c] \in Prio
      /\ c \in Task /\ c # Idle /\ o \in IpcList /\ Living(s, c) /\ C[c] = None
      /\ M[o].used /\ Acquired(H, G, c, o)
  BY <1>1 DEF Blocks, SchedState
<1>3. s.list[Ipc(o)] = <<>>
  BY <1>1, <1>2, MuxConstants DEF Owners, Awaited
<1>4. /\ N \in [IpcList -> MuxCB] /\ Else(M, N, o) /\ N[o].used = M[o].used
      /\ N[o].count = 1 /\ N[o].owner = c /\ N[o].priority = s.priority[c]
  <2>1. 1 \in 0 .. MaxNest /\ M[o] \in MuxCB
    BY SMT, <1>2, MuxConstants
  <2>2. PICK a : a = [M[o] EXCEPT !.count = 1]
    OBVIOUS
  <2>3. PICK b : b = [a EXCEPT !.owner = c]
    OBVIOUS
  <2>4. PICK d : d = [b EXCEPT !.priority = s.priority[c]]
    OBVIOUS
  <2>5. N = [M EXCEPT ![o] = d]
    BY <2>2, <2>3, <2>4
  <2>6. a \in MuxCB /\ a.used = M[o].used /\ a.count = 1
    BY <2>1, <2>2 DEF MuxCB
  <2>7. b \in MuxCB /\ b.used = M[o].used /\ b.count = 1 /\ b.owner = c
    BY <2>3, <2>6 DEF MuxCB
  <2>8. /\ d \in MuxCB /\ d.used = M[o].used /\ d.count = 1 /\ d.owner = c
        /\ d.priority = s.priority[c]
    BY <1>2, <2>4, <2>7 DEF MuxCB
  <2>9. N[o] = d /\ \A p \in IpcList : p # o => N[p] = M[p]
    BY <1>2, <2>5
  <2>10. N \in [IpcList -> MuxCB]
    BY <1>2, <2>5, <2>8
  <2> QED BY <2>8, <2>9, <2>10 DEF Else
<1>5. N[o].used /\ (N[o].count = 0 <=> N[o].owner = NoTask)
  BY SMT, <1>2, <1>4, MuxConstants
<1>6. Blocks(N, q)
  BY ONLY Zenon, <1>1, <1>2, <1>4, <1>5, BlocksAt
<1>7. Owners(s, C, N)
  BY ONLY Zenon, <1>1, <1>2, <1>3, <1>4, OwnersMoved
<1>8. Locks(N, G) /\ Lent(s, N, G, B)
  BY ONLY Zenon, <1>1, <1>2, <1>4, LocksTaken
<1> QED BY <1>1, <1>6, <1>7, <1>8 DEF MuxWell

(* A mutex locked once more or once less, not the first or last time *)
LEMMA NestWell ==
    ASSUME NEW s, NEW C, NEW M, NEW q, NEW H, NEW B, MuxWell(s, C, M, q, H, B),
           NEW o \in IpcList, M[o].used, M[o].count # 0, NEW n \in 1 .. MaxNest,
           NEW N, N = [M EXCEPT ![o].count = n]
    PROVE  MuxWell(s, C, N, q, H, B)
<1>1. /\ Waiters(s, C) /\ Owners(s, C, M) /\ Blocks(M, q) /\ Locks(M, H) /\ Lent(s, M, H, B)
      /\ M \in [IpcList -> MuxCB]
  BY DEF MuxWell, Blocks
<1>2. /\ N \in [IpcList -> MuxCB] /\ Else(M, N, o)
      /\ N[o].used /\ N[o].count = n /\ N[o].owner = M[o].owner
      /\ N[o].priority = M[o].priority
  <2>1. PICK b : b = [M[o] EXCEPT !.count = n]
    OBVIOUS
  <2>2. n \in 0 .. MaxNest /\ M[o] \in MuxCB
    BY SMT, <1>1, MuxConstants
  <2>3. /\ b \in MuxCB /\ b.used /\ b.count = n /\ b.owner = M[o].owner
        /\ b.priority = M[o].priority
    BY <2>1, <2>2 DEF MuxCB
  <2>4. N = [M EXCEPT ![o] = b]
    BY <1>1, <2>1
  <2> QED BY <1>1, <2>3, <2>4 DEF Else
<1>3. Blocks(N, q)
  <2>1. n # 0 /\ M[o].owner # NoTask
    BY SMT, <1>1 DEF Blocks
  <2> QED BY <1>1, <1>2, <2>1, BlocksAt
<1>4. \A p \in IpcList : /\ N[p].owner = M[p].owner /\ (M[p].used => N[p].used)
                         /\ N[p].priority = M[p].priority
  BY <1>2 DEF Else
<1>5. Owners(s, C, N)
  BY <1>1, <1>4, OwnersKept
<1>6. Locks(N, H) /\ Lent(s, N, H, B)
  BY <1>1, <1>4, LocksKept
<1> QED BY <1>1, <1>3, <1>5, <1>6 DEF MuxWell

(* LOS_MuxPend that waits *)
LEMMA WaitWell ==
    ASSUME NEW s, Core(s), NEW r, NEW C, NEW D, NEW M, NEW q, NEW H, NEW B,
           MuxWell(s, C, M, q, H, B), NEW c, NEW o \in IpcList, Pended(s, r, C, D, c, o),
           M[o].used, M[o].count # 0, M[o].owner # c, r.priority = s.priority
    PROVE  MuxWell(r, D, M, q, H, B)
<1>1. /\ Waiters(s, C) /\ Owners(s, C, M) /\ Blocks(M, q) /\ Locks(M, H) /\ Lent(s, M, H, B)
      /\ s \in SchedState
  BY DEF MuxWell, Core, Base
<1>2. Waiters(r, D)
  BY <1>1, WaitersPended
<1>3. M[o].owner \in Task
  BY <1>1 DEF Blocks, MuxCB
<1>4. Owners(r, D, M)
  BY <1>1, <1>3, OwnersPended
<1>5. \A u \in Task : Living(s, u) => Living(r, u)
  BY DEF Pended, OthersSpared, Spared
<1>6. Lent(r, M, H, B)
  BY <1>1, <1>5 DEF Lent
<1> QED BY <1>1, <1>2, <1>4, <1>6 DEF MuxWell

(* LOS_MuxPend after LOS_Schedule *)
LEMMA ReturnWell ==
    ASSUME NEW s, NEW r, NEW C, NEW D, NEW M, NEW q, NEW H, NEW B,
           MuxWell(s, C, M, q, H, B), NEW c, Returned(s, r, C, D, c), r.priority = s.priority
    PROVE  MuxWell(r, D, M, q, H, B)
<1>1. /\ Waiters(s, C) /\ Owners(s, C, M) /\ Blocks(M, q) /\ Locks(M, H) /\ Lent(s, M, H, B)
  BY DEF MuxWell
<1>2. Waiters(r, D) /\ Owners(r, D, M)
  BY <1>1, WaitersReturned, OwnersReturned
<1>3. \A u \in Task : Living(s, u) => Living(r, u)
  BY DEF Returned, OthersSpared, Spared
<1>4. Lent(r, M, H, B)
  BY <1>1, <1>3 DEF Lent
<1> QED BY <1>1, <1>2, <1>4 DEF MuxWell

(* A step of module Task.  No owner ends or is given a priority, and the   *)
(* priority another task is given is its own from then on.                 *)
LEMMA TaskWell ==
    ASSUME NEW s, Core(s), NEW r \in SchedState, NEW C, NEW D, NEW M, NEW q, NEW H, NEW B,
           MuxWell(s, C, M, q, H, B), IpcStep(s, r, C, D),
           \A t \in Task : H[t] # <<>> => Living(r, t) /\ r.priority[t] = s.priority[t],
           NEW E, E = [t \in Task |-> IF r.priority[t] = s.priority[t] THEN B[t]
                                     ELSE r.priority[t]]
    PROVE  MuxWell(r, D, M, q, H, E)
<1>1. /\ Waiters(s, C) /\ Owners(s, C, M) /\ Blocks(M, q) /\ Locks(M, H) /\ Lent(s, M, H, B)
  BY DEF MuxWell
<1>2. Waiters(r, D)
  BY <1>1, WaitersStep
<1>3. Owners(r, D, M)
  BY <1>1, OwnersTask
<1>4. r.priority \in [Task -> Prio] /\ B \in [Task -> Prio]
  BY <1>1 DEF SchedState, Lent
<1>5. \A t \in Task : /\ r.priority[t] = s.priority[t] => E[t] = B[t]
                      /\ r.priority[t] # s.priority[t] => E[t] = r.priority[t]
  OBVIOUS
<1>6. E \in [Task -> Prio]
  BY <1>4
<1>7. Lent(r, M, H, E)
  BY <1>1, <1>5, <1>6 DEF Lent
<1> QED BY <1>1, <1>2, <1>3, <1>7 DEF MuxWell

(* A change of priorities *)
LEMMA CalmKeeps ==
    ASSUME NEW s, Core(s), NEW r, NEW C, NEW M, Waiters(s, C), Owners(s, C, M),
           Calm(s, r, C, C)
    PROVE  /\ Waiters(r, C) /\ Owners(r, C, M) /\ \A u \in Task : Living(s, u) => Living(r, u)
           /\ \A u \in Task, o \in IpcList : On(r, u, Ipc(o)) <=> On(s, u, Ipc(o))
<1>1. IpcStep(s, r, C, C)
  BY DEF IpcStep, CallKept
<1>2. Waiters(r, C)
  BY <1>1, WaitersStep
<1>3. Owners(r, C, M)
  BY <1>1, OwnersTask
<1>4. \A u \in Task : Living(s, u) => Living(r, u)
  BY DEF Calm, AllSpared, Spared
<1>5. \A u \in Task, o \in IpcList : On(r, u, Ipc(o)) <=> On(s, u, Ipc(o))
  BY DEF Calm, Spares, On, OnList
<1> QED BY <1>2, <1>3, <1>4, <1>5

(* Lending an owner a priority *)
LEMMA LendWell ==
    ASSUME NEW s, Core(s), NEW r, NEW C, NEW M, NEW q, NEW H, NEW B,
           MuxWell(s, C, M, q, H, B), Calm(s, r, C, C),
           \A u \in Task : H[u] = <<>> => r.priority[u] = s.priority[u]
    PROVE  MuxWell(r, C, M, q, H, B)
<1>1. /\ Waiters(s, C) /\ Owners(s, C, M) /\ Blocks(M, q) /\ Locks(M, H) /\ Lent(s, M, H, B)
  BY DEF MuxWell
<1>2. Waiters(r, C) /\ Owners(r, C, M) /\ \A u \in Task : Living(s, u) => Living(r, u)
  BY <1>1, CalmKeeps
<1>3. Lent(r, M, H, B)
  BY <1>1, <1>2 DEF Lent
<1> QED BY <1>1, <1>2, <1>3 DEF MuxWell

(* LOS_MuxPost that frees the mutex *)
LEMMA FreeWell ==
    ASSUME NEW s, Core(s), NEW r, NEW C, NEW M, NEW q, NEW H, NEW B,
           MuxWell(s, C, M, q, H, B), Calm(s, r, C, C),
           NEW c \in Task, C[c] = None, NEW o \in IpcList, M[o].used, M[o].owner = c,
           H[c][Len(H[c])] = o, s.list[Ipc(o)] = <<>>, Repaid(s, r, c, M[o].priority),
           NEW N, N = [M EXCEPT ![o].count = 0, ![o].owner = NoTask],
           NEW G, Released(H, G, c, o)
    PROVE  MuxWell(r, C, N, q, G, B)
<1>1. /\ Waiters(s, C) /\ Owners(s, C, M) /\ Blocks(M, q) /\ Locks(M, H) /\ Lent(s, M, H, B)
      /\ M \in [IpcList -> MuxCB]
  BY DEF MuxWell, Blocks
<1>2. Waiters(r, C) /\ Owners(r, C, M)
  BY <1>1, CalmKeeps
<1>3. /\ c \in Task /\ C[c] = None /\ o \in IpcList /\ M[o].used /\ M[o].owner = c
      /\ H[c][Len(H[c])] = o /\ r.list[Ipc(o)] = <<>> /\ Repaid(s, r, c, M[o].priority)
      /\ Released(H, G, c, o)
  BY DEF Calm, Spares
<1>4. N \in [IpcList -> MuxCB] /\ Else(M, N, o) /\ N[o].used /\ N[o].owner = NoTask
      /\ N[o].count = 0
  <2>1. 0 \in 0 .. MaxNest /\ M[o] \in MuxCB
    BY SMT, <1>1, MuxConstants
  <2>2. PICK a : a = [M[o] EXCEPT !.count = 0]
    OBVIOUS
  <2>3. PICK b : b = [a EXCEPT !.owner = NoTask]
    OBVIOUS
  <2>4. N = [M EXCEPT ![o] = b]
    BY <2>2, <2>3
  <2>5. a \in MuxCB /\ a.used = M[o].used /\ a.count = 0
    BY <2>1, <2>2 DEF MuxCB
  <2>6. b \in MuxCB /\ b.used = M[o].used /\ b.count = 0 /\ b.owner = NoTask
    BY <2>3, <2>5 DEF MuxCB
  <2>7. N[o] = b /\ \A p \in IpcList : p # o => N[p] = M[p]
    BY <1>1, <2>4
  <2>8. N \in [IpcList -> MuxCB]
    BY <1>1, <2>4, <2>6
  <2> QED BY <2>6, <2>7, <2>8 DEF Else
<1>5. Blocks(N, q)
  BY ONLY Zenon, <1>1, <1>3, <1>4, BlocksAt
<1>6. Owners(r, C, N)
  BY ONLY Zenon, <1>2, <1>3, <1>4, OwnersMoved
<1>7. Locks(N, G) /\ Lent(r, N, G, B)
  BY ONLY Zenon, <1>1, <1>3, <1>4, LocksReleased
<1> QED BY <1>2, <1>5, <1>6, <1>7 DEF MuxWell

(* LOS_MuxPost that hands the mutex to t *)
LEMMA HandWell ==
    ASSUME NEW s, Core(s), NEW a, Core(a), NEW r, NEW C, NEW M, NEW q, NEW H, NEW B,
           MuxWell(s, C, M, q, H, B), Calm(s, a, C, C),
           NEW c \in Task, C[c] = None, NEW o \in IpcList, M[o].used, M[o].owner = c,
           H[c][Len(H[c])] = o, Repaid(s, a, c, M[o].priority),
           NEW t \in Task, t # Idle, On(a, t, Ipc(o)), Handed(a, r, C, C, t),
           r.priority = a.priority,
           NEW N, N = [M EXCEPT ![o].owner = t, ![o].priority = a.priority[t]],
           NEW F, Released(H, F, c, o), NEW G, Acquired(F, G, t, o)
    PROVE  MuxWell(r, C, N, q, G, B)
<1>1. /\ Waiters(s, C) /\ Owners(s, C, M) /\ Blocks(M, q) /\ Locks(M, H) /\ Lent(s, M, H, B)
      /\ M \in [IpcList -> MuxCB] /\ a.priority \in [Task -> Prio]
  BY DEF MuxWell, Blocks, Core, Base, SchedState
<1>2. /\ Waiters(a, C) /\ Owners(a, C, M) /\ \A u \in Task : Living(s, u) => Living(a, u)
  BY <1>1, CalmKeeps
<1>3. /\ c \in Task /\ C[c] = None /\ o \in IpcList /\ M[o].used /\ M[o].owner = c
      /\ H[c][Len(H[c])] = o /\ Released(H, F, c, o) /\ Acquired(F, G, t, o)
      /\ t \in Task /\ t # Idle /\ On(a, t, Ipc(o)) /\ Handed(a, r, C, C, t)
      /\ Core(a) /\ Living(r, t)
  BY DEF Handed
<1>4. /\ N \in [IpcList -> MuxCB] /\ Else(M, N, o) /\ N[o].used /\ N[o].owner = t
      /\ N[o].count = M[o].count /\ N[o].priority = r.priority[t]
  <2>1. M[o] \in MuxCB /\ a.priority[t] \in Prio
    BY <1>1
  <2>2. PICK x : x = [M[o] EXCEPT !.owner = t]
    OBVIOUS
  <2>3. PICK y : y = [x EXCEPT !.priority = a.priority[t]]
    OBVIOUS
  <2>4. N = [M EXCEPT ![o] = y]
    BY <2>2, <2>3
  <2>5. x \in MuxCB /\ x.used = M[o].used /\ x.count = M[o].count /\ x.owner = t
    BY <2>1, <2>2 DEF MuxCB
  <2>6. /\ y \in MuxCB /\ y.used = M[o].used /\ y.count = M[o].count /\ y.owner = t
        /\ y.priority = a.priority[t]
    BY <2>1, <2>3, <2>5 DEF MuxCB
  <2>7. N[o] = y /\ \A p \in IpcList : p # o => N[p] = M[p]
    BY <1>1, <2>4
  <2>8. N \in [IpcList -> MuxCB]
    BY <1>1, <2>4, <2>6
  <2> QED BY <2>6, <2>7, <2>8 DEF Else
<1>5. Blocks(N, q)
  <2>1. M[o].count # 0 /\ t # NoTask
    <3>1. M[o].count = 0 <=> M[o].owner = NoTask
      BY <1>1 DEF Blocks
    <3> QED BY <1>3, <3>1, MuxConstants
  <2>2. N[o].count = 0 <=> N[o].owner = NoTask
    BY ONLY Zenon, <1>4, <2>1
  <2> QED BY ONLY Zenon, <1>1, <1>3, <1>4, <2>2, BlocksAt
<1>6. Waiters(r, C)
  BY <1>2, WaitersHanded
<1>7. Owners(r, C, N)
  BY ONLY Zenon, <1>2, <1>3, <1>4, OwnersHanded
<1>8. PICK L : L = [M EXCEPT ![o].owner = NoTask]
  OBVIOUS
<1>9. Else(M, L, o) /\ Else(L, N, o) /\ L[o].owner = NoTask
  <2>1. L[o].owner = NoTask /\ \A p \in IpcList : p # o => L[p] = M[p]
    BY <1>1, <1>8 DEF MuxCB
  <2> QED BY <1>4, <2>1 DEF Else
<1>10. Repaid(s, r, c, M[o].priority)
  <2>1. \A u \in Task : Living(a, u) => Living(r, u)
    BY DEF Handed, OthersSpared, Spared
  <2> QED BY <1>2, <2>1 DEF Repaid
<1>11. Locks(L, F) /\ Lent(r, L, F, B)
  BY ONLY Zenon, <1>1, <1>3, <1>9, <1>10, LocksReleased
<1>12. Locks(N, G) /\ Lent(r, N, G, B)
  BY ONLY Zenon, <1>3, <1>4, <1>9, <1>11, LocksTaken
<1> QED BY <1>5, <1>6, <1>7, <1>12 DEF MuxWell

(* The initial state *)
LEMMA MuxInitWell ==
    ASSUME MuxInit PROVE MuxWell(k, call, mux, unusedMux, held, base)
<1>1. /\ \A t \in Task : ~Late(k, t)
      /\ \A o \in IpcList : k.list[Ipc(o)] = <<>>
      /\ \A c \in Context : call[c] = None
  BY IpcFacts DEF MuxInit, TaskInit, Late, Context
<1>2. \A o \in IpcList, t \in Task : ~On(k, t, Ipc(o))
  BY <1>1, NoneOnEmpty
<1>3. \A c \in Context : ~IsIpc(call[c])
  BY <1>1, IpcCallFacts
<1>4. Waiters(k, call)
  BY <1>1, <1>2, <1>3 DEF Waiters, Context
<1>5. Owners(k, call, mux)
  BY <1>1, <1>3, IpcCallFacts DEF Owners, Awaited, Knows, Context
<1>6. /\ mux \in [IpcList -> MuxCB]
      /\ \A o \in IpcList : ~mux[o].used /\ mux[o].count = 0 /\ mux[o].owner = NoTask
  <2>1. 0 \in 0 .. MaxNest /\ 0 \in Prio
    BY SMT, MuxConstants, SchedConstants DEF Prio
  <2> QED BY <2>1 DEF MuxInit, MuxCB
<1>7. Blocks(mux, unusedMux)
  <2>1. unusedMux \in [1 .. Cardinality(IpcList) -> IpcList] /\ IsInjective(unusedMux)
    BY DEF MuxInit
  <2>2. unusedMux \in Seq(IpcList) /\ \A o \in Range(unusedMux) : o \in IpcList
    BY SMT, <2>1, MuxConstants DEF Range
  <2> QED BY <1>6, <2>1, <2>2 DEF Blocks
<1>8. \A t \in Task : held[t] = <<>>
  BY DEF MuxInit
<1>9. Locks(mux, held)
  <2>1. <<>> \in Seq(IpcList) /\ IsInjective(<<>>) /\ \A o : o \notin Range(<<>>)
    BY SMT DEF IsInjective, Range
  <2>2. held \in [Task -> Seq(IpcList)]
    BY <2>1 DEF MuxInit
  <2> QED BY <1>6, <1>8, <2>1, <2>2, MuxConstants DEF Locks
<1>10. Lent(k, mux, held, base)
  <2>1. k.priority \in [Task -> Prio]
    BY SMT, SchedConstants DEF MuxInit, TaskInit, Prio
  <2>2. base = k.priority
    BY DEF MuxInit
  <2> QED BY <1>8, <2>1, <2>2 DEF Lent
<1> QED BY <1>4, <1>5, <1>7, <1>9, <1>10 DEF MuxWell

----------------------------------------------------------------------------
(* The properties follow from MuxWell. *)
LEMMA MuxMeans ==
    ASSUME TaskTypeOK, MuxWell(k, call, mux, unusedMux, held, base)
    PROVE  MuxTypeOK /\ PendMakesOwner /\ NoWaitForFree /\ PriorityRestored
<1>1. /\ TaskTypeOK /\ Waiters(k, call) /\ Owners(k, call, mux) /\ Blocks(mux, unusedMux)
      /\ Locks(mux, held) /\ Lent(k, mux, held, base)
  BY DEF MuxWell
<1>2. MuxTypeOK
  BY <1>1 DEF MuxTypeOK, Blocks, Locks, Lent
<1>3. \A o \in IpcList : mux[o].owner \in Task => mux[o].count > 0
  <2>1. \A o \in IpcList : mux[o].owner \in Task => mux[o].count # 0
    BY <1>1, MuxConstants DEF Blocks
  <2>2. \A o \in IpcList : mux[o].count \in 0 .. MaxNest
    BY <1>1 DEF Blocks, MuxCB
  <2> QED BY SMT, <2>1, <2>2, MuxConstants
<1>4. PendMakesOwner
  <2>1. ASSUME NEW o \in IpcList, NEW t \in Task
        PROVE  o \in Range(held[t]) <=> mux[o].owner = t /\ mux[o].count > 0
    <3>1. o \in Range(held[t]) <=> mux[o].owner = t
      BY <1>1 DEF Locks
    <3>2. mux[o].owner = t => mux[o].count > 0
      BY <1>3
    <3> QED BY ONLY Zenon, <3>1, <3>2
  <2>2. ASSUME NEW o \in IpcList, NEW t \in Task, call[t] = <<"ipc", o>>,
               t \notin OnList(k, Ipc(o))
        PROVE  Has(k, t, {"TIMEOUT"}) <=> mux[o].owner # t
    <3>1. Late(k, t) <=> mux[o].owner # t
      BY <1>1, <2>2 DEF Owners, Knows, CIpc, On
    <3> QED BY <3>1 DEF Late, Has
  <2> QED BY <2>1, <2>2 DEF PendMakesOwner
<1>5. NoWaitForFree
  BY <1>1, <1>3 DEF NoWaitForFree, Owners, Awaited, On
<1>6. PriorityRestored
  BY <1>1 DEF PriorityRestored, Lent
<1> QED BY <1>2, <1>4, <1>5, <1>6

----------------------------------------------------------------------------
(* The steps of module Mux, and those of module Task *)

MuxAfter == Inv(k', call', tick') /\ MuxWell(k', call', mux', unusedMux', held', base')

(* OsSchedModifyTaskSchedParam, or no call of it, in LOS_MuxPend and       *)
(* LOS_MuxPost                                                             *)
LEMMA Reprioritise ==
    ASSUME KernelDoes, Inv(k, call, tick), RunsFreely(k), NEW t \in Task, t # Idle, Living(k, t),
           NEW p \in Prio, NEW r,
           r = OsSchedModifyTaskSchedParam(k, t, p) \/ (r = k /\ k.priority[t] = p)
    PROVE  /\ Inv(r, call, tick) /\ Core(r) /\ Calm(k, r, call, call) /\ HasPrio(r)
           /\ RunsFreely(r) /\ r.run = k.run /\ r.sched = k.sched /\ r.taskLock = k.taskLock
           /\ Repaid(k, r, t, p)
<1>1. Core(k) /\ k \in SchedState /\ \A u \in Task : u \in Context
  BY InvFacts
<1>2. CASE r = k /\ k.priority[t] = p
  <2>1. Calm(k, k, call, call)
    BY <1>1 DEF Calm, Spares, AllSpared, Spared, CallKept
  <2>2. HasPrio(k)
    BY <1>1 DEF HasPrio, SchedState
  <2> QED BY <1>1, <1>2, <2>1, <2>2 DEF Repaid
<1>3. CASE r = OsSchedModifyTaskSchedParam(k, t, p)
  <2>1. /\ Inv(r, call, tick) /\ Only(k, r, t) /\ Spares(k, r)
        /\ \A u \in Context : r.status[u] = k.status[u]
    BY <1>3 DEF KernelDoes, ModifyDoes
  <2>4. Calm(k, r, call, call) /\ \A u \in Task : Living(k, u) => Living(r, u)
    BY <1>1, <2>1 DEF Calm, AllSpared, Spared, CallKept, Living, Late
  <2>5. Repaid(k, r, t, p)
    <3>1. r.priority[t] = p /\ \A u \in Task : u # t => r.priority[u] = k.priority[u]
      BY ONLY SMT, <1>1, <1>3, t \in Task, ModifyPrio
    <3> QED BY <2>4, <3>1 DEF Repaid
  <2>6. r.run = k.run /\ r.sched = k.sched /\ r.taskLock = k.taskLock
    BY <2>1 DEF Only, SameGlobals
  <2>7. Core(r) /\ HasPrio(r)
    BY <2>1 DEF Inv, Semi, HasPrio, SchedState, Spares
  <2>8. RunsFreely(r)
    BY <1>1, <2>1, <2>6 DEF RunsFreely
  <2> QED BY <2>1, <2>4, <2>5, <2>6, <2>7, <2>8
<1> QED BY <1>2, <1>3

(* LOS_MuxPend up to LOS_Schedule *)
LEMMA MuxPendStep ==
    ASSUME KernelDoes, Inv(k, call, tick), MuxWell(k, call, mux, unusedMux, held, base),
           NEW o \in IpcList, NEW timeout \in MuxTimeouts, LOS_MuxPend(o, timeout)
    PROVE  MuxAfter
<1>1. /\ Executing /\ call[k.run] = None /\ k.sched /\ mux[o].used /\ k.taskLock = 0
      /\ tick' = tick /\ unusedMux' = unusedMux /\ base' = base
  BY DEF LOS_MuxPend, InTask
<1>2. Core(k) /\ k \in SchedState /\ RunsFreely(k)
  BY <1>1, InvFacts, ExecFacts
<1>3. PICK c : c = k.run
  OBVIOUS
<1>4. c \in Task /\ c # Idle /\ Living(k, c) /\ call[c] = None
  BY <1>1, <1>2, <1>3, RunsFreelyFacts DEF RunsFreely, Living, Waits
<1>5. CASE /\ mux[o].count = 0 /\ k' = k /\ call' = call
           /\ mux' = [mux EXCEPT ![o].count = 1, ![o].owner = k.run,
                                 ![o].priority = k.priority[k.run]]
           /\ held' = [held EXCEPT ![k.run] = Append(@, o)]
  <2>1. MuxWell(k, call, mux', unusedMux, held', base)
    <3>1. /\ mux' = [mux EXCEPT ![o].count = 1, ![o].owner = c, ![o].priority = k.priority[c]]
          /\ Acquired(held, held', c, o) /\ k \in SchedState /\ c \in Task /\ c # Idle
          /\ Living(k, c) /\ call[c] = None /\ o \in IpcList /\ mux[o].used
          /\ mux[o].count = 0 /\ MuxWell(k, call, mux, unusedMux, held, base)
      BY <1>1, <1>2, <1>3, <1>4, <1>5 DEF Acquired
    <3> QED BY ONLY Zenon, <3>1, TakeWell
  <2> QED BY <1>1, <1>5, <2>1 DEF MuxAfter
<1>6. CASE /\ mux[o].count \in 1 .. (MaxNest - 1) /\ k' = k /\ call' = call /\ held' = held
           /\ mux' = [mux EXCEPT ![o].count = @ + 1]
  <2>1. PICK n : n = mux[o].count + 1
    OBVIOUS
  <2>2. n \in 1 .. MaxNest /\ mux[o].count # 0
    BY SMT, <1>6, <2>1, MuxConstants
  <2>3. mux' = [mux EXCEPT ![o].count = n]
    BY <1>6, <2>1
  <2>4. MuxWell(k, call, mux', unusedMux, held, base)
    BY <1>1, <2>2, <2>3, NestWell
  <2> QED BY <1>1, <1>6, <2>4 DEF MuxAfter
<1>7. CASE /\ mux[o].count > 0 /\ mux[o].owner # k.run /\ mux' = mux /\ held' = held
           /\ k' = LOS_Schedule(OsSchedTaskWait(Inherit(k, mux[o].owner), Ipc(o),
                                                timeout = "forever"))
           /\ GoesOn(k.run, <<"ipc", o>>)
  <2>1. PICK t : t = mux[o].owner
    OBVIOUS
  <2>2. t \in Task /\ t # Idle /\ Living(k, t) /\ held[t] # <<>> /\ mux[o].count # 0
    <3>1. mux[o] \in MuxCB /\ mux[o].count # 0
      BY SMT, <1>7 DEF MuxWell, Blocks
    <3>2. t \in Task
      BY <2>1, <3>1 DEF MuxWell, Blocks, MuxCB
    <3>3. o \in Range(held[t])
      BY <2>1, <3>2 DEF MuxWell, Locks
    <3>4. held[t] # <<>>
      BY SMT, <3>3 DEF Range
    <3> QED BY <3>1, <3>2, <3>4 DEF MuxWell, Lent
  <2>3. PICK a : a = Inherit(k, t)
    OBVIOUS
  <2>4. PICK p \in Prio : a = OsSchedModifyTaskSchedParam(k, t, p) \/ (a = k /\ k.priority[t] = p)
    <3>1. PICK x, y : x = k.priority[t] /\ y = k.priority[k.run]
      OBVIOUS
    <3>2. x \in Prio /\ y \in Prio
      BY <1>2, <1>3, <1>4, <2>2, <3>1 DEF SchedState
    <3>3. a = OsSchedModifyTaskSchedParam(k, t, y) \/ (a = k /\ k.priority[t] = x)
      BY <2>3, <3>1 DEF Inherit
    <3> QED BY ONLY Zenon, <3>2, <3>3
  <2>5. /\ Inv(a, call, tick) /\ Core(a) /\ Calm(k, a, call, call) /\ HasPrio(a)
        /\ RunsFreely(a) /\ a.run = k.run /\ a.sched = k.sched /\ a.taskLock = k.taskLock
        /\ Repaid(k, a, t, p)
    BY <1>2, <2>2, <2>4, Reprioritise
  <2>6. MuxWell(a, call, mux, unusedMux, held, base)
    BY <1>2, <2>2, <2>5, LendWell DEF Repaid
  <2>7. PICK forever \in BOOLEAN : forever = (timeout = "forever")
    OBVIOUS
  <2>8. k' = LOS_Schedule(OsSchedTaskWait(a, Ipc(o), forever)) /\ GoesOn(a.run, CIpc(o))
        /\ call[a.run] = None /\ a.sched /\ a.taskLock = 0
    BY <1>1, <1>7, <2>1, <2>3, <2>5, <2>7 DEF CIpc
  <2>9. Inv(k', call', tick) /\ Pended(a, k', call, call', a.run, o)
    BY <2>5, <2>8 DEF KernelDoes, PendDoes
  <2>10. k'.priority = a.priority
    BY <2>5, <2>8, KeepsWait
  <2>11. MuxWell(k', call', mux, unusedMux, held, base)
    BY <1>1, <1>7, <2>2, <2>5, <2>6, <2>9, <2>10, WaitWell
  <2> QED BY <1>1, <1>7, <2>9, <2>11 DEF MuxAfter
<1> QED BY <1>5, <1>6, <1>7 DEF LOS_MuxPend

(* LOS_MuxPend after LOS_Schedule *)
LEMMA MuxPendReturnStep ==
    ASSUME KernelDoes, Inv(k, call, tick), MuxWell(k, call, mux, unusedMux, held, base),
           NEW o \in IpcList, MuxPendReturn(o)
    PROVE  MuxAfter
<1>1. /\ Executing /\ call[k.run] = CIpc(o) /\ k' = ClrStatus(k, k.run, {"TIMEOUT"})
      /\ Returns(k.run) /\ tick' = tick /\ mux' = mux /\ unusedMux' = unusedMux
      /\ held' = held /\ base' = base
  BY DEF MuxPendReturn, CIpc
<1>2. ~IsIpc(call[Shadow]) /\ k \in SchedState
  BY InvFacts DEF MuxWell, Waiters
<1>3. Inv(k', call', tick') /\ Returned(k, k', call, call', k.run)
  BY <1>1, <1>2 DEF KernelDoes, ReturnDoes
<1>4. k'.priority = k.priority
  BY <1>1, <1>2 DEF ClrStatus, SchedState
<1> QED BY <1>1, <1>3, <1>4, ReturnWell DEF MuxAfter

(* LOS_MuxPost *)
LEMMA MuxPostStep ==
    ASSUME KernelDoes, Inv(k, call, tick), MuxWell(k, call, mux, unusedMux, held, base),
           Unguarded = {}, NEW o \in IpcList, LOS_MuxPost(o)
    PROVE  MuxAfter
<1>1. /\ Executing /\ call[k.run] = None /\ k.sched /\ mux[o].used /\ mux[o].owner = k.run
      /\ MayPost(o) /\ call' = call /\ tick' = tick /\ unusedMux' = unusedMux /\ base' = base
      /\ mux[o].count > 0
  BY DEF LOS_MuxPost, InTask
<1>2. Core(k) /\ k \in SchedState /\ RunsFreely(k)
  BY <1>1, InvFacts, ExecFacts
<1>3. PICK c : c = k.run
  OBVIOUS
<1>4. c \in Task /\ c # Idle /\ Living(k, c) /\ call[c] = None
  BY <1>1, <1>2, <1>3, RunsFreelyFacts DEF RunsFreely, Living, Waits
<1>5. mux[o].count \in 0 .. MaxNest /\ mux[o].priority \in Prio
  BY DEF MuxWell, Blocks, MuxCB
<1>6. CASE mux[o].count > 1 /\ mux' = [mux EXCEPT ![o].count = @ - 1] /\ k' = k /\ held' = held
  <2>1. PICK n : n = mux[o].count - 1
    OBVIOUS
  <2>2. n \in 1 .. MaxNest /\ mux[o].count # 0
    BY SMT, <1>5, <1>6, <2>1, MuxConstants
  <2>3. mux' = [mux EXCEPT ![o].count = n]
    BY <1>6, <2>1
  <2>4. MuxWell(k, call, mux', unusedMux, held, base)
    BY <1>1, <2>2, <2>3, NestWell
  <2> QED BY <1>1, <1>6, <2>4 DEF MuxAfter
<1>7. ASSUME mux[o].count = 1
      PROVE  /\ Inv(Disinherit(k, o), call, tick) /\ Core(Disinherit(k, o))
             /\ Calm(k, Disinherit(k, o), call, call) /\ HasPrio(Disinherit(k, o))
             /\ Repaid(k, Disinherit(k, o), c, mux[o].priority)
             /\ held[c][Len(held[c])] = o
  <2>1. PICK a, p : a = Disinherit(k, o) /\ p = mux[o].priority
    OBVIOUS
  <2>2. a = OsSchedModifyTaskSchedParam(k, c, p) \/ (a = k /\ k.priority[c] = p)
    BY <1>3, <2>1 DEF Disinherit
  <2>3. /\ Inv(a, call, tick) /\ Core(a) /\ Calm(k, a, call, call) /\ HasPrio(a)
        /\ Repaid(k, a, c, p)
    <3>1. /\ KernelDoes /\ Inv(k, call, tick) /\ RunsFreely(k) /\ c \in Task /\ c # Idle /\ Living(k, c)
          /\ p \in Prio
      BY <1>2, <1>4, <1>5, <2>1
    <3> QED BY ONLY Zenon, <2>2, <3>1, Reprioritise
  <2>4. held[c][Len(held[c])] = o
    BY <1>1, <1>3, <1>7 DEF MayPost
  <2> QED BY <2>1, <2>3, <2>4
<1>8. CASE /\ mux[o].count = 1 /\ k.list[Ipc(o)] = <<>> /\ k' = Disinherit(k, o)
           /\ mux' = [mux EXCEPT ![o].count = 0, ![o].owner = NoTask]
           /\ held' = [held EXCEPT ![k.run] = Unlink(@, o)]
  <2>1. /\ Inv(k', call, tick) /\ Core(k) /\ MuxWell(k, call, mux, unusedMux, held, base)
        /\ Calm(k, k', call, call) /\ c \in Task /\ call[c] = None /\ o \in IpcList
        /\ mux[o].used /\ mux[o].owner = c /\ held[c][Len(held[c])] = o
        /\ k.list[Ipc(o)] = <<>> /\ Repaid(k, k', c, mux[o].priority)
        /\ mux' = [mux EXCEPT ![o].count = 0, ![o].owner = NoTask]
        /\ Released(held, held', c, o)
    BY <1>1, <1>2, <1>3, <1>4, <1>7, <1>8 DEF Released
  <2>2. MuxWell(k', call, mux', unusedMux, held', base)
    BY ONLY Zenon, <2>1, FreeWell
  <2> QED BY <1>1, <2>1, <2>2 DEF MuxAfter
<1>9. ASSUME mux[o].count = 1, k.list[Ipc(o)] # <<>>,
             NEW a, a = Disinherit(k, o), NEW t, t = Head(a.list[Ipc(o)]),
             mux' = [mux EXCEPT ![o].owner = t, ![o].priority = a.priority[t]],
             k' = LOS_Schedule(OsSchedTaskWake(a, t)),
             held' = [held EXCEPT ![k.run] = Unlink(@, o), ![t] = Append(@, o)]
      PROVE  MuxAfter
  <2>1. /\ Inv(a, call, tick) /\ Core(a) /\ Calm(k, a, call, call) /\ HasPrio(a)
        /\ Repaid(k, a, c, mux[o].priority) /\ held[c][Len(held[c])] = o
    BY <1>7, <1>9
  <2>2. t \in Task /\ On(a, t, Ipc(o))
    <3>1. a.list[Ipc(o)] # <<>>
      BY <1>9, <2>1 DEF Calm, Spares
    <3> QED BY <1>9, <2>1, <3>1, HeadWaits
  <2>3. t # Idle
    BY <2>1, <2>2, IpcFacts DEF Core, Base, ListsDisjoint, On
  <2>4. Inv(k', call, tick) /\ Handed(a, k', call, call, t) /\ k'.priority = a.priority
    <3>1. WakeDoes /\ Inv(a, call, tick) /\ t \in Task /\ o \in IpcList /\ On(a, t, Ipc(o))
          /\ k' = LOS_Schedule(OsSchedTaskWake(a, t))
      BY <1>9, <2>1, <2>2 DEF KernelDoes
    <3>2. Inv(k', call, tick) /\ Handed(a, k', call, call, t)
      BY ONLY Zenon, <3>1 DEF WakeDoes
    <3>3. k'.priority = a.priority
      BY <2>1, <2>2, <3>1, KeepsWait
    <3> QED BY ONLY Zenon, <3>2, <3>3
  <2>5. PICK F : F = [held EXCEPT ![c] = Unlink(@, o)]
    OBVIOUS
  <2>6. Released(held, F, c, o) /\ Acquired(F, held', t, o)
    <3>1. held \in [Task -> Seq(IpcList)]
      BY DEF MuxWell, Locks
    <3>2. t # c
      <4>1. On(k, t, Ipc(o))
        BY <2>1, <2>2 DEF Calm, Spares, On, OnList
      <4> QED BY <1>1, <1>3, <1>9, <4>1 DEF MuxWell, Owners, Awaited
    <3>3. held' = [F EXCEPT ![t] = Append(@, o)]
      <4>1. /\ held \in [Task -> Seq(IpcList)] /\ c \in Task /\ t \in Task /\ t # c
            /\ F = [held EXCEPT ![c] = Unlink(@, o)]
            /\ held' = [held EXCEPT ![c] = Unlink(@, o), ![t] = Append(@, o)]
        BY <1>3, <1>4, <1>9, <2>2, <2>5, <3>1, <3>2
      <4> QED BY ONLY SMT, <4>1
    <3> QED BY <2>5, <3>3 DEF Released, Acquired
  <2>7. /\ Core(k) /\ Core(a) /\ MuxWell(k, call, mux, unusedMux, held, base)
        /\ Calm(k, a, call, call) /\ c \in Task /\ call[c] = None /\ o \in IpcList
        /\ mux[o].used /\ mux[o].owner = c /\ held[c][Len(held[c])] = o
        /\ Repaid(k, a, c, mux[o].priority)
        /\ t \in Task /\ t # Idle /\ On(a, t, Ipc(o)) /\ Handed(a, k', call, call, t)
        /\ k'.priority = a.priority
        /\ mux' = [mux EXCEPT ![o].owner = t, ![o].priority = a.priority[t]]
        /\ Released(held, F, c, o) /\ Acquired(F, held', t, o)
    <3>1. /\ Core(k) /\ MuxWell(k, call, mux, unusedMux, held, base)
          /\ c \in Task /\ call[c] = None /\ o \in IpcList /\ mux[o].used /\ mux[o].owner = c
      BY <1>1, <1>2, <1>3, <1>4
    <3>2. mux' = [mux EXCEPT ![o].owner = t, ![o].priority = a.priority[t]]
      BY <1>9
    <3> QED BY ONLY Zenon, <2>1, <2>2, <2>3, <2>4, <2>6, <3>1, <3>2
  <2>8. MuxWell(k', call, mux', unusedMux, held', base)
    BY ONLY Zenon, <2>7, HandWell
  <2> QED BY <1>1, <2>4, <2>8 DEF MuxAfter
<1> QED BY <1>6, <1>8, <1>9 DEF LOS_MuxPost

(* Every step keeps the invariant. *)
LEMMA MuxNextInv ==
    ASSUME KernelDoes, Inv(k, call, tick), MuxWell(k, call, mux, unusedMux, held, base),
           Unguarded = {}, [MuxNext]_muxVars
    PROVE  MuxAfter
<1>1. Inv(k, call, tick) /\ MuxWell(k, call, mux, unusedMux, held, base)
  OBVIOUS
<1>2. CASE LOS_MuxCreate
  <2>1. /\ k' = k /\ call' = call /\ tick' = tick /\ held' = held /\ base' = base
        /\ unusedMux # <<>> /\ unusedMux' = Tail(unusedMux)
        /\ mux' = [mux EXCEPT ![Head(unusedMux)] =
                     [used |-> TRUE, count |-> 0, owner |-> NoTask, priority |-> 0]]
    BY <1>2 DEF LOS_MuxCreate
  <2>2. MuxWell(k, call, mux', Tail(unusedMux), held, base)
    BY ONLY Zenon, <1>1, <2>1, CreateWell
  <2> QED BY <1>1, <2>1, <2>2 DEF MuxAfter
<1>3. ASSUME NEW o \in IpcList, LOS_MuxDelete(o) PROVE MuxAfter
  <2>1. /\ k' = k /\ call' = call /\ tick' = tick /\ held' = held /\ base' = base
        /\ unusedMux' = <<o>> \o unusedMux /\ o \in IpcList
        /\ mux[o].used /\ mux[o].count = 0 /\ k.list[Ipc(o)] = <<>>
        /\ mux' = [mux EXCEPT ![o].used = FALSE]
    BY <1>3 DEF LOS_MuxDelete
  <2>2. MuxWell(k, call, mux', <<o>> \o unusedMux, held, base)
    BY ONLY Zenon, <1>1, <2>1, DeleteWell
  <2> QED BY <1>1, <2>1, <2>2 DEF MuxAfter
<1>4. CASE MuxTaskStep
  <2>1. Inv(k', call', tick') /\ IpcStep(k, k', call, call')
    BY <1>4 DEF MuxTaskStep, KernelDoes, StepDoes
  <2>2. k' \in SchedState
    BY <2>1 DEF Inv, Semi, Core, Base
  <2>3. \A t \in Task : held[t] # <<>> => Living(k', t) /\ k'.priority[t] = k.priority[t]
    BY <1>4 DEF MuxTaskStep, Has, Living
  <2>4. base' = [t \in Task |-> IF k'.priority[t] = k.priority[t] THEN base[t]
                                ELSE k'.priority[t]]
        /\ mux' = mux /\ unusedMux' = unusedMux /\ held' = held
    BY <1>4 DEF MuxTaskStep
  <2>5. Core(k)
    BY <1>1, InvFacts
  <2>6. MuxWell(k', call', mux, unusedMux, held, base')
    BY ONLY Zenon, <1>1, <2>1, <2>2, <2>3, <2>4, <2>5, TaskWell
  <2> QED BY <2>1, <2>4, <2>6 DEF MuxAfter
<1>5. CASE UNCHANGED muxVars
  BY <1>1, <1>5 DEF MuxAfter, muxVars
<1> QED
  BY <1>1, <1>2, <1>3, <1>4, <1>5, MuxPendStep, MuxPendReturnStep, MuxPostStep
  DEF MuxNext, MuxOps
============================================================================
