---------------------------- MODULE SchedProofs -----------------------------
(***************************************************************************)
(* Lists of TCBs and the invariant of the scheduler state, said task by    *)
(* task: Core(s) is what ListsDisjoint, StatusMatchesLists and             *)
(* StatusExclusive say together, for a state without a fault.  Then what   *)
(* the operations promise about the tasks they touch, and that every       *)
(* operation of module Sched, and every operation on TCBs that module Task *)
(* is built from, keeps Core under the conditions its callers establish.   *)
(*                                                                         *)
(* The last part is the vocabulary of the IPC modules: what a step may do  *)
(* to a task that waits on an IPC object, and KernelDoes, the contract     *)
(* between the kernel and the semaphores and mutexes built on it.          *)
(***************************************************************************)
EXTENDS Task, TLAPS

(* Zenon proves the leaves that name no other prover. *)
USE Zenon

(* Sequences with the same members in the same places are the same. *)
LEMMA SameSeq ==
    ASSUME NEW X, NEW p \in Seq(X), NEW q \in Seq(X), Len(p) = Len(q),
           \A i \in 1 .. Len(q) : p[i] = q[i]
    PROVE  p = q
BY SMT

(* What hangs where when two lists are joined. *)
LEMMA Joined ==
    ASSUME NEW X, NEW p \in Seq(X), NEW q \in Seq(X)
    PROVE  /\ p \o q \in Seq(X) /\ Len(p \o q) = Len(p) + Len(q)
           /\ \A i \in 1 .. (Len(p) + Len(q)) :
                 (p \o q)[i] = IF i <= Len(p) THEN p[i] ELSE q[i - Len(p)]
BY SMT

(* LOS_ListDelete takes the node, and only it, out of its list. *)
LEMMA UnlinkProps ==
    ASSUME NEW q \in Seq(Task), NEW t \in Task, IsInjective(q)
    PROVE  /\ Unlink(q, t) \in Seq(Task)
           /\ IsInjective(Unlink(q, t))
           /\ Range(Unlink(q, t)) = Range(q) \ {t}
<1>1. CASE ~ \E i \in 1 .. Len(q) : q[i] = t
  BY SMT, <1>1 DEF Unlink, Range
<1>2. CASE \E i \in 1 .. Len(q) : q[i] = t
  <2> DEFINE i == CHOOSE j \in 1 .. Len(q) : q[j] = t
             u == [j \in 1 .. (Len(q) - 1) |-> IF j < i THEN q[j] ELSE q[j + 1]]
  <2>1. i \in 1 .. Len(q) /\ q[i] = t
    BY <1>2
  <2> HIDE DEF i
  <2>2. Unlink(q, t) = SubSeq(q, 1, i - 1) \o SubSeq(q, i + 1, Len(q))
    BY <1>2 DEF Unlink, i
  <2>3. SubSeq(q, 1, i - 1) \o SubSeq(q, i + 1, Len(q)) = u
    <3> DEFINE a == SubSeq(q, 1, i - 1)
               b == SubSeq(q, i + 1, Len(q))
    <3>1. a \in Seq(Task) /\ Len(a) = i - 1 /\ \A j \in 1 .. (i - 1) : a[j] = q[j]
      BY SMT, <2>1
    <3>2. /\ b \in Seq(Task) /\ Len(b) = Len(q) - i
          /\ \A j \in 1 .. (Len(q) - i) : b[j] = q[i + j]
      BY SMT, <2>1
    <3> HIDE DEF a, b
    <3>3. /\ a \o b \in Seq(Task) /\ Len(a \o b) = Len(a) + Len(b)
          /\ \A j \in 1 .. (Len(a) + Len(b)) :
                (a \o b)[j] = IF j <= Len(a) THEN a[j] ELSE b[j - Len(a)]
      BY <3>1, <3>2, Joined
    <3>4. Len(a) + Len(b) = Len(q) - 1 /\ Len(q) \in Nat
      BY SMT, <3>1, <3>2, <2>1
    <3>5. ASSUME NEW j \in 1 .. (Len(q) - 1) PROVE (a \o b)[j] = u[j]
      <4>1. CASE j < i
        BY SMT, <4>1, <3>1, <3>3, <3>4, <2>1
      <4>2. CASE ~(j < i)
        <5>1. (a \o b)[j] = b[j - (i - 1)]
          BY SMT, <4>2, <3>1, <3>3, <3>4, <2>1
        <5>2. j - (i - 1) \in 1 .. (Len(q) - i)
          BY SMT, <4>2, <3>4, <2>1
        <5>3. b[j - (i - 1)] = q[i + (j - (i - 1))] /\ i + (j - (i - 1)) = j + 1
          BY SMT, <5>2, <3>2, <2>1
        <5> QED BY <5>1, <5>3, <4>2
      <4> QED BY <4>1, <4>2
    <3>6. u \in Seq(Task) /\ Len(u) = Len(q) - 1
      BY SMT, <2>1
    <3>7. a \o b = u
      <4>1. Len(a \o b) = Len(u) /\ \A j \in 1 .. Len(u) : (a \o b)[j] = u[j]
        BY <3>3, <3>4, <3>5, <3>6
      <4> HIDE DEF u
      <4> QED BY <3>3, <3>6, <4>1, SameSeq
    <3> QED BY <3>7 DEF a, b
  <2>4. u \in Seq(Task)
    BY SMT, <2>1
  <2>5. IsInjective(u)
    BY SMT, <2>1 DEF IsInjective
  <2>6. Range(u) = Range(q) \ {t}
    <3>1. ASSUME NEW x \in Range(u) PROVE x \in Range(q) \ {t}
      BY SMT, <2>1, <3>1 DEF Range, IsInjective
    <3>2. ASSUME NEW x \in Range(q) \ {t} PROVE x \in Range(u)
      <4>1. PICK j \in 1 .. Len(q) : x = q[j] /\ j # i
        BY SMT, <2>1 DEF Range
      <4>2. CASE j < i
        <5>1. j \in 1 .. (Len(q) - 1) /\ u[j] = x
          BY SMT, <4>1, <4>2, <2>1
        <5> QED BY <5>1 DEF Range
      <4>3. CASE j > i
        <5>1. j - 1 \in 1 .. (Len(q) - 1) /\ u[j - 1] = x
          BY SMT, <4>1, <4>3, <2>1
        <5> QED BY <5>1 DEF Range
      <4> QED BY SMT, <4>1, <4>2, <4>3, <2>1
    <3> QED BY <3>1, <3>2
  <2> QED BY <2>2, <2>3, <2>4, <2>5, <2>6
<1> QED BY <1>1, <1>2

(* LOS_ListAdd and LOS_ListTailInsert add a node that was not there. *)
LEMMA AddProps ==
    ASSUME NEW q \in Seq(Task), NEW t \in Task, IsInjective(q), t \notin Range(q)
    PROVE  /\ <<t>> \o q \in Seq(Task) /\ Append(q, t) \in Seq(Task)
           /\ IsInjective(<<t>> \o q) /\ IsInjective(Append(q, t))
           /\ Range(<<t>> \o q) = Range(q) \cup {t}
           /\ Range(Append(q, t)) = Range(q) \cup {t}
<1>1. /\ <<t>> \o q \in Seq(Task) 
      /\ Append(q, t) \in Seq(Task)
  BY SMT
<1>2. IsInjective(<<t>> \o q)
  BY SMT DEF IsInjective, Range
<1>3. IsInjective(Append(q, t))
  BY SMT DEF IsInjective, Range
<1>4. Range(<<t>> \o q) = Range(q) \cup {t}
  <2>1. /\ DOMAIN (<<t>> \o q) = 1 .. (Len(q) + 1)
        /\ \A i \in 1 .. (Len(q) + 1) : (<<t>> \o q)[i] = IF i = 1 THEN t ELSE q[i - 1]
    BY SMT
  <2>2. \A i \in 1 .. Len(q) : (<<t>> \o q)[i + 1] = q[i]
    BY SMT
  <2> DEFINE w == <<t>> \o q
  <2> HIDE DEF w
  <2>3. DOMAIN w = 1 .. (Len(q) + 1) /\ DOMAIN q = 1 .. Len(q) /\ Len(q) \in Nat
    BY SMT, <2>1 DEF w
  <2>4. w[1] = t /\ \A i \in 1 .. Len(q) : w[i + 1] = q[i]
    BY SMT, <2>1, <2>2 DEF w
  <2>5. ASSUME NEW x \in Range(w) PROVE x \in Range(q) \cup {t}
    <3>1. PICK i \in 1 .. (Len(q) + 1) : x = w[i]
      BY <2>3 DEF Range
    <3>2. CASE i = 1
      BY <3>1, <3>2, <2>4
    <3>3. CASE i # 1
      <4>1. i - 1 \in 1 .. Len(q) /\ x = q[i - 1]
        BY SMT, <3>1, <3>3, <2>1, <2>3 DEF w
      <4> QED BY <4>1, <2>3 DEF Range
    <3> QED BY <3>2, <3>3
  <2>6. t \in Range(w)
    BY SMT, <2>3, <2>4 DEF Range
  <2>7. ASSUME NEW x \in Range(q) PROVE x \in Range(w)
    <3>1. PICK i \in 1 .. Len(q) : x = q[i]
      BY <2>3 DEF Range
    <3>2. i + 1 \in 1 .. (Len(q) + 1) /\ w[i + 1] = x
      BY SMT, <3>1, <2>3, <2>4
    <3> QED BY <3>2, <2>3 DEF Range
  <2> QED BY <2>5, <2>6, <2>7 DEF w
<1>5. Range(Append(q, t)) = Range(q) \cup {t}
  <2>1. /\ DOMAIN Append(q, t) = 1 .. (Len(q) + 1)
        /\ \A i \in 1 .. Len(q) : Append(q, t)[i] = q[i]
        /\ Append(q, t)[Len(q) + 1] = t
    BY SMT
  <2> QED BY SMT, <2>1 DEF Range
<1> QED BY <1>1, <1>2, <1>3, <1>4, <1>5

(* The first node of a list that is not empty is a TCB on it. *)
LEMMA HeadProps ==
    ASSUME NEW q \in Seq(Task), q # <<>>
    PROVE  Head(q) \in Range(q) /\ Head(q) \in Task
BY SMT DEF Range

(* The list heads are different variables of the kernel. *)
LEMMA HeadFacts ==
    /\ WaitLists \subseteq Head_ /\ FreeTask \in Head_ /\ RecycleList \in Head_
    /\ \A p \in Prio : PriQueue(p) \in Head_
    /\ \A t \in Task : JoinList(t) \in WaitLists
    /\ \A o \in IpcList : Ipc(o) \in WaitLists
    /\ \A p, q \in Prio : PriQueue(p) = PriQueue(q) => p = q
    /\ \A t, u \in Task : JoinList(t) = JoinList(u) => t = u
    /\ \A p \in Prio : PriQueue(p) \notin WaitLists \cup {FreeTask, RecycleList}
    /\ FreeTask # RecycleList
    /\ FreeTask \notin WaitLists /\ RecycleList \notin WaitLists
    /\ \A h \in Head_ : \/ \E p \in Prio : h = PriQueue(p)
                        \/ h \in WaitLists \cup {FreeTask, RecycleList}
<1>1. /\ WaitLists \subseteq Head_ /\ FreeTask \in Head_ /\ RecycleList \in Head_
      /\ \A p \in Prio : PriQueue(p) \in Head_
      /\ \A t \in Task : JoinList(t) \in WaitLists
      /\ \A o \in IpcList : Ipc(o) \in WaitLists
      /\ \A h \in Head_ : \/ \E p \in Prio : h = PriQueue(p)
                          \/ h \in WaitLists \cup {FreeTask, RecycleList}
  BY DEF Head_, PriQueues, WaitLists
<1>2. /\ \A p, q \in Prio : PriQueue(p) = PriQueue(q) => p = q
      /\ \A t, u \in Task : JoinList(t) = JoinList(u) => t = u
  BY DEF PriQueue, JoinList
<1>3. /\ \A p \in Prio : PriQueue(p) \notin WaitLists \cup {FreeTask, RecycleList}
      /\ FreeTask # RecycleList
      /\ FreeTask \notin WaitLists /\ RecycleList \notin WaitLists
  BY DEF WaitLists, PriQueue, JoinList, Ipc, FreeTask, RecycleList
<1> QED BY <1>1, <1>2, <1>3

(* Tasks, the shadow and idle. *)
LEMMA TaskFacts ==
    Idle \in Task /\ Shadow \notin Task /\ Shadow # Idle
BY SMT, SchedConstants DEF Idle, Task, Shadow

(* A change of the lists alone keeps the type of the state. *)
LEMMA WithList ==
    ASSUME NEW s \in SchedState, NEW L \in [Head_ -> Seq(Task)]
    PROVE  [s EXCEPT !.list = L] \in SchedState
BY DEF SchedState

(* Deleting a linked node takes it off its list and changes no other. *)
LEMMA ListDeleteEffect ==
    ASSUME NEW s \in SchedState, ListsDisjoint(s), NEW t \in Task, Linked(s, t)
    PROVE  LET r == ListDelete(s, t)
           IN  /\ r \in SchedState /\ ListsDisjoint(r) /\ ~Linked(r, t)
               /\ \A h \in Head_ : OnList(r, h) = OnList(s, h) \ {t}
               /\ r = [s EXCEPT !.list = r.list]
<1> DEFINE r == ListDelete(s, t)
<1>1. r = [s EXCEPT !.list = [h \in Head_ |-> Unlink(s.list[h], t)]]
  BY DEF ListDelete
<1>2. \A h \in Head_ : /\ s.list[h] \in Seq(Task) /\ IsInjective(s.list[h])
                       /\ Unlink(s.list[h], t) \in Seq(Task)
                       /\ IsInjective(Unlink(s.list[h], t))
                       /\ Range(Unlink(s.list[h], t)) = Range(s.list[h]) \ {t}
  BY UnlinkProps DEF ListsDisjoint, SchedState
<1>3. r \in SchedState /\ r.list = [h \in Head_ |-> Unlink(s.list[h], t)]
  <2> DEFINE L == [h \in Head_ |-> Unlink(s.list[h], t)]
  <2>1. L \in [Head_ -> Seq(Task)]
    BY <1>2
  <2> HIDE DEF L
  <2>2. r = [s EXCEPT !.list = L]
    BY <1>1 DEF L
  <2>3. r.list = L
    BY <2>2 DEF SchedState
  <2> QED BY <2>1, <2>2, <2>3, WithList DEF L
<1>4. \A h \in Head_ : OnList(r, h) = OnList(s, h) \ {t}
  BY <1>2, <1>3 DEF OnList
<1>5. ListsDisjoint(r)
  BY <1>2, <1>3, <1>4 DEF ListsDisjoint
<1>6. ~Linked(r, t)
  BY <1>4 DEF Linked
<1>7. r = [s EXCEPT !.list = r.list]
  BY <1>1, <1>3
<1> QED BY <1>3, <1>4, <1>5, <1>6, <1>7

(* The scheduler's invariant, task by task.  Base is about the lists as    *)
(* such; Local is about one task, so that an operation that touches one    *)
(* task is shown to preserve the invariant by looking at that task alone.  *)
BitmapOK(s) == \A p \in Prio : p \in s.bitmap <=> OnList(s, PriQueue(p)) # {}

Base(s)     == s \in SchedState /\ ~s.fault /\ ListsDisjoint(s) /\ BitmapOK(s)

On(s, t, h) == t \in OnList(s, h)

Local(s, t) ==
    /\ t # Idle => /\ \A p \in Prio : On(s, t, PriQueue(p)) <=>
                                      "READY" \in s.status[t] /\ s.priority[t] = p
                   /\ (\E h \in WaitLists : On(s, t, h)) <=> "PEND" \in s.status[t]
    /\ t \in s.sortLink <=> /\ "DELAY" \in s.status[t] \/ "PEND_TIME" \in s.status[t]
                            /\ s.run # t
    /\ On(s, t, FreeTask) => s.status[t] = {"UNUSED"}
    /\ On(s, t, RecycleList) => "UNUSED" \in s.status[t] /\ "JOINABLE" \notin s.status[t]
    /\ "READY" \in s.status[t] =>
          s.status[t] \cap {"PEND", "SUSPEND", "DELAY", "PEND_TIME",
                            "RUNNING", "EXIT", "UNUSED"} = {}
    /\ "PEND_TIME" \in s.status[t] => "PEND" \in s.status[t]
    /\ "PEND" \in s.status[t] => "DELAY" \notin s.status[t]
    /\ "EXIT" \in s.status[t] \/ "UNUSED" \in s.status[t] =>
          "PEND" \notin s.status[t] /\ "DELAY" \notin s.status[t]
    /\ "RUNNING" \in s.status[t] => s.run = t \/ On(s, t, RecycleList)
    /\ s.run = t => "RUNNING" \in s.status[t] /\ "UNUSED" \notin s.status[t]
    /\ t = Idle => /\ "READY" \in s.status[t] \/ "RUNNING" \in s.status[t]
                   /\ s.status[t] \cap {"PEND", "SUSPEND", "DELAY", "PEND_TIME",
                                        "EXIT", "UNUSED"} = {}

ShadowOK(s) ==
    /\ "UNUSED" \in s.status[Shadow]
    /\ s.status[Shadow] \cap {"READY", "DELAY", "PEND_TIME"} = {}

Core(s) == Base(s) /\ ShadowOK(s) /\ \A t \in Task : Local(s, t)

(* A list is empty iff it has no members. *)
LEMMA EmptyList ==
    ASSUME NEW q \in Seq(Task) PROVE q = <<>> <=> Range(q) = {}
<1>1. ASSUME q = <<>> PROVE Range(q) = {}
  <2>1. \A i \in DOMAIN q : FALSE
    BY SMT, <1>1
  <2> QED BY <2>1 DEF Range
<1> QED BY <1>1, HeadProps

(* Core is what the invariant of a run says, in other words. *)
LEMMA CoreMeans ==
    ASSUME NEW s \in SchedState
    PROVE  Core(s) <=> /\ ~s.fault /\ ListsDisjoint(s)
                       /\ StatusMatchesLists(s) /\ StatusExclusive(s)
<1>1. \A p \in Prio : s.list[PriQueue(p)] # <<>> <=> OnList(s, PriQueue(p)) # {}
  BY EmptyList, HeadFacts DEF OnList, SchedState
<1>2. ASSUME Core(s) PROVE StatusMatchesLists(s)
  <2>1. \A h \in Head_ : OnList(s, h) \subseteq Task
    BY SMT DEF OnList, SchedState, Range
  <2>2. \A p \in Prio : p \in s.bitmap <=> s.list[PriQueue(p)] # <<>>
    BY <1>1, <1>2 DEF Core, Base, BitmapOK
  <2>3. \A t \in Task : Local(s, t)
    BY <1>2 DEF Core
  <2>4. /\ \A t \in OnList(s, FreeTask) : s.status[t] = {"UNUSED"}
        /\ \A t \in OnList(s, RecycleList) :
              Has(s, t, {"UNUSED"}) /\ ~Has(s, t, {"JOINABLE"})
    BY SMT, <2>1, <2>3, HeadFacts DEF Local, On, Has
  <2>5. \A t \in Task \ {Idle}, p \in Prio :
          t \in OnList(s, PriQueue(p)) <=> Has(s, t, {"READY"}) /\ s.priority[t] = p
    BY SMT, <2>3 DEF Local, On, Has
  <2>6. \A t \in Task \ {Idle} : Waiting(s, t) <=> Has(s, t, {"PEND"})
    BY <2>3 DEF Local, On, Has, Waiting
  <2>7. \A t \in Task : t \in s.sortLink <=>
          Has(s, t, {"DELAY", "PEND_TIME"}) /\ s.run # t
    BY <2>3 DEF Local, Has
  <2> QED BY <2>2, <2>4, <2>5, <2>6, <2>7 DEF StatusMatchesLists
<1>3. ASSUME Core(s) PROVE StatusExclusive(s)
  BY SMT, <1>3, TaskFacts DEF Core, Local, On, ShadowOK, StatusExclusive, Has, Blocked
<1>4. ASSUME ~s.fault, ListsDisjoint(s), StatusMatchesLists(s), StatusExclusive(s)
      PROVE  Core(s)
  <2>1. BitmapOK(s)
    BY <1>1, <1>4 DEF StatusMatchesLists, BitmapOK
  <2>2. ASSUME NEW t \in Task PROVE Local(s, t)
    BY SMT, <1>4, TaskFacts DEF StatusMatchesLists, StatusExclusive, Waiting, Has, Blocked, Local, On
  <2>3. ShadowOK(s)
    BY SMT, <1>4 DEF StatusExclusive, Has, ShadowOK
  <2> QED BY <1>4, <2>1, <2>2, <2>3 DEF Core, Base
<1> QED BY <1>2, <1>3, <1>4 DEF Core, Base

(* Effects.  Only(s, r, t): from s to r nothing changed but what concerns  *)
(* the one task t.  Place(r, t, H): H holds the list t hangs on, if any.   *)
SameAt(s, r, u) ==
    /\ r.status[u] = s.status[u] /\ r.priority[u] = s.priority[u]
    /\ u \in r.sortLink <=> u \in s.sortLink
    /\ \A h \in Head_ : On(r, u, h) <=> On(s, u, h)

SameGlobals(s, r) ==
    /\ r.status[Shadow] = s.status[Shadow] /\ r.run = s.run
    /\ r.taskLock = s.taskLock /\ r.sched = s.sched /\ r.switch = s.switch

Only(s, r, t) == SameGlobals(s, r) /\ \A u \in Task : u # t => SameAt(s, r, u)

Place(r, t, H) == \A h \in Head_ : On(r, t, h) <=> h \in H

SamePlace(s, r, t) == \A h \in Head_ : On(r, t, h) <=> On(s, t, h)

(* Touching one task after the other is touching it once. *)
LEMMA OnlyTrans ==
    ASSUME NEW s, NEW a, NEW r, NEW t, Only(s, a, t), Only(a, r, t)
    PROVE  Only(s, r, t)
BY SMT DEF Only, SameGlobals, SameAt

(* What two steps leave alone, both together leave alone. *)
LEMMA SameAtTrans ==
    ASSUME NEW s, NEW a, NEW r, NEW u, SameAt(s, a, u), SameAt(a, r, u)
    PROVE  SameAt(s, r, u)
BY DEF SameAt

(* The tasks on a list are tasks. *)
LEMMA MembersAreTasks ==
    ASSUME NEW s \in SchedState, NEW h \in Head_
    PROVE  OnList(s, h) \subseteq Task
BY SMT DEF OnList, SchedState, Range

(* The state s with the status bits of t set to X. *)
WithStatus(s, t, X) == [s EXCEPT !.status[t] = X]

(* A change of status bits touches no list. *)
LEMMA StatusEffect ==
    ASSUME NEW s, Base(s), NEW t \in Task, NEW X \in SUBSET Status,
           NEW r, r = WithStatus(s, t, X)
    PROVE  /\ Base(r) /\ Only(s, r, t) /\ SamePlace(s, r, t)
           /\ r.status[t] = X /\ r.priority[t] = s.priority[t]
           /\ r.sortLink = s.sortLink /\ r.list = s.list /\ r.slice = s.slice
<1>1. r \in SchedState
  BY DEF Base, SchedState, WithStatus
<1>2. /\ r.list = s.list /\ r.bitmap = s.bitmap /\ r.fault = s.fault
      /\ r.priority = s.priority /\ r.sortLink = s.sortLink /\ r.run = s.run
      /\ r.taskLock = s.taskLock /\ r.sched = s.sched /\ r.switch = s.switch
      /\ r.slice = s.slice
  BY DEF Base, SchedState, WithStatus
<1>3. r.status[t] = X /\ \A u \in Task \cup {Shadow} : u # t => r.status[u] = s.status[u]
  BY DEF Base, SchedState, WithStatus
<1>4. Base(r)
  BY <1>1, <1>2 DEF Base, ListsDisjoint, BitmapOK, OnList
<1>5. Only(s, r, t)
  BY <1>2, <1>3, TaskFacts DEF Only, SameGlobals, SameAt, On, OnList
<1>6. SamePlace(s, r, t)
  BY <1>2 DEF SamePlace, On, OnList
<1> QED BY <1>2, <1>3, <1>4, <1>5, <1>6

(* Taking a node off the sort link. *)
LEMMA SortLinkEffect ==
    ASSUME NEW s, Base(s), NEW t \in Task
    PROVE  LET r == OsDeleteSortLink(s, t)
           IN  /\ Base(r) /\ Only(s, r, t) /\ SamePlace(s, r, t)
               /\ r.status = s.status /\ r.priority = s.priority
               /\ t \notin r.sortLink /\ r.list = s.list
<1> DEFINE r == OsDeleteSortLink(s, t)
<1>1. r \in SchedState
  BY DEF Base, SchedState, OsDeleteSortLink
<1>2. /\ r.list = s.list /\ r.bitmap = s.bitmap /\ r.fault = s.fault
      /\ r.priority = s.priority /\ r.sortLink = s.sortLink \ {t} /\ r.run = s.run
      /\ r.taskLock = s.taskLock /\ r.sched = s.sched /\ r.switch = s.switch
      /\ r.status = s.status
  BY DEF Base, SchedState, OsDeleteSortLink
<1> HIDE DEF r
<1>3. Base(r)
  BY <1>1, <1>2 DEF Base, ListsDisjoint, BitmapOK, OnList
<1>4. Only(s, r, t)
  BY <1>2 DEF Only, SameGlobals, SameAt, On, OnList
<1>5. SamePlace(s, r, t)
  BY <1>2 DEF SamePlace, On, OnList
<1> QED BY <1>2, <1>3, <1>4, <1>5 DEF r

(* Deleting a node that hangs on a list that is not a ready queue. *)
LEMMA DeleteEffect ==
    ASSUME NEW s, Base(s), NEW t \in Task,
           NEW h \in WaitLists \cup {FreeTask, RecycleList}, On(s, t, h)
    PROVE  LET r == ListDelete(s, t)
           IN  /\ Base(r) /\ Only(s, r, t) /\ Place(r, t, {})
               /\ r.status = s.status /\ r.priority = s.priority
               /\ r.sortLink = s.sortLink
<1> DEFINE r == ListDelete(s, t)
<1>0. s \in SchedState /\ ListsDisjoint(s) /\ Linked(s, t) /\ h \in Head_
  BY HeadFacts DEF Base, Linked, On
<1>1. /\ r \in SchedState /\ ListsDisjoint(r)
      /\ \A g \in Head_ : OnList(r, g) = OnList(s, g) \ {t}
      /\ r = [s EXCEPT !.list = r.list]
  BY <1>0, ListDeleteEffect
<1>2. /\ r.bitmap = s.bitmap /\ r.fault = s.fault
      /\ r.priority = s.priority /\ r.sortLink = s.sortLink /\ r.run = s.run
      /\ r.taskLock = s.taskLock /\ r.sched = s.sched /\ r.switch = s.switch
      /\ r.status = s.status
  BY <1>0, <1>1 DEF SchedState
<1> HIDE DEF r
<1>3. \A p \in Prio : t \notin OnList(s, PriQueue(p))
  BY SMT, <1>0, HeadFacts DEF ListsDisjoint, On
<1>4. BitmapOK(r)
  BY SMT, <1>1, <1>2, <1>3, HeadFacts DEF Base, BitmapOK
<1>5. Base(r)
  BY <1>1, <1>2, <1>4 DEF Base
<1>6. Only(s, r, t) /\ Place(r, t, {})
  BY <1>1, <1>2 DEF Only, SameGlobals, SameAt, Place, On
<1> QED BY <1>2, <1>5, <1>6 DEF r

(* Deleting a node from the ready queue it hangs on. *)
LEMMA PriQueueDeleteEffect ==
    ASSUME NEW s, Base(s), NEW t \in Task, NEW p \in Prio, On(s, t, PriQueue(p))
    PROVE  LET r == OsSchedPriQueueDelete(s, t, p)
           IN  /\ Base(r) /\ Only(s, r, t) /\ Place(r, t, {})
               /\ r.status = s.status /\ r.priority = s.priority
               /\ r.sortLink = s.sortLink
<1> DEFINE a == ListDelete(s, t)
           r == OsSchedPriQueueDelete(s, t, p)
<1>0. s \in SchedState /\ ListsDisjoint(s) /\ Linked(s, t) /\ PriQueue(p) \in Head_
  BY HeadFacts DEF Base, Linked, On
<1>1. /\ a \in SchedState /\ ListsDisjoint(a)
      /\ \A g \in Head_ : OnList(a, g) = OnList(s, g) \ {t}
      /\ a = [s EXCEPT !.list = a.list]
  BY <1>0, ListDeleteEffect
<1>2. /\ a.bitmap = s.bitmap /\ a.fault = s.fault
      /\ a.priority = s.priority /\ a.sortLink = s.sortLink /\ a.run = s.run
      /\ a.taskLock = s.taskLock /\ a.sched = s.sched /\ a.switch = s.switch
      /\ a.status = s.status
  BY <1>0, <1>1 DEF SchedState
<1>3. r = [a EXCEPT !.bitmap = IF a.list[PriQueue(p)] = <<>> THEN @ \ {p} ELSE @]
  BY DEF OsSchedPriQueueDelete
<1> HIDE DEF a, r
<1>4. /\ r \in SchedState /\ r.list = a.list
      /\ r.bitmap = IF a.list[PriQueue(p)] = <<>> THEN s.bitmap \ {p} ELSE s.bitmap
      /\ r.fault = s.fault
      /\ r.priority = s.priority /\ r.sortLink = s.sortLink /\ r.run = s.run
      /\ r.taskLock = s.taskLock /\ r.sched = s.sched /\ r.switch = s.switch
      /\ r.status = s.status
  BY <1>1, <1>2, <1>3 DEF SchedState
<1>5. a.list[PriQueue(p)] = <<>> <=> OnList(a, PriQueue(p)) = {}
  BY <1>0, <1>1, EmptyList DEF SchedState, OnList
<1>6. \A g \in Head_ : OnList(r, g) = OnList(s, g) \ {t}
  BY <1>1, <1>4 DEF OnList
<1>7. \A q \in Prio : q # p => OnList(r, PriQueue(q)) = OnList(s, PriQueue(q))
  BY SMT, <1>0, <1>6, HeadFacts DEF ListsDisjoint, On
<1>8. OnList(r, PriQueue(p)) = OnList(a, PriQueue(p))
  BY <1>4 DEF OnList
<1>9. BitmapOK(r)
  <2> SUFFICES ASSUME NEW q \in Prio
               PROVE  q \in r.bitmap <=> OnList(r, PriQueue(q)) # {}
    BY DEF BitmapOK
  <2>1. q \in s.bitmap <=> OnList(s, PriQueue(q)) # {}
    BY DEF Base, BitmapOK
  <2>2. CASE q # p
    BY <2>1, <2>2, <1>4, <1>7
  <2>3. CASE q = p
    <3>1. OnList(s, PriQueue(p)) # {}
      BY DEF On
    <3> QED BY <2>1, <2>3, <3>1, <1>4, <1>5, <1>8
  <2> QED BY <2>2, <2>3
<1>10. ListsDisjoint(r)
  BY <1>1, <1>4 DEF ListsDisjoint, OnList
<1>11. Base(r)
  BY <1>4, <1>9, <1>10 DEF Base
<1>12. Only(s, r, t) /\ Place(r, t, {})
  BY <1>4, <1>6 DEF Only, SameGlobals, SameAt, Place, On
<1> QED BY <1>4, <1>11, <1>12 DEF r

(* What ListAdd and ListTailInsert of a free node have in common. *)
AddedTo(s, r, h, t) ==
    /\ r \in SchedState /\ ListsDisjoint(r)
    /\ \A g \in Head_ : OnList(r, g) = IF g = h THEN OnList(s, g) \cup {t} ELSE OnList(s, g)
    /\ r.bitmap = s.bitmap /\ r.fault = s.fault /\ r.priority = s.priority
    /\ r.sortLink = s.sortLink /\ r.run = s.run /\ r.taskLock = s.taskLock
    /\ r.sched = s.sched /\ r.switch = s.switch /\ r.status = s.status
    /\ r.slice = s.slice

(* Inserting a free node puts it on one list, at either end, and no more. *)
LEMMA InsertEffect ==
    ASSUME NEW s \in SchedState, ListsDisjoint(s), NEW t \in Task \ {Idle},
           NEW h \in Head_, ~Linked(s, t)
    PROVE  AddedTo(s, ListAdd(s, h, t), h, t) /\ AddedTo(s, ListTailInsert(s, h, t), h, t)
<1>1. s.list[h] \in Seq(Task) /\ IsInjective(s.list[h]) /\ t \notin Range(s.list[h])
  BY DEF SchedState, ListsDisjoint, Linked, OnList
<1>2. SUFFICES ASSUME NEW q \in Seq(Task), IsInjective(q),
                      Range(q) = Range(s.list[h]) \cup {t},
                      NEW r, r = [s EXCEPT !.list[h] = q, !.fault = @ \/ Linked(s, t)]
               PROVE  AddedTo(s, r, h, t)
  <2>1. /\ <<t>> \o s.list[h] \in Seq(Task) /\ Append(s.list[h], t) \in Seq(Task)
        /\ IsInjective(<<t>> \o s.list[h]) /\ IsInjective(Append(s.list[h], t))
        /\ Range(<<t>> \o s.list[h]) = Range(s.list[h]) \cup {t}
        /\ Range(Append(s.list[h], t)) = Range(s.list[h]) \cup {t}
    BY <1>1, AddProps
  <2>2. ListAdd(s, h, t) =
           [s EXCEPT !.list[h] = <<t>> \o s.list[h], !.fault = @ \/ Linked(s, t)]
    BY DEF ListAdd, SchedState
  <2>3. ListTailInsert(s, h, t) =
           [s EXCEPT !.list[h] = Append(s.list[h], t), !.fault = @ \/ Linked(s, t)]
    BY DEF ListTailInsert, SchedState
  <2> QED BY <1>2, <2>1, <2>2, <2>3
<1>3. /\ r \in SchedState /\ r.list = [s.list EXCEPT ![h] = q]
      /\ r.bitmap = s.bitmap /\ r.fault = s.fault /\ r.priority = s.priority
      /\ r.sortLink = s.sortLink /\ r.run = s.run /\ r.taskLock = s.taskLock
      /\ r.sched = s.sched /\ r.switch = s.switch /\ r.status = s.status
      /\ r.slice = s.slice
  BY <1>2 DEF SchedState
<1>4. r.list[h] = q /\ \A g \in Head_ : g # h => r.list[g] = s.list[g]
  BY <1>3 DEF SchedState
<1>5. \A g \in Head_ : OnList(r, g) = IF g = h THEN OnList(s, g) \cup {t} ELSE OnList(s, g)
  <2>1. OnList(r, h) = OnList(s, h) \cup {t}
    BY <1>2, <1>4 DEF OnList
  <2>2. \A g \in Head_ : g # h => OnList(r, g) = OnList(s, g)
    BY <1>4 DEF OnList
  <2> QED BY <2>1, <2>2
<1>6. ListsDisjoint(r)
  <2>1. \A g \in Head_ : IsInjective(r.list[g])
    BY <1>2, <1>4 DEF ListsDisjoint
  <2>2. \A g \in Head_ : t \notin OnList(s, g)
    BY DEF Linked
  <2> QED BY SMT, <1>5, <2>1, <2>2 DEF ListsDisjoint
<1> QED BY <1>3, <1>5, <1>6 DEF AddedTo

(* Linking a free node on a list that is not a ready queue. *)
LEMMA AddEffect ==
    ASSUME NEW s, Base(s), NEW t \in Task \ {Idle}, ~Linked(s, t),
           NEW h \in WaitLists \cup {FreeTask, RecycleList},
           NEW r, r = ListAdd(s, h, t) \/ r = ListTailInsert(s, h, t)
    PROVE  /\ Base(r) /\ Only(s, r, t) /\ Place(r, t, {h})
           /\ r.status = s.status /\ r.priority = s.priority
           /\ r.sortLink = s.sortLink /\ r.slice = s.slice
<1>0. s \in SchedState /\ ListsDisjoint(s) /\ h \in Head_
  BY HeadFacts DEF Base
<1>1. AddedTo(s, r, h, t)
  BY <1>0, InsertEffect
<1>2. BitmapOK(r)
  BY SMT, <1>1, HeadFacts DEF AddedTo, BitmapOK, Base
<1>3. \A g \in Head_ : t \notin OnList(s, g)
  BY DEF Linked
<1>4. Base(r)
  BY <1>1, <1>2 DEF AddedTo, Base
<1>5. Only(s, r, t) /\ Place(r, t, {h})
  BY <1>1, <1>3 DEF AddedTo, Only, SameGlobals, SameAt, Place, On
<1> QED BY <1>1, <1>4, <1>5 DEF AddedTo

(* Linking a free node at either end of a ready queue marks the queue. *)
LEMMA PriQueueEnEffect ==
    ASSUME NEW s, Base(s), NEW t \in Task \ {Idle}, ~Linked(s, t), NEW p \in Prio,
           NEW r, r = OsSchedPriQueueEnHead(s, t, p) \/ r = OsSchedPriQueueEnTail(s, t, p)
    PROVE  /\ Base(r) /\ Only(s, r, t) /\ Place(r, t, {PriQueue(p)})
           /\ r.status = s.status /\ r.priority = s.priority
           /\ r.sortLink = s.sortLink /\ r.slice = s.slice
<1> DEFINE m == MarkQueue(s, p)
           h == PriQueue(p)
<1>0. s \in SchedState /\ ListsDisjoint(s) /\ h \in Head_
  BY HeadFacts DEF Base
<1>1. /\ m \in SchedState /\ m.list = s.list
      /\ m.bitmap = s.bitmap \cup {p}
      /\ m.fault = s.fault /\ m.priority = s.priority
      /\ m.sortLink = s.sortLink /\ m.run = s.run /\ m.taskLock = s.taskLock
      /\ m.sched = s.sched /\ m.switch = s.switch /\ m.status = s.status
      /\ m.slice = s.slice
  <2>1. CASE s.list[h] = <<>>
    BY <2>1, <1>0 DEF MarkQueue, SchedState
  <2>2. CASE s.list[h] # <<>>
    <3>1. OnList(s, h) # {}
      BY <2>2, <1>0, EmptyList DEF SchedState, OnList
    <3>2. s.bitmap = s.bitmap \cup {p}
      BY <3>1 DEF Base, BitmapOK
    <3> QED BY <2>2, <3>2, <1>0 DEF MarkQueue
  <2> QED BY <2>1, <2>2
<1>2. ListsDisjoint(m) /\ ~Linked(m, t)
  BY <1>0, <1>1 DEF ListsDisjoint, Linked, OnList
<1>3. r = ListAdd(m, h, t) \/ r = ListTailInsert(m, h, t)
  BY DEF OsSchedPriQueueEnHead, OsSchedPriQueueEnTail
<1> HIDE DEF m
<1>4. AddedTo(m, r, h, t)
  BY <1>0, <1>1, <1>2, <1>3, InsertEffect
<1>5. \A g \in Head_ : OnList(m, g) = OnList(s, g) /\ t \notin OnList(s, g)
  BY <1>1 DEF Linked, OnList
<1>6. BitmapOK(r)
  <2> SUFFICES ASSUME NEW q \in Prio
               PROVE  q \in r.bitmap <=> OnList(r, PriQueue(q)) # {}
    BY DEF BitmapOK
  <2>1. q \in s.bitmap <=> OnList(s, PriQueue(q)) # {}
    BY DEF Base, BitmapOK
  <2>2. CASE q # p
    BY <2>1, <2>2, <1>1, <1>4, <1>5, HeadFacts DEF AddedTo
  <2>3. CASE q = p
    BY <2>3, <1>0, <1>1, <1>4 DEF AddedTo
  <2> QED BY <2>2, <2>3
<1>7. Base(r)
  BY <1>1, <1>4, <1>6 DEF AddedTo, Base
<1>8. Only(s, r, t) /\ Place(r, t, {h})
  BY SMT, <1>1, <1>4, <1>5 DEF AddedTo, Only, SameGlobals, SameAt, Place, On
<1> QED BY <1>1, <1>4, <1>7, <1>8 DEF AddedTo

(* OsSchedTaskEnQueue of a task that is neither READY nor linked. *)
LEMMA EnQueueEffect ==
    ASSUME NEW s, Base(s), NEW t \in Task, "READY" \notin s.status[t], ~Linked(s, t)
    PROVE  LET r == OsSchedTaskEnQueue(s, t)
           IN  /\ Base(r) /\ Only(s, r, t)
               /\ t # Idle => Place(r, t, {PriQueue(s.priority[t])})
               /\ t = Idle => Place(r, t, {})
               /\ r.status[t] = (s.status[t] \ {"PEND", "SUSPEND", "DELAY", "PEND_TIME"})
                                \cup {"READY"}
               /\ r.priority[t] = s.priority[t] /\ r.sortLink = s.sortLink
<1> DEFINE r == OsSchedTaskEnQueue(s, t)
           p == s.priority[t]
           q == IF t = Idle THEN s
                ELSE IF s.slice[t] THEN OsSchedPriQueueEnHead(s, t, p)
                ELSE [OsSchedPriQueueEnTail(s, t, p) EXCEPT !.slice[t] = TRUE]
           X == (s.status[t] \ {"PEND", "SUSPEND", "DELAY", "PEND_TIME"}) \cup {"READY"}
<1>0. s \in SchedState /\ p \in Prio /\ s.slice[t] \in BOOLEAN /\ s.status[t] \in SUBSET Status
  BY DEF Base, SchedState
<1>1. /\ Base(q) /\ Only(s, q, t) /\ q.status = s.status
      /\ q.priority = s.priority /\ q.sortLink = s.sortLink
      /\ t # Idle => Place(q, t, {PriQueue(p)})
      /\ t = Idle => Place(q, t, {})
  <2>1. CASE t = Idle
    <3>1. q = s
      BY <2>1
    <3> HIDE DEF q
    <3> QED BY <2>1, <3>1 DEF Only, SameGlobals, SameAt, Place, Linked, On
  <2>2. CASE t # Idle /\ s.slice[t]
    <3>1. q = OsSchedPriQueueEnHead(s, t, p)
      BY <2>2
    <3> HIDE DEF q
    <3> QED BY SMT, <2>2, <3>1, <1>0, PriQueueEnEffect
  <2>3. CASE t # Idle /\ ~s.slice[t]
    <3> DEFINE e == OsSchedPriQueueEnTail(s, t, p)
    <3>1. /\ Base(e) /\ Only(s, e, t) /\ Place(e, t, {PriQueue(p)})
          /\ e.status = s.status /\ e.priority = s.priority /\ e.sortLink = s.sortLink
      BY SMT, <2>3, <1>0, PriQueueEnEffect
    <3>2. q = [e EXCEPT !.slice[t] = TRUE]
      BY <2>3
    <3> HIDE DEF e, q
    <3>3. /\ q \in SchedState /\ q.list = e.list /\ q.bitmap = e.bitmap /\ q.fault = e.fault
          /\ q.priority = e.priority /\ q.sortLink = e.sortLink /\ q.run = e.run
          /\ q.taskLock = e.taskLock /\ q.sched = e.sched /\ q.switch = e.switch
          /\ q.status = e.status
      BY <3>1, <3>2 DEF Base, SchedState
    <3>4. Base(q)
      BY <3>1, <3>3 DEF Base, ListsDisjoint, BitmapOK, OnList
    <3>5. Only(s, q, t) /\ Place(q, t, {PriQueue(p)})
      BY SMT, <3>1, <3>3 DEF Only, SameGlobals, SameAt, Place, On, OnList
    <3> QED BY <3>1, <3>3, <3>4, <3>5, <2>3
  <2> QED BY <2>1, <2>2, <2>3, <1>0
<1>2. r = [q EXCEPT !.status[t] =
             (@ \ {"PEND", "SUSPEND", "DELAY", "PEND_TIME"}) \cup {"READY"}]
  BY DEF OsSchedTaskEnQueue, Has
<1> HIDE DEF q, r
<1>3. r = WithStatus(q, t, X)
  <2>1. q.status[t] = s.status[t] /\ q \in SchedState
    BY <1>1 DEF Base
  <2> QED BY <1>2, <2>1 DEF SchedState, WithStatus
<1>4. X \in SUBSET Status
  BY <1>0 DEF Status
<1> HIDE DEF X
<1>5. /\ Base(r) /\ Only(q, r, t) /\ SamePlace(q, r, t)
      /\ r.status[t] = X /\ r.priority[t] = q.priority[t] /\ r.sortLink = q.sortLink
  BY SMT, <1>1, <1>3, <1>4, StatusEffect
<1>6. Only(s, r, t)
  BY <1>1, <1>5, OnlyTrans
<1> QED BY <1>1, <1>5, <1>6 DEF SamePlace, Place, r, X

(* OsSchedTaskDeQueue of a READY task, idle apart, that hangs on its queue. *)
LEMMA DeQueueEffect ==
    ASSUME NEW s, Base(s), NEW t \in Task, "READY" \in s.status[t],
           t # Idle => On(s, t, PriQueue(s.priority[t]))
    PROVE  LET r == OsSchedTaskDeQueue(s, t)
           IN  /\ Base(r) /\ Only(s, r, t) /\ Place(r, t, {})
               /\ r.status[t] = s.status[t] \ {"READY"}
               /\ r.priority[t] = s.priority[t] /\ r.sortLink = s.sortLink
<1> DEFINE p == s.priority[t]
           q == IF t = Idle THEN s ELSE OsSchedPriQueueDelete(s, t, p)
           r == OsSchedTaskDeQueue(s, t)
           X == s.status[t] \ {"READY"}
<1>0. s \in SchedState /\ p \in Prio /\ X \in SUBSET Status /\ ListsDisjoint(s)
  BY DEF Base, SchedState
<1>1. /\ Base(q) /\ Only(s, q, t) /\ Place(q, t, {}) /\ q.status = s.status
      /\ q.priority = s.priority /\ q.sortLink = s.sortLink
  <2>1. CASE t = Idle
    <3>1. q = s
      BY <2>1
    <3> HIDE DEF q
    <3> QED BY <2>1, <3>1, <1>0 DEF Only, SameGlobals, SameAt, Place, ListsDisjoint, On
  <2>2. CASE t # Idle
    <3>1. q = OsSchedPriQueueDelete(s, t, p)
      BY <2>2
    <3> HIDE DEF q
    <3> QED BY <2>2, <3>1, <1>0, PriQueueDeleteEffect
  <2> QED BY <2>1, <2>2
<1>2. r = [q EXCEPT !.status[t] = @ \ {"READY"}]
  BY DEF OsSchedTaskDeQueue, Has, ClrStatus
<1> HIDE DEF q, r
<1>3. r = WithStatus(q, t, X)
  <2>1. q.status[t] = s.status[t] /\ q \in SchedState
    BY <1>1 DEF Base
  <2> QED BY <1>2, <2>1 DEF SchedState, WithStatus
<1> HIDE DEF X
<1>4. /\ Base(r) /\ Only(q, r, t) /\ SamePlace(q, r, t)
      /\ r.status[t] = X /\ r.priority[t] = q.priority[t] /\ r.sortLink = q.sortLink
  BY SMT, <1>0, <1>1, <1>3, StatusEffect
<1>5. Only(s, r, t)
  BY <1>1, <1>4, OnlyTrans
<1> QED BY <1>1, <1>4, <1>5 DEF SamePlace, Place, r, X

(* OsSchedTaskDeQueue leaves a task that is not READY alone. *)
LEMMA DeQueueIdle ==
    ASSUME NEW s, NEW t, "READY" \notin s.status[t]
    PROVE  OsSchedTaskDeQueue(s, t) = s
BY DEF OsSchedTaskDeQueue, Has

(* From the effect on one task to the invariant. *)
(* The invariant of a task that is not touched is kept. *)
LEMMA LocalFrame ==
    ASSUME NEW s, NEW r, NEW u \in Task, SameAt(s, r, u), r.run = u <=> s.run = u, Local(s, u)
    PROVE  Local(r, u)
<1>1. \A p \in Prio : On(r, u, PriQueue(p)) <=> On(s, u, PriQueue(p))
  BY HeadFacts DEF SameAt
<1>2. \A h \in WaitLists : On(r, u, h) <=> On(s, u, h)
  BY HeadFacts DEF SameAt
<1>3. /\ On(r, u, FreeTask) <=> On(s, u, FreeTask)
      /\ On(r, u, RecycleList) <=> On(s, u, RecycleList)
  BY HeadFacts DEF SameAt
<1>4. /\ r.status[u] = s.status[u] /\ r.priority[u] = s.priority[u]
      /\ u \in r.sortLink <=> u \in s.sortLink
  BY DEF SameAt
<1> QED BY <1>1, <1>2, <1>3, <1>4 DEF Local

(* So an operation on t keeps the invariant if t is left in good order. *)
LEMMA CoreFromOnly ==
    ASSUME NEW s, NEW r, NEW t \in Task, Core(s), Base(r), Only(s, r, t), Local(r, t)
    PROVE  Core(r)
<1>1. ShadowOK(r)
  BY DEF Core, ShadowOK, Only, SameGlobals
<1>2. ASSUME NEW u \in Task, u # t PROVE Local(r, u)
  BY <1>2, LocalFrame DEF Core, Only, SameGlobals
<1> QED BY <1>1, <1>2 DEF Core

(* A task that waits, is ready or is unused is on the list that says so;   *)
(* any other hangs on no list.                                             *)
LEMMA UnlinkedIf ==
    ASSUME NEW s, NEW t \in Task, Local(s, t), Base(s),
           s.status[t] \cap {"READY", "PEND", "UNUSED"} = {}
    PROVE  ~Linked(s, t) /\ Place(s, t, {})
<1>1. ASSUME NEW h \in Head_ PROVE ~On(s, t, h)
  <2>1. CASE t = Idle
    BY <2>1 DEF On, Base, ListsDisjoint
  <2>2. CASE t # Idle
    <3>1. \A p \in Prio : ~On(s, t, PriQueue(p))
      BY <2>2 DEF Local
    <3>2. \A g \in WaitLists : ~On(s, t, g)
      BY <2>2 DEF Local
    <3>3. ~On(s, t, FreeTask) /\ ~On(s, t, RecycleList)
      BY SMT DEF Local
    <3> QED BY SMT, <3>1, <3>2, <3>3, HeadFacts
  <2> QED BY <2>1, <2>2
<1> QED BY <1>1 DEF Linked, Place, On

(* A pending task hangs on a wait list and nowhere else. *)
LEMMA PendingPlace ==
    ASSUME NEW s, NEW t \in Task, Local(s, t), Base(s), "PEND" \in s.status[t]
    PROVE  t # Idle /\ \E h \in WaitLists : On(s, t, h) /\ Place(s, t, {h})
<1>1. t # Idle
  BY DEF Local
<1>2. PICK h \in WaitLists : On(s, t, h)
  BY <1>1 DEF Local
<1>3. Place(s, t, {h})
  BY <1>2, HeadFacts DEF Base, ListsDisjoint, Place, On
<1> QED BY <1>1, <1>2, <1>3

(* A ready task on its queue, with no other bit that says where it is, is  *)
(* in good order.                                                          *)
LEMMA LocalReady ==
    ASSUME NEW s, NEW t \in Task \ {Idle}, Place(s, t, {PriQueue(s.priority[t])}),
           s.priority[t] \in Prio,
           "READY" \in s.status[t], t \notin s.sortLink, s.run # t,
           s.status[t] \cap {"PEND", "SUSPEND", "DELAY", "PEND_TIME",
                             "RUNNING", "EXIT", "UNUSED"} = {}
    PROVE  Local(s, t)
<1>1. \A p \in Prio : On(s, t, PriQueue(p)) <=> s.priority[t] = p
  BY SMT, HeadFacts DEF Place
<1>2. \A h \in WaitLists \cup {FreeTask, RecycleList} : ~On(s, t, h)
  BY SMT, HeadFacts DEF Place
<1> QED BY <1>1, <1>2 DEF Local

(* A task that hangs on no list and is neither READY nor PEND is in good   *)
(* order if its time-out and its running are.                              *)
LEMMA LocalUnlinked ==
    ASSUME NEW s, NEW t \in Task \ {Idle}, Place(s, t, {}),
           "READY" \notin s.status[t], "PEND" \notin s.status[t],
           "PEND_TIME" \notin s.status[t],
           t \in s.sortLink <=> "DELAY" \in s.status[t] /\ s.run # t,
           "EXIT" \in s.status[t] \/ "UNUSED" \in s.status[t] => "DELAY" \notin s.status[t],
           "RUNNING" \in s.status[t] <=> s.run = t,
           s.run = t => "UNUSED" \notin s.status[t]
    PROVE  Local(s, t)
<1>1. \A h \in Head_ : ~On(s, t, h)
  BY DEF Place
<1> QED BY <1>1, HeadFacts DEF Local

----------------------------------------------------------------------------
(* The task hangs on no list, unless it is a ready queue. *)
OffLists(s, t) == \A h \in WaitLists \cup {FreeTask, RecycleList} : ~On(s, t, h)

Waits == {"PEND", "SUSPEND", "DELAY", "PEND_TIME", "EXIT"}

(* What the callers of OsSchedTaskSwitch may rely on: the wait lists and   *)
(* all bits but READY and RUNNING are kept, the task that runs next waits  *)
(* for nothing, who could go on stays ready, and no ready task outranks    *)
(* the one that runs.                                                      *)
Kept(s, r, u) ==
    /\ \A h \in WaitLists \cup {FreeTask, RecycleList} : On(r, u, h) <=> On(s, u, h)
    /\ \A b \in Status \ {"READY", "RUNNING"} : b \in r.status[u] <=> b \in s.status[u]

(* No task waits for the end of t. *)
Unjoined(s, t) == \A u \in Task : ~On(s, u, JoinList(t))

(* An unjoined task has an empty joinList. *)
LEMMA UnjoinedEmpty ==
    ASSUME NEW s \in SchedState, NEW t \in Task
    PROVE  /\ Unjoined(s, t) <=> s.list[JoinList(t)] = <<>>
           /\ Unjoined(s, t) <=> OnList(s, JoinList(t)) = {}
<1>1. JoinList(t) \in Head_
  BY HeadFacts
<1>2. s.list[JoinList(t)] \in Seq(Task) /\ OnList(s, JoinList(t)) \subseteq Task
  BY <1>1, MembersAreTasks DEF SchedState
<1>3. s.list[JoinList(t)] = <<>> <=> OnList(s, JoinList(t)) = {}
  BY <1>2, EmptyList DEF OnList
<1> QED BY <1>2, <1>3 DEF Unjoined, On

(* In r, which differs from z in t only, the TCB t is on the free list. *)
Freed(z, r, t) ==
    /\ Core(r) /\ Only(z, r, t) /\ Place(r, t, {FreeTask})
    /\ r.status[t] = {"UNUSED"}

(* A pending task that is woken leaves the wait list and the sort link; it *)
(* becomes ready unless it is suspended or has not been switched from yet. *)
Woken(s, r, t) ==
    r.status[t] = IF s.status[t] \cap {"SUSPEND", "RUNNING"} # {}
                  THEN s.status[t] \ {"PEND", "PEND_TIME"}
                  ELSE (s.status[t] \ {"PEND", "PEND_TIME"}) \cup {"READY"}

(* LOS_Start enters the first task: only it is touched, and it has no bit  *)
(* but RUNNING.                                                            *)
Started(s, r) ==
    /\ r.run \in Task /\ r.sched /\ r.switch = s.switch /\ r.taskLock = s.taskLock
    /\ r.status[r.run] = {"RUNNING"} /\ "READY" \in s.status[r.run]
    /\ Place(r, r.run, {})
    /\ \A u \in Task : u # r.run => SameAt(s, r, u)

(* What LOS_TaskDelete leaves of t, what it does to a task that waits for  *)
(* the end of t, and who runs on.                                          *)
GoneSelf(s, r, t) ==
    /\ "PEND_TIME" \notin r.status[t]
    /\ IF "JOINABLE" \in s.status[t]
       THEN /\ Place(r, t, {}) /\ "JOINABLE" \in r.status[t]
            /\ "EXIT" \in r.status[t] /\ "UNUSED" \notin r.status[t]
       ELSE /\ Place(r, t, {FreeTask}) \/ Place(r, t, {RecycleList})
            /\ "UNUSED" \in r.status[t]

GoneJoiner(s, r, t, u) ==
    \/ SameAt(s, r, u) /\ ~On(s, u, JoinList(t))
    \/ On(s, u, JoinList(t)) /\ Woken(s, r, u) /\ OffLists(r, u)

GoneRun(s, r, t) ==
    IF s.run = t THEN r.switch /\ r.taskLock = 0 /\ r.run \in {t, Shadow}
    ELSE r.run = s.run /\ r.switch = s.switch /\ r.taskLock = s.taskLock

Gone(s, r, t) ==
    /\ Core(r) /\ r.sched = s.sched
    /\ GoneSelf(s, r, t) /\ GoneRun(s, r, t)
    /\ \A u \in Task : u # t => GoneJoiner(s, r, t, u)

----------------------------------------------------------------------------
(* The operations of module Sched. *)

(* A ready task other than idle hangs on the queue of its priority. *)
LEMMA ReadyPlace ==
    ASSUME NEW s, NEW t \in Task, Local(s, t), Base(s), "READY" \in s.status[t]
    PROVE  t # Idle => On(s, t, PriQueue(s.priority[t]))
BY DEF Local, Base, SchedState

(* SetStatus and ClrStatus as changes of one status. *)
LEMMA SetClr ==
    ASSUME NEW s \in SchedState, NEW t \in Task, NEW b
    PROVE  /\ SetStatus(s, t, b) = WithStatus(s, t, s.status[t] \cup b)
           /\ ClrStatus(s, t, b) = WithStatus(s, t, s.status[t] \ b)
BY DEF SetStatus, ClrStatus, SchedState, WithStatus

(* SetStatus and ClrStatus touch the status of one task and no list. *)
LEMMA SetClrEffect ==
    ASSUME NEW s, Base(s), NEW t \in Task, NEW b \in SUBSET Status,
           NEW r, r = SetStatus(s, t, b) \/ r = ClrStatus(s, t, b)
    PROVE  /\ Base(r) /\ Only(s, r, t) /\ SamePlace(s, r, t)
           /\ r = SetStatus(s, t, b) => r.status[t] = s.status[t] \cup b
           /\ r = ClrStatus(s, t, b) => r.status[t] = s.status[t] \ b
           /\ r.priority[t] = s.priority[t] /\ r.sortLink = s.sortLink
<1>1. s \in SchedState /\ s.status[t] \in SUBSET Status
  BY DEF Base, SchedState
<1>2. s.status[t] \cup b \in SUBSET Status /\ s.status[t] \ b \in SUBSET Status
  BY <1>1
<1>3. PICK X \in SUBSET Status : r = WithStatus(s, t, X)
  BY <1>1, <1>2, SetClr
<1>4. /\ Base(r) /\ Only(s, r, t) /\ SamePlace(s, r, t)
      /\ r.priority[t] = s.priority[t] /\ r.sortLink = s.sortLink
  BY SMT, <1>3, StatusEffect
<1>5. /\ r = SetStatus(s, t, b) => r.status[t] = s.status[t] \cup b
      /\ r = ClrStatus(s, t, b) => r.status[t] = s.status[t] \ b
  BY SMT, <1>1 DEF SchedState, SetStatus, ClrStatus
<1> QED BY <1>4, <1>5

(* What OsSchedTaskEnQueue makes of the status. *)
Readied(X) == (X \ {"PEND", "SUSPEND", "DELAY", "PEND_TIME"}) \cup {"READY"}

(* A status that lets OsSchedTaskEnQueue make the task ready. *)
Queueable(X) == X \cap {"READY", "RUNNING", "EXIT", "UNUSED"} = {}

(* OsSchedTaskEnQueue of a task that has been taken off all lists restores *)
(* the invariant of the state z from which only that task was touched.     *)
LEMMA EnQueueCore ==
    ASSUME NEW z, Core(z), NEW s, Base(s), NEW t \in Task \ {Idle}, Only(z, s, t),
           Place(s, t, {}), t \notin s.sortLink, z.run # t,
           Queueable(s.status[t]), NEW r, r = OsSchedTaskEnQueue(s, t)
    PROVE  /\ Core(r) /\ Only(z, r, t) /\ r.status[t] = Readied(s.status[t])
           /\ r.priority[t] = s.priority[t] /\ OffLists(r, t)
<1>1. ~Linked(s, t) /\ s.priority[t] \in Prio
  BY DEF Place, Linked, On, Base, SchedState
<1>2. /\ Base(r) /\ Only(s, r, t) /\ Place(r, t, {PriQueue(s.priority[t])})
      /\ r.status[t] = Readied(s.status[t])
      /\ r.priority[t] = s.priority[t] /\ r.sortLink = s.sortLink
  BY SMT, <1>1, EnQueueEffect DEF Readied, Queueable
<1>3. Only(z, r, t)
  BY <1>2, OnlyTrans
<1>4. Local(r, t)
  <2>1. /\ r.status[t] \cap {"PEND", "SUSPEND", "DELAY", "PEND_TIME",
                             "RUNNING", "EXIT", "UNUSED"} = {}
        /\ "READY" \in r.status[t]
    BY <1>2 DEF Readied, Queueable
  <2>2. r.run # t
    BY <1>3 DEF Only, SameGlobals
  <2> QED BY <1>1, <1>2, <2>1, <2>2, LocalReady
<1>5. Core(r)
  BY <1>2, <1>3, <1>4, CoreFromOnly
<1>6. OffLists(r, t)
  BY SMT, <1>1, <1>2, HeadFacts DEF Place, OffLists
<1> QED BY <1>2, <1>3, <1>5, <1>6

(* OsSchedTaskWake keeps the invariant. *)
LEMMA WakeCore ==
    ASSUME NEW s, Core(s), NEW t \in Task, "PEND" \in s.status[t]
    PROVE  LET r == OsSchedTaskWake(s, t)
           IN  /\ Core(r) /\ Only(s, r, t) /\ Woken(s, r, t)
               /\ OffLists(r, t)
<1> DEFINE d == ListDelete(s, t)
           a == ClrStatus(d, t, {"PEND"})
           e == OsDeleteSortLink(a, t)
           b == IF Has(a, t, {"PEND_TIME"}) THEN ClrStatus(e, t, {"PEND_TIME"}) ELSE a
           r == OsSchedTaskWake(s, t)
           X == s.status[t] \ {"PEND", "PEND_TIME"}
<1>0. /\ Base(s) /\ Local(s, t) /\ s.status[t] \in SUBSET Status
      /\ {"PEND"} \in SUBSET Status /\ {"PEND_TIME"} \in SUBSET Status
  BY DEF Core, Base, SchedState, Status
<1>1. t # Idle /\ \E h \in WaitLists : On(s, t, h) /\ Place(s, t, {h})
  BY <1>0, PendingPlace
<1>2. /\ Base(d) /\ Only(s, d, t) /\ Place(d, t, {}) /\ d.status = s.status
      /\ d.priority = s.priority /\ d.sortLink = s.sortLink
  BY <1>0, <1>1, DeleteEffect
<1>3. r = IF Has(b, t, {"SUSPEND", "RUNNING"}) THEN b ELSE OsSchedTaskEnQueue(b, t)
  BY DEF OsSchedTaskWake
<1> HIDE DEF d, r
<1>4. /\ Base(a) /\ Only(s, a, t) /\ Place(a, t, {})
      /\ a.status[t] = s.status[t] \ {"PEND"}
      /\ a.priority[t] = s.priority[t] /\ a.sortLink = s.sortLink
  BY SMT, <1>0, <1>2, SetClrEffect, OnlyTrans DEF SamePlace, Place
<1> HIDE DEF a
<1>5. /\ Base(b) /\ Only(s, b, t) /\ Place(b, t, {})
      /\ b.status[t] = X /\ b.priority[t] = s.priority[t] /\ t \notin b.sortLink
  <2>1. CASE Has(a, t, {"PEND_TIME"})
    <3>1. /\ Base(e) /\ Only(a, e, t) /\ SamePlace(a, e, t) /\ e.status = a.status
          /\ e.priority = a.priority /\ t \notin e.sortLink
      BY <1>4, SortLinkEffect
    <3>2. b = ClrStatus(e, t, {"PEND_TIME"})
      BY <2>1
    <3> HIDE DEF b, e
    <3>3. /\ Base(b) /\ Only(e, b, t) /\ SamePlace(e, b, t)
          /\ b.status[t] = e.status[t] \ {"PEND_TIME"}
          /\ b.priority[t] = e.priority[t] /\ b.sortLink = e.sortLink
      BY SMT, <1>0, <3>1, <3>2, SetClrEffect
    <3>4. Only(s, b, t)
      BY <1>4, <3>1, <3>3, OnlyTrans
    <3>5. Place(b, t, {})
      BY <1>4, <3>1, <3>3 DEF SamePlace, Place
    <3> QED BY <1>4, <3>1, <3>3, <3>4, <3>5
  <2>2. CASE ~Has(a, t, {"PEND_TIME"})
    <3>1. b = a
      BY <2>2
    <3>2. "PEND_TIME" \notin s.status[t] /\ "DELAY" \notin s.status[t]
      BY <2>2, <1>0, <1>4 DEF Has, Local
    <3>3. t \notin s.sortLink
      BY <3>2, <1>0 DEF Local
    <3> HIDE DEF b
    <3> QED BY <1>4, <3>1, <3>2, <3>3
  <2> QED BY <2>1, <2>2
<1> HIDE DEF b
<1>6. /\ s.run = b.run /\ "READY" \notin X
      /\ X \cap {"DELAY", "PEND", "PEND_TIME", "EXIT", "UNUSED"} = {}
      /\ "RUNNING" \in X => s.run = t
      /\ s.run = t => "RUNNING" \in X
  <2>1. ~On(s, t, RecycleList)
    BY <1>1, HeadFacts DEF Place
  <2> QED BY SMT, <1>0, <1>5, <2>1 DEF Only, SameGlobals, Local
<1>7. CASE Has(b, t, {"SUSPEND", "RUNNING"})
  <2>1. r = b /\ r.status[t] = X /\ s.status[t] \cap {"SUSPEND", "RUNNING"} # {}
    BY <1>3, <1>5, <1>7 DEF Has
  <2>2. Local(r, t)
    BY SMT, <1>1, <1>5, <1>6, <2>1, HeadFacts DEF Local, Place
  <2>3. Core(r)
    BY <1>5, <2>1, <2>2, CoreFromOnly
  <2> QED BY <2>1, <2>3, <1>5, HeadFacts DEF Woken, Place, OffLists, r
<1>8. CASE ~Has(b, t, {"SUSPEND", "RUNNING"})
  <2>1. /\ r = OsSchedTaskEnQueue(b, t)
        /\ X \cap {"SUSPEND", "RUNNING"} = {} /\ s.status[t] \cap {"SUSPEND", "RUNNING"} = {}
    BY <1>3, <1>5, <1>8 DEF Has
  <2>2. /\ Core(r) /\ Only(s, r, t) /\ r.status[t] = Readied(b.status[t])
        /\ OffLists(r, t)
    <3>1. s.run # t /\ Queueable(b.status[t])
      BY SMT, <1>5, <1>6, <2>1 DEF Queueable
    <3>2. r = OsSchedTaskEnQueue(b, t) /\ Base(b) /\ t \in Task \ {Idle}
      BY <1>1, <1>5, <2>1
    <3>3. Only(s, b, t) /\ Place(b, t, {}) /\ t \notin b.sortLink
      BY <1>5
    <3> QED BY SMT, <3>1, <3>2, <3>3, EnQueueCore
  <2>3. Readied(X) = X \cup {"READY"}
    BY <2>1, <1>6 DEF Readied
  <2>4. Woken(s, r, t)
    BY <1>5, <2>1, <2>2, <2>3 DEF Woken
  <2> QED BY <2>2, <2>4 DEF r
<1> QED BY <1>7, <1>8

(* A task whose time-out ran out leaves the wait list and the sort link;   *)
(* it becomes ready unless it is suspended, and a wait is marked TIMEOUT.  *)
Expired(s, r, t) ==
    LET X == s.status[t] \ {"PEND", "PEND_TIME", "DELAY"}
        Y == IF "PEND" \in s.status[t] THEN X \cup {"TIMEOUT"} ELSE X
    IN  r.status[t] = IF "SUSPEND" \in s.status[t] THEN Y ELSE Y \cup {"READY"}

(* One round of OsSchedScanTimerList keeps the invariant. *)
LEMMA ExpireCore ==
    ASSUME NEW s, Core(s), NEW t \in Task, t \in s.sortLink
    PROVE  LET r == OsSchedWakePendTimeTask(s, t)
           IN  /\ Core(r) /\ Only(s, r, t) /\ Expired(s, r, t)
               /\ OffLists(r, t)
<1> DEFINE a == OsDeleteSortLink(s, t)
           b == ClrStatus(a, t, {"PEND", "PEND_TIME", "DELAY"})
           d == ListDelete(b, t)
           c == IF Has(s, t, {"PEND"}) THEN SetStatus(d, t, {"TIMEOUT"}) ELSE b
           r == OsSchedWakePendTimeTask(s, t)
           X == s.status[t] \ {"PEND", "PEND_TIME", "DELAY"}
           Y == IF "PEND" \in s.status[t] THEN X \cup {"TIMEOUT"} ELSE X
<1>0. /\ Base(s) /\ Local(s, t) /\ s.status[t] \in SUBSET Status
      /\ {"PEND", "PEND_TIME", "DELAY"} \in SUBSET Status /\ {"TIMEOUT"} \in SUBSET Status
  BY DEF Core, Base, SchedState, Status
<1>1. /\ "DELAY" \in s.status[t] \/ "PEND" \in s.status[t]
      /\ s.run # t /\ t # Idle
      /\ s.status[t] \cap {"READY", "EXIT", "UNUSED"} = {}
  BY <1>0 DEF Local
<1>2. "RUNNING" \notin s.status[t]
  BY <1>0, <1>1 DEF Local
<1>3. r = IF Has(s, t, {"SUSPEND"}) THEN c ELSE OsSchedTaskEnQueue(c, t)
  BY <1>1 DEF OsSchedWakePendTimeTask, Has
<1>4. /\ Base(a) /\ Only(s, a, t) /\ SamePlace(s, a, t) /\ a.status = s.status
      /\ a.priority = s.priority /\ t \notin a.sortLink
  BY <1>0, SortLinkEffect
<1> HIDE DEF a
<1>5. /\ Base(b) /\ Only(s, b, t) /\ SamePlace(s, b, t) /\ b.status[t] = X
      /\ t \notin b.sortLink
  BY SMT, <1>0, <1>4, SetClrEffect, OnlyTrans DEF SamePlace
<1> HIDE DEF b, r
<1>6. /\ Base(c) /\ Only(s, c, t) /\ Place(c, t, {}) /\ c.status[t] = Y
      /\ t \notin c.sortLink
  <2>1. CASE "PEND" \in s.status[t]
    <3>1. PICK h \in WaitLists : On(s, t, h)
      BY <1>0, <2>1, PendingPlace
    <3>2. On(b, t, h)
      BY <1>5, <3>1, HeadFacts DEF SamePlace
    <3>3. /\ Base(d) /\ Only(b, d, t) /\ Place(d, t, {}) /\ d.status = b.status
          /\ d.sortLink = b.sortLink
      BY <1>5, <3>2, DeleteEffect
    <3>4. c = SetStatus(d, t, {"TIMEOUT"})
      BY <2>1 DEF Has
    <3> HIDE DEF c, d
    <3>5. /\ Base(c) /\ Only(d, c, t) /\ SamePlace(d, c, t)
          /\ c.status[t] = d.status[t] \cup {"TIMEOUT"} /\ c.sortLink = d.sortLink
      BY SMT, <1>0, <3>3, <3>4, SetClrEffect
    <3>6. Only(s, c, t)
      BY <1>5, <3>3, <3>5, OnlyTrans
    <3>7. Place(c, t, {})
      BY <3>3, <3>5 DEF SamePlace, Place
    <3> QED BY <1>5, <2>1, <3>3, <3>5, <3>6, <3>7
  <2>2. CASE "PEND" \notin s.status[t]
    <3>1. c = b
      BY <2>2 DEF Has
    <3>2. Place(s, t, {})
      BY <1>0, <1>1, <2>2, UnlinkedIf
    <3> HIDE DEF c
    <3> QED BY <1>5, <2>2, <3>1, <3>2 DEF SamePlace, Place
  <2> QED BY <2>1, <2>2
<1> HIDE DEF c
<1>7. Y \cap {"READY", "RUNNING", "EXIT", "UNUSED", "PEND", "PEND_TIME", "DELAY"} = {}
  BY <1>1, <1>2
<1>8. CASE "SUSPEND" \in s.status[t]
  <2>1. r = c
    BY <1>3, <1>8 DEF Has
  <2>2. c.run # t
    BY <1>1, <1>6 DEF Only, SameGlobals
  <2>3. Local(r, t)
    BY <1>1, <1>6, <1>7, <2>1, <2>2, LocalUnlinked
  <2>4. Core(r)
    BY <1>6, <2>1, <2>3, CoreFromOnly
  <2>5. Expired(s, r, t)
    BY <1>6, <1>8, <2>1 DEF Expired
  <2> QED BY SMT, <1>6, <2>1, <2>4, <2>5, HeadFacts DEF Place, OffLists, r
<1>9. CASE "SUSPEND" \notin s.status[t]
  <2>1. r = OsSchedTaskEnQueue(c, t)
    BY <1>3, <1>9 DEF Has
  <2>2. /\ Core(r) /\ Only(s, r, t) /\ r.status[t] = Readied(c.status[t])
        /\ OffLists(r, t)
    <3>1. Queueable(c.status[t])
      BY <1>6, <1>7 DEF Queueable
    <3> QED BY SMT, <1>1, <1>6, <2>1, <3>1, EnQueueCore
  <2>3. Readied(Y) = Y \cup {"READY"}
    BY <1>7, <1>9 DEF Readied
  <2>4. Expired(s, r, t)
    BY <1>6, <1>9, <2>2, <2>3 DEF Expired
  <2> QED BY <2>2, <2>4 DEF r
<1> QED BY <1>8, <1>9

(* A ready task taken off its queue, any other left alone: the first step  *)
(* of OsSchedSuspend, OsSchedTaskExit and OsSchedModifyTaskSchedParam.     *)
LEMMA DeQueued ==
    ASSUME NEW s, Core(s), NEW t \in Task
    PROVE  LET r == OsSchedTaskDeQueue(s, t)
           IN  /\ Base(r) /\ Only(s, r, t) /\ r.status[t] = s.status[t] \ {"READY"}
               /\ r.priority[t] = s.priority[t] /\ r.sortLink = s.sortLink
               /\ "READY" \in s.status[t] => Place(r, t, {})
               /\ "READY" \notin s.status[t] => r = s
<1>0. Base(s) /\ Local(s, t) /\ s.status[t] \in SUBSET Status
  BY DEF Core, Base, SchedState
<1>1. CASE "READY" \in s.status[t]
  BY SMT, <1>0, <1>1, ReadyPlace, DeQueueEffect
<1>2. CASE "READY" \notin s.status[t]
  <2>1. OsSchedTaskDeQueue(s, t) = s
    BY <1>2, DeQueueIdle
  <2>2. Only(s, s, t)
    BY DEF Only, SameGlobals, SameAt
  <2> QED BY <1>0, <1>2, <2>1, <2>2
<1> QED BY <1>1, <1>2

(* OsSchedSuspend keeps the invariant. *)
LEMMA SuspendCore ==
    ASSUME NEW s, Core(s), NEW t \in Task \ {Idle}, "UNUSED" \notin s.status[t]
    PROVE  LET r == OsSchedSuspend(s, t)
           IN  /\ Core(r) /\ Only(s, r, t)
               /\ r.status[t] = (s.status[t] \ {"READY"}) \cup {"SUSPEND"}
               /\ \A h \in WaitLists \cup {FreeTask, RecycleList} : On(r, t, h) <=> On(s, t, h)
<1> DEFINE a == OsSchedTaskDeQueue(s, t)
           r == OsSchedSuspend(s, t)
<1>0. /\ Base(s) /\ Local(s, t) /\ {"SUSPEND"} \in SUBSET Status
  BY DEF Core, Status
<1>1. /\ Base(a) /\ Only(s, a, t) /\ a.status[t] = s.status[t] \ {"READY"}
      /\ a.priority[t] = s.priority[t] /\ a.sortLink = s.sortLink
      /\ "READY" \in s.status[t] => Place(a, t, {})
      /\ "READY" \notin s.status[t] => a = s
  BY DeQueued
<1>2. r = SetStatus(a, t, {"SUSPEND"})
  BY DEF OsSchedSuspend
<1> HIDE DEF a, r
<1>3. /\ Base(r) /\ Only(a, r, t) /\ SamePlace(a, r, t)
      /\ r.status[t] = a.status[t] \cup {"SUSPEND"}
      /\ r.priority[t] = a.priority[t] /\ r.sortLink = a.sortLink
  BY SMT, <1>0, <1>1, <1>2, SetClrEffect
<1>4. Only(s, r, t) /\ r.run = s.run
  <2>1. Only(s, r, t)
    BY <1>1, <1>3, OnlyTrans
  <2> QED BY <2>1 DEF Only, SameGlobals
<1>5. CASE "READY" \in s.status[t]
  <2>1. Place(r, t, {})
    BY <1>1, <1>3, <1>5 DEF SamePlace, Place
  <2>2. r.status[t] \cap {"READY", "PEND", "PEND_TIME", "DELAY", "RUNNING", "EXIT", "UNUSED"} = {}
    BY <1>0, <1>1, <1>3, <1>5 DEF Local
  <2>3. r.run # t /\ t \notin r.sortLink
    BY <1>0, <1>1, <1>3, <1>4, <1>5 DEF Local
  <2>4. Local(r, t)
    BY <2>1, <2>2, <2>3, LocalUnlinked
  <2>5. \A h \in WaitLists \cup {FreeTask, RecycleList} : ~On(r, t, h) /\ ~On(s, t, h)
    <3>1. On(s, t, PriQueue(s.priority[t])) /\ s.priority[t] \in Prio
      BY <1>0, <1>5, ReadyPlace DEF Base, SchedState
    <3>2. \A h \in WaitLists \cup {FreeTask, RecycleList} : ~On(s, t, h)
      BY SMT, <1>0, <3>1, HeadFacts DEF Base, ListsDisjoint, On
    <3> QED BY <2>1, <3>2, HeadFacts DEF Place
  <2> QED BY <1>1, <1>3, <1>4, <2>4, <2>5, CoreFromOnly DEF r
<1>6. CASE "READY" \notin s.status[t]
  <2>1. SamePlace(s, r, t) /\ r.sortLink = s.sortLink /\ r.priority[t] = s.priority[t]
    BY <1>1, <1>3, <1>6
  <2>2. \A b \in Status : b # "SUSPEND" => (b \in r.status[t] <=> b \in s.status[t])
    BY <1>1, <1>3, <1>6
  <2>3. ~On(s, t, FreeTask) /\ ~On(s, t, RecycleList)
    BY <1>0 DEF Local
  <2>4. Local(r, t)
    <3>1. \A h \in WaitLists : On(r, t, h) <=> On(s, t, h)
      BY <2>1, HeadFacts DEF SamePlace
    <3>2. \A p \in Prio : On(r, t, PriQueue(p)) <=> On(s, t, PriQueue(p))
      BY <2>1, HeadFacts DEF SamePlace
    <3>3. ~On(r, t, FreeTask) /\ ~On(r, t, RecycleList)
      BY <2>1, <2>3, HeadFacts DEF SamePlace
    <3> QED BY <1>0, <1>1, <1>3, <1>4, <1>6, <2>1, <2>3, <3>1, <3>2, <3>3 DEF Local
  <2>5. Core(r)
    BY <1>3, <1>4, <2>4, CoreFromOnly
  <2> QED BY <1>1, <1>3, <1>4, <2>1, <2>5, HeadFacts DEF SamePlace, r
<1> QED BY <1>5, <1>6

(* OsSchedResume of a suspended task that is neither running nor finished. *)
LEMMA ResumeCore ==
    ASSUME NEW s, Core(s), NEW t \in Task, "SUSPEND" \in s.status[t],
           s.status[t] \cap {"UNUSED", "EXIT", "RUNNING"} = {}
    PROVE  LET r == OsSchedResume(s, t)
           IN  /\ Core(r) /\ Only(s, r, t)
               /\ r.status[t] = IF ResumeMakesReady(s, t)
                                THEN (s.status[t] \ {"SUSPEND"}) \cup {"READY"}
                                ELSE s.status[t] \ {"SUSPEND"}
               /\ \A h \in WaitLists \cup {FreeTask, RecycleList} : On(r, t, h) <=> On(s, t, h)
<1> DEFINE a == ClrStatus(s, t, {"SUSPEND"})
           r == OsSchedResume(s, t)
<1>0. /\ Base(s) /\ Local(s, t) /\ {"SUSPEND"} \in SUBSET Status
  BY DEF Core, Status
<1>1. t # Idle /\ s.run # t /\ "READY" \notin s.status[t]
  BY <1>0 DEF Local
<1>2. /\ Base(a) /\ Only(s, a, t) /\ SamePlace(s, a, t)
      /\ a.status[t] = s.status[t] \ {"SUSPEND"}
      /\ a.priority[t] = s.priority[t] /\ a.sortLink = s.sortLink
  BY SMT, <1>0, SetClrEffect
<1>3. r = IF ResumeMakesReady(s, t) THEN OsSchedTaskEnQueue(a, t) ELSE a
  BY DEF OsSchedResume
<1> HIDE DEF a, r
<1>4. CASE ResumeMakesReady(s, t)
  <2>1. s.status[t] \cap {"READY", "PEND", "PEND_TIME", "DELAY", "UNUSED"} = {}
    BY <1>0, <1>1, <1>4 DEF ResumeMakesReady, Has, Local
  <2>2. Place(s, t, {}) /\ t \notin s.sortLink
    BY <1>0, <2>1, UnlinkedIf DEF Local
  <2>3. Place(a, t, {}) /\ t \notin a.sortLink
    BY <1>2, <2>2 DEF SamePlace, Place
  <2>4. Queueable(a.status[t])
    BY <1>2, <2>1 DEF Queueable
  <2>5. /\ Core(r) /\ Only(s, r, t) /\ r.status[t] = Readied(a.status[t])
        /\ OffLists(r, t)
    <3>1. r = OsSchedTaskEnQueue(a, t)
      BY <1>3, <1>4
    <3>2. Core(s) /\ Base(a) /\ t \in Task \ {Idle}
      BY <1>1, <1>2
    <3>3. Only(s, a, t) /\ Place(a, t, {})
      BY <1>2, <2>3
    <3>4. t \notin a.sortLink /\ s.run # t /\ Queueable(a.status[t])
      BY <1>1, <2>3, <2>4
    <3> QED BY SMT, <3>1, <3>2, <3>3, <3>4, EnQueueCore
  <2>6. r.status[t] = (s.status[t] \ {"SUSPEND"}) \cup {"READY"}
    BY <1>2, <2>1, <2>5 DEF Readied
  <2> QED BY <1>4, <2>2, <2>5, <2>6, HeadFacts DEF Place, OffLists, r
<1>5. CASE ~ResumeMakesReady(s, t)
  <2>1. r = a
    BY <1>3, <1>5
  <2>2. a.run = s.run
    BY <1>2 DEF Only, SameGlobals
  <2>3. Local(r, t)
    <3>1. \A h \in WaitLists : On(r, t, h) <=> On(s, t, h)
      BY <1>2, <2>1, HeadFacts DEF SamePlace
    <3>2. \A p \in Prio : On(r, t, PriQueue(p)) <=> On(s, t, PriQueue(p))
      BY <1>2, <2>1, HeadFacts DEF SamePlace
    <3>3. ~On(r, t, FreeTask) /\ ~On(r, t, RecycleList)
      BY <1>0, <1>2, <2>1, HeadFacts DEF SamePlace, Local
    <3> QED BY <1>0, <1>1, <1>2, <2>1, <2>2, <3>1, <3>2, <3>3 DEF Local
  <2>4. Core(r)
    BY <1>2, <2>1, <2>3, CoreFromOnly
  <2> QED BY <1>2, <1>5, <2>1, <2>4, HeadFacts DEF SamePlace, r
<1> QED BY <1>4, <1>5

(* The state s with the priority of t set to p. *)
WithPriority(s, t, p) == [s EXCEPT !.priority[t] = p]

(* A change of priority alone touches no list. *)
LEMMA PriorityEffect ==
    ASSUME NEW s, Base(s), NEW t \in Task, NEW p \in Prio,
           NEW r, r = WithPriority(s, t, p)
    PROVE  /\ Base(r) /\ Only(s, r, t) /\ SamePlace(s, r, t)
           /\ r.status = s.status /\ r.priority[t] = p /\ r.sortLink = s.sortLink
<1>1. r \in SchedState
  BY DEF Base, SchedState, WithPriority
<1>2. /\ r.list = s.list /\ r.bitmap = s.bitmap /\ r.fault = s.fault
      /\ r.status = s.status /\ r.sortLink = s.sortLink /\ r.run = s.run
      /\ r.taskLock = s.taskLock /\ r.sched = s.sched /\ r.switch = s.switch
      /\ r.priority[t] = p /\ \A u \in Task : u # t => r.priority[u] = s.priority[u]
  BY DEF Base, SchedState, WithPriority
<1>3. Base(r)
  BY <1>1, <1>2 DEF Base, ListsDisjoint, BitmapOK, OnList
<1>4. Only(s, r, t)
  BY <1>2 DEF Only, SameGlobals, SameAt, On, OnList
<1>5. SamePlace(s, r, t)
  BY <1>2 DEF SamePlace, On, OnList
<1> QED BY <1>2, <1>3, <1>4, <1>5

(* OsSchedModifyTaskSchedParam keeps the invariant: a ready task moves to  *)
(* the queue of its new priority.                                          *)
LEMMA ModifyCore ==
    ASSUME NEW s, Core(s), NEW t \in Task \ {Idle}, "UNUSED" \notin s.status[t],
           NEW p \in Prio, NEW r, r = OsSchedModifyTaskSchedParam(s, t, p)
    PROVE  /\ Core(r) /\ Only(s, r, t) /\ r.status[t] = s.status[t]
           /\ \A h \in WaitLists \cup {FreeTask, RecycleList} : On(r, t, h) <=> On(s, t, h)
<1>0. Base(s) /\ Local(s, t)
  BY DEF Core
<1>1. CASE "READY" \in s.status[t]
  <2> DEFINE a == OsSchedTaskDeQueue(s, t)
             b == WithPriority(a, t, p)
  <2>1. /\ Base(a) /\ Only(s, a, t) /\ a.status[t] = s.status[t] \ {"READY"}
        /\ a.sortLink = s.sortLink /\ Place(a, t, {})
    BY SMT, <1>1, DeQueued
  <2>2. r = OsSchedTaskEnQueue(b, t)
    BY <1>1 DEF OsSchedModifyTaskSchedParam, Has, WithPriority
  <2> HIDE DEF a
  <2>3. /\ Base(b) /\ Only(a, b, t) /\ SamePlace(a, b, t) /\ b.status = a.status
        /\ b.sortLink = a.sortLink
    BY SMT, <2>1, PriorityEffect
  <2> HIDE DEF b
  <2>4. Only(s, b, t) /\ Place(b, t, {})
    BY <2>1, <2>3, OnlyTrans DEF SamePlace, Place
  <2>5. s.status[t] \cap {"PEND", "SUSPEND", "DELAY", "PEND_TIME",
                          "RUNNING", "EXIT", "UNUSED"} = {}
    BY <1>0, <1>1 DEF Local
  <2>6. Queueable(b.status[t]) /\ Readied(b.status[t]) = s.status[t]
    BY SMT, <1>1, <2>1, <2>3, <2>5 DEF Queueable, Readied
  <2>7. t \notin b.sortLink /\ s.run # t
    BY <1>0, <1>1, <2>1, <2>3, <2>5 DEF Local
  <2>8. Core(r) /\ Only(s, r, t) /\ r.status[t] = Readied(b.status[t]) /\ OffLists(r, t)
    <3>1. Base(b)
      BY <2>3
    <3>2. Queueable(b.status[t])
      BY <2>6
    <3> QED BY SMT, <2>2, <2>4, <2>7, <3>1, <3>2, EnQueueCore
  <2>9. OffLists(s, t)
    <3>1. On(s, t, PriQueue(s.priority[t])) /\ s.priority[t] \in Prio
      BY <1>0, <1>1, ReadyPlace DEF Base, SchedState
    <3> QED BY SMT, <1>0, <3>1, HeadFacts DEF Base, ListsDisjoint, On, OffLists
  <2> QED BY <2>6, <2>8, <2>9 DEF OffLists
<1>2. CASE "READY" \notin s.status[t]
  <2>1. r = WithPriority(s, t, p)
    BY <1>2 DEF OsSchedModifyTaskSchedParam, Has, WithPriority
  <2>2. /\ Base(r) /\ Only(s, r, t) /\ SamePlace(s, r, t) /\ r.status = s.status
        /\ r.sortLink = s.sortLink
    BY SMT, <1>0, <2>1, PriorityEffect
  <2>3. Local(r, t)
    <3>1. \A h \in WaitLists \cup {FreeTask, RecycleList} : On(r, t, h) <=> On(s, t, h)
      BY <2>2, HeadFacts DEF SamePlace
    <3>2. \A q \in Prio : ~On(r, t, PriQueue(q))
      BY <1>0, <1>2, <2>2, HeadFacts DEF SamePlace, Local
    <3>3. r.run = s.run
      BY <2>2 DEF Only, SameGlobals
    <3> QED BY <1>0, <1>2, <2>2, <3>1, <3>2, <3>3 DEF Local
  <2>4. Core(r)
    BY <2>2, <2>3, CoreFromOnly
  <2> QED BY <2>2, <2>4, HeadFacts DEF SamePlace
<1> QED BY <1>1, <1>2

(* OsSchedTaskExit takes the task off whatever list it hangs on and off    *)
(* the sort link.                                                          *)
LEMMA ExitCore ==
    ASSUME NEW s, Core(s), NEW t \in Task \ {Idle},
           "UNUSED" \notin s.status[t], NEW r, r = OsSchedTaskExit(s, t)
    PROVE  /\ Core(r) /\ Only(s, r, t) /\ Place(r, t, {}) /\ t \notin r.sortLink
           /\ r.status[t] = (s.status[t] \ {"READY", "PEND", "DELAY", "PEND_TIME"})
                            \cup {"EXIT"}
<1> DEFINE d == ListDelete(s, t)
           a == IF Has(s, t, {"READY"}) THEN OsSchedTaskDeQueue(s, t)
                ELSE IF Has(s, t, {"PEND"}) THEN ClrStatus(d, t, {"PEND"}) ELSE s
           e == OsDeleteSortLink(a, t)
           b == IF Has(a, t, {"DELAY", "PEND_TIME"})
                THEN ClrStatus(e, t, {"DELAY", "PEND_TIME"}) ELSE a
<1>0. /\ Base(s) /\ Local(s, t) /\ {"PEND"} \in SUBSET Status
      /\ {"DELAY", "PEND_TIME"} \in SUBSET Status /\ {"EXIT"} \in SUBSET Status
  BY DEF Core, Status
<1>1. r = SetStatus(b, t, {"EXIT"})
  BY DEF OsSchedTaskExit
<1>2. /\ Base(a) /\ Only(s, a, t) /\ Place(a, t, {}) /\ a.sortLink = s.sortLink
      /\ a.status[t] = s.status[t] \ {"READY", "PEND"}
  <2>1. CASE "READY" \in s.status[t]
    <3>1. a = OsSchedTaskDeQueue(s, t)
      BY <2>1 DEF Has
    <3>2. "PEND" \notin s.status[t]
      BY <1>0, <2>1 DEF Local
    <3> HIDE DEF a
    <3>3. /\ Base(a) /\ Only(s, a, t) /\ Place(a, t, {}) /\ a.sortLink = s.sortLink
          /\ a.status[t] = s.status[t] \ {"READY"}
      BY <2>1, <3>1, DeQueued
    <3> QED BY <3>2, <3>3
  <2>2. CASE "READY" \notin s.status[t] /\ "PEND" \in s.status[t]
    <3>1. a = ClrStatus(d, t, {"PEND"})
      BY <2>2 DEF Has
    <3>2. \E h \in WaitLists : On(s, t, h)
      BY <1>0, <2>2, PendingPlace
    <3>3. /\ Base(d) /\ Only(s, d, t) /\ Place(d, t, {}) /\ d.status = s.status
          /\ d.sortLink = s.sortLink
      BY <1>0, <3>2, DeleteEffect
    <3> HIDE DEF a, d
    <3>4. /\ Base(a) /\ Only(d, a, t) /\ SamePlace(d, a, t) /\ a.sortLink = d.sortLink
          /\ a.status[t] = d.status[t] \ {"PEND"}
      BY SMTT(20), <1>0, <3>1, <3>3, SetClrEffect
    <3>5. Only(s, a, t) /\ Place(a, t, {})
      <4>1. Only(s, a, t)
        BY <3>3, <3>4, OnlyTrans
      <4> QED BY <3>3, <3>4, <4>1 DEF SamePlace, Place
    <3> QED BY <2>2, <3>3, <3>4, <3>5
  <2>3. CASE "READY" \notin s.status[t] /\ "PEND" \notin s.status[t]
    <3>1. a = s
      BY <2>3 DEF Has
    <3>2. Place(s, t, {})
      BY <1>0, <2>3, UnlinkedIf
    <3>3. Only(s, s, t)
      BY DEF Only, SameGlobals, SameAt
    <3> HIDE DEF a
    <3> QED BY <1>0, <2>3, <3>1, <3>2, <3>3
  <2> QED BY <2>1, <2>2, <2>3
<1> HIDE DEF a
<1>3. /\ Base(b) /\ Only(s, b, t) /\ Place(b, t, {}) /\ t \notin b.sortLink
      /\ b.status[t] = s.status[t] \ {"READY", "PEND", "DELAY", "PEND_TIME"}
  <2>1. CASE Has(a, t, {"DELAY", "PEND_TIME"})
    <3>1. /\ Base(e) /\ Only(a, e, t) /\ SamePlace(a, e, t) /\ e.status = a.status
          /\ t \notin e.sortLink
      BY <1>2, SortLinkEffect
    <3>2. b = ClrStatus(e, t, {"DELAY", "PEND_TIME"})
      BY <2>1
    <3> HIDE DEF b, e
    <3>3. /\ Base(b) /\ Only(e, b, t) /\ SamePlace(e, b, t) /\ b.sortLink = e.sortLink
          /\ b.status[t] = e.status[t] \ {"DELAY", "PEND_TIME"}
      BY SMT, <1>0, <3>1, <3>2, SetClrEffect
    <3>4. Only(s, b, t)
      BY <1>2, <3>1, <3>3, OnlyTrans
    <3>5. Place(b, t, {})
      BY <1>2, <3>1, <3>3 DEF SamePlace, Place
    <3> QED BY <1>2, <3>1, <3>3, <3>4, <3>5
  <2>2. CASE ~Has(a, t, {"DELAY", "PEND_TIME"})
    <3>1. b = a
      BY <2>2
    <3>2. "PEND_TIME" \notin s.status[t] /\ "DELAY" \notin s.status[t]
      BY <2>2, <1>2 DEF Has
    <3>3. t \notin s.sortLink
      BY <3>2, <1>0 DEF Local
    <3> HIDE DEF b
    <3> QED BY <1>2, <3>1, <3>2, <3>3
  <2> QED BY <2>1, <2>2
<1> HIDE DEF b
<1>4. /\ Base(r) /\ Only(b, r, t) /\ SamePlace(b, r, t) /\ r.sortLink = b.sortLink
      /\ r.status[t] = b.status[t] \cup {"EXIT"}
  BY SMTT(20), <1>0, <1>1, <1>3, SetClrEffect
<1>5. Only(s, r, t) /\ Place(r, t, {}) /\ r.run = s.run
  <2>1. Only(s, r, t)
    BY <1>3, <1>4, OnlyTrans
  <2>2. Place(r, t, {})
    BY <1>3, <1>4 DEF SamePlace, Place
  <2> QED BY <2>1, <2>2 DEF Only, SameGlobals
<1>6. "RUNNING" \in s.status[t] <=> s.run = t
  BY <1>0 DEF Local
<1>7. /\ r.status[t] = (s.status[t] \ {"READY", "PEND", "DELAY", "PEND_TIME"}) \cup {"EXIT"}
      /\ t \notin r.sortLink
  BY <1>3, <1>4
<1>8. Local(r, t)
  BY <1>5, <1>6, <1>7, LocalUnlinked
<1> QED BY <1>4, <1>5, <1>7, <1>8, CoreFromOnly

----------------------------------------------------------------------------
(* A running task that waits for nothing is in good order, idle included. *)
LEMMA LocalRunning ==
    ASSUME NEW s, Base(s), NEW t \in Task, Place(s, t, {}), t \notin s.sortLink, s.run = t,
           "RUNNING" \in s.status[t],
           s.status[t] \cap {"READY", "PEND", "SUSPEND", "DELAY", "PEND_TIME",
                             "EXIT", "UNUSED"} = {}
    PROVE  Local(s, t)
<1>1. \A h \in Head_ : ~On(s, t, h)
  BY DEF Place
<1> QED BY <1>1, HeadFacts DEF Local

(* The state s with the status of the shadow TCB set to X. *)
WithShadow(s, X) == [s EXCEPT !.status[Shadow] = X]

(* The shadow TCB hangs on no list. *)
LEMMA ShadowEffect ==
    ASSUME NEW s, Base(s), NEW X \in SUBSET Status, NEW r, r = WithShadow(s, X)
    PROVE  /\ Base(r) /\ r.status[Shadow] = X /\ r.sortLink = s.sortLink
           /\ r.run = s.run /\ r.switch = s.switch
           /\ r.taskLock = s.taskLock /\ r.sched = s.sched
           /\ \A u \in Task : SameAt(s, r, u)
<1>1. /\ r \in SchedState /\ r.list = s.list /\ r.bitmap = s.bitmap /\ r.fault = s.fault
      /\ r.sortLink = s.sortLink /\ r.run = s.run
      /\ r.taskLock = s.taskLock /\ r.sched = s.sched /\ r.switch = s.switch
      /\ r.priority = s.priority /\ r.status[Shadow] = X
      /\ \A u \in Task : u # Shadow => r.status[u] = s.status[u]
  BY DEF WithShadow, Base, SchedState
<1>2. Base(r)
  BY <1>1 DEF Base, ListsDisjoint, BitmapOK, OnList
<1>3. \A u \in Task : SameAt(s, r, u)
  BY <1>1, TaskFacts DEF SameAt, On, OnList
<1> QED BY <1>1, <1>2, <1>3

----------------------------------------------------------------------------
(* What is left of a call that waits on the IPC object o *)
CIpc(o) == <<"ipc", o>>

(* The wait list of an IPC object is no other list of the kernel. *)
LEMMA IpcFacts ==
    /\ \A o \in IpcList : Ipc(o) \in Head_ /\ Ipc(o) \in WaitLists
    /\ \A o, q \in IpcList : Ipc(o) = Ipc(q) => o = q
    /\ \A o \in IpcList : /\ \A p : Ipc(o) # PriQueue(p)
                          /\ \A t : Ipc(o) # JoinList(t)
                          /\ Ipc(o) # FreeTask /\ Ipc(o) # RecycleList
    /\ \A h \in WaitLists : (\E t \in Task : h = JoinList(t)) \/ (\E o \in IpcList : h = Ipc(o))
BY HeadFacts DEF Ipc, PriQueue, JoinList, FreeTask, RecycleList, WaitLists

IsIpc(v) == v[1] = "ipc"

(* Which calls are IPC calls. *)
LEMMA IpcCallFacts ==
    /\ \A o \in IpcList : CIpc(o) \in CallStates /\ CIpc(o) # None /\ IsIpc(CIpc(o))
    /\ \A o, p : CIpc(o) = CIpc(p) => o = p
    /\ \A v \in CallStates : IsIpc(v) => \E o \in IpcList : v = CIpc(o)
    /\ ~IsIpc(None)
BY SMT DEF CIpc, CallStates, None, IsIpc

(* A node that is not on a list cannot be taken off it. *)
LEMMA UnlinkAbsent ==
    ASSUME NEW q \in Seq(Task), NEW t, t \notin Range(q) PROVE Unlink(q, t) = q
<1>1. \A i \in 1 .. Len(q) : q[i] \in Range(q)
  BY SMT DEF Range
<1> QED BY <1>1 DEF Unlink

----------------------------------------------------------------------------
(* All that the invariants speak of but the outstanding switch. *)
SameButSwitch(s, r) ==
    /\ r.status = s.status /\ r.priority = s.priority /\ r.list = s.list
    /\ r.sortLink = s.sortLink /\ r.run = s.run /\ r.sched = s.sched

(* A state with the same status and lists satisfies the invariant too. *)
LEMMA CoreSameBut ==
    ASSUME NEW s, Core(s), NEW r \in SchedState, SameButSwitch(s, r),
           r.bitmap = s.bitmap, r.fault = s.fault
    PROVE  Core(r)
<1>1. Base(r)
  BY DEF Core, Base, ListsDisjoint, BitmapOK, OnList, SameButSwitch
<1>2. ShadowOK(r)
  BY DEF Core, ShadowOK, SameButSwitch
<1>3. ASSUME NEW u \in Task PROVE Local(r, u)
  <2>1. SameAt(s, r, u)
    BY DEF SameButSwitch, SameAt, On, OnList
  <2> QED BY <2>1, LocalFrame DEF Core, SameButSwitch
<1> QED BY <1>1, <1>2, <1>3 DEF Core

(* LOS_Schedule asks for a switch once the scheduler runs unlocked. *)
LEMMA ScheduleCore ==
    ASSUME NEW s, Core(s), NEW r, r = LOS_Schedule(s)
    PROVE  /\ Core(r) /\ SameButSwitch(s, r) /\ r.taskLock = s.taskLock
           /\ r.switch <=> s.switch \/ (s.sched /\ s.taskLock = 0)
<1>0. s \in SchedState
  BY DEF Core, Base
<1>1. /\ r \in SchedState /\ SameButSwitch(s, r) /\ r.taskLock = s.taskLock
      /\ r.bitmap = s.bitmap /\ r.fault = s.fault
      /\ (r.switch <=> s.switch \/ (s.sched /\ s.taskLock = 0))
  BY <1>0 DEF LOS_Schedule, SchedState, SameButSwitch
<1> QED BY <1>1, CoreSameBut

(* LOS_TaskLock and LOS_TaskUnlock touch the lock count only. *)
LEMMA LockCore ==
    ASSUME NEW s, Core(s), NEW n \in Nat, NEW r, r = [s EXCEPT !.taskLock = n]
    PROVE  Core(r) /\ SameButSwitch(s, r) /\ r.taskLock = n /\ r.switch = s.switch
<1>0. s \in SchedState
  BY DEF Core, Base
<1>1. /\ r \in SchedState /\ SameButSwitch(s, r) /\ r.taskLock = n
      /\ r.bitmap = s.bitmap /\ r.fault = s.fault /\ r.switch = s.switch
  BY <1>0 DEF SchedState, SameButSwitch
<1> QED BY <1>1, CoreSameBut

(* OsSchedYield and OsTimeSliceUpdate touch slices only. *)
LEMMA SliceCore ==
    ASSUME NEW s, Core(s), NEW spent \in BOOLEAN, NEW r,
           r = OsTimeSliceUpdate(s, spent) \/ (s.run \in Task /\ r = OsSchedYield(s))
    PROVE  Core(r) /\ SameButSwitch(s, r) /\ r.taskLock = s.taskLock /\ r.switch = s.switch
<1>0. s \in SchedState
  BY DEF Core, Base
<1>1. r = s \/ (s.run \in Task /\ r = [s EXCEPT !.slice[s.run] = FALSE])
  BY DEF OsTimeSliceUpdate, OsSchedYield
<1>2. /\ r \in SchedState /\ SameButSwitch(s, r) /\ r.taskLock = s.taskLock
      /\ r.bitmap = s.bitmap /\ r.fault = s.fault /\ r.switch = s.switch
  <2>1. CASE r = s
    BY <1>0, <2>1 DEF SameButSwitch
  <2>2. CASE s.run \in Task /\ r = [s EXCEPT !.slice[s.run] = FALSE]
    BY <1>0, <2>2 DEF SchedState, SameButSwitch
  <2> QED BY <1>1, <2>1, <2>2
<1> QED BY <1>2, CoreSameBut

(* The running task waits for nothing and has not finished. *)
RunsFreely(s) ==
    /\ s.run \in Task \ {Idle}
    /\ s.status[s.run] \cap Waits = {}

(* What else is known of a task that runs freely. *)
LEMMA RunsFreelyFacts ==
    ASSUME NEW s, Core(s), RunsFreely(s)
    PROVE  /\ Base(s) /\ Local(s, s.run) /\ Place(s, s.run, {}) /\ ~Linked(s, s.run)
           /\ s.run \notin s.sortLink /\ "RUNNING" \in s.status[s.run]
           /\ s.status[s.run] \cap {"READY", "UNUSED", "PEND", "SUSPEND", "DELAY",
                                    "PEND_TIME", "EXIT"} = {}
<1>1. Base(s) /\ Local(s, s.run) /\ s.run \in Task
  BY DEF Core, RunsFreely
<1>2. /\ s.run \notin s.sortLink /\ "RUNNING" \in s.status[s.run]
      /\ "UNUSED" \notin s.status[s.run] /\ "READY" \notin s.status[s.run]
  BY <1>1 DEF Local
<1>3. s.status[s.run] \cap {"READY", "UNUSED", "PEND", "SUSPEND", "DELAY",
                            "PEND_TIME", "EXIT"} = {}
  BY <1>2 DEF RunsFreely, Waits
<1>4. s.status[s.run] \cap {"READY", "PEND", "UNUSED"} = {}
  BY <1>3
<1> QED BY <1>1, <1>2, <1>3, <1>4, UnlinkedIf

(* OsSchedDelay of a task that runs freely. *)
LEMMA DelayCore ==
    ASSUME NEW s, Core(s), RunsFreely(s), NEW t, t = s.run, NEW r, r = OsSchedDelay(s)
    PROVE  /\ Core(r) /\ Only(s, r, t) /\ Place(s, t, {}) /\ Place(r, t, {})
           /\ r.status[t] = s.status[t] \cup {"DELAY"}
<1>0. /\ Base(s) /\ Local(s, t) /\ Place(s, t, {}) /\ t \notin s.sortLink
      /\ "RUNNING" \in s.status[t] /\ t \in Task \ {Idle}
      /\ s.status[t] \cap {"READY", "UNUSED", "PEND", "SUSPEND", "DELAY",
                           "PEND_TIME", "EXIT"} = {}
  BY RunsFreelyFacts DEF RunsFreely
<1>1. r = SetStatus(s, t, {"DELAY"}) /\ {"DELAY"} \in SUBSET Status
  BY DEF OsSchedDelay, Status
<1>2. /\ Base(r) /\ Only(s, r, t) /\ SamePlace(s, r, t)
      /\ r.status[t] = s.status[t] \cup {"DELAY"} /\ r.sortLink = s.sortLink
  <2>1. Base(s) /\ t \in Task
    BY <1>0
  <2> QED BY SMT, <1>1, <2>1, SetClrEffect
<1>3. Place(r, t, {}) /\ r.run = t
  BY <1>0, <1>2 DEF SamePlace, Place, Only, SameGlobals
<1>4. Local(r, t)
  BY <1>0, <1>2, <1>3, LocalUnlinked
<1>5. Core(r)
  BY <1>0, <1>2, <1>4, CoreFromOnly
<1> QED BY <1>0, <1>2, <1>3, <1>5

(* OsSchedTaskWait of a task that runs freely. *)
LEMMA WaitCore ==
    ASSUME NEW s, Core(s), RunsFreely(s), NEW t, t = s.run, NEW h \in WaitLists,
           NEW forever \in BOOLEAN, NEW r, r = OsSchedTaskWait(s, h, forever)
    PROVE  /\ Core(r) /\ Only(s, r, t) /\ Place(s, t, {}) /\ Place(r, t, {h})
           /\ r.status[t] = s.status[t] \cup
                               (IF forever THEN {"PEND"} ELSE {"PEND", "PEND_TIME"})
<1> DEFINE a == ListTailInsert(s, h, t)
           X == IF forever THEN {"PEND"} ELSE {"PEND", "PEND_TIME"}
<1>0. /\ Base(s) /\ Local(s, t) /\ Place(s, t, {}) /\ t \notin s.sortLink
      /\ "RUNNING" \in s.status[t] /\ t \in Task \ {Idle} /\ ~Linked(s, t)
      /\ s.status[t] \cap {"READY", "UNUSED", "PEND", "SUSPEND", "DELAY",
                           "PEND_TIME", "EXIT"} = {}
  BY RunsFreelyFacts DEF RunsFreely
<1>1. r = SetStatus(a, t, X) /\ X \in SUBSET Status /\ "PEND" \in X
  BY DEF OsSchedTaskWait, Status
<1>2. /\ Base(a) /\ Only(s, a, t) /\ Place(a, t, {h})
      /\ a.status = s.status /\ a.sortLink = s.sortLink
  BY SMT, <1>0, AddEffect
<1> HIDE DEF a
<1>3. /\ Base(r) /\ Only(a, r, t) /\ SamePlace(a, r, t)
      /\ r.status[t] = a.status[t] \cup X /\ r.sortLink = a.sortLink
  <2>1. Base(a) /\ t \in Task
    BY <1>0, <1>2
  <2> HIDE DEF X
  <2> QED BY SMT, <1>1, <2>1, SetClrEffect
<1>4. Only(s, r, t)
  BY <1>2, <1>3, OnlyTrans
<1>5. Place(r, t, {h}) /\ r.run = t
  BY <1>2, <1>3, <1>4 DEF SamePlace, Place, Only, SameGlobals
<1>6. Local(r, t)
  <2>1. /\ \A p \in Prio : ~On(r, t, PriQueue(p))
        /\ ~On(r, t, FreeTask) /\ ~On(r, t, RecycleList)
        /\ \E g \in WaitLists : On(r, t, g)
    BY SMT, <1>5, HeadFacts DEF Place
  <2>2. r.status[t] = s.status[t] \cup X /\ t \notin r.sortLink
    BY <1>0, <1>2, <1>3
  <2> QED BY <1>0, <1>1, <1>5, <2>1, <2>2 DEF Local
<1>7. Core(r)
  BY <1>0, <1>3, <1>4, <1>6, CoreFromOnly
<1> QED BY <1>0, <1>2, <1>3, <1>4, <1>5, <1>7

(* OsInsertTCBToFreeList of a TCB that hangs nowhere and nobody uses       *)
(* restores the invariant of the state z from which only t was touched.    *)
LEMMA InsertFreeCore ==
    ASSUME NEW z, Core(z), NEW s, Base(s), NEW t \in Task \ {Idle}, Only(z, s, t),
           Place(s, t, {}), t \notin s.sortLink, s.run # t, Unjoined(s, t),
           NEW r, r = OsInsertTCBToFreeList(s, t)
    PROVE  Freed(z, r, t)
<1> DEFINE a == [s EXCEPT !.status[t] = {"UNUSED"}, !.priority[t] = 0,
                      !.slice[t] = FALSE,
                      !.fault = @ \/ t \in s.sortLink \/ s.list[JoinList(t)] # <<>>]
<1>0. s \in SchedState /\ ~s.fault /\ s.list[JoinList(t)] = <<>> /\ 0 \in Prio
  BY SMT, UnjoinedEmpty, SchedConstants DEF Base, Prio
<1>1. /\ a \in SchedState /\ a.list = s.list /\ a.bitmap = s.bitmap /\ ~a.fault
      /\ a.sortLink = s.sortLink /\ a.run = s.run
      /\ a.taskLock = s.taskLock /\ a.sched = s.sched /\ a.switch = s.switch
      /\ a.status[t] = {"UNUSED"}
      /\ \A u \in Task \cup {Shadow} : u # t => a.status[u] = s.status[u]
      /\ \A u \in Task : u # t => a.priority[u] = s.priority[u]
  BY <1>0 DEF SchedState, Status
<1>2. r = ListAdd(a, FreeTask, t)
  BY DEF OsInsertTCBToFreeList
<1> HIDE DEF a
<1>3. Base(a)
  BY <1>1 DEF Base, ListsDisjoint, BitmapOK, OnList
<1>4. Only(s, a, t)
  BY <1>1, TaskFacts DEF Only, SameGlobals, SameAt, On, OnList
<1>5. ~Linked(a, t)
  BY <1>1 DEF Place, Linked, On, OnList
<1>6. /\ Base(r) /\ Only(a, r, t) /\ Place(r, t, {FreeTask})
      /\ r.status = a.status /\ r.sortLink = a.sortLink
  BY SMT, <1>2, <1>3, <1>5, AddEffect
<1>7. Only(z, r, t)
  BY <1>4, <1>6, OnlyTrans
<1>8. r.run # t /\ r.status[t] = {"UNUSED"} /\ t \notin r.sortLink
  BY <1>1, <1>6 DEF Only, SameGlobals
<1>9. Local(r, t)
  <2>1. /\ \A p \in Prio : ~On(r, t, PriQueue(p))
        /\ ~On(r, t, RecycleList) /\ \A h \in WaitLists : ~On(r, t, h)
    BY SMT, <1>6, HeadFacts DEF Place
  <2> QED BY <1>8, <2>1 DEF Local
<1>10. Core(r)
  BY <1>6, <1>7, <1>9, CoreFromOnly
<1> QED BY <1>6, <1>7, <1>8, <1>10 DEF Freed

(* OsRecycleTaskResources of a TCB that hangs nowhere: a joinable one is   *)
(* kept for its joiner, any other goes to the free list.                   *)
LEMMA RecycleCore ==
    ASSUME NEW z, Core(z), NEW s, Base(s), NEW t \in Task \ {Idle}, Only(z, s, t),
           Place(s, t, {}), t \notin s.sortLink, s.run # t,
           "JOINABLE" \notin s.status[t], Unjoined(s, t),
           NEW r, r = OsRecycleTaskResources(s, t)
    PROVE  Freed(z, r, t)
<1> DEFINE a == ClrStatus(s, t, {"STACK_FREE"})
<1>0. {"STACK_FREE"} \in SUBSET Status
  BY DEF Status
<1>1. /\ Base(a) /\ Only(s, a, t) /\ SamePlace(s, a, t) /\ a.sortLink = s.sortLink
  BY SMT, <1>0, SetClrEffect
<1>2. r = OsInsertTCBToFreeList(a, t)
  BY DEF OsRecycleTaskResources, Has
<1> HIDE DEF a
<1>3. Only(z, a, t) /\ Place(a, t, {}) /\ a.run # t
  BY SMT, <1>1, OnlyTrans DEF SamePlace, Place, Only, SameGlobals
<1>4. Unjoined(a, t)
  <2>1. JoinList(t) \in Head_
    BY HeadFacts
  <2>2. \A u \in Task : On(a, u, JoinList(t)) <=> On(s, u, JoinList(t))
    BY SMT, <1>1, <2>1 DEF Only, SameAt, SamePlace
  <2> QED BY <2>2 DEF Unjoined
<1>5. Base(a) /\ t \notin a.sortLink
  BY <1>1
<1> QED BY <1>2, <1>3, <1>4, <1>5, InsertFreeCore

(* A joinable TCB is kept: only the mark of its stack goes. *)
LEMMA RecycleKeeps ==
    ASSUME NEW s, Core(s), NEW t \in Task \ {Idle}, "JOINABLE" \in s.status[t],
           NEW r, r = OsRecycleTaskResources(s, t)
    PROVE  /\ Core(r) /\ Only(s, r, t) /\ SamePlace(s, r, t)
           /\ r.status[t] = s.status[t] \ {"STACK_FREE"}
<1>0. {"STACK_FREE"} \in SUBSET Status /\ Base(s) /\ Local(s, t)
  BY DEF Status, Core
<1>1. r = ClrStatus(s, t, {"STACK_FREE"})
  BY DEF OsRecycleTaskResources, Has
<1>2. /\ Base(r) /\ Only(s, r, t) /\ SamePlace(s, r, t) /\ r.sortLink = s.sortLink
      /\ r.status[t] = s.status[t] \ {"STACK_FREE"} /\ r.priority[t] = s.priority[t]
  BY SMT, <1>0, <1>1, SetClrEffect
<1>3. Local(r, t)
  <2>1. /\ \A h \in WaitLists \cup {FreeTask, RecycleList} : On(r, t, h) <=> On(s, t, h)
        /\ \A p \in Prio : On(r, t, PriQueue(p)) <=> On(s, t, PriQueue(p))
    BY <1>2, HeadFacts DEF SamePlace
  <2>2. ~On(s, t, FreeTask)
    BY SMT, <1>0 DEF Local
  <2>3. r.run = s.run
    BY <1>2 DEF Only, SameGlobals
  <2> QED BY <1>0, <1>2, <2>1, <2>2, <2>3 DEF Local
<1> QED BY <1>2, <1>3, CoreFromOnly

(* OsNewTaskInit of a TCB taken from the free list. *)
LEMMA NewTaskCore ==
    ASSUME NEW s, Core(s), NEW t \in Task, s.status[t] = {"UNUSED"}, ~Linked(s, t),
           NEW p \in Prio, NEW attr \in SUBSET {"JOINABLE", "STACK_FREE"},
           NEW r, r = OsNewTaskInit(s, t, p, attr)
    PROVE  /\ Core(r) /\ Only(s, r, t) /\ SamePlace(s, r, t)
           /\ r.status[t] = {"SUSPEND"} \cup attr
<1>0. Base(s) /\ Local(s, t) /\ s \in SchedState
  BY DEF Core, Base
<1>1. t # Idle /\ t \notin s.sortLink /\ s.run # t /\ Place(s, t, {})
  BY <1>0 DEF Local, Linked, Place, On
<1>2. /\ r \in SchedState /\ r.list = s.list /\ r.bitmap = s.bitmap /\ r.fault = s.fault
      /\ r.sortLink = s.sortLink /\ r.run = s.run
      /\ r.taskLock = s.taskLock /\ r.sched = s.sched /\ r.switch = s.switch
      /\ r.status[t] = {"SUSPEND"} \cup attr
      /\ \A u \in Task \cup {Shadow} : u # t => r.status[u] = s.status[u]
      /\ \A u \in Task : u # t => r.priority[u] = s.priority[u]
  BY <1>0 DEF OsNewTaskInit, SchedState, Status
<1>3. Base(r)
  BY <1>0, <1>2 DEF Base, ListsDisjoint, BitmapOK, OnList
<1>4. Only(s, r, t)
  BY <1>2, TaskFacts DEF Only, SameGlobals, SameAt, On, OnList
<1>5. SamePlace(s, r, t)
  BY <1>2 DEF SamePlace, On, OnList
<1>6. Local(r, t)
  <2>1. Place(r, t, {})
    BY <1>1, <1>5 DEF SamePlace, Place
  <2> QED BY SMT, <1>1, <1>2, <2>1, LocalUnlinked
<1> QED BY <1>2, <1>3, <1>4, <1>5, <1>6, CoreFromOnly

(* The running task t is on the recycle list and runTask is the shadow. *)
Retired(s, r, t) ==
    /\ Core(r) /\ r.run = Shadow /\ Place(r, t, {RecycleList})
    /\ r.taskLock = s.taskLock /\ r.sched = s.sched /\ r.switch = s.switch
    /\ r.status[t] = s.status[t] \cup {"UNUSED"}
    /\ \A u \in Task : u # t => SameAt(s, r, u)

(* OsRunningTaskDelete: the TCB of the finished running task goes to the   *)
(* recycle list and runTask becomes the shadow TCB.                        *)
LEMMA RunningDeleteCore ==
    ASSUME NEW s, Core(s), NEW t \in Task \ {Idle}, s.run = t, Place(s, t, {}),
           t \notin s.sortLink, "JOINABLE" \notin s.status[t], "EXIT" \in s.status[t],
           "PEND" \notin s.status[t], "DELAY" \notin s.status[t],
           "PEND_TIME" \notin s.status[t],
           NEW r, r = OsRunningTaskDelete(SetStatus(s, t, {"UNUSED"}), t)
    PROVE  Retired(s, r, t)
<1> DEFINE a == SetStatus(s, t, {"UNUSED"})
           b == ListTailInsert(a, RecycleList, t)
           X == a.status[t] \cup {"RUNNING"}
<1>0. /\ Base(s) /\ Local(s, t) /\ {"UNUSED"} \in SUBSET Status
      /\ s.status[t] \in SUBSET Status /\ "RUNNING" \in Status
  BY DEF Core, Base, SchedState, Status
<1>1. /\ Base(a) /\ Only(s, a, t) /\ SamePlace(s, a, t) /\ a.sortLink = s.sortLink
      /\ a.status[t] = s.status[t] \cup {"UNUSED"}
  BY SMT, <1>0, SetClrEffect
<1>2. r = [b EXCEPT !.run = Shadow, !.status[Shadow] = X]
  BY DEF OsRunningTaskDelete
<1> HIDE DEF a
<1>3. ~Linked(a, t)
  BY <1>1 DEF Place, SamePlace, Linked, On
<1>4. /\ Base(b) /\ Only(a, b, t) /\ Place(b, t, {RecycleList})
      /\ b.status = a.status /\ b.sortLink = a.sortLink
  BY SMT, <1>1, <1>3, AddEffect
<1>5. X \in SUBSET Status
  BY <1>0, <1>1
<1> HIDE DEF b, X
<1> DEFINE d == [b EXCEPT !.run = Shadow]
<1>6. /\ r.run = Shadow /\ r.status[Shadow] = X /\ r.sortLink = b.sortLink
      /\ r.taskLock = b.taskLock /\ r.sched = b.sched /\ r.switch = b.switch
      /\ Base(r) /\ \A u \in Task : SameAt(b, r, u)
  <2>1. /\ d \in SchedState /\ d.list = b.list /\ d.bitmap = b.bitmap /\ d.fault = b.fault
        /\ d.sortLink = b.sortLink /\ d.run = Shadow /\ d.status = b.status
        /\ d.taskLock = b.taskLock /\ d.sched = b.sched /\ d.switch = b.switch
        /\ d.priority = b.priority
    BY <1>4 DEF Base, SchedState
  <2>2. Base(d) /\ \A u \in Task : SameAt(b, d, u)
    BY <1>4, <2>1 DEF Base, ListsDisjoint, BitmapOK, OnList, SameAt, On
  <2>3. r = WithShadow(d, X)
    <3>1. b \in SchedState
      BY <1>4 DEF Base
    <3> QED BY <1>2, <3>1 DEF WithShadow, SchedState
  <2> HIDE DEF d
  <2>4. /\ Base(r) /\ r.status[Shadow] = X /\ r.sortLink = d.sortLink
        /\ r.run = d.run /\ r.switch = d.switch
        /\ r.taskLock = d.taskLock /\ r.sched = d.sched
        /\ \A u \in Task : SameAt(d, r, u)
    BY <1>5, <2>2, <2>3, ShadowEffect
  <2> QED BY SMTT(60), <2>1, <2>2, <2>4 DEF SameAt
<1>7. Base(r)
  BY <1>6
<1>8. \A u \in Task : SameAt(b, r, u)
  BY <1>6
<1>9. /\ r.status[t] = s.status[t] \cup {"UNUSED"} /\ Place(r, t, {RecycleList})
      /\ t \notin r.sortLink
  BY SMT, <1>1, <1>4, <1>8 DEF SameAt, Place
<1>10. \A u \in Task : u # t => SameAt(s, r, u)
  BY SMTT(20), <1>1, <1>4, <1>8 DEF Only, SameAt
<1>11. Local(r, t)
  <2>1. /\ \A p \in Prio : ~On(r, t, PriQueue(p))
        /\ ~On(r, t, FreeTask) /\ \A h \in WaitLists : ~On(r, t, h)
        /\ On(r, t, RecycleList)
    BY <1>9, HeadFacts DEF Place
  <2>2. "READY" \notin s.status[t]
    BY <1>0 DEF Local
  <2> QED BY <1>6, <1>9, <2>1, <2>2, TaskFacts DEF Local
<1>12. ShadowOK(r)
  <2>1. "READY" \notin s.status[t]
    BY <1>0 DEF Local
  <2> QED BY SMT, <1>1, <1>6, <2>1 DEF ShadowOK, X
<1>13. ASSUME NEW u \in Task, u # t PROVE Local(r, u)
  BY <1>6, <1>10, <1>13, LocalFrame, TaskFacts DEF Core
<1>14. Core(r)
  BY <1>7, <1>11, <1>12, <1>13 DEF Core
<1>15. r.taskLock = s.taskLock /\ r.sched = s.sched /\ r.switch = s.switch
  BY <1>1, <1>4, <1>6 DEF Only, SameGlobals
<1> QED BY <1>6, <1>9, <1>10, <1>14, <1>15 DEF Retired

(* A round of OsRecycleFinishedTask frees the first TCB of the list. *)
LEMMA RecycleFirstCore ==
    ASSUME NEW s, Core(s), s.list[RecycleList] # <<>>, NEW t, t = Head(s.list[RecycleList]),
           Unjoined(s, t), NEW r, r = RecycleFirst(s)
    PROVE  t \in Task \ {Idle} /\ On(s, t, RecycleList) /\ Freed(s, r, t)
<1> DEFINE a == ListDelete(s, t)
<1>0. Base(s) /\ s \in SchedState /\ s.list[RecycleList] \in Seq(Task)
  BY HeadFacts DEF Core, Base, SchedState
<1>1. t \in Task /\ On(s, t, RecycleList)
  BY <1>0, HeadProps DEF On, OnList
<1>2. t # Idle
  BY <1>0, <1>1, HeadFacts DEF Base, ListsDisjoint, On
<1>3. Local(s, t)
  BY <1>1 DEF Core
<1>4. "UNUSED" \in s.status[t] /\ "JOINABLE" \notin s.status[t]
  BY <1>1, <1>3 DEF Local
<1>5. s.run # t /\ t \notin s.sortLink
  BY <1>3, <1>4 DEF Local
<1>6. /\ Base(a) /\ Only(s, a, t) /\ Place(a, t, {}) /\ a.status = s.status
      /\ a.sortLink = s.sortLink
  BY <1>0, <1>1, DeleteEffect
<1>7. r = OsRecycleTaskResources(a, t)
  BY DEF RecycleFirst
<1> HIDE DEF a
<1>8. Unjoined(a, t)
  <2>1. JoinList(t) \in Head_
    BY <1>1, HeadFacts
  <2>2. \A u \in Task : On(a, u, JoinList(t)) => On(s, u, JoinList(t))
    BY <1>6, <2>1 DEF Only, SameAt, Place
  <2> QED BY <2>2 DEF Unjoined
<1>9. a.run # t /\ "JOINABLE" \notin a.status[t] /\ t \notin a.sortLink
  BY <1>4, <1>5, <1>6 DEF Only, SameGlobals
<1>10. Base(a) /\ Only(s, a, t) /\ Place(a, t, {}) /\ t \in Task \ {Idle}
  BY <1>1, <1>2, <1>6
<1>11. Freed(s, r, t)
  BY <1>7, <1>8, <1>9, <1>10, RecycleCore
<1> QED BY <1>1, <1>2, <1>11

(* A joiner has been woken, or there was none. *)
Posted(s, r, t) ==
    /\ Core(r) /\ Unjoined(r, t) /\ SameGlobals(s, r)
    /\ \A u \in Task :
          \/ SameAt(s, r, u) /\ ~On(s, u, JoinList(t))
          \/ On(s, u, JoinList(t)) /\ Woken(s, r, u) /\ OffLists(r, u)

(* OsTaskJoinPostUnsafe wakes the only task that waits for t, if any. *)
LEMMA JoinPostCore ==
    ASSUME NEW s, Core(s), NEW t \in Task,
           \A u, v \in Task : On(s, u, JoinList(t)) /\ On(s, v, JoinList(t)) => u = v,
           "JOINABLE" \notin s.status[t] => Unjoined(s, t),
           NEW r, r = OsTaskJoinPostUnsafe(s, t)
    PROVE  Posted(s, r, t)
<1>0. /\ s \in SchedState /\ JoinList(t) \in Head_ /\ JoinList(t) \in WaitLists
      /\ s.list[JoinList(t)] \in Seq(Task)
  BY HeadFacts DEF Core, Base, SchedState
<1>1. CASE Unjoined(s, t)
  <2>1. s.list[JoinList(t)] = <<>>
    BY <1>0, <1>1, UnjoinedEmpty
  <2>2. r = s
    BY <2>1 DEF OsTaskJoinPostUnsafe
  <2>3. \A u \in Task : SameAt(s, s, u)
    BY DEF SameAt
  <2>4. SameGlobals(s, s)
    BY DEF SameGlobals
  <2> QED BY <1>1, <2>2, <2>3, <2>4 DEF Posted, Unjoined
<1>2. CASE ~Unjoined(s, t)
  <2> DEFINE j == Head(s.list[JoinList(t)])
  <2>1. s.list[JoinList(t)] # <<>> /\ "JOINABLE" \in s.status[t]
    BY <1>0, <1>2, UnjoinedEmpty
  <2>2. r = OsSchedTaskWake(s, j)
    BY <2>1 DEF OsTaskJoinPostUnsafe, Has
  <2>3. j \in Task /\ On(s, j, JoinList(t))
    BY <1>0, <2>1, HeadProps DEF On, OnList
  <2> HIDE DEF j
  <2>4. "PEND" \in s.status[j]
    <3>1. j # Idle
      BY <1>0, <2>3 DEF Core, Base, ListsDisjoint, On
    <3>2. Local(s, j)
      BY <2>3 DEF Core
    <3> QED BY <1>0, <2>3, <3>1, <3>2 DEF Local
  <2>5. Core(r) /\ Only(s, r, j) /\ Woken(s, r, j) /\ OffLists(r, j)
    BY <2>2, <2>3, <2>4, WakeCore
  <2>6. \A u \in Task : u # j => SameAt(s, r, u) /\ ~On(s, u, JoinList(t))
    BY <2>3, <2>5 DEF Only
  <2>7. Unjoined(r, t)
    BY <1>0, <2>5, <2>6 DEF Unjoined, SameAt, OffLists
  <2>8. SameGlobals(s, r)
    BY <2>5 DEF Only
  <2> QED BY <2>3, <2>5, <2>6, <2>7, <2>8 DEF Posted
<1> QED BY <1>1, <1>2

----------------------------------------------------------------------------
(* LOS_TaskDelete keeps the scheduler consistent. *)
LEMMA DeleteCore ==
    ASSUME NEW s, Core(s), NEW t \in Task \ {Idle},
           "UNUSED" \notin s.status[t], "EXIT" \notin s.status[t],
           ~On(s, t, JoinList(t)), s.run = t => s.sched,
           \A u, v \in Task : On(s, u, JoinList(t)) /\ On(s, v, JoinList(t)) => u = v,
           "JOINABLE" \notin s.status[t] => Unjoined(s, t),
           NEW r, r = LOS_TaskDelete(s, t)
    PROVE  Gone(s, r, t)
<1> DEFINE a == IF Has(s, t, {"RUNNING"}) THEN [s EXCEPT !.taskLock = 0] ELSE s
           p == OsTaskJoinPostUnsafe(a, t)
           b == OsSchedTaskExit(p, t)
           d == OsRunningTaskDelete(SetStatus(b, t, {"UNUSED"}), t)
           e == IF Has(b, t, {"JOINABLE"}) THEN b ELSE d
<1>0. Local(s, t) /\ Base(s) /\ t \in Task
  BY DEF Core
<1>1. "RUNNING" \in s.status[t] <=> s.run = t
  BY <1>0 DEF Local
<1>2. /\ Core(a) /\ SameButSwitch(s, a) /\ a.switch = s.switch
      /\ a.taskLock = IF s.run = t THEN 0 ELSE s.taskLock
  <2>1. CASE s.run = t
    <3>1. a = [s EXCEPT !.taskLock = 0]
      BY <1>1, <2>1 DEF Has
    <3> HIDE DEF a
    <3> QED BY SMT, <2>1, <3>1, LockCore
  <2>2. CASE s.run # t
    <3>1. a = s
      BY <1>1, <2>2 DEF Has
    <3> QED BY <2>2, <3>1 DEF SameButSwitch
  <2> QED BY <2>1, <2>2
<1> HIDE DEF a
<1>3. \A u \in Task : SameAt(s, a, u)
  BY <1>2 DEF SameButSwitch, SameAt, On, OnList
<1>4. \A u \in Task : On(a, u, JoinList(t)) <=> On(s, u, JoinList(t))
  BY <1>0, <1>3, HeadFacts DEF SameAt
<1>5. a.status = s.status /\ a.run = s.run /\ a.sched = s.sched
  BY <1>2 DEF SameButSwitch
<1>6. Posted(a, p, t)
  <2>1. \A u, v \in Task : On(a, u, JoinList(t)) /\ On(a, v, JoinList(t)) => u = v
    BY <1>4
  <2>2. "JOINABLE" \notin a.status[t] => Unjoined(a, t)
    BY <1>4, <1>5 DEF Unjoined
  <2> QED BY <1>0, <1>2, <2>1, <2>2, JoinPostCore
<1> HIDE DEF p
<1>7. /\ Core(p) /\ Unjoined(p, t) /\ SameGlobals(a, p) /\ SameAt(a, p, t)
      /\ p.status[t] = s.status[t]
  BY <1>0, <1>4, <1>5, <1>6 DEF Posted, SameAt
<1>8. \A u \in Task : GoneJoiner(s, p, t, u)
  <2> SUFFICES ASSUME NEW u \in Task PROVE GoneJoiner(s, p, t, u)
    OBVIOUS
  <2>1. CASE SameAt(a, p, u) /\ ~On(a, u, JoinList(t))
    BY <1>3, <1>4, <2>1 DEF SameAt, GoneJoiner
  <2>2. CASE On(a, u, JoinList(t)) /\ Woken(a, p, u) /\ OffLists(p, u)
    BY <1>4, <1>5, <2>2 DEF Woken, GoneJoiner
  <2> QED BY <1>6, <2>1, <2>2 DEF Posted
<1>9. /\ Core(b) /\ Only(p, b, t) /\ Place(b, t, {}) /\ t \notin b.sortLink
      /\ b.status[t] = (p.status[t] \ {"READY", "PEND", "DELAY", "PEND_TIME"}) \cup {"EXIT"}
  BY SMTT(20), <1>7, ExitCore
<1>10. Base(b)
  BY <1>9 DEF Core
<1> HIDE DEF b
<1>11. /\ "EXIT" \in b.status[t] /\ "UNUSED" \notin b.status[t]
       /\ "JOINABLE" \in b.status[t] <=> "JOINABLE" \in s.status[t]
       /\ "RUNNING" \in b.status[t] <=> s.run = t
       /\ "PEND_TIME" \notin b.status[t]
       /\ "PEND" \notin b.status[t] /\ "DELAY" \notin b.status[t]
  BY <1>1, <1>7, <1>9
<1>12. b.run = s.run /\ b.sched = s.sched /\ b.switch = s.switch /\ b.taskLock = a.taskLock
  BY <1>2, <1>5, <1>7, <1>9 DEF Only, SameGlobals
<1>13. \A u \in Task : u # t => SameAt(p, b, u)
  BY <1>9 DEF Only
<1>14. ASSUME NEW x, \A u \in Task : u # t => SameAt(b, x, u)
       PROVE  \A u \in Task : u # t => GoneJoiner(s, x, t, u)
  <2> SUFFICES ASSUME NEW u \in Task, u # t PROVE GoneJoiner(s, x, t, u)
    OBVIOUS
  <2>1. SameAt(p, x, u)
    BY <1>13, <1>14 DEF SameAt
  <2>2. OffLists(p, u) => OffLists(x, u)
    BY <2>1, HeadFacts DEF SameAt, OffLists
  <2> QED BY <1>8, <2>1, <2>2 DEF GoneJoiner, SameAt, Woken
<1>15. CASE s.run # t
  <2>1. r = OsRecycleTaskResources(b, t)
    BY <1>11, <1>15 DEF LOS_TaskDelete, Has, a, p, b
  <2>2. CASE "JOINABLE" \in s.status[t]
    <3>1. /\ Core(r) /\ Only(b, r, t) /\ SamePlace(b, r, t)
          /\ r.status[t] = b.status[t] \ {"STACK_FREE"}
      BY SMTT(60), <1>9, <1>11, <2>1, <2>2, RecycleKeeps
    <3>2. GoneSelf(s, r, t)
      BY <1>9, <1>11, <2>2, <3>1 DEF GoneSelf, Place, SamePlace
    <3>3. GoneRun(s, r, t) /\ r.sched = s.sched
      BY <1>2, <1>12, <1>15, <3>1 DEF GoneRun, Only, SameGlobals
    <3> QED BY <1>14, <3>1, <3>2, <3>3 DEF Gone, Only
  <2>3. CASE "JOINABLE" \notin s.status[t]
    <3>1. Unjoined(b, t)
      <4>1. JoinList(t) \in Head_
        BY <1>0, HeadFacts
      <4> QED BY <1>7, <1>9, <4>1 DEF Unjoined, Only, SameAt, Place
    <3>2. Only(b, b, t)
      BY DEF Only, SameGlobals, SameAt
    <3>3. "JOINABLE" \notin b.status[t] /\ b.run # t
      BY <1>11, <1>12, <1>15, <2>3
    <3>4. Freed(b, r, t)
      BY <1>9, <1>10, <2>1, <3>1, <3>2, <3>3, RecycleCore
    <3>5. /\ Core(r) /\ Only(b, r, t) /\ Place(r, t, {FreeTask}) /\ r.status[t] = {"UNUSED"}
      BY <3>4 DEF Freed
    <3>6. GoneSelf(s, r, t)
      BY <2>3, <3>5 DEF GoneSelf
    <3>7. GoneRun(s, r, t) /\ r.sched = s.sched
      BY <1>2, <1>12, <1>15, <3>5 DEF GoneRun, Only, SameGlobals
    <3> QED BY <1>14, <3>5, <3>6, <3>7 DEF Gone, Only
  <2> QED BY <2>2, <2>3
<1>16. CASE s.run = t
  <2>1. r = LOS_Schedule(e)
    BY <1>11, <1>16 DEF LOS_TaskDelete, Has, a, p, b
  <2>2. /\ Core(e) /\ e.run \in {t, Shadow} /\ e.sched /\ e.taskLock = 0
        /\ GoneSelf(s, e, t) /\ \A u \in Task : u # t => SameAt(b, e, u)
    <3>1. CASE "JOINABLE" \in s.status[t]
      <4>1. e = b
        BY <1>11, <3>1 DEF Has
      <4>2. \A u \in Task : SameAt(b, b, u)
        BY DEF SameAt
      <4>3. GoneSelf(s, b, t)
        BY <1>9, <1>11, <3>1 DEF GoneSelf
      <4> QED BY <1>2, <1>9, <1>12, <1>16, <4>1, <4>2, <4>3
    <3>2. CASE "JOINABLE" \notin s.status[t]
      <4>1. e = d
        BY <1>11, <3>2 DEF Has
      <4>2. b.run = t /\ "JOINABLE" \notin b.status[t]
        BY <1>11, <1>12, <1>16, <3>2
      <4>3. /\ Core(d) /\ d.run = Shadow /\ Place(d, t, {RecycleList})
            /\ d.taskLock = b.taskLock /\ d.sched = b.sched /\ d.switch = b.switch
            /\ d.status[t] = b.status[t] \cup {"UNUSED"}
            /\ \A u \in Task : u # t => SameAt(b, d, u)
        <5>1. /\ Core(b) /\ Place(b, t, {}) /\ t \notin b.sortLink
              /\ "EXIT" \in b.status[t] /\ "PEND_TIME" \notin b.status[t]
              /\ "PEND" \notin b.status[t] /\ "DELAY" \notin b.status[t]
          BY <1>9, <1>11
        <5>2. d = OsRunningTaskDelete(SetStatus(b, t, {"UNUSED"}), t)
          OBVIOUS
        <5> HIDE DEF d, e
        <5>3. Retired(b, d, t)
          BY <4>2, <5>1, <5>2, RunningDeleteCore
        <5> QED BY <5>3 DEF Retired
      <4> HIDE DEF d, e
      <4>4. GoneSelf(s, d, t)
        BY <1>11, <3>2, <4>3 DEF GoneSelf
      <4> QED BY <1>2, <1>12, <1>16, <4>1, <4>3, <4>4
    <3> QED BY <3>1, <3>2
  <2> HIDE DEF e
  <2>3. /\ Core(r) /\ SameButSwitch(e, r) /\ r.taskLock = e.taskLock /\ r.switch
    BY <2>1, <2>2, ScheduleCore
  <2>4. \A u \in Task : SameAt(e, r, u)
    BY <2>3 DEF SameButSwitch, SameAt, On, OnList
  <2>5. GoneSelf(s, r, t)
    <3>1. r.status[t] = e.status[t] /\ \A h \in Head_ : On(r, t, h) <=> On(e, t, h)
      BY <1>0, <2>4 DEF SameAt
    <3> QED BY <2>2, <3>1 DEF GoneSelf, Place
  <2>6. \A u \in Task : u # t => SameAt(b, r, u)
    BY <2>2, <2>4 DEF SameAt
  <2>7. GoneRun(s, r, t) /\ r.sched = s.sched
    BY <1>16, <2>2, <2>3 DEF GoneRun, SameButSwitch, Core, Base, SchedState
  <2> QED BY <1>14, <2>3, <2>5, <2>6, <2>7 DEF Gone
<1> QED BY <1>15, <1>16

----------------------------------------------------------------------------
(* A set of numbers that is not empty has a smallest member.  NatMin of    *)
(* module TaskProofs proves it; up to there it is a hypothesis of what     *)
(* rests on OsGetTopTask.                                                  *)
HasLeast == \A T \in SUBSET Nat : T # {} => \E x \in T : \A y \in T : x <= y

(* The queues hold the ready tasks, and idle is ready. *)
Queued(s) ==
    /\ \A u \in Task \ {Idle}, p \in Prio :
          On(s, u, PriQueue(p)) <=> "READY" \in s.status[u] /\ s.priority[u] = p
    /\ "READY" \in s.status[Idle]

(* OsGetTopTask finds a ready task that none outranks. *)
LEMMA TopTask ==
    ASSUME HasLeast, NEW s, Base(s), Queued(s), NEW n, n = OsGetTopTask(s)
    PROVE  /\ n \in Task /\ "READY" \in s.status[n]
           /\ n # Idle => On(s, n, PriQueue(s.priority[n]))
           /\ \A u \in Task \ {Idle} : "READY" \in s.status[u] =>
                 n # Idle /\ s.priority[n] <= s.priority[u]
<1>0. /\ s \in SchedState /\ BitmapOK(s) /\ ListsDisjoint(s)
      /\ s.bitmap \in SUBSET Prio /\ Prio \subseteq Nat
      /\ \A u \in Task : s.priority[u] \in Prio
  BY SMT, SchedConstants DEF Base, SchedState, Prio
<1>1. ASSUME NEW u \in Task \ {Idle}, "READY" \in s.status[u]
      PROVE  s.priority[u] \in s.bitmap
  <2>1. On(s, u, PriQueue(s.priority[u]))
    BY <1>0, <1>1 DEF Queued
  <2> QED BY <1>0, <2>1 DEF BitmapOK, On
<1>2. CASE s.bitmap = {}
  BY <1>1, <1>2, TaskFacts DEF OsGetTopTask, Queued
<1>3. CASE s.bitmap # {}
  <2> DEFINE m == CHOOSE p \in s.bitmap : \A r \in s.bitmap : p <= r
             q == s.list[PriQueue(m)]
  <2>1. \E p \in s.bitmap : \A r \in s.bitmap : p <= r
    BY <1>0, <1>3 DEF HasLeast
  <2>2. m \in s.bitmap /\ \A r \in s.bitmap : m <= r
    BY <2>1
  <2>3. n = Head(q)
    BY <1>3 DEF OsGetTopTask
  <2> HIDE DEF m
  <2>4. m \in Prio /\ PriQueue(m) \in Head_ /\ OnList(s, PriQueue(m)) # {}
    BY <1>0, <2>2, HeadFacts DEF BitmapOK
  <2>5. q \in Seq(Task) /\ q # <<>>
    BY <1>0, <2>4, EmptyList DEF SchedState, OnList
  <2>6. n \in Task /\ On(s, n, PriQueue(m))
    BY <2>3, <2>5, HeadProps DEF On, OnList
  <2>7. n # Idle
    BY <1>0, <2>4, <2>6 DEF ListsDisjoint, On
  <2>8. "READY" \in s.status[n] /\ s.priority[n] = m
    BY <2>4, <2>6, <2>7 DEF Queued
  <2> QED BY <1>1, <2>2, <2>6, <2>7, <2>8
<1> QED BY <1>2, <1>3

(* The invariant says that all ready tasks are queued, as long as idle     *)
(* does not run.                                                           *)
LEMMA CoreQueued ==
    ASSUME NEW s, Core(s), s.run # Idle PROVE Queued(s)
<1>1. ~On(s, Idle, RecycleList)
  BY HeadFacts DEF Core, Base, ListsDisjoint, On
<1>2. Local(s, Idle)
  BY TaskFacts DEF Core
<1>3. "READY" \in s.status[Idle]
  BY <1>1, <1>2 DEF Local
<1>4. \A u \in Task \ {Idle} : Local(s, u)
  BY DEF Core
<1> QED BY <1>3, <1>4 DEF Queued, Local

(* OsTimeSliceUpdate changes nothing the invariant speaks of. *)
SameAll(s, r) == SameGlobals(s, r) /\ \A u \in Task : SameAt(s, r, u)

(* A charge on a slice. *)
LEMMA SliceEffect ==
    ASSUME NEW s, Base(s), NEW spent \in BOOLEAN, NEW r, r = OsTimeSliceUpdate(s, spent)
    PROVE  /\ Base(r) /\ SameAll(s, r)
           /\ r.status = s.status /\ r.priority = s.priority /\ r.sortLink = s.sortLink
           /\ r.list = s.list
<1>1. /\ r \in SchedState /\ r.list = s.list /\ r.bitmap = s.bitmap /\ r.fault = s.fault
      /\ r.status = s.status /\ r.sortLink = s.sortLink /\ r.run = s.run
      /\ r.taskLock = s.taskLock /\ r.sched = s.sched /\ r.switch = s.switch
      /\ r.priority = s.priority
  BY DEF OsTimeSliceUpdate, Base, SchedState
<1>2. Base(r)
  BY <1>1 DEF Base, ListsDisjoint, BitmapOK, OnList
<1>3. SameAll(s, r)
  BY <1>1 DEF SameAll, SameGlobals, SameAt, On, OnList
<1> QED BY <1>1, <1>2, <1>3

(* The invariant does not depend on anything else. *)
LEMMA CoreSame ==
    ASSUME NEW s, Core(s), NEW r, Base(r), SameAll(s, r) PROVE Core(r)
<1>1. ShadowOK(r)
  BY DEF Core, ShadowOK, SameAll, SameGlobals
<1>2. ASSUME NEW u \in Task PROVE Local(r, u)
  BY LocalFrame DEF Core, SameAll, SameGlobals
<1> QED BY <1>1, <1>2 DEF Core

(* What a switch does to the task it goes to. *)
Enters(s, r, n) ==
    /\ r.status[n] = (s.status[n] \cup {"RUNNING"}) \ {"READY"}
    /\ r.status[Shadow] = s.status[Shadow] /\ Place(r, n, {}) /\ r.sortLink = s.sortLink
    /\ \A u \in Task : u # n => SameAt(s, r, u)

(* The task that is switched to leaves its queue and is marked RUNNING. *)
LEMMA EnterEffect ==
    ASSUME NEW s, Base(s), NEW n \in Task, "READY" \in s.status[n],
           n # Idle => On(s, n, PriQueue(s.priority[n])),
           NEW r, r = OsSchedTaskDeQueue(SetStatus(s, n, {"RUNNING"}), n)
    PROVE  Base(r) /\ Enters(s, r, n) /\ SameGlobals(s, r)
<1> DEFINE a == SetStatus(s, n, {"RUNNING"})
<1>0. {"RUNNING"} \in SUBSET Status /\ s.priority[n] \in Prio
  BY DEF Status, Base, SchedState
<1>1. /\ Base(a) /\ Only(s, a, n) /\ SamePlace(s, a, n)
      /\ a.status[n] = s.status[n] \cup {"RUNNING"}
      /\ a.priority[n] = s.priority[n] /\ a.sortLink = s.sortLink
  BY SMT, <1>0, SetClrEffect
<1> HIDE DEF a
<1>2. "READY" \in a.status[n] /\ (n # Idle => On(a, n, PriQueue(a.priority[n])))
  BY <1>0, <1>1, HeadFacts DEF SamePlace
<1>3. /\ Base(r) /\ Only(a, r, n) /\ Place(r, n, {})
      /\ r.status[n] = a.status[n] \ {"READY"} /\ r.sortLink = a.sortLink
  BY SMT, <1>1, <1>2, DeQueueEffect DEF a
<1>4. Only(s, r, n)
  BY <1>1, <1>3, OnlyTrans
<1> QED BY <1>1, <1>3, <1>4 DEF Enters, Only, SameGlobals

(* The state s with n as the running task. *)
WithRun(s, n) == [s EXCEPT !.run = n, !.switch = FALSE]

(* Setting g_losTask.runTask changes no list and no status. *)
LEMMA RunEffect ==
    ASSUME NEW s, Base(s), NEW n \in Task, NEW r, r = WithRun(s, n)
    PROVE  /\ Base(r) /\ r.run = n /\ ~r.switch
           /\ r.status = s.status /\ r.sortLink = s.sortLink /\ r.list = s.list
           /\ r.priority = s.priority
           /\ r.taskLock = s.taskLock /\ r.sched = s.sched
           /\ \A u \in Task : SameAt(s, r, u)
<1>1. /\ r \in SchedState /\ r.list = s.list /\ r.bitmap = s.bitmap /\ r.fault = s.fault
      /\ r.status = s.status /\ r.sortLink = s.sortLink /\ r.run = n
      /\ r.taskLock = s.taskLock /\ r.sched = s.sched /\ ~r.switch
      /\ r.priority = s.priority
  BY DEF WithRun, Base, SchedState
<1>2. Base(r)
  BY <1>1 DEF Base, ListsDisjoint, BitmapOK, OnList
<1>3. \A u \in Task : SameAt(s, r, u)
  BY <1>1 DEF SameAt, On, OnList
<1> QED BY <1>1, <1>2, <1>3

(* Putting the node of a task on the sort link. *)
LEMMA AddSortLinkEffect ==
    ASSUME NEW s, Base(s), NEW t \in Task, t \notin s.sortLink,
           NEW r, r = OsAdd2SortLink(s, t)
    PROVE  /\ Base(r) /\ Only(s, r, t) /\ SamePlace(s, r, t)
           /\ r.status = s.status /\ r.priority = s.priority
           /\ r.sortLink = s.sortLink \cup {t}
<1>1. /\ r \in SchedState /\ r.list = s.list /\ r.bitmap = s.bitmap /\ r.fault = s.fault
      /\ r.status = s.status /\ r.sortLink = s.sortLink \cup {t} /\ r.run = s.run
      /\ r.taskLock = s.taskLock /\ r.sched = s.sched /\ r.switch = s.switch
      /\ r.priority = s.priority
  BY DEF OsAdd2SortLink, Base, SchedState
<1>2. Base(r)
  BY <1>1 DEF Base, ListsDisjoint, BitmapOK, OnList
<1>3. Only(s, r, t)
  BY <1>1 DEF Only, SameGlobals, SameAt, On, OnList
<1>4. SamePlace(s, r, t)
  BY <1>1 DEF SamePlace, On, OnList
<1> QED BY <1>1, <1>2, <1>3, <1>4

(* What a switch does first: the running task t is queued again, or its    *)
(* time-out is started, or it is left on its wait list.                    *)
LeaveRun(s, t) ==
    IF Has(s, t, {"PEND_TIME", "DELAY"}) THEN OsAdd2SortLink(s, t)
    ELSE IF ~Has(s, t, {"PEND", "SUSPEND", "EXIT", "UNUSED"})
         THEN OsSchedTaskEnQueue(s, t) ELSE s

LeftWaiting(s, b, t) ==
    /\ s.status[t] \cap Waits # {} /\ b.status[t] = s.status[t] /\ SamePlace(s, b, t)
    /\ b.priority[t] = s.priority[t]
    /\ t \in b.sortLink <=> "DELAY" \in s.status[t] \/ "PEND_TIME" \in s.status[t]

LeftReady(s, b, t) ==
    /\ s.status[t] \cap Waits = {} /\ b.status[t] = s.status[t] \cup {"READY"}
    /\ t # Idle => Place(b, t, {PriQueue(b.priority[t])})
    /\ t = Idle => Place(b, t, {})
    /\ b.priority[t] = s.priority[t] /\ t \notin b.sortLink

(* The running task is left waiting or ready, and no other is touched. *)
LEMMA LeaveEffect ==
    ASSUME NEW s, Core(s), NEW t \in Task, s.run = t, NEW b, b = LeaveRun(s, t)
    PROVE  /\ Base(b) /\ Only(s, b, t)
           /\ LeftWaiting(s, b, t) \/ LeftReady(s, b, t)
<1>0. /\ Base(s) /\ Local(s, t) /\ s.status[t] \in SUBSET Status
  BY DEF Core, Base, SchedState
<1>1. /\ "RUNNING" \in s.status[t] /\ "UNUSED" \notin s.status[t]
      /\ "READY" \notin s.status[t] /\ t \notin s.sortLink
  BY <1>0 DEF Local
<1>2. CASE Has(s, t, {"PEND_TIME", "DELAY"})
  <2>1. b = OsAdd2SortLink(s, t)
    BY <1>2 DEF LeaveRun
  <2>2. /\ Base(b) /\ Only(s, b, t) /\ SamePlace(s, b, t)
        /\ b.status = s.status /\ b.priority = s.priority
        /\ b.sortLink = s.sortLink \cup {t}
    BY SMT, <1>0, <1>1, <2>1, AddSortLinkEffect
  <2>3. LeftWaiting(s, b, t)
    BY <1>2, <2>2 DEF LeftWaiting, Waits, Has
  <2> QED BY <2>2, <2>3
<1>3. CASE ~Has(s, t, {"PEND_TIME", "DELAY"}) /\ ~Has(s, t, {"PEND", "SUSPEND", "EXIT", "UNUSED"})
  <2>1. b = OsSchedTaskEnQueue(s, t)
    BY <1>3 DEF LeaveRun
  <2>2. s.status[t] \cap Waits = {} /\ s.status[t] \cap {"READY", "PEND", "UNUSED"} = {}
    BY <1>1, <1>3 DEF Waits, Has
  <2>3. ~Linked(s, t)
    BY <1>0, <2>2, UnlinkedIf
  <2>4. /\ Base(b) /\ Only(s, b, t)
        /\ t # Idle => Place(b, t, {PriQueue(s.priority[t])})
        /\ t = Idle => Place(b, t, {})
        /\ b.status[t] = (s.status[t] \ {"PEND", "SUSPEND", "DELAY", "PEND_TIME"}) \cup {"READY"}
        /\ b.priority[t] = s.priority[t] /\ b.sortLink = s.sortLink
    BY SMT, <1>0, <1>1, <2>1, <2>3, EnQueueEffect
  <2>5. b.status[t] = s.status[t] \cup {"READY"}
    BY SMT, <2>2, <2>4 DEF Waits
  <2> QED BY <1>1, <2>2, <2>4, <2>5 DEF LeftReady
<1>4. CASE ~Has(s, t, {"PEND_TIME", "DELAY"}) /\ Has(s, t, {"PEND", "SUSPEND", "EXIT", "UNUSED"})
  <2>1. b = s
    BY <1>4 DEF LeaveRun
  <2>2. s.status[t] \cap Waits # {} /\ "DELAY" \notin s.status[t] /\ "PEND_TIME" \notin s.status[t]
    BY <1>1, <1>4 DEF Waits, Has
  <2>3. Only(s, s, t) /\ SamePlace(s, s, t)
    BY DEF Only, SameGlobals, SameAt, SamePlace
  <2> QED BY <1>0, <1>1, <2>1, <2>2, <2>3 DEF LeftWaiting
<1> QED BY <1>2, <1>3, <1>4

Switched(s, r) ==
    /\ r.run \in Task /\ ~r.switch /\ r.sched = s.sched /\ r.taskLock = s.taskLock
    /\ \A u \in Task : Kept(s, r, u)
    /\ r.status[r.run] \cap Waits = {}
    /\ \A u \in Task : u # r.run =>
          (u \in {x \in Task : "READY" \in s.status[x] \/
                                (x = s.run /\ s.status[x] \cap Waits = {})}
             => "READY" \in r.status[u])
    /\ \A u \in Task \ {Idle} : "READY" \in r.status[u] =>
          r.run # Idle /\ r.priority[r.run] <= r.priority[u]

(* OsSchedTaskSwitch in terms of LeaveRun. *)
LEMMA SwitchIs ==
    ASSUME NEW s, NEW spent
    PROVE  LET a == OsTimeSliceUpdate(s, spent)
               b == LeaveRun(a, s.run)
               n == OsGetTopTask(b)
               c == IF s.run = n THEN b
                    ELSE SetStatus(ClrStatus(b, s.run, {"RUNNING"}), n, {"RUNNING"})
           IN  OsSchedTaskSwitch(s, spent) = WithRun(OsSchedTaskDeQueue(c, n), n)
BY DEF OsSchedTaskSwitch, LeaveRun, WithRun

(* Once the running task is left, the queues hold all ready tasks. *)
LEMMA LeaveQueued ==
    ASSUME NEW s, Core(s), NEW t \in Task, s.run = t, NEW b, b = LeaveRun(s, t)
    PROVE  Queued(b)
<1>0. Base(s) /\ Local(s, t) /\ s.status[t] \in SUBSET Status
  BY DEF Core, Base, SchedState
<1>00. Base(b) /\ Only(s, b, t) /\ (LeftWaiting(s, b, t) \/ LeftReady(s, b, t))
  BY LeaveEffect
<1>1. t # Idle => "READY" \in s.status[Idle]
  BY CoreQueued DEF Queued
<1>2. "READY" \in b.status[Idle]
  <2>1. CASE t = Idle
    <3>1. s.status[t] \cap Waits = {}
      BY <1>0, <2>1 DEF Local, Waits
    <3> QED BY <1>00, <2>1, <3>1 DEF LeftWaiting, LeftReady
  <2>2. CASE t # Idle
    BY <1>00, <1>1, <2>2, TaskFacts DEF Only, SameAt
  <2> QED BY <2>1, <2>2
<1>3. ASSUME NEW u \in Task \ {Idle}, NEW p \in Prio
      PROVE  On(b, u, PriQueue(p)) <=> "READY" \in b.status[u] /\ b.priority[u] = p
  <2>1. On(s, u, PriQueue(p)) <=> "READY" \in s.status[u] /\ s.priority[u] = p
    BY DEF Core, Local
  <2>2. CASE u # t
    BY <1>00, <2>1, <2>2, HeadFacts DEF Only, SameAt
  <2>3. CASE u = t /\ LeftWaiting(s, b, t)
    BY <2>1, <2>3, HeadFacts DEF LeftWaiting, SamePlace
  <2>4. CASE u = t /\ LeftReady(s, b, t)
    <3>1. b.priority[t] \in Prio
      BY <1>00 DEF Base, SchedState
    <3>2. "READY" \in b.status[t] /\ Place(b, t, {PriQueue(b.priority[t])})
      BY <2>4 DEF LeftReady
    <3> QED BY <2>4, <3>1, <3>2, HeadFacts DEF Place
  <2> QED BY <1>00, <2>2, <2>3, <2>4
<1> QED BY <1>2, <1>3 DEF Queued

(* The switch back to the task that was running. *)
LEMMA SwitchStay ==
    ASSUME HasLeast, NEW s, Core(s), NEW t \in Task, s.run = t, NEW b, b = LeaveRun(s, t),
           t = OsGetTopTask(b), NEW r, r = WithRun(OsSchedTaskDeQueue(b, t), t)
    PROVE  Core(r) /\ Switched(s, r)
<1> DEFINE d == OsSchedTaskDeQueue(b, t)
<1>0. Base(s) /\ Local(s, t) /\ s.status[t] \in SUBSET Status
  BY DEF Core, Base, SchedState
<1>1. Base(b) /\ Only(s, b, t) /\ (LeftWaiting(s, b, t) \/ LeftReady(s, b, t))
  BY LeaveEffect
<1>2. Queued(b)
  BY LeaveQueued
<1>3. /\ "READY" \in b.status[t]
      /\ t # Idle => On(b, t, PriQueue(b.priority[t]))
      /\ \A u \in Task \ {Idle} : "READY" \in b.status[u] =>
            t # Idle /\ b.priority[t] <= b.priority[u]
  BY <1>1, <1>2, TopTask
<1>4. "READY" \notin s.status[t] /\ "RUNNING" \in s.status[t] /\ t \notin s.sortLink
  BY <1>0 DEF Local
<1>5. LeftReady(s, b, t)
  BY <1>1, <1>3, <1>4 DEF LeftWaiting
<1>6. /\ Base(d) /\ Only(b, d, t) /\ Place(d, t, {})
      /\ d.status[t] = b.status[t] \ {"READY"}
      /\ d.priority[t] = b.priority[t] /\ d.sortLink = b.sortLink
  BY SMTT(20), <1>1, <1>3, DeQueueEffect
<1> HIDE DEF d
<1>7. d.status[t] = s.status[t] /\ s.status[t] \cap Waits = {}
  <2>1. s.status[t] \cap Waits = {} /\ b.status[t] = s.status[t] \cup {"READY"}
    BY <1>5 DEF LeftReady
  <2>2. (s.status[t] \cup {"READY"}) \ {"READY"} = s.status[t]
    BY <1>4
  <2> QED BY <1>6, <2>1, <2>2
<1>8. Place(s, t, {})
  <2>1. s.status[t] \cap {"READY", "PEND", "UNUSED"} = {}
    BY <1>0, <1>4, <1>7 DEF Waits, Local
  <2> QED BY <1>0, <2>1, UnlinkedIf
<1>9. /\ Base(r) /\ r.run = t /\ ~r.switch
      /\ r.status = d.status /\ r.sortLink = d.sortLink
      /\ r.priority = d.priority /\ r.taskLock = d.taskLock /\ r.sched = d.sched
      /\ \A u \in Task : SameAt(d, r, u)
  <2>1. r = WithRun(d, t) /\ Base(d)
    BY <1>6 DEF d
  <2> QED BY SMT, <2>1, RunEffect
<1>10. Only(s, d, t)
  BY <1>1, <1>6, OnlyTrans
<1>11. SameAt(s, r, t)
  <2>1. r.priority[t] = s.priority[t] /\ t \notin r.sortLink
    BY <1>5, <1>6, <1>9 DEF LeftReady
  <2>2. \A h \in Head_ : ~On(r, t, h) /\ ~On(s, t, h)
    BY <1>6, <1>8, <1>9 DEF Place, SameAt
  <2> QED BY <1>4, <1>7, <1>9, <2>1, <2>2 DEF SameAt
<1>12. \A u \in Task : SameAt(s, r, u)
  BY SMTT(20), <1>9, <1>10, <1>11 DEF Only, SameAt
<1>13. /\ r.sched = s.sched /\ r.taskLock = s.taskLock
       /\ r.status[Shadow] = s.status[Shadow]
  BY <1>9, <1>10 DEF Only, SameGlobals
<1>14. Core(r)
  <2>1. ShadowOK(r)
    BY <1>13 DEF Core, ShadowOK
  <2>2. ASSUME NEW u \in Task PROVE Local(r, u)
    BY <1>9, <1>12, LocalFrame DEF Core
  <2> QED BY <1>9, <2>1, <2>2 DEF Core
<1>15. Switched(s, r)
  <2>1. \A u \in Task : Kept(s, r, u)
    BY SMT, <1>12, HeadFacts DEF SameAt, Kept
  <2>2. \A u \in Task \ {Idle} : "READY" \in r.status[u] =>
          r.run # Idle /\ r.priority[r.run] <= r.priority[u]
    <3>1. \A u \in Task : u # t => SameAt(b, r, u)
      BY SMTT(20), <1>6, <1>9 DEF Only, SameAt
    <3>2. r.priority[t] = b.priority[t] /\ "READY" \notin r.status[t]
      BY <1>6, <1>9
    <3>3. ASSUME NEW u \in Task \ {Idle}, "READY" \in r.status[u]
          PROVE  t # Idle /\ r.priority[t] <= r.priority[u]
      <4>1. "READY" \in b.status[u] /\ b.priority[u] = r.priority[u]
        BY <3>1, <3>2, <3>3 DEF SameAt
      <4> QED BY <1>3, <3>2, <4>1
    <3> QED BY <1>9, <3>3
  <2>3. \A u \in Task : u # t /\ "READY" \in s.status[u] => "READY" \in r.status[u]
    BY <1>12 DEF SameAt
  <2> QED BY <1>7, <1>9, <1>13, <2>1, <2>2, <2>3 DEF Switched
<1> QED BY <1>14, <1>15

(* Going from x, where nobody is marked RUNNING any more, to the task n.   *)
LEMMA SwitchEnter ==
    ASSUME NEW x, Base(x), NEW n \in Task, "READY" \in x.status[n],
           n # Idle => On(x, n, PriQueue(x.priority[n])),
           NEW r, r = WithRun(OsSchedTaskDeQueue(SetStatus(x, n, {"RUNNING"}), n), n)
    PROVE  /\ Base(r) /\ Enters(x, r, n) /\ r.run = n /\ ~r.switch
           /\ r.taskLock = x.taskLock /\ r.sched = x.sched /\ r.priority[n] = x.priority[n]
<1> DEFINE d == OsSchedTaskDeQueue(SetStatus(x, n, {"RUNNING"}), n)
<1>1. Base(d) /\ Enters(x, d, n) /\ SameGlobals(x, d)
  BY EnterEffect
<1>2. d.priority[n] = x.priority[n]
  <2> DEFINE a == SetStatus(x, n, {"RUNNING"})
  <2>0. {"RUNNING"} \in SUBSET Status /\ x.priority[n] \in Prio
    BY DEF Status, Base, SchedState
  <2>1. /\ Base(a) /\ SamePlace(x, a, n) /\ a.priority[n] = x.priority[n]
        /\ a.status[n] = x.status[n] \cup {"RUNNING"}
    BY SMT, <2>0, SetClrEffect
  <2> HIDE DEF a
  <2>2. "READY" \in a.status[n] /\ (n # Idle => On(a, n, PriQueue(a.priority[n])))
    BY <2>0, <2>1, HeadFacts DEF SamePlace
  <2> QED BY <2>1, <2>2, DeQueueEffect DEF a
<1>3. r = WithRun(d, n)
  OBVIOUS
<1> HIDE DEF d
<1>4. /\ Base(r) /\ r.run = n /\ ~r.switch
      /\ r.status = d.status /\ r.sortLink = d.sortLink /\ r.list = d.list
      /\ r.priority = d.priority /\ r.taskLock = d.taskLock /\ r.sched = d.sched
      /\ \A u \in Task : SameAt(d, r, u)
  <2>1. Base(d)
    BY <1>1
  <2> QED BY SMT, <1>3, <2>1, RunEffect
<1>5. Enters(x, r, n)
  <2>1. Place(r, n, {})
    BY <1>1, <1>4 DEF Enters, Place, SameAt
  <2>2. \A u \in Task : u # n => SameAt(x, r, u)
    BY <1>1, <1>4 DEF Enters, SameAt
  <2> QED BY <1>1, <1>4, <2>1, <2>2 DEF Enters
<1> QED BY <1>1, <1>2, <1>4, <1>5 DEF SameGlobals

(* The task that is switched to is in good order. *)
LEMMA EnterLocal ==
    ASSUME NEW s, NEW x, NEW r, NEW n \in Task, Base(s), Local(s, n), s.run # n, SameAt(s, x, n),
           "READY" \in x.status[n], Base(r), Enters(x, r, n), r.run = n
    PROVE  Local(r, n) /\ Kept(s, r, n) /\ r.status[n] \cap Waits = {}
<1>1. /\ r.status[n] = (s.status[n] \cup {"RUNNING"}) \ {"READY"} /\ "READY" \in s.status[n]
      /\ Place(r, n, {})
      /\ n \in r.sortLink <=> n \in s.sortLink
  BY DEF Enters, SameAt
<1>2. s.status[n] \cap {"PEND", "SUSPEND", "DELAY", "PEND_TIME",
                        "RUNNING", "EXIT", "UNUSED"} = {}
  BY <1>1 DEF Local
<1>3. n \notin r.sortLink
  BY <1>1, <1>2 DEF Local
<1>4. /\ "RUNNING" \in r.status[n]
      /\ r.status[n] \cap {"READY", "PEND", "SUSPEND", "DELAY", "PEND_TIME",
                           "EXIT", "UNUSED"} = {}
  BY <1>1, <1>2
<1>5. Local(r, n)
  BY <1>1, <1>3, <1>4, LocalRunning
<1>6. \A h \in WaitLists \cup {FreeTask, RecycleList} : ~On(r, n, h) /\ ~On(s, n, h)
  <2>1. \A h \in WaitLists \cup {FreeTask, RecycleList} : ~On(r, n, h)
    BY <1>1, HeadFacts DEF Place
  <2>2. ~On(s, n, FreeTask) /\ ~On(s, n, RecycleList)
    BY <1>2 DEF Local
  <2>3. ASSUME NEW h \in WaitLists PROVE ~On(s, n, h)
    <3>1. CASE n = Idle
      BY SMTT(20), <3>1, HeadFacts DEF Base, ListsDisjoint, On
    <3>2. CASE n # Idle
      BY <1>2, <3>2 DEF Local
    <3> QED BY <3>1, <3>2
  <2> QED BY <2>1, <2>2, <2>3
<1>7. Kept(s, r, n)
  BY <1>1, <1>6 DEF Kept
<1> QED BY <1>4, <1>5, <1>7 DEF Waits

(* The RUNNING bit of t is taken off. *)
Unmarks(b, x, t) ==
    /\ SamePlace(b, x, t) /\ x.status[t] = b.status[t] \ {"RUNNING"}
    /\ x.priority[t] = b.priority[t] /\ x.sortLink = b.sortLink

(* The task that is switched from is in good order. *)
LEMMA LeaveLocal ==
    ASSUME NEW s, NEW b, NEW x, NEW r, NEW t \in Task, Base(s), Local(s, t), s.run = t,
           LeftWaiting(s, b, t) \/ LeftReady(s, b, t),
           Unmarks(b, x, t), SameAt(x, r, t), r.run # t, Base(r)
    PROVE  /\ Local(r, t) /\ Kept(s, r, t)
           /\ s.status[t] \cap Waits = {} => "READY" \in r.status[t]
<1>0. /\ "RUNNING" \in s.status[t] /\ "UNUSED" \notin s.status[t]
      /\ "READY" \notin s.status[t]
  BY DEF Local
<1>1. /\ r.status[t] = b.status[t] \ {"RUNNING"} /\ r.priority[t] = b.priority[t]
      /\ SamePlace(b, r, t)
      /\ t \in r.sortLink <=> t \in b.sortLink
  BY DEF SameAt, SamePlace, Unmarks
<1>2. CASE LeftWaiting(s, b, t)
  <2>1. /\ r.status[t] = s.status[t] \ {"RUNNING"} /\ r.priority[t] = s.priority[t]
        /\ SamePlace(s, r, t) /\ s.status[t] \cap Waits # {}
        /\ t \in r.sortLink <=> "DELAY" \in s.status[t] \/ "PEND_TIME" \in s.status[t]
    BY <1>1, <1>2 DEF LeftWaiting, SamePlace
  <2>2. t # Idle
    BY <2>1 DEF Local, Waits
  <2>3. /\ \A h \in WaitLists \cup {FreeTask, RecycleList} : On(r, t, h) <=> On(s, t, h)
        /\ \A p \in Prio : ~On(r, t, PriQueue(p))
    BY <1>0, <2>1, <2>2, HeadFacts DEF SamePlace, Local
  <2>4. ~On(s, t, FreeTask) /\ ~On(s, t, RecycleList)
    BY <1>0 DEF Local
  <2>5. Local(r, t)
    BY <1>0, <2>1, <2>2, <2>3, <2>4 DEF Local
  <2>6. Kept(s, r, t)
    BY <2>1, <2>3 DEF Kept
  <2> QED BY <2>1, <2>5, <2>6
<1>3. CASE LeftReady(s, b, t)
  <2>1. /\ s.status[t] \cap Waits = {} /\ r.status[t] = (s.status[t] \cup {"READY"}) \ {"RUNNING"}
        /\ t \notin r.sortLink
    BY <1>1, <1>3 DEF LeftReady
  <2>2. /\ "READY" \in r.status[t]
        /\ r.status[t] \cap {"PEND", "SUSPEND", "DELAY", "PEND_TIME",
                             "RUNNING", "EXIT", "UNUSED"} = {}
    BY <1>0, <2>1 DEF Waits
  <2>3. OffLists(s, t)
    <3>1. s.status[t] \cap {"READY", "PEND", "UNUSED"} = {}
      BY <1>0, <2>1 DEF Waits
    <3>2. Place(s, t, {})
      BY <3>1, UnlinkedIf
    <3> QED BY <3>2, HeadFacts DEF Place, OffLists
  <2>4. CASE t # Idle
    <3>1. Place(r, t, {PriQueue(r.priority[t])}) /\ r.priority[t] \in Prio
      BY <1>1, <1>3, <2>4 DEF LeftReady, SamePlace, Place, Base, SchedState
    <3>2. Local(r, t)
      BY <2>1, <2>2, <2>4, <3>1, LocalReady
    <3>3. Kept(s, r, t)
      BY SMTT(60), <2>1, <2>3, <3>1, HeadFacts DEF Kept, OffLists, Place
    <3> QED BY <2>2, <3>2, <3>3
  <2>5. CASE t = Idle
    <3>1. \A h \in Head_ : ~On(r, t, h)
      BY <1>1, <1>3, <2>5 DEF LeftReady, SamePlace, Place
    <3>2. Local(r, t)
      BY <2>1, <2>2, <2>5, <3>1, HeadFacts DEF Local
    <3>3. Kept(s, r, t)
      BY <2>1, <2>3, <3>1, HeadFacts DEF Kept, OffLists
    <3> QED BY <2>2, <3>2, <3>3
  <2> QED BY <2>4, <2>5
<1> QED BY <1>2, <1>3

(* The switch from one task to another. *)
LEMMA SwitchGo ==
    ASSUME HasLeast, NEW s, Core(s), NEW t \in Task, s.run = t, NEW b, b = LeaveRun(s, t),
           NEW n, n = OsGetTopTask(b), n # t,
           NEW r, r = WithRun(OsSchedTaskDeQueue(
                        SetStatus(ClrStatus(b, t, {"RUNNING"}), n, {"RUNNING"}), n), n)
    PROVE  Core(r) /\ Switched(s, r)
<1>x. PICK x : x = ClrStatus(b, t, {"RUNNING"})
  OBVIOUS
<1>0. Base(s) /\ (\A u \in Task : Local(s, u)) /\ {"RUNNING"} \in SUBSET Status
  BY DEF Core, Status
<1>1. Base(b) /\ Only(s, b, t) /\ (LeftWaiting(s, b, t) \/ LeftReady(s, b, t))
  BY LeaveEffect
<1>2. Queued(b)
  BY LeaveQueued
<1>3. /\ n \in Task /\ "READY" \in b.status[n]
      /\ n # Idle => On(b, n, PriQueue(b.priority[n]))
      /\ \A u \in Task \ {Idle} : "READY" \in b.status[u] =>
            n # Idle /\ b.priority[n] <= b.priority[u]
  BY <1>1, <1>2, TopTask
<1>4. /\ Base(x) /\ Only(b, x, t) /\ SamePlace(b, x, t)
      /\ x.status[t] = b.status[t] \ {"RUNNING"}
      /\ x.priority[t] = b.priority[t] /\ x.sortLink = b.sortLink
  <2>1. /\ Base(b) /\ t \in Task /\ {"RUNNING"} \in SUBSET Status
        /\ x = ClrStatus(b, t, {"RUNNING"})
    BY <1>x, <1>0, <1>1
  <2> QED BY SMT, <2>1, SetClrEffect
<1>5. r = WithRun(OsSchedTaskDeQueue(SetStatus(x, n, {"RUNNING"}), n), n)
  BY <1>x
<1>6. SameAt(b, x, n) /\ SameAt(s, b, n) /\ SameAt(s, x, n)
  <2>1. SameAt(b, x, n)
    BY <1>3, <1>4 DEF Only
  <2>2. SameAt(s, b, n)
    BY <1>1, <1>3 DEF Only
  <2> QED BY <2>1, <2>2, SameAtTrans
<1>7. "READY" \in x.status[n] /\ (n # Idle => On(x, n, PriQueue(x.priority[n])))
  <2>1. b.priority[n] \in Prio
    BY <1>1, <1>3 DEF Base, SchedState
  <2> QED BY <1>3, <1>6, <2>1, HeadFacts DEF SameAt
<1>8. /\ Base(r) /\ Enters(x, r, n) /\ r.run = n /\ ~r.switch
      /\ r.taskLock = x.taskLock /\ r.sched = x.sched /\ r.priority[n] = x.priority[n]
  <2>1. /\ Base(x) /\ n \in Task /\ "READY" \in x.status[n]
        /\ n # Idle => On(x, n, PriQueue(x.priority[n]))
        /\ r = WithRun(OsSchedTaskDeQueue(SetStatus(x, n, {"RUNNING"}), n), n)
    BY <1>3, <1>4, <1>5, <1>7
  <2> QED BY SMT, <2>1, SwitchEnter
<1>9. /\ r.taskLock = s.taskLock /\ r.sched = s.sched
      /\ r.status[Shadow] = s.status[Shadow]
  BY <1>1, <1>4, <1>8 DEF Only, SameGlobals, Enters
<1>10. Local(r, n) /\ Kept(s, r, n) /\ r.status[n] \cap Waits = {}
  <2>1. n \in Task /\ Local(s, n) /\ s.run # n /\ SameAt(s, x, n) /\ "READY" \in x.status[n]
    BY <1>0, <1>3, <1>6, <1>7
  <2>2. Base(r) /\ Enters(x, r, n) /\ r.run = n
    BY <1>8
  <2>3. /\ Base(s) /\ n \in Task /\ Local(s, n) /\ s.run # n /\ SameAt(s, x, n)
        /\ "READY" \in x.status[n] /\ Base(r) /\ Enters(x, r, n) /\ r.run = n
    BY <1>0, <2>1, <2>2
  <2> QED BY SMT, <2>3, EnterLocal
<1>11. SameAt(x, r, t)
  BY <1>8 DEF Enters
<1>12. /\ Local(r, t) /\ Kept(s, r, t)
       /\ s.status[t] \cap Waits = {} => "READY" \in r.status[t]
  <2>1. Unmarks(b, x, t)
    BY <1>4 DEF Unmarks
  <2>2. r.run # t /\ Base(r) /\ Local(s, t)
    BY <1>0, <1>8
  <2> QED BY <1>0, <1>1, <1>11, <2>1, <2>2, LeaveLocal
<1>13. ASSUME NEW u \in Task, u # n, u # t PROVE SameAt(s, r, u)
  <2>1. SameAt(s, b, u)
    BY <1>1, <1>13 DEF Only
  <2>2. SameAt(b, x, u)
    BY <1>4, <1>13 DEF Only
  <2>3. SameAt(x, r, u)
    BY <1>8, <1>13 DEF Enters
  <2>4. SameAt(s, x, u)
    BY <2>1, <2>2, SameAtTrans
  <2> QED BY SMT, <2>3, <2>4, SameAtTrans
<1>14. ASSUME NEW u \in Task, u # n, u # t PROVE Local(r, u) /\ Kept(s, r, u)
  <2>1. SameAt(s, r, u)
    BY <1>13, <1>14
  <2>2. Local(r, u)
    BY <1>0, <1>8, <1>14, <2>1, LocalFrame
  <2> QED BY <2>1, <2>2, HeadFacts DEF SameAt, Kept
<1>15. Core(r)
  <2>1. ShadowOK(r)
    BY <1>9 DEF Core, ShadowOK
  <2> QED BY <1>8, <1>10, <1>12, <1>14, <2>1 DEF Core
<1>16. Switched(s, r)
  <2>1. \A u \in Task : Kept(s, r, u)
    BY <1>10, <1>12, <1>14
  <2>2. ASSUME NEW u \in Task \ {Idle}, "READY" \in r.status[u]
        PROVE  n # Idle /\ r.priority[n] <= r.priority[u]
    <3>1. u # n
      BY <1>8, <2>2 DEF Enters
    <3>2. "READY" \in b.status[u] /\ b.priority[u] = r.priority[u]
      <4>1. SameAt(x, r, u)
        BY <1>8, <3>1 DEF Enters
      <4>2. x.priority[u] = b.priority[u] /\ ("READY" \in x.status[u] => "READY" \in b.status[u])
        BY <1>4 DEF Only, SameAt
      <4> QED BY <2>2, <4>1, <4>2 DEF SameAt
    <3>3. r.priority[n] = b.priority[n]
      BY <1>6, <1>8 DEF SameAt
    <3> QED BY <1>3, <3>2, <3>3
  <2>3. ASSUME NEW u \in Task, u # n,
               "READY" \in s.status[u] \/ (u = t /\ s.status[u] \cap Waits = {})
        PROVE  "READY" \in r.status[u]
    <3>1. CASE u = t
      <4>1. "READY" \notin s.status[t]
        BY <1>0 DEF Local
      <4> QED BY <1>12, <2>3, <3>1, <4>1
    <3>2. CASE u # t
      BY <1>13, <2>3, <3>2 DEF SameAt
    <3> QED BY <3>1, <3>2
  <2>4. r.run = n /\ n \in Task /\ ~r.switch /\ r.status[n] \cap Waits = {}
    BY <1>3, <1>8, <1>10
  <2> QED BY <1>9, <2>1, <2>2, <2>3, <2>4 DEF Switched
<1> QED BY <1>15, <1>16

(* The first switch after the running task deleted itself: runTask is the  *)
(* shadow TCB, which is never queued.                                      *)
LEMMA SwitchShadow ==
    ASSUME HasLeast, NEW s, Core(s), s.run = Shadow, NEW b, b = LeaveRun(s, Shadow),
           NEW n, n = OsGetTopTask(b),
           NEW r, r = WithRun(OsSchedTaskDeQueue(
                        SetStatus(ClrStatus(b, Shadow, {"RUNNING"}), n, {"RUNNING"}), n), n)
    PROVE  Core(r) /\ Switched(s, r)
<1> DEFINE X == s.status[Shadow] \ {"RUNNING"}
           x == WithShadow(s, X)
<1>0. /\ Base(s) /\ (\A u \in Task : Local(s, u)) /\ ShadowOK(s)
      /\ s \in SchedState /\ X \in SUBSET Status
  BY DEF Core, Base, SchedState
<1>1. b = s
  BY <1>0 DEF LeaveRun, ShadowOK, Has
<1>2. Queued(s)
  BY TaskFacts, CoreQueued
<1>3. /\ n \in Task /\ "READY" \in s.status[n]
      /\ n # Idle => On(s, n, PriQueue(s.priority[n]))
      /\ \A u \in Task \ {Idle} : "READY" \in s.status[u] =>
            n # Idle /\ s.priority[n] <= s.priority[u]
  BY <1>0, <1>1, <1>2, TopTask
<1>4. ClrStatus(b, Shadow, {"RUNNING"}) = x
  BY <1>0, <1>1 DEF ClrStatus, WithShadow, SchedState
<1>x. x = WithShadow(s, X)
  OBVIOUS
<1> HIDE DEF X, x
<1>5. /\ Base(x) /\ x.status[Shadow] = X /\ x.sortLink = s.sortLink
      /\ x.run = s.run /\ x.taskLock = s.taskLock /\ x.sched = s.sched
      /\ \A u \in Task : SameAt(s, x, u)
  BY SMT, <1>0, <1>x, ShadowEffect
<1>6. r = WithRun(OsSchedTaskDeQueue(SetStatus(x, n, {"RUNNING"}), n), n)
  BY <1>4
<1>7. "READY" \in x.status[n] /\ (n # Idle => On(x, n, PriQueue(x.priority[n])))
  <2>1. SameAt(s, x, n) /\ s.priority[n] \in Prio
    BY <1>0, <1>3, <1>5 DEF SchedState
  <2> QED BY <1>3, <2>1, HeadFacts DEF SameAt
<1>8. /\ Base(r) /\ Enters(x, r, n) /\ r.run = n /\ ~r.switch
      /\ r.taskLock = x.taskLock /\ r.sched = x.sched /\ r.priority[n] = x.priority[n]
  <2>1. /\ Base(x) /\ n \in Task /\ "READY" \in x.status[n]
        /\ n # Idle => On(x, n, PriQueue(x.priority[n]))
        /\ r = WithRun(OsSchedTaskDeQueue(SetStatus(x, n, {"RUNNING"}), n), n)
    BY <1>3, <1>5, <1>6, <1>7
  <2> QED BY SMT, <2>1, SwitchEnter
<1>9. r.taskLock = s.taskLock /\ r.sched = s.sched /\ r.status[Shadow] = X
  BY <1>5, <1>8 DEF Enters
<1>10. Local(r, n) /\ Kept(s, r, n) /\ r.status[n] \cap Waits = {}
  <2>1. n \in Task /\ Local(s, n) /\ s.run # n /\ SameAt(s, x, n) /\ "READY" \in x.status[n]
    <3>1. n \in Task /\ n # Shadow
      BY <1>3, TaskFacts
    <3>2. Local(s, n) /\ SameAt(s, x, n)
      BY <1>0, <1>5, <3>1
    <3> QED BY <1>7, <3>1, <3>2
  <2>2. Base(r) /\ Enters(x, r, n) /\ r.run = n
    BY <1>8
  <2>3. /\ Base(s) /\ n \in Task /\ Local(s, n) /\ s.run # n /\ SameAt(s, x, n)
        /\ "READY" \in x.status[n] /\ Base(r) /\ Enters(x, r, n) /\ r.run = n
    BY <1>0, <2>1, <2>2
  <2> QED BY SMT, <2>3, EnterLocal
<1>11. ASSUME NEW u \in Task, u # n PROVE SameAt(s, r, u)
  <2>1. SameAt(s, x, u)
    BY <1>5
  <2>2. SameAt(x, r, u)
    BY <1>8, <1>11 DEF Enters
  <2> QED BY SMT, <2>1, <2>2, SameAtTrans
<1>12. ASSUME NEW u \in Task, u # n PROVE Local(r, u) /\ Kept(s, r, u)
  <2>1. SameAt(s, r, u)
    BY <1>11, <1>12
  <2>2. Local(r, u)
    BY <1>0, <1>8, <1>12, <2>1, LocalFrame, TaskFacts
  <2> QED BY <2>1, <2>2, HeadFacts DEF SameAt, Kept
<1>13. Core(r)
  <2>1. ShadowOK(r)
    BY <1>0, <1>9 DEF ShadowOK, X
  <2> QED BY <1>8, <1>10, <1>12, <2>1 DEF Core
<1>14. Switched(s, r)
  <2>1. \A u \in Task : Kept(s, r, u)
    BY <1>10, <1>12
  <2>2. ASSUME NEW u \in Task \ {Idle}, "READY" \in r.status[u]
        PROVE  n # Idle /\ r.priority[n] <= r.priority[u]
    <3>1. u # n
      BY <1>8, <2>2 DEF Enters
    <3>2. "READY" \in s.status[u] /\ s.priority[u] = r.priority[u]
      BY <1>11, <2>2, <3>1 DEF SameAt
    <3>3. r.priority[n] = s.priority[n]
      BY <1>3, <1>5, <1>8 DEF SameAt
    <3> QED BY <1>3, <3>2, <3>3
  <2>3. ASSUME NEW u \in Task, u # n,
               "READY" \in s.status[u] \/ (u = s.run /\ s.status[u] \cap Waits = {})
        PROVE  "READY" \in r.status[u]
    BY <1>11, <2>3, TaskFacts DEF SameAt
  <2>4. r.run = n /\ n \in Task /\ ~r.switch /\ r.status[n] \cap Waits = {}
    BY <1>3, <1>8, <1>10
  <2> QED BY <1>9, <2>1, <2>2, <2>3, <2>4 DEF Switched
<1> QED BY <1>13, <1>14

(* OsSchedTaskSwitch keeps the invariant and does what its callers expect. *)
LEMMA SwitchCore ==
    ASSUME HasLeast, NEW s, Core(s), NEW spent \in BOOLEAN, NEW r, r = OsSchedTaskSwitch(s, spent)
    PROVE  Core(r) /\ Switched(s, r)
<1> DEFINE a == OsTimeSliceUpdate(s, spent)
           b == LeaveRun(a, s.run)
           n == OsGetTopTask(b)
           c == IF s.run = n THEN b
                ELSE SetStatus(ClrStatus(b, s.run, {"RUNNING"}), n, {"RUNNING"})
<1>1. r = WithRun(OsSchedTaskDeQueue(c, n), n)
  BY SwitchIs
<1>2. /\ Base(a) /\ SameAll(s, a)
      /\ a.status = s.status /\ a.priority = s.priority /\ a.list = s.list
  BY SMT, SliceEffect DEF Core
<1> HIDE DEF a
<1>3. Core(a) /\ a.run = s.run /\ a.sched = s.sched /\ a.taskLock = s.taskLock
  BY <1>2, CoreSame DEF SameAll, SameGlobals
<1>4. s.run \in Task \cup {Shadow}
  BY DEF Core, Base, SchedState
<1> HIDE DEF b, n
<1>5. Core(r) /\ Switched(a, r)
  <2>1. CASE s.run \in Task /\ s.run = n
    BY <1>1, <1>3, <2>1, SwitchStay DEF b, n
  <2>2. CASE s.run \in Task /\ s.run # n
    BY <1>1, <1>3, <2>2, SwitchGo DEF b, n
  <2>3. CASE s.run = Shadow
    <3>1. n \in Task
      <4>1. b = a
        BY <1>3, <2>3 DEF b, LeaveRun, Core, ShadowOK, Has
      <4> QED BY <1>2, <1>3, <2>3, <4>1, CoreQueued, TopTask, TaskFacts DEF n
    <3>2. s.run # n
      BY <2>3, <3>1, TaskFacts
    <3> QED BY <1>1, <1>3, <2>3, <3>2, SwitchShadow DEF b, n
  <2> QED BY <1>4, <2>1, <2>2, <2>3
<1>6. \A u \in Task : Kept(s, r, u) <=> Kept(a, r, u)
  BY <1>2 DEF Kept, On, OnList
<1>7. Switched(s, r)
  BY <1>2, <1>3, <1>5, <1>6 DEF Switched
<1> QED BY <1>5, <1>7

(* OsGetTopTask takes the first of its queue. *)
LEMMA TopHead ==
    ASSUME HasLeast, NEW s, Base(s), Queued(s), NEW n, n = OsGetTopTask(s), n # Idle
    PROVE  n = Head(s.list[PriQueue(s.priority[n])])
<1>0. /\ s \in SchedState /\ BitmapOK(s) /\ ListsDisjoint(s)
      /\ s.bitmap \in SUBSET Prio /\ Prio \subseteq Nat
  BY SMT, SchedConstants DEF Base, SchedState, Prio
<1>1. s.bitmap # {}
  BY DEF OsGetTopTask
<1> DEFINE m == CHOOSE p \in s.bitmap : \A r \in s.bitmap : p <= r
           q == s.list[PriQueue(m)]
<1>2. \E p \in s.bitmap : \A r \in s.bitmap : p <= r
  BY <1>0, <1>1 DEF HasLeast
<1>3. m \in s.bitmap
  BY <1>2
<1>4. n = Head(q)
  BY <1>1 DEF OsGetTopTask
<1> HIDE DEF m
<1>5. m \in Prio /\ PriQueue(m) \in Head_ /\ OnList(s, PriQueue(m)) # {}
  BY <1>0, <1>3, HeadFacts DEF BitmapOK
<1>6. q \in Seq(Task) /\ q # <<>>
  BY <1>0, <1>5, EmptyList DEF SchedState, OnList
<1>7. n \in Task /\ On(s, n, PriQueue(m))
  BY <1>4, <1>6, HeadProps DEF On, OnList
<1>8. s.priority[n] = m
  BY <1>5, <1>7 DEF Queued
<1> QED BY <1>4, <1>8

(* A task whose slice is gone goes to the end of its queue, and the switch *)
(* does not come back to it past a ready task that it does not outrank.    *)
LEMMA GivesWay ==
    ASSUME HasLeast, NEW s, Core(s), NEW t \in Task \ {Idle}, s.run = t, ~s.slice[t],
           NEW u \in Task \ {Idle}, "READY" \in s.status[u], s.priority[u] <= s.priority[t],
           NEW spent \in BOOLEAN, NEW r, r = OsSchedTaskSwitch(s, spent)
    PROVE  r.run # t
<1>1. PICK a : a = OsTimeSliceUpdate(s, spent)
  OBVIOUS
<1>2. PICK b : b = LeaveRun(a, t)
  OBVIOUS
<1>3. /\ Base(a) /\ SameAll(s, a) /\ a.status = s.status /\ a.priority = s.priority
  BY <1>1, SliceEffect DEF Core
<1>4. Core(a) /\ a.run = t
  BY <1>3, CoreSame DEF SameAll, SameGlobals
<1>5. ~a.slice[t]
  <2>1. a = s \/ a = [s EXCEPT !.slice[t] = FALSE]
    BY <1>1 DEF OsTimeSliceUpdate
  <2>2. s.slice \in [Task -> BOOLEAN] /\ s \in SchedState
    BY DEF Core, Base, SchedState
  <2> QED BY SMT, <2>1, <2>2 DEF SchedState
<1>6. Base(b) /\ Only(a, b, t) /\ (LeftWaiting(a, b, t) \/ LeftReady(a, b, t)) /\ Queued(b)
  BY <1>2, <1>4, LeaveEffect, LeaveQueued
<1>7. r.run = OsGetTopTask(b)
  <2>1. \E x : r = WithRun(x, OsGetTopTask(b))
    BY <1>1, <1>2, SwitchIs
  <2>2. PICK x : r = WithRun(x, OsGetTopTask(b))
    BY <2>1
  <2>3. r \in SchedState
    BY SwitchCore DEF Core, Base
  <2> QED BY SMT, <2>2, <2>3 DEF WithRun, SchedState
<1> SUFFICES ASSUME t = OsGetTopTask(b) PROVE FALSE
  BY <1>7
<1>8. Local(a, t) /\ Local(a, u) /\ "READY" \notin a.status[t] /\ "READY" \in a.status[u] /\ u # t
      /\ "UNUSED" \notin a.status[t]
  BY <1>3, <1>4 DEF Core, Local
<1>9. /\ "READY" \in b.status[t] /\ On(b, t, PriQueue(b.priority[t]))
      /\ \A v \in Task \ {Idle} : "READY" \in b.status[v] => b.priority[t] <= b.priority[v]
  BY <1>6, TopTask
<1>10. LeftReady(a, b, t)
  BY <1>6, <1>8, <1>9 DEF LeftWaiting
<1>11. /\ "READY" \in b.status[u] /\ b.priority[u] = s.priority[u] /\ b.priority[t] = s.priority[t]
  BY <1>3, <1>6, <1>8, <1>10 DEF LeftReady, Only, SameAt
<1>12. s.priority[t] \in Prio /\ s.priority[u] \in Prio /\ Prio \subseteq Nat
  BY SMT, SchedConstants DEF Core, Base, SchedState, Prio
<1>13. s.priority[u] = s.priority[t]
  <2>1. s.priority[t] <= s.priority[u]
    BY <1>9, <1>11
  <2>2. s.priority[t] \in Nat /\ s.priority[u] \in Nat /\ s.priority[u] <= s.priority[t]
    BY <1>12
  <2> QED BY ONLY SMT, <2>1, <2>2
<1>14. PICK h : h = PriQueue(s.priority[t])
  OBVIOUS
<1>15. h \in Head_ /\ On(a, u, h) /\ ~On(a, t, h)
  BY <1>3, <1>8, <1>12, <1>13, <1>14, HeadFacts DEF Local
<1>16. PICK q : q = a.list[h]
  OBVIOUS
<1>17. q \in Seq(Task) /\ q # <<>> /\ t \notin Range(q)
  <2>1. a \in SchedState
    BY <1>3 DEF Base
  <2>2. q \in Seq(Task)
    BY <1>15, <1>16, <2>1 DEF SchedState
  <2>3. u \in Range(q) /\ t \notin Range(q)
    BY <1>15, <1>16 DEF On, OnList
  <2> QED BY SMT, <2>2, <2>3 DEF Range
<1>18. b = OsSchedTaskEnQueue(a, t)
  <2>1. a.status[t] \cap Waits = {}
    BY <1>10 DEF LeftReady
  <2> QED BY <1>2, <1>8, <2>1 DEF LeaveRun, Has, Waits
<1>19. b.list[h] = Append(q, t)
  <2>1. PICK w : w = OsSchedPriQueueEnTail(a, t, s.priority[t])
    OBVIOUS
  <2>2. b.list = w.list
    <3>1. b = [[w EXCEPT !.slice[t] = TRUE] EXCEPT !.status[t] =
                 (@ \ {"PEND", "SUSPEND", "DELAY", "PEND_TIME"}) \cup {"READY"}]
      BY <1>3, <1>5, <1>8, <1>18, <2>1 DEF OsSchedTaskEnQueue, Has
    <3>2. b \in SchedState
      BY <1>6 DEF Base
    <3> QED BY SMT, <3>1, <3>2 DEF SchedState
  <2>3. a \in SchedState
    BY <1>3 DEF Base
  <2>4. w.list = [a.list EXCEPT ![h] = Append(q, t)]
    BY SMT, <1>14, <1>15, <1>16, <2>1, <2>3
       DEF OsSchedPriQueueEnTail, MarkQueue, ListTailInsert, SchedState
  <2> QED BY SMT, <1>15, <2>2, <2>3, <2>4 DEF SchedState
<1>20. Head(Append(q, t)) \in Range(q)
  BY SMT, <1>17 DEF Range
<1>21. t = Head(b.list[h])
  <2>1. t = Head(b.list[PriQueue(b.priority[t])])
    <3>1. HasLeast /\ Base(b) /\ Queued(b) /\ t = OsGetTopTask(b) /\ t # Idle
      BY <1>6
    <3> QED BY ONLY Zenon, <3>1, TopHead
  <2> QED BY <1>11, <1>14, <2>1
<1> QED BY <1>17, <1>19, <1>20, <1>21

----------------------------------------------------------------------------
(* LOS_Start, and HalStartToRun writing the status of the first task *)
StartToRun(s) == [OsSchedStart(s) EXCEPT !.status[OsSchedStart(s).run] = {"RUNNING"}]

(* LOS_Start, with the status HalStartToRun writes, keeps the invariant. *)
LEMMA StartCore ==
    ASSUME HasLeast, NEW s, Core(s), s.run = Shadow,
           NEW r, r = StartToRun(s)
    PROVE  Core(r) /\ Started(s, r)
<1> DEFINE n == OsGetTopTask(s)
           a == OsSchedTaskDeQueue(SetStatus(s, n, {"RUNNING"}), n)
           b == [a EXCEPT !.run = n, !.sched = TRUE]
<1>0. Base(s) /\ Queued(s)
  BY CoreQueued, TaskFacts DEF Core
<1>1. n \in Task /\ "READY" \in s.status[n] /\ (n # Idle => On(s, n, PriQueue(s.priority[n])))
  BY <1>0, TopTask
<1>2. OsSchedStart(s) = b
  BY DEF OsSchedStart
<1> HIDE DEF n
<1>3. Base(a) /\ Enters(s, a, n) /\ SameGlobals(s, a)
  BY <1>0, <1>1, EnterEffect
<1> HIDE DEF a
<1>4. a \in SchedState /\ n \in Task
  BY <1>1, <1>3 DEF Base
<1>5. /\ b \in SchedState /\ b.run = n /\ b.sched = TRUE /\ b.status = a.status
      /\ b.list = a.list /\ b.bitmap = a.bitmap /\ b.fault = a.fault
      /\ b.sortLink = a.sortLink /\ b.taskLock = a.taskLock /\ b.switch = a.switch
      /\ b.priority = a.priority
  BY <1>4 DEF SchedState
<1> HIDE DEF b
<1>6. Base(b) /\ \A u \in Task : SameAt(a, b, u)
  BY <1>3, <1>5 DEF Base, ListsDisjoint, BitmapOK, OnList, SameAt, On
<1>7. PICK X \in SUBSET Status : X = {"RUNNING"} /\ r = WithStatus(b, n, X)
  BY <1>2, <1>5 DEF WithStatus, Status, StartToRun
<1>8. /\ Base(r) /\ Only(b, r, n) /\ SamePlace(b, r, n) /\ r.status[n] = {"RUNNING"}
      /\ r.sortLink = b.sortLink
  <2>1. Base(b) /\ n \in Task /\ r = WithStatus(b, n, X)
    BY <1>4, <1>6, <1>7
  <2>2. /\ Base(r) /\ Only(b, r, n) /\ SamePlace(b, r, n) /\ r.status[n] = X
        /\ r.sortLink = b.sortLink
    BY SMT, <2>1, StatusEffect
  <2> QED BY <1>7, <2>2
<1>9. r.run = n /\ r.sched /\ r.switch = s.switch /\ r.taskLock = s.taskLock
  BY <1>3, <1>5, <1>8 DEF Only, SameGlobals
<1>10. \A u \in Task : u # n => SameAt(s, r, u)
  BY ZenonT(40), <1>3, <1>6, <1>8 DEF Enters, Only, SameAt
<1>11. Place(r, n, {})
  BY <1>3, <1>6, <1>8, <1>4 DEF Enters, Place, SamePlace, SameAt
<1>12. Local(s, n)
  BY <1>4 DEF Core
<1>13. n \notin r.sortLink
  <2>1. n \notin s.sortLink
    BY <1>1, <1>12 DEF Local
  <2> QED BY <2>1, <1>3, <1>5, <1>8 DEF Enters
<1>14. Local(r, n)
  <2>1. /\ "RUNNING" \in r.status[n]
        /\ r.status[n] \cap {"READY", "PEND", "SUSPEND", "DELAY", "PEND_TIME",
                             "EXIT", "UNUSED"} = {}
    BY <1>8
  <2> QED BY <1>4, <1>8, <1>9, <1>11, <1>13, <2>1, LocalRunning
<1>15. ASSUME NEW u \in Task, u # n PROVE Local(r, u)
  BY <1>9, <1>10, <1>15, LocalFrame, TaskFacts DEF Core
<1>16. ShadowOK(r)
  <2>1. r.status[Shadow] = s.status[Shadow]
    BY <1>3, <1>5, <1>8 DEF Only, SameGlobals
  <2> QED BY <2>1 DEF Core, ShadowOK
<1> QED BY <1>1, <1>8, <1>9, <1>10, <1>11, <1>14, <1>15, <1>16 DEF Core, Started

CInit(t) == <<"init", t>>

CEnQueue(t) == <<"enqueue", t>>

CJoin(t) == <<"join", t>>

Plain == {None, <<"recycle", 0>>, <<"pop", 0>>}

(* What the calls of LOS_TaskCreate and LOS_TaskJoin remember is distinct. *)
LEMMA CallFacts ==
    /\ \A t, u : /\ CInit(t) = CInit(u) => t = u
                 /\ CEnQueue(t) = CEnQueue(u) => t = u
                 /\ CJoin(t) = CJoin(u) => t = u
                 /\ CInit(t) # CEnQueue(u) /\ CInit(t) # CJoin(u)
                 /\ CEnQueue(t) # CJoin(u)
    /\ \A t : CInit(t) \notin Plain /\ CEnQueue(t) \notin Plain /\ CJoin(t) \notin Plain
    /\ None \in Plain /\ <<"recycle", 0>> \in Plain /\ <<"pop", 0>> \in Plain
    /\ Plain \subseteq CallStates
    /\ \A t \in Task : {CInit(t), CEnQueue(t), CJoin(t)} \subseteq CallStates
BY SMT DEF CInit, CEnQueue, CJoin, Plain, None, CallStates

(* A TCB whose ID LOS_TaskCreate has not returned yet. *)
Making(X) ==
    /\ "SUSPEND" \in X /\ "RUNNING" \notin X /\ "READY" \notin X /\ "PEND" \notin X
    /\ "DELAY" \notin X /\ "EXIT" \notin X /\ "UNUSED" \notin X

OwnT(s, C, t) ==
    /\ "UNUSED" \in s.status[t] =>
          \/ On(s, t, FreeTask) \/ On(s, t, RecycleList)
          \/ \E c \in Context : C[c] = CInit(t)
    /\ ~Unjoined(s, t) => /\ "JOINABLE" \in s.status[t] /\ "EXIT" \notin s.status[t]
                          /\ "UNUSED" \notin s.status[t]
    /\ "EXIT" \in s.status[t] => "JOINABLE" \in s.status[t] \/ "UNUSED" \in s.status[t]

Fresh(s, t) == s.status[t] = {"UNUSED"} /\ Place(s, t, {})

OwnC(s, C, c, t) ==
    /\ C[c] = CInit(t) => Fresh(s, t)
    /\ C[c] = CEnQueue(t) => Making(s.status[t])
    /\ C[c] = CJoin(t) => /\ "JOINABLE" \in s.status[t] /\ "UNUSED" \notin s.status[t]
                          /\ "EXIT" \notin s.status[t] => On(s, c, JoinList(t))
    /\ c \in Task /\ On(s, c, JoinList(t)) =>
          C[c] = CJoin(t) /\ "PEND_TIME" \notin s.status[c]

OwnCalls(C) ==
    /\ \A c, d \in Context, t \in Task :
          /\ C[c] = CInit(t) /\ C[d] = CInit(t) => c = d
          /\ C[c] = CEnQueue(t) /\ C[d] = CEnQueue(t) => c = d
          /\ C[c] = CJoin(t) /\ C[d] = CJoin(t) => c = d
          /\ C[c] = CJoin(t) => c # t /\ c # Shadow /\ C[d] # CEnQueue(t)

OwnSelf(s, C) ==
    /\ \A c \in Task : C[c] # None =>
          c # Idle /\ "UNUSED" \notin s.status[c] /\ "EXIT" \notin s.status[c]
    /\ s.sched => C[Shadow] = None
    /\ ~s.sched => \A c \in Task : C[c] = None

Own(s, C) ==
    /\ \A t \in Task : OwnT(s, C, t)
    /\ \A c \in Context, t \in Task : OwnC(s, C, c, t)
    /\ OwnCalls(C) /\ OwnSelf(s, C)

Alive(s, t) ==
    \/ s.run = t
    \/ \E b \in {"UNUSED", "EXIT", "READY", "PEND", "SUSPEND", "DELAY", "PEND_TIME"} :
          b \in s.status[t]

Leaves(s, tk) ==
    /\ s.sched /\ (s.run = Shadow \/ s.status[s.run] \cap Waits # {}) => s.switch
    /\ s.switch => s.sched /\ s.taskLock = 0
    /\ ~s.sched => s.run = Shadow /\ ~tk

(* All of the invariant that holds before LOS_Schedule as well. *)
Semi(s, C) ==
    /\ Core(s) /\ C \in [Context -> CallStates]
    /\ (\A t \in Task : Alive(s, t)) /\ Own(s, C)

Inv(s, C, tk) == Semi(s, C) /\ Leaves(s, tk) /\ tk \in BOOLEAN

(* What is known of the context whose code steps. *)
LEMMA ExecFacts ==
    ASSUME Inv(k, call, tick), Executing
    PROVE  /\ k.run \in Context /\ ~k.switch
           /\ \/ k.sched /\ RunsFreely(k)
              \/ ~k.sched /\ k.run = Shadow
<1>1. k \in SchedState
  BY DEF Inv, Semi, Core, Base
<1>2. k.run \in Context /\ k.sched \in BOOLEAN
  BY <1>1 DEF SchedState, Context
<1>3. ~k.switch /\ k.run # Idle /\ (k.sched => k.run # Shadow) /\ Leaves(k, tick)
  BY DEF Executing, Inv
<1> QED BY <1>2, <1>3 DEF Leaves, RunsFreely, Context

(* When LOS_TaskJoin goes on, the task it joins has exited. *)
LEMMA JoinedExited ==
    ASSUME Inv(k, call, tick), NEW t \in Task, JoinFinish(t)
    PROVE  /\ "EXIT" \in k.status[t] /\ "UNUSED" \notin k.status[t] /\ k.run # t /\ t # Idle
           /\ k.sched /\ k.run \in Task
<1>1. Executing /\ call[k.run] = CJoin(t) /\ Own(k, call) /\ Core(k)
  BY DEF JoinFinish, CJoin, Inv, Semi
<1>2. k.run \in Context /\ k.run # Shadow
  BY <1>1, ExecFacts DEF Own, OwnCalls
<1>3. RunsFreely(k) /\ k.sched
  BY <1>1, <1>2, ExecFacts
<1>4. /\ k.run \in Task /\ Place(k, k.run, {}) /\ "EXIT" \notin k.status[k.run]
  BY <1>1, <1>3, RunsFreelyFacts DEF RunsFreely
<1>5. ~On(k, k.run, JoinList(t))
  BY <1>4, HeadFacts DEF Place
<1>6. "EXIT" \in k.status[t] /\ "UNUSED" \notin k.status[t]
  BY <1>1, <1>2, <1>5 DEF Own, OwnC
<1>7. t # Idle
  BY <1>1, <1>6 DEF Core, Local
<1> QED BY <1>3, <1>4, <1>6, <1>7

----------------------------------------------------------------------------
(* From s to r, the wait lists of the IPC objects are as they were; or     *)
(* some of them lose t.                                                    *)
Spares(s, r) ==
    r \in SchedState /\ \A o \in IpcList : r.list[Ipc(o)] = s.list[Ipc(o)]

Drops(s, r, t) ==
    /\ r \in SchedState
    /\ \A o \in IpcList : \/ r.list[Ipc(o)] = s.list[Ipc(o)]
                          \/ r.list[Ipc(o)] = Unlink(s.list[Ipc(o)], t)

(* What the IPC modules look at: whether a task lives, whether its wait    *)
(* ran out, and whether it is in an IPC call.                              *)
Living(s, u) == "UNUSED" \notin s.status[u] /\ "EXIT" \notin s.status[u]

Late(s, u) == "TIMEOUT" \in s.status[u]

(* No IPC call of u begins or ends. *)
CallKept(C, D, u) == IsIpc(C[u]) \/ IsIpc(D[u]) => D[u] = C[u]

(* A step that u, were it in an IPC call, does not notice. *)
Spared(s, r, C, D, u) ==
    /\ Living(r, u) <=> Living(s, u)
    /\ Late(r, u) => Late(s, u)
    /\ IsIpc(C[u]) /\ Late(s, u) => Late(r, u)
    /\ CallKept(C, D, u)

AllSpared(s, r, C, D) == \A u \in Task : Spared(s, r, C, D, u)

(* What a step of module Task is to the IPC objects: nothing; or a time-   *)
(* out; or the end of a task; or the creation of one.                      *)
Calm(s, r, C, D) == Spares(s, r) /\ AllSpared(s, r, C, D)

Unlinks(s, r, t) ==
    r \in SchedState /\ \A o \in IpcList : r.list[Ipc(o)] = Unlink(s.list[Ipc(o)], t)

OthersSpared(s, r, C, D, t) == \A u \in Task : u # t => Spared(s, r, C, D, u)

TimedOut(s, r, C, D, t) ==
    /\ OthersSpared(s, r, C, D, t) /\ Unlinks(s, r, t)
    /\ \E o \in IpcList : On(s, t, Ipc(o))
    /\ Living(s, t) /\ Living(r, t) /\ Late(r, t) /\ D[t] = C[t]

Ended(s, r, C, D, t) ==
    /\ OthersSpared(s, r, C, D, t) /\ Unlinks(s, r, t)
    /\ Living(s, t) /\ ~Living(r, t) /\ D[t] = None

Created(s, r, C, D, t) ==
    /\ OthersSpared(s, r, C, D, t) /\ Spares(s, r)
    /\ ~Living(s, t) /\ Living(r, t) /\ ~Late(r, t) /\ CallKept(C, D, t) /\ C[t] = None

IpcStep(s, r, C, D) ==
    /\ \/ Calm(s, r, C, D)
       \/ \E t \in Task : \/ TimedOut(s, r, C, D, t) \/ Ended(s, r, C, D, t)
                          \/ Created(s, r, C, D, t)
    /\ CallKept(C, D, Shadow)

----------------------------------------------------------------------------
(* What the calls on IPC objects have in common: a task that waits on an   *)
(* object, one that is woken, and one that goes on after its wait.         *)

(* From s to r, c begins to wait on o, behind all others. *)
Pended(s, r, C, D, c, o) ==
    /\ c \in Task /\ OthersSpared(s, r, C, D, c) /\ r \in SchedState
    /\ \A p \in IpcList : ~On(s, c, Ipc(p)) /\ (p # o => r.list[Ipc(p)] = s.list[Ipc(p)])
    /\ r.list[Ipc(o)] = Append(s.list[Ipc(o)], c)
    /\ Living(s, c) /\ Living(r, c) /\ (Late(r, c) <=> Late(s, c))
    /\ C[c] = None /\ D[c] = CIpc(o) /\ CallKept(C, D, Shadow)

(* From s to r, t is taken off its wait list by somebody else. *)
Handed(s, r, C, D, t) ==
    /\ OthersSpared(s, r, C, D, t) /\ Unlinks(s, r, t)
    /\ Living(r, t) /\ Living(s, t) /\ (Late(r, t) <=> Late(s, t)) /\ D[t] = C[t]

(* From s to r, the call of c goes on after its wait, and returns. *)
Returned(s, r, C, D, c) ==
    /\ c \in Task /\ OthersSpared(s, r, C, D, c) /\ Spares(s, r)
    /\ \A p \in IpcList : ~On(s, c, Ipc(p))
    /\ Living(s, c) /\ Living(r, c) /\ ~Late(r, c)
    /\ IsIpc(C[c]) /\ D[c] = None /\ CallKept(C, D, Shadow)

----------------------------------------------------------------------------
(* Who waits on an object is in a call on it, its wait has not run out,    *)
(* and the mark of a wait that ran out is left to the call it belongs to.  *)
Waiters(s, C) ==
    /\ \A t \in Task :
          /\ \A o \in IpcList : On(s, t, Ipc(o)) => C[t] = CIpc(o) /\ ~Late(s, t)
          /\ Late(s, t) /\ Living(s, t) => IsIpc(C[t])
    /\ ~IsIpc(C[Shadow])

(* Who is on a wait list after a task was taken off. *)
LEMMA UnlinksOn ==
    ASSUME NEW s, Core(s), NEW r, NEW t \in Task, Unlinks(s, r, t)
    PROVE  /\ \A u \in Task, o \in IpcList : On(r, u, Ipc(o)) <=> On(s, u, Ipc(o)) /\ u # t
           /\ \A o \in IpcList : s.list[Ipc(o)] = <<>> => r.list[Ipc(o)] = <<>>
<1> SUFFICES ASSUME NEW o \in IpcList
             PROVE  /\ \A u \in Task : On(r, u, Ipc(o)) <=> On(s, u, Ipc(o)) /\ u # t
                    /\ s.list[Ipc(o)] = <<>> => r.list[Ipc(o)] = <<>>
  OBVIOUS
<1>1. PICK q : q = s.list[Ipc(o)]
  OBVIOUS
<1>2. q \in Seq(Task) /\ IsInjective(q)
  BY <1>1, IpcFacts DEF Core, Base, SchedState, ListsDisjoint
<1>3. r.list[Ipc(o)] = Unlink(q, t)
  BY <1>1 DEF Unlinks
<1>4. Range(Unlink(q, t)) = Range(q) \ {t}
  BY <1>2, UnlinkProps
<1>5. q = <<>> => Unlink(q, t) = <<>>
  BY SMT DEF Unlink
<1> QED BY <1>1, <1>3, <1>4, <1>5 DEF On, OnList

(* What Waiters says of one task *)
WaiterOK(s, C, u) ==
    /\ \A o \in IpcList : On(s, u, Ipc(o)) => C[u] = CIpc(o) /\ ~Late(s, u)
    /\ Late(s, u) /\ Living(s, u) => IsIpc(C[u])

(* A task that a step spares, and that the step puts on no wait list, is   *)
(* still what Waiters says.                                                *)
LEMMA SparedWaiter ==
    ASSUME NEW s, NEW r, NEW C, NEW D, NEW u \in Task, Waiters(s, C), Spared(s, r, C, D, u),
           \A o \in IpcList : On(r, u, Ipc(o)) => On(s, u, Ipc(o))
    PROVE  WaiterOK(r, D, u)
<1>1. ASSUME NEW o \in IpcList, On(r, u, Ipc(o)) PROVE D[u] = CIpc(o) /\ ~Late(r, u)
  <2>1. C[u] = CIpc(o) /\ ~Late(s, u)
    BY <1>1 DEF Waiters
  <2>2. IsIpc(C[u])
    BY <2>1, IpcCallFacts
  <2> QED BY <2>1, <2>2 DEF Spared, CallKept
<1>2. Late(r, u) /\ Living(r, u) => IsIpc(D[u])
  BY DEF Spared, CallKept, Waiters
<1> QED BY <1>1, <1>2 DEF WaiterOK

(* The steps of module Task keep this. *)
LEMMA WaitersStep ==
    ASSUME NEW s, Core(s), NEW r, NEW C, NEW D, Waiters(s, C), IpcStep(s, r, C, D)
    PROVE  /\ Waiters(r, D)
           /\ \A o \in IpcList : s.list[Ipc(o)] = <<>> => r.list[Ipc(o)] = <<>>
<1>1. ~IsIpc(D[Shadow])
  BY DEF IpcStep, CallKept, Waiters
<1>2. ASSUME NEW u \in Task, Spared(s, r, C, D, u),
             \A o \in IpcList : On(r, u, Ipc(o)) => On(s, u, Ipc(o))
      PROVE  WaiterOK(r, D, u)
  BY <1>2, SparedWaiter
<1>3. CASE Calm(s, r, C, D)
  <2>1. \A u \in Task, o \in IpcList : On(r, u, Ipc(o)) <=> On(s, u, Ipc(o))
    BY <1>3 DEF Calm, Spares, On, OnList
  <2> QED BY <1>1, <1>2, <1>3, <2>1 DEF Calm, AllSpared, Waiters, WaiterOK, Spares
<1>4. CASE \E t \in Task : TimedOut(s, r, C, D, t)
  <2>1. PICK t \in Task : TimedOut(s, r, C, D, t)
    BY <1>4
  <2>2. /\ \A u \in Task, o \in IpcList : On(r, u, Ipc(o)) <=> On(s, u, Ipc(o)) /\ u # t
        /\ \A o \in IpcList : s.list[Ipc(o)] = <<>> => r.list[Ipc(o)] = <<>>
    BY <2>1, UnlinksOn DEF TimedOut
  <2>3. IsIpc(D[t])
    <3>1. PICK o \in IpcList : On(s, t, Ipc(o))
      BY <2>1 DEF TimedOut
    <3>2. D[t] = CIpc(o)
      BY <2>1, <3>1 DEF TimedOut, Waiters
    <3> QED BY <3>2, IpcCallFacts
  <2> QED BY <1>1, <1>2, <2>1, <2>2, <2>3 DEF TimedOut, OthersSpared, Waiters, WaiterOK
<1>5. CASE \E t \in Task : Ended(s, r, C, D, t)
  <2>1. PICK t \in Task : Ended(s, r, C, D, t)
    BY <1>5
  <2>2. /\ \A u \in Task, o \in IpcList : On(r, u, Ipc(o)) <=> On(s, u, Ipc(o)) /\ u # t
        /\ \A o \in IpcList : s.list[Ipc(o)] = <<>> => r.list[Ipc(o)] = <<>>
    BY <2>1, UnlinksOn DEF Ended
  <2> QED BY <1>1, <1>2, <2>1, <2>2 DEF Ended, OthersSpared, Waiters, WaiterOK
<1>6. CASE \E t \in Task : Created(s, r, C, D, t)
  <2>1. PICK t \in Task : Created(s, r, C, D, t)
    BY <1>6
  <2>2. \A u \in Task, o \in IpcList : On(r, u, Ipc(o)) <=> On(s, u, Ipc(o))
    BY <2>1 DEF Created, Spares, On, OnList
  <2>3. \A o \in IpcList : ~On(s, t, Ipc(o))
    BY <2>1, IpcCallFacts DEF Created, Waiters
  <2> QED BY <1>1, <1>2, <2>1, <2>2, <2>3 DEF Created, OthersSpared, Waiters, WaiterOK, Spares
<1> QED BY <1>3, <1>4, <1>5, <1>6 DEF IpcStep

(* And so do a wait, a wake-up and the end of a call. *)
LEMMA WaitersPended ==
    ASSUME NEW s, Core(s), NEW r, NEW C, NEW D, NEW c, NEW o \in IpcList, Waiters(s, C),
           Pended(s, r, C, D, c, o)
    PROVE  Waiters(r, D)
<1>1. ~IsIpc(D[Shadow])
  BY DEF Pended, CallKept, Waiters
<1>2. c \in Task /\ OthersSpared(s, r, C, D, c) /\ D[c] = CIpc(o) /\ ~Late(r, c)
  <2>1. ~Late(s, c)
    BY IpcCallFacts DEF Pended, Waiters
  <2> QED BY <2>1 DEF Pended
<1>3. \A u \in Task : u # c => \A p \in IpcList : On(r, u, Ipc(p)) => On(s, u, Ipc(p))
  <2>1. PICK q : q = s.list[Ipc(o)]
    OBVIOUS
  <2>2. q \in Seq(Task) /\ r.list[Ipc(o)] = Append(q, c)
    BY <2>1, IpcFacts DEF Core, Base, SchedState, Pended
  <2>3. \A u : u \in Range(Append(q, c)) => u = c \/ u \in Range(q)
    BY SMT, <1>2, <2>2 DEF Range
  <2>4. \A p \in IpcList : p # o => r.list[Ipc(p)] = s.list[Ipc(p)]
    BY DEF Pended
  <2>5. ASSUME NEW u \in Task, u # c, NEW p \in IpcList, On(r, u, Ipc(p))
        PROVE  On(s, u, Ipc(p))
    <3>1. CASE p = o
      <4>1. u \in Range(Append(q, c))
        BY <2>2, <2>5, <3>1 DEF On, OnList
      <4>2. u \in Range(q)
        BY <2>3, <2>5, <4>1
      <4> QED BY <2>1, <3>1, <4>2 DEF On, OnList
    <3>2. CASE p # o
      <4>1. r.list[Ipc(p)] = s.list[Ipc(p)]
        BY <2>4, <3>2
      <4> QED BY <2>5, <4>1 DEF On, OnList
    <3> QED BY <3>1, <3>2
  <2> QED BY <2>5
<1>4. \A p \in IpcList : On(r, c, Ipc(p)) => p = o
  BY DEF Pended, On, OnList
<1>5. ASSUME NEW u \in Task, u # c PROVE WaiterOK(r, D, u)
  <2>1. Spared(s, r, C, D, u)
    BY <1>2, <1>5 DEF OthersSpared
  <2> QED BY <1>3, <1>5, <2>1, SparedWaiter
<1>6. WaiterOK(r, D, c)
  BY <1>2, <1>4 DEF WaiterOK
<1> QED BY <1>1, <1>5, <1>6 DEF Waiters, WaiterOK

(* A wake-up *)
LEMMA WaitersHanded ==
    ASSUME NEW s, Core(s), NEW r, NEW C, NEW t \in Task, NEW o \in IpcList, Waiters(s, C),
           On(s, t, Ipc(o)), Handed(s, r, C, C, t)
    PROVE  /\ Waiters(r, C) /\ ~Late(r, t) /\ C[t] = CIpc(o)
           /\ \A p \in IpcList : s.list[Ipc(p)] = <<>> => r.list[Ipc(p)] = <<>>
<1>1. /\ \A u \in Task, p \in IpcList : On(r, u, Ipc(p)) <=> On(s, u, Ipc(p)) /\ u # t
      /\ \A p \in IpcList : s.list[Ipc(p)] = <<>> => r.list[Ipc(p)] = <<>>
  BY UnlinksOn DEF Handed
<1>2. C[t] = CIpc(o) /\ ~Late(s, t) /\ ~IsIpc(C[Shadow])
  BY DEF Waiters
<1>3. WaiterOK(r, C, t) /\ ~Late(r, t)
  BY <1>1, <1>2 DEF Handed, WaiterOK
<1>4. ASSUME NEW u \in Task, u # t PROVE WaiterOK(r, C, u)
  <2>1. Spared(s, r, C, C, u)
    BY <1>4 DEF OthersSpared, Handed
  <2> QED BY <1>1, <2>1, SparedWaiter
<1> QED BY <1>1, <1>2, <1>3, <1>4 DEF Waiters, WaiterOK

(* The end of a call *)
LEMMA WaitersReturned ==
    ASSUME NEW s, NEW r, NEW C, NEW D, NEW c, Waiters(s, C), Returned(s, r, C, D, c)
    PROVE  Waiters(r, D)
<1>1. c \in Task /\ ~IsIpc(D[Shadow]) /\ OthersSpared(s, r, C, D, c) /\ ~Late(r, c)
      /\ \A p \in IpcList : ~On(s, c, Ipc(p))
  BY DEF Returned, CallKept, Waiters
<1>2. \A u \in Task, p \in IpcList : On(r, u, Ipc(p)) <=> On(s, u, Ipc(p))
  BY DEF Returned, Spares, On, OnList
<1>3. WaiterOK(r, D, c)
  BY <1>1, <1>2 DEF WaiterOK
<1>4. ASSUME NEW u \in Task, u # c PROVE WaiterOK(r, D, u)
  <2>1. Spared(s, r, C, D, u)
    BY <1>1, <1>4 DEF OthersSpared
  <2> QED BY <1>2, <2>1, SparedWaiter
<1> QED BY <1>1, <1>3, <1>4 DEF Waiters, WaiterOK

(* The task at the head of a wait list *)
LEMMA HeadWaits ==
    ASSUME NEW s, Core(s), NEW o \in IpcList, s.list[Ipc(o)] # <<>>
    PROVE  LET t == Head(s.list[Ipc(o)])
           IN  t \in Task /\ On(s, t, Ipc(o)) /\ Unlink(s.list[Ipc(o)], t) = Tail(s.list[Ipc(o)])
<1> DEFINE q == s.list[Ipc(o)]
<1>1. Ipc(o) \in Head_ /\ q \in Seq(Task) /\ IsInjective(q)
  BY IpcFacts DEF Core, Base, SchedState, ListsDisjoint
<1> HIDE DEF q
<1>2. q # <<>>
  BY DEF q
<1>3. Len(q) \in Nat \ {0} /\ Head(q) = q[1] /\ q[1] \in Task
  BY SMT, <1>1, <1>2
<1>4. q[1] \in Range(q)
  BY SMT, <1>1, <1>3 DEF Range
<1>5. Unlink(q, q[1]) = Tail(q)
  <2>1. PICK i \in 1 .. Len(q) : i = CHOOSE j \in 1 .. Len(q) : q[j] = q[1]
    BY SMT, <1>3
  <2>2. q[i] = q[1]
    BY SMT, <1>3, <2>1
  <2>3. i = 1
    BY SMT, <1>1, <1>3, <2>2 DEF IsInjective
  <2>4. Unlink(q, q[1]) = SubSeq(q, 1, i - 1) \o SubSeq(q, i + 1, Len(q))
    <3>1. \E j \in 1 .. Len(q) : q[j] = q[1]
      BY SMT, <1>3
    <3> QED BY <2>1, <3>1 DEF Unlink
  <2>5. SubSeq(q, 1, 0) = <<>> /\ SubSeq(q, 2, Len(q)) = Tail(q) /\ Tail(q) \in Seq(Task)
    BY SMT, <1>1, <1>3
  <2> QED BY SMT, <1>1, <2>3, <2>4, <2>5
<1> QED BY <1>3, <1>4, <1>5 DEF q, On, OnList

----------------------------------------------------------------------------
(* The lists of unused control blocks, whatever they control *)

(* Taking the first *)
LEMMA PoolTake ==
    ASSUME NEW q \in Seq(IpcList), IsInjective(q), q # <<>>
    PROVE  /\ Head(q) \in Range(q) /\ Head(q) \in IpcList
           /\ Tail(q) \in Seq(IpcList) /\ IsInjective(Tail(q))
           /\ \A o \in Range(Tail(q)) : o \in Range(q) /\ o # Head(q) /\ o \in IpcList
<1>1. Len(q) \in Nat \ {0} /\ Head(q) = q[1] /\ q[1] \in IpcList
  BY SMT
<1>2. q[1] \in Range(q)
  BY SMT, <1>1 DEF Range
<1>3. Tail(q) \in Seq(IpcList) /\ Len(Tail(q)) = Len(q) - 1
      /\ \A i \in 1 .. (Len(q) - 1) : Tail(q)[i] = q[i + 1]
  BY SMT, <1>1
<1>4. IsInjective(Tail(q))
  BY SMT, <1>1, <1>3 DEF IsInjective
<1>5. \A o \in Range(Tail(q)) : o \in Range(q) /\ o # q[1] /\ o \in IpcList
  BY SMT, <1>1, <1>3 DEF IsInjective, Range
<1> QED BY <1>1, <1>2, <1>3, <1>4, <1>5

(* Putting one back *)
LEMMA PoolGive ==
    ASSUME NEW q \in Seq(IpcList), IsInjective(q), NEW o \in IpcList, o \notin Range(q),
           NEW p, p = <<o>> \o q
    PROVE  /\ p \in Seq(IpcList) /\ IsInjective(p)
           /\ \A x \in Range(p) : x \in IpcList /\ (x = o \/ x \in Range(q))
<1>1. /\ Len(q) \in Nat /\ p \in Seq(IpcList) /\ Len(p) = Len(q) + 1
      /\ \A i \in 1 .. (Len(q) + 1) : p[i] = IF i = 1 THEN o ELSE q[i - 1]
  BY SMT
<1>2. \A i \in 1 .. Len(q) : q[i] # o /\ q[i] \in Range(q)
  BY SMT DEF Range
<1>3. IsInjective(p)
  <2>1. DOMAIN p = 1 .. (Len(q) + 1) /\ DOMAIN q = 1 .. Len(q)
    BY SMT, <1>1
  <2>2. \A i, j \in 1 .. Len(q) : q[i] = q[j] => i = j
    BY <2>1 DEF IsInjective
  <2>3. ASSUME NEW i \in 1 .. (Len(q) + 1), NEW j \in 1 .. (Len(q) + 1), p[i] = p[j]
        PROVE  i = j
    <3>1. CASE i = 1 \/ j = 1
      BY SMT, <1>1, <1>2, <2>3, <3>1
    <3>2. CASE i # 1 /\ j # 1
      <4>1. PICK x, y : x = i - 1 /\ y = j - 1
        OBVIOUS
      <4>2. Len(q) \in Nat
        BY <1>1
      <4>3. x \in 1 .. Len(q) /\ y \in 1 .. Len(q)
        BY ONLY SMT, <2>3, <3>2, <4>1, <4>2
      <4>4. p[i] = q[x] /\ p[j] = q[y]
        BY <1>1, <3>2, <4>1
      <4>5. x = y
        BY <2>2, <2>3, <4>3, <4>4
      <4> QED BY ONLY SMT, <2>3, <4>1, <4>2, <4>5
    <3> QED BY <3>1, <3>2
  <2> QED BY <2>1, <2>3 DEF IsInjective
<1>4. \A x \in Range(p) : x = o \/ x \in Range(q)
  BY SMT, <1>1, <1>2 DEF Range
<1>5. \A x \in Range(p) : x \in IpcList
  BY SMT, <1>1 DEF Range
<1> QED BY <1>1, <1>3, <1>4, <1>5

(* What the invariant gives every step. *)
LEMMA InvFacts ==
    ASSUME Inv(k, call, tick)
    PROVE  /\ Core(k) /\ Base(k) /\ Own(k, call) /\ Leaves(k, tick) /\ k \in SchedState
           /\ call \in [Context -> CallStates] /\ k.run \in Context
           /\ \A t \in Task : Local(k, t) /\ t \in Context
           /\ \A t \in Task, o \in IpcList : On(k, t, Ipc(o)) => "PEND" \in k.status[t]
<1>1. /\ Core(k) /\ Base(k) /\ Own(k, call) /\ Leaves(k, tick) /\ k \in SchedState
      /\ call \in [Context -> CallStates] /\ \A t \in Task : Local(k, t) /\ t \in Context
  BY DEF Inv, Semi, Core, Base, Context
<1>2. k.run \in Context
  BY <1>1 DEF SchedState, Context
<1>3. ASSUME NEW t \in Task, NEW o \in IpcList, On(k, t, Ipc(o)) PROVE "PEND" \in k.status[t]
  <2>1. t # Idle
    BY <1>1, <1>3, IpcFacts DEF Base, ListsDisjoint, On
  <2> QED BY <1>1, <1>3, <2>1, IpcFacts DEF Local
<1> QED BY <1>1, <1>2, <1>3

----------------------------------------------------------------------------
(* What the modules that compose Task with IPC objects rely on, where the  *)
(* steps of k, call and tick go from an invariant state to the next.       *)
(* Lemma Kernel of module IpcTheorems proves it from TaskProofs and        *)
(* IpcProofs; SemProofs and MuxProofs have it as a hypothesis, and need    *)
(* nothing else of the scheduler.                                          *)

(* A task waits on o, and another context runs. *)
PendDoes ==
    \A s, r : \A o \in IpcList, forever \in BOOLEAN :
        /\ Inv(s, call, tick) /\ RunsFreely(s) /\ s.sched /\ s.taskLock = 0
        /\ call[s.run] = None /\ GoesOn(s.run, CIpc(o))
        /\ r = LOS_Schedule(OsSchedTaskWait(s, Ipc(o), forever))
        => Inv(r, call', tick) /\ Pended(s, r, call, call', s.run, o)

(* A task that waits on o is woken. *)
WakeDoes ==
    \A s, r : \A t \in Task, o \in IpcList :
        /\ Inv(s, call, tick) /\ On(s, t, Ipc(o))
        /\ r = LOS_Schedule(OsSchedTaskWake(s, t))
        => Inv(r, call, tick) /\ Handed(s, r, call, call, t)

(* An IPC call goes on after its wait. *)
ReturnDoes ==
    \A o \in IpcList :
        /\ Inv(k, call, tick) /\ Executing /\ call[k.run] = CIpc(o) /\ ~IsIpc(call[Shadow])
        /\ k' = ClrStatus(k, k.run, {"TIMEOUT"}) /\ Returns(k.run) /\ tick' = tick
        => Inv(k', call', tick') /\ Returned(k, k', call, call', k.run)

(* A task is given another priority. *)
ModifyDoes ==
    \A r : \A t \in Task, p \in Prio :
        /\ Inv(k, call, tick) /\ t # Idle /\ Living(k, t)
        /\ r = OsSchedModifyTaskSchedParam(k, t, p)
        => /\ Inv(r, call, tick) /\ Only(k, r, t) /\ Spares(k, r)
           /\ \A u \in Context : r.status[u] = k.status[u]

(* A step of module Task. *)
StepDoes ==
    Inv(k, call, tick) /\ Unguarded = {} /\ TaskNext
        => Inv(k', call', tick') /\ IpcStep(k, k', call, call')

(* All of it *)
KernelDoes == PendDoes /\ WakeDoes /\ ReturnDoes /\ ModifyDoes /\ StepDoes
============================================================================
